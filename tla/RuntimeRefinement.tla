------------------------- MODULE RuntimeRefinement -------------------------
(***************************************************************************)
(* Runtime implements JobLifecycle, twice: every job with the edges the    *)
(* code really has, and the jobs whose adapter cannot cancel with the      *)
(* edges state.go documents.                                               *)
(***************************************************************************)
EXTENDS RuntimeProofs

-----------------------------------------------------------------------------
(* How records move: the proof that Runtime implements JobLifecycle.       *)

\* The changes of state of a record that a step can make.
Moves(j) == LET s == store[j].state
                t == store'[j].state
            IN \/ s = "absent" /\ t = "queued"
               \/ s \in {"queued", "preparing", "running", "canceling"} /\ t = "failed"
               \/ s = "queued" /\ t \in {"preparing", "canceled"}
               \/ s = "preparing" /\ t = "running"
               \/ s \in {"running", "canceling"} /\ t = "succeeded"
               \/ s = "canceling" /\ t = "canceled"
               \/ s \in {"running", "succeeded", "failed", "canceled"} /\ t = "canceling"
                  /\ j \in Cancelable
               \/ s = "succeeded" /\ t = "failed" /\ "applied" \in SaveErrors

\* A step moves the record of at most one job.
OneMoves == \/ UNCHANGED store
            \/ \E j \in Jobs : /\ OtherRecords(j)
                               /\ store'[j].state = store[j].state \/ Moves(j)

LEMMA StepMoves == ASSUME TypeInv, Stopped, Ownership, [Next]_vars PROVE OneMoves
<1> USE DEF TypeInv, WorkersInv, CallsInv, State, diskVars
<1>1. ASSUME NEW h \in Handlers, NEW j \in Jobs, StartSave(h, j) PROVE OneMoves
  BY <1>1, SaveStates DEF StartSave, OneMoves, Moves
<1>2. ASSUME NEW h \in Handlers, CancelQueued(h) PROVE OneMoves
  <2>1. hjob[h] \in Jobs /\ hrec[h].truncated \in BOOLEAN
    BY <1>2, Hands, RecordFields DEF CancelQueued, CallsOK
  <2>2. store[hjob[h]].state = "queued"
    BY <1>2 DEF CancelQueued, Ownership, ClaimsOwn, Claims, Fresh
  <2>3. QED
    BY <1>2, <2>1, <2>2, SaveStates DEF CancelQueued, OneMoves, Moves
<1>3. ASSUME NEW h \in Handlers, CancelMark(h) PROVE OneMoves
  <2>1. hjob[h] \in Jobs /\ hrec[h].truncated \in BOOLEAN
    BY <1>3, Hands, RecordFields DEF CancelMark, CallsOK
  <2>2. hjob[h] \in Cancelable /\ store[hjob[h]].state \notin Early
    BY <1>3 DEF CancelMark, Ownership, MarksAfterRegister
  <2>3. store[hjob[h]].state \in {"running", "canceling", "succeeded", "failed", "canceled"}
    BY <2>1, <2>2, RecordFields DEF DiskOK, Early
  <2>4. OtherRecords(hjob[h]) /\ (store'[hjob[h]] = store[hjob[h]]
                                  \/ store'[hjob[h]].state = "canceling")
    BY <1>3, <2>1, SaveStates DEF CancelMark
  <2>5. QED
    BY <2>1, <2>2, <2>3, <2>4 DEF OneMoves, Moves
<1>4. ASSUME NEW w \in Workers, SavePreparing(w) PROVE OneMoves
  <2>1. wjob[w] \in Jobs /\ store[wjob[w]].state = "queued"
    BY <1>4, Hands, RuntimeAssumption
    DEF SavePreparing, IdlePC, Ownership, RecordTracksWorker, RecordAt
  <2>2. QED
    BY <1>4, <2>1, SaveStates DEF SavePreparing, OneMoves, Moves
<1>5. ASSUME NEW w \in Workers, SaveRunning(w) PROVE OneMoves
  <2>1. wjob[w] \in Jobs /\ store[wjob[w]].state = "preparing"
    BY <1>5, Hands, RuntimeAssumption
    DEF SaveRunning, IdlePC, Ownership, RecordTracksWorker, RecordAt
  <2>2. QED
    BY <1>5, <2>1, SaveStates DEF SaveRunning, OneMoves, Moves
<1>6. ASSUME NEW w \in Workers, SaveCanceled(w) PROVE OneMoves
  <2>1. wjob[w] \in Jobs /\ store[wjob[w]].state = "canceling" /\ wtrunc[w] \in BOOLEAN
    BY <1>6, Hands, RuntimeAssumption
    DEF SaveCanceled, IdlePC, WorkersOK, Ownership, RecordTracksWorker, RecordAt
  <2>2. QED
    BY <1>6, <2>1, SaveStates DEF SaveCanceled, OneMoves, Moves
<1>7. ASSUME NEW w \in Workers, SaveSucceeded(w) PROVE OneMoves
  <2>1. wjob[w] \in Jobs /\ store[wjob[w]].state \in {"running", "canceling"}
    BY <1>7, Hands, RuntimeAssumption
    DEF SaveSucceeded, IdlePC, Ownership, RecordTracksWorker, RecordAt
  <2>2. QED
    BY <1>7, <2>1, SaveStates DEF SaveSucceeded, OneMoves, Moves
<1>8. ASSUME NEW w \in Workers, SaveFailed(w) PROVE OneMoves
  <2>1. wjob[w] \in Jobs /\ wtrunc[w] \in BOOLEAN
    BY <1>8, Hands DEF SaveFailed, IdlePC, WorkersOK
  <2>2. /\ store[wjob[w]].state \in {"queued", "preparing", "running", "canceling",
                                     "succeeded", "failed"}
        /\ store[wjob[w]].state = "succeeded" => "applied" \in SaveErrors
    <3>1. store[wjob[w]].state \in State \cup {"absent"}
      BY <2>1, RecordFields DEF DiskOK
    <3>2. RecordAt("fail", store[wjob[w]].state)
      BY <1>8, <2>1, RuntimeAssumption DEF SaveFailed, Ownership, RecordTracksWorker
    <3>3. QED
      BY <3>1, <3>2 DEF RecordAt
  <2>3. OtherRecords(wjob[w]) /\ (store'[wjob[w]] = store[wjob[w]]
                                  \/ store'[wjob[w]].state = "failed")
    BY <1>8, <2>1, SaveStates DEF SaveFailed
  <2>4. QED
    BY <2>1, <2>2, <2>3 DEF OneMoves, Moves
<1>9. ASSUME NEW j \in Jobs, RecoverJob(j) PROVE OneMoves
  <2>1. Restarted(store[j]) \in Record /\ Restarted(store[j]).state = "failed"
    BY RecordFields DEF DiskOK
  <2>2. store[j].state \in {"queued", "preparing", "running", "canceling"}
    BY <1>9, RecordFields DEF RecoverJob, Interrupted, Persisted, IsTerminal, DiskOK
  <2>3. OtherRecords(j) /\ (store'[j] = store[j] \/ store'[j].state = "failed")
    BY <1>9, <2>1, SaveEffect DEF RecoverJob
  <2>4. QED
    BY <2>2, <2>3 DEF OneMoves, Moves
<1>10. QED
  <2>1. ASSUME UNCHANGED store PROVE OneMoves
    BY <2>1 DEF OneMoves
  <2>2. ASSUME NEW h \in Handlers, HandlerStep(h) \/ \E j \in Jobs : StartSave(h, j) \/ CancelLoad(h, j)
        PROVE  OneMoves
    BY <1>1, <1>2, <1>3, <2>1, <2>2
    DEF HandlerStep, StartEnqueue, CancelLookup, CancelDequeue, CancelReread, CancelSignal,
        CancelPoll, CancelTimeout, CancelLoad
  <2>3. ASSUME NEW w \in Workers, WorkerStep(w) PROVE OneMoves
    BY <1>4, <1>5, <1>6, <1>7, <1>8, <2>1, <2>3
    DEF WorkerStep, Take, Park, Leave, Prepare, Register, Spawn, Exited, Terminate, TermWait,
        KillWait, Unregister
  <2>4. ASSUME NEW j \in Jobs, Overflow(j) \/ ProcExit(j) PROVE OneMoves
    BY <2>1, <2>4 DEF Overflow, ProcExit
  <2>5. ASSUME Close \/ Crash \/ Boot \/ RecoverDone PROVE OneMoves
    BY <2>1, <2>5 DEF Close, Crash, Boot, RecoverDone
  <2>6. CASE UNCHANGED vars
    BY <2>1, <2>6 DEF vars
  <2>7. QED
    BY <1>9, <2>2, <2>3, <2>4, <2>5, <2>6 DEF Next

\* The state function of JobLifecycle, and its updates, element by element.
LEMMA StatusUpdate ==
    ASSUME NEW S, S \subseteq Jobs, NEW j \in Jobs, OtherRecords(j)
    PROVE  [k \in S |-> store'[k].state]
             = [[k \in S |-> store[k].state] EXCEPT ![j] = store'[j].state]
BY DEF OtherRecords

\* Every job keeps the lifecycle the code really has, for every instance.
THEOREM ImplementsObserved == Spec => ObservedLifecycle
<1> DEFINE status == [j \in Jobs |-> store[j].state]
<1>1. Init => Observed!Init
  BY RecordFields DEF Init, Observed!Init
<1>2. TypeInv /\ Stopped /\ Ownership /\ [Next]_vars => [Observed!Next]_status
  <2> SUFFICES ASSUME TypeInv, Stopped, Ownership, [Next]_vars, status' # status
               PROVE  Observed!Next
    OBVIOUS
  <2>1. PICK j \in Jobs : OtherRecords(j) /\ (store'[j].state = store[j].state \/ Moves(j))
    BY StepMoves DEF OneMoves
  <2>2. status' = [status EXCEPT ![j] = store'[j].state]
    BY <2>1, StatusUpdate
  <2>3. Moves(j)
    BY <2>1, <2>2
  <2>4. CASE store[j].state = "absent" /\ store'[j].state = "queued"
    BY <2>2, <2>4 DEF Observed!Next, Observed!Create
  <2>5. CASE <<store[j].state, store'[j].state>> \in ObservedEdges
    <3>1. store'[j].state \in Observed!State
      BY <2>3 DEF Moves, Observed!State
    <3>2. QED
      BY <2>2, <2>5, <3>1 DEF Observed!Next, Observed!Advance
  <2>6. QED
    BY <2>3, <2>4, <2>5 DEF Moves, ObservedEdges, edges
<1>3. QED
  BY TypeCorrect, OwnershipKept, <1>1, <1>2, PTL DEF Spec, ObservedLifecycle, Observed!Spec

\* A job whose adapter cannot cancel is never asked to stop.
NeverAsked == \A j \in Incapable : store[j].state # "canceling"

LEMMA NeverAskedKept == Spec => []NeverAsked
<1>1. Init => NeverAsked
  BY RecordFields DEF Init, NeverAsked, Incapable
<1>2. TypeInv /\ Stopped /\ Ownership /\ NeverAsked /\ [Next]_vars => NeverAsked'
  <2> SUFFICES ASSUME TypeInv, Stopped, Ownership, NeverAsked, [Next]_vars,
                      NEW j \in Incapable
               PROVE  store'[j].state # "canceling"
    BY DEF NeverAsked, Incapable
  <2>1. j \in Jobs \ Cancelable /\ store[j].state # "canceling"
    BY DEF NeverAsked, Incapable
  <2>2. CASE UNCHANGED store
    BY <2>1, <2>2
  <2>3. ASSUME NEW k \in Jobs, OtherRecords(k), store'[k].state = store[k].state \/ Moves(k)
        PROVE  store'[j].state # "canceling"
    BY <2>1, <2>3 DEF OtherRecords, Moves
  <2>4. QED
    BY <2>2, <2>3, StepMoves DEF OneMoves
<1>3. QED
  BY TypeCorrect, OwnershipKept, <1>1, <1>2, PTL DEF Spec

\* When no Save fails after its rename, a job whose adapter cannot cancel keeps
\* the lifecycle that state.go documents, through crashes and other errors.
THEOREM ImplementsLifecycle ==
    ASSUME "applied" \notin SaveErrors
    PROVE  Spec => IncapableLifecycle
<1> DEFINE status == [j \in Incapable |-> store[j].state]
<1>1. Init => Lifecycle!Init
  BY RecordFields DEF Init, Lifecycle!Init, Incapable
<1>2. TypeInv /\ Stopped /\ Ownership /\ NeverAsked /\ [Next]_vars
        => [Lifecycle!Next]_status
  <2> SUFFICES ASSUME TypeInv, Stopped, Ownership, NeverAsked, [Next]_vars, status' # status
               PROVE  Lifecycle!Next
    OBVIOUS
  <2>1. PICK j \in Jobs : OtherRecords(j) /\ (store'[j].state = store[j].state \/ Moves(j))
    BY StepMoves DEF OneMoves
  <2>2. status' = [status EXCEPT ![j] = store'[j].state]
    BY <2>1, StatusUpdate DEF Incapable
  <2>3. j \in Incapable /\ store'[j].state # store[j].state
    BY <2>2
  <2>4. Moves(j) /\ j \notin Cancelable /\ store[j].state # "canceling"
    BY <2>1, <2>3 DEF NeverAsked, Incapable
  <2>5. CASE store[j].state = "absent" /\ store'[j].state = "queued"
    BY <2>2, <2>3, <2>5 DEF Lifecycle!Next, Lifecycle!Create
  <2>6. CASE <<store[j].state, store'[j].state>> \in edges
    <3>1. store'[j].state \in Lifecycle!State
      BY <2>4 DEF Moves, Lifecycle!State
    <3>2. QED
      BY <2>2, <2>3, <2>6, <3>1 DEF Lifecycle!Next, Lifecycle!Advance
  <2>7. QED
    BY <2>4, <2>5, <2>6 DEF Moves, edges
<1>3. QED
  BY TypeCorrect, OwnershipKept, NeverAskedKept, <1>1, <1>2, PTL
  DEF Spec, IncapableLifecycle, Lifecycle!Spec

=============================================================================

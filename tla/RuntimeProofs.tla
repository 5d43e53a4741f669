--------------------------- MODULE RuntimeProofs ---------------------------
(***************************************************************************)
(* The ownership discipline of Runtime is an invariant, and what follows   *)
(* from it.  The proof goes action by action: what the step changes, then  *)
(* the conjuncts of Ownership it can disturb.  Then, with the discipline   *)
(* in hand: every record on its way has a holder, and the pool never       *)
(* sleeps over a task.                                                     *)
(***************************************************************************)
EXTENDS RuntimeTypes, FiniteSetTheorems

-----------------------------------------------------------------------------
(* What a step changes, element by element: the provers reason about these *)
(* facts, not about EXCEPT.                                                *)

SameCalls == UNCHANGED <<hpc, hjob, hrec>>
SameWorkers == UNCHANGED <<wpc, wjob>>
SameProcs == UNCHANGED <<procs, signalled, proc>>
OtherCalls(h) == \A g \in Handlers \ {h} :
                    hpc'[g] = hpc[g] /\ hjob'[g] = hjob[g] /\ hrec'[g] = hrec[g]
OtherWorkers(w) == \A v \in Workers \ {w} : wpc'[v] = wpc[v] /\ wjob'[v] = wjob[v]
OtherRecords(j) == \A k \in Jobs \ {j} : store'[k] = store[k]
Woken == \A w \in Workers : \/ wpc'[w] = wpc[w]
                            \/ wpc[w] = "waiting" /\ wpc'[w] = "loop"

\* A Save touches one record; only an "applied" error writes and fails.
LEMMA SaveEffect ==
    ASSUME DiskOK, NEW j \in Jobs, NEW r \in Record
    PROVE  /\ SaveOK(j, r) => OtherRecords(j) /\ store'[j] = r
           /\ SaveFails(j, r) =>
                /\ OtherRecords(j)
                /\ store'[j] = store[j] \/ (store'[j] = r /\ "applied" \in SaveErrors)
BY DEF DiskOK, SaveOK, SaveFails, OtherRecords

\* The same for the records that Start, Cancel and the workers write.
LEMMA SaveStates ==
    ASSUME DiskOK, NEW j \in Jobs, NEW s \in State, NEW t \in BOOLEAN
    PROVE  /\ SaveOK(j, Rec(s, t)) => OtherRecords(j) /\ store'[j].state = s
           /\ SaveFails(j, Rec(s, t)) =>
                /\ OtherRecords(j)
                /\ store'[j] = store[j] \/ (store'[j].state = s /\ "applied" \in SaveErrors)
<1>1. Rec(s, t) \in Record /\ Rec(s, t).state = s
  BY RecordFields
<1>2. QED
  BY <1>1, SaveEffect

LEMMA GotoEffect ==
    ASSUME WorkersOK, NEW w \in Workers, NEW pc, Goto(w, pc)
    PROVE  wpc'[w] = pc /\ wjob' = wjob /\ OtherWorkers(w)
BY DEF WorkersOK, Goto, OtherWorkers

LEMMA ToFailEffect ==
    ASSUME WorkersOK, NEW w \in Workers, NEW t, ToFail(w, t)
    PROVE  wpc'[w] = "fail" /\ wjob' = wjob /\ OtherWorkers(w)
BY DEF WorkersOK, ToFail, OtherWorkers

LEMMA ToCanceledEffect ==
    ASSUME WorkersOK, NEW w \in Workers, ToCanceled(w)
    PROVE  wpc'[w] = "cancel" /\ wjob' = wjob /\ OtherWorkers(w)
BY DEF WorkersOK, ToCanceled, OtherWorkers

LEMMA FinishEffect ==
    ASSUME WorkersOK, NEW w \in Workers, Finish(w)
    PROVE  wpc'[w] = "loop" /\ wjob'[w] = NoJob /\ OtherWorkers(w)
BY DEF WorkersOK, Finish, OtherWorkers

LEMMA WakeEffect ==
    ASSUME WorkersOK, WakeOne \/ WakeAll
    PROVE  Woken
BY DEF WorkersOK, WakeOne, WakeAll, Waiting, Woken

LEMMA EndCallEffect ==
    ASSUME CallsOK, NEW h \in Handlers, EndCall(h)
    PROVE  hpc'[h] = "idle" /\ hrec'[h] = NoRecord /\ OtherCalls(h)
BY DEF CallsOK, EndCall, OtherCalls

LEMMA ReplyEffect ==
    ASSUME CallsOK, NEW h \in Handlers, NEW r, NEW t, Reply(h, r, t)
    PROVE  hpc'[h] = "replied" /\ hrec'[h] = r /\ hjob'[h] = hjob[h] /\ OtherCalls(h)
BY DEF CallsOK, Reply, OtherCalls

LEMMA HandlerGotoEffect ==
    ASSUME CallsOK, NEW h \in Handlers, NEW pc, HandlerGoto(h, pc)
    PROVE  hpc'[h] = pc /\ hrec'[h] = hrec[h] /\ hjob'[h] = hjob[h] /\ OtherCalls(h)
BY DEF CallsOK, HandlerGoto, OtherCalls

LEMMA QueueJobs == QueueOK => ToSet(queue) \subseteq Jobs
BY DEF QueueOK, ToSet

\* The empty queue holds no job.
LEMMA EmptyQueue == ToSet(<<>>) = {}
BY DEF ToSet

\* Every call step keeps the ownership discipline.
LEMMA OwnCalls ==
    ASSUME TypeInv, Stopped, Ownership, NEW h \in Handlers,
           HandlerStep(h) \/ \E j \in Jobs : StartSave(h, j) \/ CancelLoad(h, j)
    PROVE  Ownership'
<1> USE DEF TypeInv, WorkersInv, CallsInv, DiskOK, Ownership, Fresh, Claims, Over, Early,
            Unregistered, Registered, IdlePC, diskVars, queueVars, workerVars, procVars,
            callVars, daemonVars, SameCalls, SameWorkers, SameProcs
<1>1. ASSUME NEW j \in Jobs, StartSave(h, j) PROVE Ownership'
  <2>1. /\ store[j].state = "absent"
        /\ hpc[h] \in {"idle", "replied"}
        /\ UNCHANGED queue /\ SameProcs /\ SameWorkers
    BY <1>1 DEF StartSave, CanCall
  <2>2. /\ proc[j] = "none" /\ j \notin ToSet(queue)
        /\ \A g \in Handlers : Claims(g) => hjob[g] # j
    BY <2>1 DEF QueuedFresh, ClaimsOwn, NotLaunched
  <2>3. \A w \in Workers : wjob[w] # j
    BY <2>1, RuntimeAssumption DEF RecordTracksWorker, RecordAt, ProcsOfWorkers,
       WorkersOK, WorkerHands, WorkerPC
  <2>4. /\ OtherCalls(h)
        /\ hrec'[h].state = "absent"
    BY <1>1, RecordFields, EndCallEffect DEF StartSave, CallsOK, OtherCalls
  <2>5. /\ OtherRecords(j)
        /\ \/ hpc'[h] = "enqueue" /\ hjob'[h] = j /\ store'[j].state = "queued"
           \/ hpc'[h] = "idle" /\ (store'[j] = store[j] \/ store'[j].state = "queued")
    BY <1>1, SaveStates, EndCallEffect DEF StartSave, State, CallsOK
  <2> USE <2>1, <2>2, <2>3, <2>4, <2>5, RuntimeAssumption, QueueJobs DEF OtherCalls, OtherWorkers,
         OtherRecords, Woken, SingleOwner, NoDup, QueuedFresh, ClaimsOwn, RecordTracksWorker,
         RecordAt, NotLaunched, ProcsOfWorkers, MarksAfterRegister, SignalsAfterMark, CanceledOver,
         ProcsOK, WorkersOK, WorkerHands, WorkerPC, CallsOK, CallHands
  <2>6. SingleOwner'
    OBVIOUS
  <2>7. QueuedFresh'
    OBVIOUS
  <2>8. ClaimsOwn'
    OBVIOUS
  <2>9. RecordTracksWorker'
    OBVIOUS
  <2>10. NotLaunched'
    OBVIOUS
  <2>11. ProcsOfWorkers'
    OBVIOUS
  <2>12. MarksAfterRegister'
    OBVIOUS
  <2>13. SignalsAfterMark'
    OBVIOUS
  <2>14. CanceledOver'
    OBVIOUS
  <2>15. QED
    BY <2>6, <2>7, <2>8, <2>9, <2>10, <2>11, <2>12, <2>13, <2>14
<1>2. ASSUME StartEnqueue(h) PROVE Ownership'
  <2>1. /\ hpc[h] = "enqueue" /\ hjob[h] \in Jobs
        /\ hpc'[h] = "idle" /\ OtherCalls(h)
        /\ Woken /\ UNCHANGED wjob
        /\ UNCHANGED store /\ SameProcs
    BY <1>2, Hands, EndCallEffect, WakeEffect DEF StartEnqueue
  <2>2. hjob[h] \notin ToSet(queue)
    BY <2>1 DEF ClaimsOwn
  <2>3. /\ ToSet(queue') = ToSet(queue) \cup {hjob[h]}
        /\ NoDup(queue')
    BY <1>2, <2>1, <2>2, AppendQueue DEF StartEnqueue, QueueOK, SingleOwner, NoDup
  <2> USE <2>1, <2>2, <2>3, RuntimeAssumption, QueueJobs DEF OtherCalls, OtherWorkers,
         OtherRecords, Woken, SingleOwner, NoDup, QueuedFresh, ClaimsOwn, RecordTracksWorker,
         RecordAt, NotLaunched, ProcsOfWorkers, MarksAfterRegister, SignalsAfterMark, CanceledOver,
         ProcsOK, WorkersOK, WorkerHands, WorkerPC, CallsOK, CallHands
  <2>4. SingleOwner'
    OBVIOUS
  <2>5. QueuedFresh'
    OBVIOUS
  <2>6. ClaimsOwn'
    OBVIOUS
  <2>7. RecordTracksWorker'
    OBVIOUS
  <2>8. NotLaunched'
    OBVIOUS
  <2>9. ProcsOfWorkers'
    OBVIOUS
  <2>10. MarksAfterRegister'
    OBVIOUS
  <2>11. SignalsAfterMark'
    OBVIOUS
  <2>12. CanceledOver'
    OBVIOUS
  <2>13. QED
    BY <2>4, <2>5, <2>6, <2>7, <2>8, <2>9, <2>10, <2>11, <2>12
<1>3. ASSUME NEW j \in Jobs, CancelLoad(h, j) PROVE Ownership'
  <2>1. /\ hpc'[h] = "lookup" /\ hjob'[h] = j /\ hrec'[h] = store[j] /\ OtherCalls(h)
        /\ UNCHANGED <<store, queue>> /\ SameProcs /\ SameWorkers
    BY <1>3 DEF CancelLoad, CallsOK, OtherCalls
  <2> USE <2>1, RuntimeAssumption, QueueJobs DEF OtherCalls, OtherWorkers,
         OtherRecords, Woken, SingleOwner, NoDup, QueuedFresh, ClaimsOwn, RecordTracksWorker,
         RecordAt, NotLaunched, ProcsOfWorkers, MarksAfterRegister, SignalsAfterMark, CanceledOver,
         ProcsOK, WorkersOK, WorkerHands, WorkerPC, CallsOK, CallHands
  <2>2. SingleOwner' /\ QueuedFresh' /\ RecordTracksWorker' /\ NotLaunched'
        /\ ProcsOfWorkers'
    OBVIOUS
  <2>3. ClaimsOwn' /\ MarksAfterRegister' /\ SignalsAfterMark' /\ CanceledOver'
    OBVIOUS
  <2>4. QED
    BY <2>2, <2>3
<1>4. ASSUME CancelLookup(h) PROVE Ownership'
  <2>1. /\ hpc[h] = "lookup" /\ hjob[h] \in Jobs
        /\ hjob'[h] = hjob[h] /\ hrec'[h] = hrec[h] /\ OtherCalls(h)
        /\ hpc'[h] \in {"replied", "dequeue", "mark"}
        /\ UNCHANGED <<store, queue>> /\ SameProcs /\ SameWorkers
    BY <1>4, Hands, ReplyEffect, HandlerGotoEffect DEF CancelLookup, Lookup
  <2>2. hpc'[h] = "mark" => hjob[h] \in procs /\ hjob[h] \in Cancelable
    <3>1. CASE hjob[h] \in procs /\ hjob[h] \in Cancelable
      BY <3>1
    <3>2. CASE ~(hjob[h] \in procs /\ hjob[h] \in Cancelable)
      <4>1. HandlerGoto(h, "dequeue") \/ Reply(h, hrec[h], TRUE) \/ Reply(h, hrec[h], FALSE)
        BY <1>4, <3>2 DEF CancelLookup, Lookup
      <4>2. CASE HandlerGoto(h, "dequeue")
        BY <4>2, HandlerGotoEffect
      <4>3. CASE Reply(h, hrec[h], TRUE) \/ Reply(h, hrec[h], FALSE)
        BY <4>3, ReplyEffect
      <4>4. QED
        BY <4>1, <4>2, <4>3
    <3>3. QED
      BY <3>1, <3>2
  <2> USE <2>1, <2>2, RuntimeAssumption, QueueJobs DEF OtherCalls, OtherWorkers,
         OtherRecords, Woken, SingleOwner, NoDup, QueuedFresh, ClaimsOwn, RecordTracksWorker,
         RecordAt, NotLaunched, ProcsOfWorkers, MarksAfterRegister, SignalsAfterMark, CanceledOver,
         ProcsOK, WorkersOK, WorkerHands, WorkerPC, CallsOK, CallHands
  <2>3. SingleOwner' /\ QueuedFresh' /\ RecordTracksWorker' /\ NotLaunched'
        /\ ProcsOfWorkers'
    OBVIOUS
  <2>4. ClaimsOwn' /\ MarksAfterRegister' /\ SignalsAfterMark' /\ CanceledOver'
    OBVIOUS
  <2>5. QED
    BY <2>3, <2>4
<1>5. ASSUME CancelDequeue(h) PROVE Ownership'
  <2>1. /\ hpc[h] = "dequeue" /\ hjob[h] \in Jobs
        /\ hjob'[h] = hjob[h] /\ hrec'[h] = hrec[h] /\ OtherCalls(h)
        /\ UNCHANGED store /\ SameProcs /\ SameWorkers
    BY <1>5, Hands, HandlerGotoEffect DEF CancelDequeue
  <2>2. \/ /\ hpc'[h] = "cancelQueued" /\ hjob[h] \in ToSet(queue)
           /\ ToSet(queue') = ToSet(queue) \ {hjob[h]} /\ NoDup(queue')
        \/ hpc'[h] = "reread" /\ queue' = queue
    <3>1. CASE HandlerGoto(h, "reread") /\ queue' = queue
      BY <3>1, HandlerGotoEffect
    <3>2. ASSUME NEW i \in DOMAIN queue, FirstAt(i, hjob[h]), queue' = RemoveAt(queue, i),
                 HandlerGoto(h, "cancelQueued")
          PROVE  /\ hpc'[h] = "cancelQueued" /\ hjob[h] \in ToSet(queue)
                 /\ ToSet(queue') = ToSet(queue) \ {hjob[h]} /\ NoDup(queue')
      <4>1. queue[i] = hjob[h]
        BY <3>2 DEF FirstAt
      <4>2. ToSet(queue') = ToSet(queue) \ {hjob[h]} /\ NoDup(queue')
        BY <3>2, <4>1, RemoveAtQueue DEF QueueOK, SingleOwner, NoDup
      <4>3. hpc'[h] = "cancelQueued"
        BY <3>2, HandlerGotoEffect
      <4>4. hjob[h] \in ToSet(queue)
        BY <4>1 DEF ToSet
      <4>5. QED
        BY <4>2, <4>3, <4>4
    <3>3. QED
      BY <1>5, <3>1, <3>2 DEF CancelDequeue
  <2> USE <2>1, <2>2, RuntimeAssumption, QueueJobs DEF OtherCalls, OtherWorkers,
         OtherRecords, Woken, SingleOwner, NoDup, QueuedFresh, ClaimsOwn, RecordTracksWorker,
         RecordAt, NotLaunched, ProcsOfWorkers, MarksAfterRegister, SignalsAfterMark, CanceledOver,
         ProcsOK, WorkersOK, WorkerHands, WorkerPC, CallsOK, CallHands
  <2>3. RecordTracksWorker' /\ NotLaunched' /\ ProcsOfWorkers'
    OBVIOUS
  <2>4. SingleOwner'
    OBVIOUS
  <2>5. QueuedFresh'
    OBVIOUS
  <2>6. ClaimsOwn'
    OBVIOUS
  <2>7. MarksAfterRegister'
    OBVIOUS
  <2>8. SignalsAfterMark'
    OBVIOUS
  <2>9. CanceledOver'
    OBVIOUS
  <2>10. QED
    BY <2>3, <2>4, <2>5, <2>6, <2>7, <2>8, <2>9
<1>6. ASSUME CancelQueued(h) PROVE Ownership'
  <2>1. /\ hpc[h] = "cancelQueued" /\ hjob[h] \in Jobs /\ hrec[h].truncated \in BOOLEAN
        /\ UNCHANGED queue /\ SameProcs /\ SameWorkers
    BY <1>6, Hands, RecordFields DEF CancelQueued, CallsOK
  <2>2. /\ OtherCalls(h)
        /\ (hpc'[h] = "replied" /\ hjob'[h] = hjob[h]) \/ hpc'[h] = "idle"
    BY <1>6, ReplyEffect, EndCallEffect DEF CancelQueued
  <2>3. /\ OtherRecords(hjob[h])
        /\ \/ store'[hjob[h]].state = "canceled"
           \/ hpc'[h] = "idle" /\ store'[hjob[h]] = store[hjob[h]]
    BY <1>6, <2>1, <2>2, SaveStates, EndCallEffect DEF CancelQueued, State
  <2> USE <2>1, <2>2, <2>3, RuntimeAssumption, QueueJobs DEF OtherCalls, OtherWorkers,
         OtherRecords, Woken, SingleOwner, NoDup, QueuedFresh, ClaimsOwn, RecordTracksWorker,
         RecordAt, NotLaunched, ProcsOfWorkers, MarksAfterRegister, SignalsAfterMark, CanceledOver,
         ProcsOK, WorkersOK, WorkerHands, WorkerPC, CallsOK, CallHands
  <2>4. SingleOwner'
    OBVIOUS
  <2>5. QueuedFresh'
    OBVIOUS
  <2>6. ClaimsOwn'
    OBVIOUS
  <2>7. RecordTracksWorker'
    OBVIOUS
  <2>8. NotLaunched'
    OBVIOUS
  <2>9. ProcsOfWorkers'
    OBVIOUS
  <2>10. MarksAfterRegister'
    OBVIOUS
  <2>11. SignalsAfterMark'
    OBVIOUS
  <2>12. CanceledOver'
    OBVIOUS
  <2>13. QED
    BY <2>4, <2>5, <2>6, <2>7, <2>8, <2>9, <2>10, <2>11, <2>12
<1>7. ASSUME CancelReread(h) PROVE Ownership'
  <2>1. /\ hpc[h] = "reread" /\ hjob[h] \in Jobs
        /\ hpc'[h] = "replied" /\ hjob'[h] = hjob[h] /\ hrec'[h] = store[hjob[h]] /\ OtherCalls(h)
        /\ UNCHANGED <<store, queue>> /\ SameProcs /\ SameWorkers
    BY <1>7, Hands, ReplyEffect DEF CancelReread
  <2> USE <2>1, RuntimeAssumption, QueueJobs DEF OtherCalls, OtherWorkers,
         OtherRecords, Woken, SingleOwner, NoDup, QueuedFresh, ClaimsOwn, RecordTracksWorker,
         RecordAt, NotLaunched, ProcsOfWorkers, MarksAfterRegister, SignalsAfterMark, CanceledOver,
         ProcsOK, WorkersOK, WorkerHands, WorkerPC, CallsOK, CallHands
  <2>2. SingleOwner' /\ QueuedFresh' /\ RecordTracksWorker' /\ NotLaunched'
        /\ ProcsOfWorkers'
    OBVIOUS
  <2>3. ClaimsOwn' /\ MarksAfterRegister' /\ SignalsAfterMark' /\ CanceledOver'
    OBVIOUS
  <2>4. QED
    BY <2>2, <2>3
<1>8. ASSUME CancelMark(h) PROVE Ownership'
  <2>1. /\ hpc[h] = "mark" /\ hjob[h] \in Jobs /\ hrec[h].truncated \in BOOLEAN
        /\ UNCHANGED queue /\ SameProcs /\ SameWorkers
    BY <1>8, Hands, RecordFields DEF CancelMark, CallsOK
  <2>2. /\ OtherRecords(hjob[h])
        /\ store'[hjob[h]] = store[hjob[h]] \/ store'[hjob[h]].state = "canceling"
    BY <1>8, <2>1, SaveStates DEF CancelMark, State
  <2>3. /\ OtherCalls(h)
        /\ \/ hpc'[h] = "idle"
           \/ /\ hpc'[h] = "signal" /\ hjob'[h] = hjob[h]
              /\ hrec'[h].state = "canceling" /\ store'[hjob[h]].state = "canceling"
    <3>1. CASE EndCall(h)
      BY <3>1, EndCallEffect
    <3>2. CASE /\ SaveOK(hjob[h], Rec("canceling", hrec[h].truncated))
               /\ hpc' = [hpc EXCEPT ![h] = "signal"] /\ hjob' = hjob
               /\ hrec' = [hrec EXCEPT ![h] = Rec("canceling", hrec[h].truncated)]
      <4>1. OtherCalls(h) /\ hpc'[h] = "signal" /\ hrec'[h] = Rec("canceling", hrec[h].truncated)
        BY <3>2 DEF CallsOK, OtherCalls
      <4>2. store'[hjob[h]].state = "canceling"
        BY <2>1, <3>2, SaveStates DEF State
      <4>3. Rec("canceling", hrec[h].truncated).state = "canceling"
        BY <2>1, RecordFields DEF State
      <4>4. QED
        BY <3>2, <4>1, <4>2, <4>3
    <3>3. QED
      BY <1>8, <3>1, <3>2 DEF CancelMark
  <2> USE <2>1, <2>2, <2>3, RuntimeAssumption, QueueJobs DEF OtherCalls, OtherWorkers,
         OtherRecords, Woken, SingleOwner, NoDup, QueuedFresh, ClaimsOwn, RecordTracksWorker,
         RecordAt, NotLaunched, ProcsOfWorkers, MarksAfterRegister, SignalsAfterMark, CanceledOver,
         ProcsOK, WorkersOK, WorkerHands, WorkerPC, CallsOK, CallHands
  <2>4. SingleOwner'
    OBVIOUS
  <2>5. QueuedFresh'
    OBVIOUS
  <2>6. ClaimsOwn'
    OBVIOUS
  <2>7. RecordTracksWorker'
    OBVIOUS
  <2>8. NotLaunched'
    OBVIOUS
  <2>9. ProcsOfWorkers'
    OBVIOUS
  <2>10. MarksAfterRegister'
    OBVIOUS
  <2>11. SignalsAfterMark'
    OBVIOUS
  <2>12. CanceledOver'
    OBVIOUS
  <2>13. QED
    BY <2>4, <2>5, <2>6, <2>7, <2>8, <2>9, <2>10, <2>11, <2>12
<1>9. ASSUME CancelSignal(h) PROVE Ownership'
  <2>1. /\ hpc[h] = "signal" /\ hjob[h] \in Jobs
        /\ hpc'[h] = "poll" /\ hjob'[h] = hjob[h] /\ hrec'[h] = hrec[h] /\ OtherCalls(h)
        /\ signalled' = signalled \cup ({hjob[h]} \cap procs) /\ UNCHANGED <<procs, proc>>
        /\ UNCHANGED <<store, queue>> /\ SameWorkers
    BY <1>9, Hands, HandlerGotoEffect DEF CancelSignal
  <2> USE <2>1, RuntimeAssumption, QueueJobs DEF OtherCalls, OtherWorkers,
         OtherRecords, Woken, SingleOwner, NoDup, QueuedFresh, ClaimsOwn, RecordTracksWorker,
         RecordAt, NotLaunched, ProcsOfWorkers, MarksAfterRegister, SignalsAfterMark, CanceledOver,
         ProcsOK, WorkersOK, WorkerHands, WorkerPC, CallsOK, CallHands
  <2>2. SingleOwner' /\ QueuedFresh' /\ RecordTracksWorker' /\ NotLaunched'
    OBVIOUS
  <2>3. ClaimsOwn'
    OBVIOUS
  <2>4. ProcsOfWorkers'
    OBVIOUS
  <2>5. MarksAfterRegister'
    OBVIOUS
  <2>6. SignalsAfterMark'
    OBVIOUS
  <2>7. CanceledOver'
    OBVIOUS
  <2>8. QED
    BY <2>2, <2>3, <2>4, <2>5, <2>6, <2>7
<1>10. ASSUME CancelPoll(h) PROVE Ownership'
  <2>1. /\ hpc[h] = "poll" /\ hjob[h] \in Jobs
        /\ hpc'[h] = "replied" /\ hjob'[h] = hjob[h] /\ hrec'[h] = store[hjob[h]] /\ OtherCalls(h)
        /\ UNCHANGED <<store, queue>> /\ SameProcs /\ SameWorkers
    BY <1>10, Hands, ReplyEffect DEF CancelPoll
  <2> USE <2>1, RuntimeAssumption, QueueJobs DEF OtherCalls, OtherWorkers,
         OtherRecords, Woken, SingleOwner, NoDup, QueuedFresh, ClaimsOwn, RecordTracksWorker,
         RecordAt, NotLaunched, ProcsOfWorkers, MarksAfterRegister, SignalsAfterMark, CanceledOver,
         ProcsOK, WorkersOK, WorkerHands, WorkerPC, CallsOK, CallHands
  <2>2. SingleOwner' /\ QueuedFresh' /\ RecordTracksWorker' /\ NotLaunched'
        /\ ProcsOfWorkers'
    OBVIOUS
  <2>3. ClaimsOwn' /\ MarksAfterRegister' /\ SignalsAfterMark' /\ CanceledOver'
    OBVIOUS
  <2>4. QED
    BY <2>2, <2>3
<1>11. ASSUME CancelTimeout(h) PROVE Ownership'
  <2>1. /\ hpc'[h] = "idle" /\ OtherCalls(h)
        /\ UNCHANGED <<store, queue>> /\ SameProcs /\ SameWorkers
    BY <1>11, EndCallEffect DEF CancelTimeout
  <2> USE <2>1, RuntimeAssumption, QueueJobs DEF OtherCalls, OtherWorkers,
         OtherRecords, Woken, SingleOwner, NoDup, QueuedFresh, ClaimsOwn, RecordTracksWorker,
         RecordAt, NotLaunched, ProcsOfWorkers, MarksAfterRegister, SignalsAfterMark, CanceledOver,
         ProcsOK, WorkersOK, WorkerHands, WorkerPC, CallsOK, CallHands
  <2>2. SingleOwner' /\ QueuedFresh' /\ RecordTracksWorker' /\ NotLaunched'
        /\ ProcsOfWorkers'
    OBVIOUS
  <2>3. ClaimsOwn' /\ MarksAfterRegister' /\ SignalsAfterMark' /\ CanceledOver'
    OBVIOUS
  <2>4. QED
    BY <2>2, <2>3
<1>12. QED
  BY <1>1, <1>2, <1>3, <1>4, <1>5, <1>6, <1>7, <1>8, <1>9, <1>10, <1>11 DEF HandlerStep

\* Every worker step keeps it.
LEMMA OwnWorkers ==
    ASSUME TypeInv, Stopped, Ownership, NEW w \in Workers, WorkerStep(w)
    PROVE  Ownership'
<1> USE DEF TypeInv, WorkersInv, CallsInv, DiskOK, Ownership, Fresh, Claims, Over, Early,
            Unregistered, Registered, IdlePC, diskVars, queueVars, workerVars, procVars,
            callVars, daemonVars, SameCalls, SameWorkers, SameProcs
<1>1. ASSUME Take(w) PROVE Ownership'
  <2>1. /\ wpc[w] = "loop" /\ wpc'[w] = "exec" /\ wjob'[w] = Head(queue) /\ OtherWorkers(w)
        /\ UNCHANGED store /\ SameProcs /\ SameCalls
    BY <1>1 DEF Take, WorkersOK, OtherWorkers
  <2>2. /\ Head(queue) \in ToSet(queue)
        /\ ToSet(queue') = ToSet(queue) \ {Head(queue)} /\ NoDup(queue')
    BY <1>1, TailQueue DEF Take, QueueOK, SingleOwner, NoDup
  <2> USE <2>1, <2>2, RuntimeAssumption, QueueJobs DEF OtherCalls, OtherWorkers,
         OtherRecords, Woken, SingleOwner, NoDup, QueuedFresh, ClaimsOwn, RecordTracksWorker,
         RecordAt, NotLaunched, ProcsOfWorkers, MarksAfterRegister, SignalsAfterMark, CanceledOver,
         ProcsOK, WorkersOK, WorkerHands, WorkerPC, CallsOK, CallHands
  <2>3. SingleOwner'
    OBVIOUS
  <2>4. QueuedFresh'
    OBVIOUS
  <2>5. ClaimsOwn'
    OBVIOUS
  <2>6. RecordTracksWorker'
    OBVIOUS
  <2>7. NotLaunched'
    OBVIOUS
  <2>8. ProcsOfWorkers'
    OBVIOUS
  <2>9. MarksAfterRegister'
    OBVIOUS
  <2>10. SignalsAfterMark'
    OBVIOUS
  <2>11. CanceledOver'
    OBVIOUS
  <2>12. QED
    BY <2>3, <2>4, <2>5, <2>6, <2>7, <2>8, <2>9, <2>10, <2>11
<1>2. ASSUME Park(w) \/ Leave(w) PROVE Ownership'
  <2>1. /\ wpc[w] = "loop" /\ wpc'[w] \in {"waiting", "exited"}
        /\ OtherWorkers(w) /\ UNCHANGED wjob
        /\ UNCHANGED <<store, queue>> /\ SameProcs /\ SameCalls
    BY <1>2, GotoEffect DEF Park, Leave
  <2> USE <2>1, RuntimeAssumption, QueueJobs DEF OtherCalls, OtherWorkers,
         OtherRecords, Woken, SingleOwner, NoDup, QueuedFresh, ClaimsOwn, RecordTracksWorker,
         RecordAt, NotLaunched, ProcsOfWorkers, MarksAfterRegister, SignalsAfterMark, CanceledOver,
         ProcsOK, WorkersOK, WorkerHands, WorkerPC, CallsOK, CallHands
  <2>2. SingleOwner' /\ QueuedFresh' /\ ClaimsOwn'
    OBVIOUS
  <2>3. RecordTracksWorker' /\ NotLaunched' /\ ProcsOfWorkers' /\ MarksAfterRegister'
        /\ SignalsAfterMark' /\ CanceledOver'
    OBVIOUS
  <2>4. QED
    BY <2>2, <2>3
<1>3. ASSUME SavePreparing(w) PROVE Ownership'
  <2>1. /\ wpc[w] = "exec" /\ wjob[w] \in Jobs /\ wtrunc[w] \in BOOLEAN
        /\ OtherWorkers(w) /\ UNCHANGED wjob
        /\ UNCHANGED queue /\ SameProcs /\ SameCalls
    BY <1>3, Hands, GotoEffect, ToFailEffect DEF SavePreparing, WorkersOK
  <2>2. /\ OtherRecords(wjob[w])
        /\ \/ wpc'[w] = "prepare" /\ store'[wjob[w]].state = "preparing"
           \/ /\ wpc'[w] = "fail"
              /\ store'[wjob[w]] = store[wjob[w]] \/ store'[wjob[w]].state = "preparing"
    <3>1. CASE SaveOK(wjob[w], Rec("preparing", FALSE)) /\ Goto(w, "prepare")
      BY <2>1, <3>1, SaveStates, GotoEffect DEF State
    <3>2. CASE SaveFails(wjob[w], Rec("preparing", FALSE)) /\ ToFail(w, FALSE)
      BY <2>1, <3>2, SaveStates, ToFailEffect DEF State
    <3>3. QED
      BY <1>3, <3>1, <3>2 DEF SavePreparing
  <2> USE <2>1, <2>2, RuntimeAssumption, QueueJobs DEF OtherCalls, OtherWorkers,
         OtherRecords, Woken, SingleOwner, NoDup, QueuedFresh, ClaimsOwn, RecordTracksWorker,
         RecordAt, NotLaunched, ProcsOfWorkers, MarksAfterRegister, SignalsAfterMark, CanceledOver,
         ProcsOK, WorkersOK, WorkerHands, WorkerPC, CallsOK, CallHands
  <2>3. SingleOwner'
    OBVIOUS
  <2>4. QueuedFresh'
    OBVIOUS
  <2>5. ClaimsOwn'
    OBVIOUS
  <2>6. RecordTracksWorker'
    OBVIOUS
  <2>7. NotLaunched'
    OBVIOUS
  <2>8. ProcsOfWorkers'
    OBVIOUS
  <2>9. MarksAfterRegister'
    OBVIOUS
  <2>10. SignalsAfterMark'
    OBVIOUS
  <2>11. CanceledOver'
    OBVIOUS
  <2>12. QED
    BY <2>3, <2>4, <2>5, <2>6, <2>7, <2>8, <2>9, <2>10, <2>11
<1>4. ASSUME Prepare(w) PROVE Ownership'
  <2>1. /\ wpc[w] = "prepare" /\ wpc'[w] \in {"saverun", "fail"} /\ wjob[w] \in Jobs
        /\ OtherWorkers(w) /\ UNCHANGED wjob
        /\ UNCHANGED <<store, queue>> /\ SameProcs /\ SameCalls
    BY <1>4, Hands, GotoEffect, ToFailEffect, ToCanceledEffect DEF Prepare
  <2> USE <2>1, RuntimeAssumption, QueueJobs DEF OtherCalls, OtherWorkers,
         OtherRecords, Woken, SingleOwner, NoDup, QueuedFresh, ClaimsOwn, RecordTracksWorker,
         RecordAt, NotLaunched, ProcsOfWorkers, MarksAfterRegister, SignalsAfterMark, CanceledOver,
         ProcsOK, WorkersOK, WorkerHands, WorkerPC, CallsOK, CallHands
  <2>2. SingleOwner' /\ QueuedFresh' /\ ClaimsOwn'
    OBVIOUS
  <2>3. RecordTracksWorker' /\ NotLaunched' /\ ProcsOfWorkers' /\ MarksAfterRegister'
        /\ SignalsAfterMark' /\ CanceledOver'
    OBVIOUS
  <2>4. QED
    BY <2>2, <2>3
<1>5. ASSUME SaveRunning(w) PROVE Ownership'
  <2>1. /\ wpc[w] = "saverun" /\ wjob[w] \in Jobs /\ wtrunc[w] \in BOOLEAN
        /\ OtherWorkers(w) /\ UNCHANGED wjob
        /\ UNCHANGED queue /\ SameProcs /\ SameCalls
    BY <1>5, Hands, GotoEffect, ToFailEffect DEF SaveRunning, WorkersOK
  <2>2. /\ OtherRecords(wjob[w])
        /\ \/ wpc'[w] = "register" /\ store'[wjob[w]].state = "running"
           \/ /\ wpc'[w] = "fail"
              /\ store'[wjob[w]] = store[wjob[w]] \/ store'[wjob[w]].state = "running"
    <3>1. CASE SaveOK(wjob[w], Rec("running", FALSE)) /\ Goto(w, "register")
      BY <2>1, <3>1, SaveStates, GotoEffect DEF State
    <3>2. CASE SaveFails(wjob[w], Rec("running", FALSE)) /\ ToFail(w, FALSE)
      BY <2>1, <3>2, SaveStates, ToFailEffect DEF State
    <3>3. QED
      BY <1>5, <3>1, <3>2 DEF SaveRunning
  <2> USE <2>1, <2>2, RuntimeAssumption, QueueJobs DEF OtherCalls, OtherWorkers,
         OtherRecords, Woken, SingleOwner, NoDup, QueuedFresh, ClaimsOwn, RecordTracksWorker,
         RecordAt, NotLaunched, ProcsOfWorkers, MarksAfterRegister, SignalsAfterMark, CanceledOver,
         ProcsOK, WorkersOK, WorkerHands, WorkerPC, CallsOK, CallHands
  <2>3. SingleOwner'
    OBVIOUS
  <2>4. QueuedFresh'
    OBVIOUS
  <2>5. ClaimsOwn'
    OBVIOUS
  <2>6. RecordTracksWorker'
    OBVIOUS
  <2>7. NotLaunched'
    OBVIOUS
  <2>8. ProcsOfWorkers'
    OBVIOUS
  <2>9. MarksAfterRegister'
    OBVIOUS
  <2>10. SignalsAfterMark'
    OBVIOUS
  <2>11. CanceledOver'
    OBVIOUS
  <2>12. QED
    BY <2>3, <2>4, <2>5, <2>6, <2>7, <2>8, <2>9, <2>10, <2>11
<1>6. ASSUME Register(w) PROVE Ownership'
  <2>1. /\ wpc[w] = "register" /\ wpc'[w] = "spawn" /\ wjob[w] \in Jobs
        /\ OtherWorkers(w) /\ UNCHANGED wjob
        /\ procs' = procs \cup {wjob[w]} /\ UNCHANGED <<signalled, proc>>
        /\ UNCHANGED <<store, queue>> /\ SameCalls
    BY <1>6, Hands, GotoEffect DEF Register
  <2> USE <2>1, RuntimeAssumption, QueueJobs DEF OtherCalls, OtherWorkers,
         OtherRecords, Woken, SingleOwner, NoDup, QueuedFresh, ClaimsOwn, RecordTracksWorker,
         RecordAt, NotLaunched, ProcsOfWorkers, MarksAfterRegister, SignalsAfterMark, CanceledOver,
         ProcsOK, WorkersOK, WorkerHands, WorkerPC, CallsOK, CallHands
  <2>2. SingleOwner' /\ QueuedFresh' /\ ClaimsOwn'
    OBVIOUS
  <2>3. RecordTracksWorker'
    OBVIOUS
  <2>4. NotLaunched'
    OBVIOUS
  <2>5. ProcsOfWorkers'
    OBVIOUS
  <2>6. MarksAfterRegister'
    OBVIOUS
  <2>7. SignalsAfterMark'
    OBVIOUS
  <2>8. CanceledOver'
    OBVIOUS
  <2>9. QED
    BY <2>2, <2>3, <2>4, <2>5, <2>6, <2>7, <2>8
<1>7. ASSUME Spawn(w) PROVE Ownership'
  <2>1. /\ wpc[w] = "spawn" /\ wpc'[w] \in {"wait", "fail"} /\ wjob[w] \in Jobs
        /\ OtherWorkers(w) /\ UNCHANGED wjob
        /\ (\A k \in Jobs \ {wjob[w]} : proc'[k] = proc[k]) /\ UNCHANGED <<procs, signalled>>
        /\ UNCHANGED <<store, queue>> /\ SameCalls
    BY <1>7, Hands, GotoEffect, ToFailEffect DEF Spawn, ProcsOK
  <2> USE <2>1, RuntimeAssumption, QueueJobs DEF OtherCalls, OtherWorkers,
         OtherRecords, Woken, SingleOwner, NoDup, QueuedFresh, ClaimsOwn, RecordTracksWorker,
         RecordAt, NotLaunched, ProcsOfWorkers, MarksAfterRegister, SignalsAfterMark, CanceledOver,
         ProcsOK, WorkersOK, WorkerHands, WorkerPC, CallsOK, CallHands
  <2>2. SingleOwner'
    OBVIOUS
  <2>3. QueuedFresh'
    OBVIOUS
  <2>4. ClaimsOwn'
    OBVIOUS
  <2>5. RecordTracksWorker'
    OBVIOUS
  <2>6. NotLaunched'
    OBVIOUS
  <2>7. ProcsOfWorkers'
    OBVIOUS
  <2>8. MarksAfterRegister'
    OBVIOUS
  <2>9. SignalsAfterMark'
    OBVIOUS
  <2>10. CanceledOver'
    OBVIOUS
  <2>11. QED
    BY <2>2, <2>3, <2>4, <2>5, <2>6, <2>7, <2>8, <2>9, <2>10
<1>8. ASSUME Exited(w) PROVE Ownership'
  <2>1. /\ wpc[w] = "wait" /\ wpc'[w] \in {"succeed", "fail"} /\ wjob[w] \in Jobs
        /\ OtherWorkers(w) /\ UNCHANGED wjob
        /\ UNCHANGED <<store, queue>> /\ SameProcs /\ SameCalls
    BY <1>8, Hands, GotoEffect, ToFailEffect, ToCanceledEffect DEF Exited
  <2> USE <2>1, RuntimeAssumption, QueueJobs DEF OtherCalls, OtherWorkers,
         OtherRecords, Woken, SingleOwner, NoDup, QueuedFresh, ClaimsOwn, RecordTracksWorker,
         RecordAt, NotLaunched, ProcsOfWorkers, MarksAfterRegister, SignalsAfterMark, CanceledOver,
         ProcsOK, WorkersOK, WorkerHands, WorkerPC, CallsOK, CallHands
  <2>2. SingleOwner' /\ QueuedFresh' /\ ClaimsOwn'
    OBVIOUS
  <2>3. RecordTracksWorker' /\ NotLaunched' /\ ProcsOfWorkers' /\ MarksAfterRegister'
        /\ SignalsAfterMark' /\ CanceledOver'
    OBVIOUS
  <2>4. QED
    BY <2>2, <2>3
<1>9. ASSUME Terminate(w) PROVE Ownership'
  <2>1. /\ wpc[w] = "wait" /\ wpc'[w] \in {"terminate"} /\ wjob[w] \in Jobs /\ wjob[w] \in signalled
        /\ OtherWorkers(w) /\ UNCHANGED wjob
        /\ UNCHANGED <<store, queue>> /\ SameProcs /\ SameCalls
    BY <1>9, Hands, GotoEffect, ToFailEffect, ToCanceledEffect DEF Terminate
  <2> USE <2>1, RuntimeAssumption, QueueJobs DEF OtherCalls, OtherWorkers,
         OtherRecords, Woken, SingleOwner, NoDup, QueuedFresh, ClaimsOwn, RecordTracksWorker,
         RecordAt, NotLaunched, ProcsOfWorkers, MarksAfterRegister, SignalsAfterMark, CanceledOver,
         ProcsOK, WorkersOK, WorkerHands, WorkerPC, CallsOK, CallHands
  <2>2. SingleOwner' /\ QueuedFresh' /\ ClaimsOwn'
    OBVIOUS
  <2>3. RecordTracksWorker' /\ NotLaunched' /\ ProcsOfWorkers' /\ MarksAfterRegister'
        /\ SignalsAfterMark' /\ CanceledOver'
    OBVIOUS
  <2>4. QED
    BY <2>2, <2>3
<1>10. ASSUME TermWait(w) PROVE Ownership'
  <2>1. /\ wpc[w] = "terminate" /\ wpc'[w] \in {"cancel", "kill"} /\ wjob[w] \in Jobs
        /\ OtherWorkers(w) /\ UNCHANGED wjob
        /\ UNCHANGED <<store, queue>> /\ SameProcs /\ SameCalls
    BY <1>10, Hands, GotoEffect, ToFailEffect, ToCanceledEffect DEF TermWait
  <2> USE <2>1, RuntimeAssumption, QueueJobs DEF OtherCalls, OtherWorkers,
         OtherRecords, Woken, SingleOwner, NoDup, QueuedFresh, ClaimsOwn, RecordTracksWorker,
         RecordAt, NotLaunched, ProcsOfWorkers, MarksAfterRegister, SignalsAfterMark, CanceledOver,
         ProcsOK, WorkersOK, WorkerHands, WorkerPC, CallsOK, CallHands
  <2>2. SingleOwner' /\ QueuedFresh' /\ ClaimsOwn'
    OBVIOUS
  <2>3. RecordTracksWorker' /\ NotLaunched' /\ ProcsOfWorkers' /\ MarksAfterRegister'
        /\ SignalsAfterMark' /\ CanceledOver'
    OBVIOUS
  <2>4. QED
    BY <2>2, <2>3
<1>11. ASSUME KillWait(w) PROVE Ownership'
  <2>1. /\ wpc[w] = "kill" /\ wpc'[w] \in {"cancel"} /\ wjob[w] \in Jobs
        /\ OtherWorkers(w) /\ UNCHANGED wjob
        /\ UNCHANGED <<store, queue>> /\ SameProcs /\ SameCalls
    BY <1>11, Hands, GotoEffect, ToFailEffect, ToCanceledEffect DEF KillWait
  <2> USE <2>1, RuntimeAssumption, QueueJobs DEF OtherCalls, OtherWorkers,
         OtherRecords, Woken, SingleOwner, NoDup, QueuedFresh, ClaimsOwn, RecordTracksWorker,
         RecordAt, NotLaunched, ProcsOfWorkers, MarksAfterRegister, SignalsAfterMark, CanceledOver,
         ProcsOK, WorkersOK, WorkerHands, WorkerPC, CallsOK, CallHands
  <2>2. SingleOwner' /\ QueuedFresh' /\ ClaimsOwn'
    OBVIOUS
  <2>3. RecordTracksWorker' /\ NotLaunched' /\ ProcsOfWorkers' /\ MarksAfterRegister'
        /\ SignalsAfterMark' /\ CanceledOver'
    OBVIOUS
  <2>4. QED
    BY <2>2, <2>3
<1>12. ASSUME SaveCanceled(w) PROVE Ownership'
  <2>1. /\ wpc[w] = "cancel" /\ wpc'[w] = "unregister" /\ wjob[w] \in Jobs /\ wtrunc[w] \in BOOLEAN
        /\ OtherWorkers(w) /\ UNCHANGED wjob
        /\ UNCHANGED queue /\ SameProcs /\ SameCalls
    BY <1>12, Hands, GotoEffect, ToFailEffect DEF SaveCanceled, WorkersOK
  <2>2. /\ OtherRecords(wjob[w])
        /\ store'[wjob[w]] = store[wjob[w]] \/ store'[wjob[w]].state = "canceled"
    BY <1>12, <2>1, SaveStates DEF SaveCanceled, State
  <2> USE <2>1, <2>2, RuntimeAssumption, QueueJobs DEF OtherCalls, OtherWorkers,
         OtherRecords, Woken, SingleOwner, NoDup, QueuedFresh, ClaimsOwn, RecordTracksWorker,
         RecordAt, NotLaunched, ProcsOfWorkers, MarksAfterRegister, SignalsAfterMark, CanceledOver,
         ProcsOK, WorkersOK, WorkerHands, WorkerPC, CallsOK, CallHands
  <2>3. SingleOwner'
    OBVIOUS
  <2>4. QueuedFresh'
    OBVIOUS
  <2>5. ClaimsOwn'
    OBVIOUS
  <2>6. RecordTracksWorker'
    OBVIOUS
  <2>7. NotLaunched'
    OBVIOUS
  <2>8. ProcsOfWorkers'
    OBVIOUS
  <2>9. MarksAfterRegister'
    OBVIOUS
  <2>10. SignalsAfterMark'
    OBVIOUS
  <2>11. CanceledOver'
    OBVIOUS
  <2>12. QED
    BY <2>3, <2>4, <2>5, <2>6, <2>7, <2>8, <2>9, <2>10, <2>11
<1>13. ASSUME SaveSucceeded(w) PROVE Ownership'
  <2>1. /\ wpc[w] = "succeed" /\ wjob[w] \in Jobs /\ wtrunc[w] \in BOOLEAN
        /\ OtherWorkers(w) /\ UNCHANGED wjob
        /\ UNCHANGED queue /\ SameProcs /\ SameCalls
    BY <1>13, Hands, GotoEffect, ToFailEffect DEF SaveSucceeded, WorkersOK
  <2>2. /\ OtherRecords(wjob[w])
        /\ \/ wpc'[w] = "unregister" /\ store'[wjob[w]].state = "succeeded"
           \/ /\ wpc'[w] = "fail"
              /\ \/ store'[wjob[w]] = store[wjob[w]]
                 \/ store'[wjob[w]].state = "succeeded" /\ "applied" \in SaveErrors
    <3>1. CASE SaveOK(wjob[w], Rec("succeeded", FALSE)) /\ Goto(w, "unregister")
      BY <2>1, <3>1, SaveStates, GotoEffect DEF State
    <3>2. CASE SaveFails(wjob[w], Rec("succeeded", FALSE)) /\ ToFail(w, FALSE)
      BY <2>1, <3>2, SaveStates, ToFailEffect DEF State
    <3>3. QED
      BY <1>13, <3>1, <3>2 DEF SaveSucceeded
  <2> USE <2>1, <2>2, RuntimeAssumption, QueueJobs DEF OtherCalls, OtherWorkers,
         OtherRecords, Woken, SingleOwner, NoDup, QueuedFresh, ClaimsOwn, RecordTracksWorker,
         RecordAt, NotLaunched, ProcsOfWorkers, MarksAfterRegister, SignalsAfterMark, CanceledOver,
         ProcsOK, WorkersOK, WorkerHands, WorkerPC, CallsOK, CallHands
  <2>3. SingleOwner'
    OBVIOUS
  <2>4. QueuedFresh'
    OBVIOUS
  <2>5. ClaimsOwn'
    OBVIOUS
  <2>6. RecordTracksWorker'
    OBVIOUS
  <2>7. NotLaunched'
    OBVIOUS
  <2>8. ProcsOfWorkers'
    OBVIOUS
  <2>9. MarksAfterRegister'
    OBVIOUS
  <2>10. SignalsAfterMark'
    OBVIOUS
  <2>11. CanceledOver'
    OBVIOUS
  <2>12. QED
    BY <2>3, <2>4, <2>5, <2>6, <2>7, <2>8, <2>9, <2>10, <2>11
<1>14. ASSUME SaveFailed(w) PROVE Ownership'
  <2>1. /\ wpc[w] = "fail" /\ wjob[w] \in Jobs /\ wtrunc[w] \in BOOLEAN
        /\ OtherWorkers(w)
        /\ IF wjob[w] \in procs THEN wpc'[w] = "unregister" /\ wjob'[w] = wjob[w]
                                 ELSE wpc'[w] = "loop" /\ wjob'[w] = NoJob
        /\ UNCHANGED queue /\ SameProcs /\ SameCalls
    BY <1>14, Hands, GotoEffect, FinishEffect DEF SaveFailed, WorkersOK
  <2>2. /\ OtherRecords(wjob[w])
        /\ store'[wjob[w]] = store[wjob[w]] \/ store'[wjob[w]].state = "failed"
    BY <1>14, <2>1, SaveStates DEF SaveFailed, State
  <2> USE <2>1, <2>2, RuntimeAssumption, QueueJobs DEF OtherCalls, OtherWorkers,
         OtherRecords, Woken, SingleOwner, NoDup, QueuedFresh, ClaimsOwn, RecordTracksWorker,
         RecordAt, NotLaunched, ProcsOfWorkers, MarksAfterRegister, SignalsAfterMark, CanceledOver,
         ProcsOK, WorkersOK, WorkerHands, WorkerPC, CallsOK, CallHands
  <2>3. SingleOwner'
    OBVIOUS
  <2>4. QueuedFresh'
    OBVIOUS
  <2>5. ClaimsOwn'
    OBVIOUS
  <2>6. RecordTracksWorker'
    OBVIOUS
  <2>7. NotLaunched'
    OBVIOUS
  <2>8. ProcsOfWorkers'
    OBVIOUS
  <2>9. MarksAfterRegister'
    OBVIOUS
  <2>10. SignalsAfterMark'
    OBVIOUS
  <2>11. CanceledOver'
    OBVIOUS
  <2>12. QED
    BY <2>3, <2>4, <2>5, <2>6, <2>7, <2>8, <2>9, <2>10, <2>11
<1>15. ASSUME Unregister(w) PROVE Ownership'
  <2>1. /\ wpc[w] = "unregister" /\ wjob[w] \in Jobs
        /\ wpc'[w] = "loop" /\ wjob'[w] = NoJob /\ OtherWorkers(w)
        /\ procs' = procs \ {wjob[w]} /\ signalled' = signalled \ {wjob[w]} /\ UNCHANGED proc
        /\ UNCHANGED <<store, queue>> /\ SameCalls
    BY <1>15, Hands, FinishEffect DEF Unregister
  <2> USE <2>1, RuntimeAssumption, QueueJobs DEF OtherCalls, OtherWorkers,
         OtherRecords, Woken, SingleOwner, NoDup, QueuedFresh, ClaimsOwn, RecordTracksWorker,
         RecordAt, NotLaunched, ProcsOfWorkers, MarksAfterRegister, SignalsAfterMark, CanceledOver,
         ProcsOK, WorkersOK, WorkerHands, WorkerPC, CallsOK, CallHands
  <2>2. QueuedFresh'
    OBVIOUS
  <2>3. SingleOwner'
    OBVIOUS
  <2>4. ClaimsOwn'
    OBVIOUS
  <2>5. RecordTracksWorker'
    OBVIOUS
  <2>6. NotLaunched'
    OBVIOUS
  <2>7. ProcsOfWorkers'
    OBVIOUS
  <2>8. MarksAfterRegister'
    OBVIOUS
  <2>9. SignalsAfterMark'
    OBVIOUS
  <2>10. CanceledOver'
    OBVIOUS
  <2>11. QED
    BY <2>2, <2>3, <2>4, <2>5, <2>6, <2>7, <2>8, <2>9, <2>10
<1>16. QED
  BY <1>1, <1>2, <1>3, <1>4, <1>5, <1>6, <1>7, <1>8, <1>9, <1>10, <1>11, <1>12, <1>13, <1>14,
     <1>15 DEF WorkerStep

\* Every step of a process or of the daemon as a whole keeps it.
LEMMA OwnDaemon ==
    ASSUME TypeInv, Stopped, Ownership,
           \/ \E j \in Jobs : Overflow(j) \/ ProcExit(j) \/ RecoverJob(j)
           \/ Close \/ Crash \/ Boot \/ RecoverDone
    PROVE  Ownership'
<1> USE DEF TypeInv, WorkersInv, CallsInv, DiskOK, Ownership, Fresh, Claims, Over, Early,
            Unregistered, Registered, IdlePC, diskVars, queueVars, workerVars, procVars,
            callVars, daemonVars, SameCalls, SameWorkers, SameProcs
<1>1. ASSUME NEW j \in Jobs, Overflow(j) PROVE Ownership'
  <2>1. UNCHANGED <<store, queue>> /\ SameCalls /\ SameWorkers /\ SameProcs
    BY <1>1 DEF Overflow
  <2> USE <2>1, RuntimeAssumption, QueueJobs DEF OtherCalls, OtherWorkers,
         OtherRecords, Woken, SingleOwner, NoDup, QueuedFresh, ClaimsOwn, RecordTracksWorker,
         RecordAt, NotLaunched, ProcsOfWorkers, MarksAfterRegister, SignalsAfterMark, CanceledOver,
         ProcsOK, WorkersOK, WorkerHands, WorkerPC, CallsOK, CallHands
  <2>2. QED
    OBVIOUS
<1>2. ASSUME NEW j \in Jobs, ProcExit(j) PROVE Ownership'
  <2>1. /\ proc[j] = "alive" /\ \A k \in Jobs \ {j} : proc'[k] = proc[k]
        /\ UNCHANGED <<store, queue, procs, signalled>> /\ SameCalls /\ SameWorkers
    BY <1>2 DEF ProcExit, ProcsOK
  <2> USE <2>1, RuntimeAssumption, QueueJobs DEF OtherCalls, OtherWorkers,
         OtherRecords, Woken, SingleOwner, NoDup, QueuedFresh, ClaimsOwn, RecordTracksWorker,
         RecordAt, NotLaunched, ProcsOfWorkers, MarksAfterRegister, SignalsAfterMark, CanceledOver,
         ProcsOK, WorkersOK, WorkerHands, WorkerPC, CallsOK, CallHands
  <2>2. SingleOwner' /\ RecordTracksWorker' /\ ProcsOfWorkers' /\ MarksAfterRegister'
        /\ SignalsAfterMark' /\ CanceledOver'
    OBVIOUS
  <2>3. QueuedFresh' /\ ClaimsOwn' /\ NotLaunched'
    OBVIOUS
  <2>4. QED
    BY <2>2, <2>3
<1>3. ASSUME NEW j \in Jobs, RecoverJob(j) PROVE Ownership'
  <2>1. /\ store[j].state \in {"queued", "preparing", "running", "canceling"}
        /\ UNCHANGED queue /\ SameCalls /\ SameWorkers /\ SameProcs
    BY <1>3, RecordFields DEF RecoverJob, Interrupted, Persisted, IsTerminal, State
  <2>2. /\ ToSet(queue) = {} /\ procs = {} /\ signalled = {}
        /\ \A w \in Workers : wpc[w] = "exited" /\ wjob[w] = NoJob
        /\ \A h \in Handlers : hpc[h] = "idle"
    BY <1>3, EmptyQueue DEF RecoverJob, Stopped
  <2>3. Restarted(store[j]) \in Record /\ Restarted(store[j]).state = "failed"
    BY RecordFields
  <2>4. /\ OtherRecords(j)
        /\ store'[j] = store[j] \/ store'[j].state = "failed"
    BY <1>3, <2>3, SaveEffect DEF RecoverJob
  <2> USE <2>1, <2>2, <2>3, <2>4, RuntimeAssumption, QueueJobs DEF OtherCalls, OtherWorkers,
         OtherRecords, Woken, SingleOwner, NoDup, QueuedFresh, ClaimsOwn, RecordTracksWorker,
         RecordAt, NotLaunched, ProcsOfWorkers, MarksAfterRegister, SignalsAfterMark, CanceledOver,
         ProcsOK, WorkersOK, WorkerHands, WorkerPC, CallsOK, CallHands
  <2>5. SingleOwner'
    OBVIOUS
  <2>6. QueuedFresh' /\ ClaimsOwn' /\ RecordTracksWorker' /\ NotLaunched' /\ ProcsOfWorkers'
        /\ MarksAfterRegister' /\ SignalsAfterMark' /\ CanceledOver'
    OBVIOUS
  <2>7. QED
    BY <2>5, <2>6
<1>4. ASSUME Close PROVE Ownership'
  <2>1. /\ Woken /\ UNCHANGED wjob
        /\ UNCHANGED <<store, queue>> /\ SameCalls /\ SameProcs
    BY <1>4, WakeEffect DEF Close
  <2> USE <2>1, RuntimeAssumption, QueueJobs DEF OtherCalls, OtherWorkers,
         OtherRecords, Woken, SingleOwner, NoDup, QueuedFresh, ClaimsOwn, RecordTracksWorker,
         RecordAt, NotLaunched, ProcsOfWorkers, MarksAfterRegister, SignalsAfterMark, CanceledOver,
         ProcsOK, WorkersOK, WorkerHands, WorkerPC, CallsOK, CallHands
  <2>2. SingleOwner' /\ QueuedFresh' /\ ClaimsOwn'
    OBVIOUS
  <2>3. RecordTracksWorker' /\ NotLaunched' /\ ProcsOfWorkers' /\ MarksAfterRegister'
        /\ SignalsAfterMark' /\ CanceledOver'
    OBVIOUS
  <2>4. QED
    BY <2>2, <2>3
<1>5. ASSUME Crash PROVE Ownership'
  <2>1. /\ ToSet(queue') = {} /\ NoDup(queue') /\ procs' = {} /\ signalled' = {}
        /\ \A w \in Workers : wpc'[w] = "exited" /\ wjob'[w] = NoJob
        /\ \A h \in Handlers : hpc'[h] = "idle"
        /\ UNCHANGED store /\ UNCHANGED proc
    BY <1>5, EmptyQueue DEF Crash, NoDup
  <2> USE <2>1, RuntimeAssumption, QueueJobs DEF OtherCalls, OtherWorkers,
         OtherRecords, Woken, SingleOwner, NoDup, QueuedFresh, ClaimsOwn, RecordTracksWorker,
         RecordAt, NotLaunched, ProcsOfWorkers, MarksAfterRegister, SignalsAfterMark, CanceledOver,
         ProcsOK, WorkersOK, WorkerHands, WorkerPC, CallsOK, CallHands
  <2>2. QED
    OBVIOUS
<1>6. ASSUME Boot PROVE Ownership'
  <2>1. UNCHANGED <<store, queue>> /\ SameCalls /\ SameWorkers /\ SameProcs
    BY <1>6 DEF Boot
  <2> USE <2>1, RuntimeAssumption, QueueJobs DEF OtherCalls, OtherWorkers,
         OtherRecords, Woken, SingleOwner, NoDup, QueuedFresh, ClaimsOwn, RecordTracksWorker,
         RecordAt, NotLaunched, ProcsOfWorkers, MarksAfterRegister, SignalsAfterMark, CanceledOver,
         ProcsOK, WorkersOK, WorkerHands, WorkerPC, CallsOK, CallHands
  <2>2. QED
    OBVIOUS
<1>7. ASSUME RecoverDone PROVE Ownership'
  <2>1. /\ \A w \in Workers : wpc'[w] = "loop" /\ wjob[w] = NoJob
        /\ UNCHANGED wjob /\ UNCHANGED <<store, queue>> /\ SameCalls /\ SameProcs
    BY <1>7 DEF RecoverDone, Stopped
  <2> USE <2>1, RuntimeAssumption, QueueJobs DEF OtherCalls, OtherWorkers,
         OtherRecords, Woken, SingleOwner, NoDup, QueuedFresh, ClaimsOwn, RecordTracksWorker,
         RecordAt, NotLaunched, ProcsOfWorkers, MarksAfterRegister, SignalsAfterMark, CanceledOver,
         ProcsOK, WorkersOK, WorkerHands, WorkerPC, CallsOK, CallHands
  <2>2. SingleOwner' /\ QueuedFresh' /\ ClaimsOwn'
    OBVIOUS
  <2>3. RecordTracksWorker' /\ NotLaunched' /\ ProcsOfWorkers' /\ MarksAfterRegister'
        /\ SignalsAfterMark' /\ CanceledOver'
    OBVIOUS
  <2>4. QED
    BY <2>2, <2>3
<1>8. QED
  BY <1>1, <1>2, <1>3, <1>4, <1>5, <1>6, <1>7

-----------------------------------------------------------------------------
LEMMA OwnInit == Init => Ownership
BY EmptyQueue, RecordFields, RuntimeAssumption
   DEF Init, Ownership, SingleOwner, QueuedFresh, ClaimsOwn, Claims, RecordTracksWorker,
       NotLaunched, Unregistered, ProcsOfWorkers, Registered, MarksAfterRegister,
       SignalsAfterMark, CanceledOver

LEMMA OwnFrame == Ownership /\ UNCHANGED vars => Ownership'
BY DEF vars, diskVars, queueVars, workerVars, procVars, callVars, daemonVars, Ownership,
       SingleOwner, QueuedFresh, Fresh, ClaimsOwn, Claims, RecordTracksWorker, NotLaunched,
       ProcsOfWorkers, MarksAfterRegister, SignalsAfterMark, CanceledOver, Over

\* The ownership discipline, with any number of jobs, workers, calls, Save
\* errors and crashes.  It is inductive relative to the types and to Stopped.
THEOREM OwnershipKept == Spec => []Ownership
<1>1. TypeInv /\ Stopped /\ Ownership /\ [Next]_vars => Ownership'
  BY OwnCalls, OwnWorkers, OwnDaemon, OwnFrame DEF Next
<1>2. QED
  BY OwnInit, TypeCorrect, <1>1, PTL DEF Spec

\* The queue, the workers and Cancel never hand one job to two parties.
THEOREM SingleOwnerKept == Spec => []SingleOwner
BY OwnershipKept, PTL DEF Ownership

\* The record a client polls follows the worker that holds the job.
THEOREM RecordsFollowWorkers == Spec => []RecordTracksWorker
BY OwnershipKept, PTL DEF Ownership

\* No agent is launched twice for a job, or for one that is already finished.
THEOREM LaunchesAreFresh == Spec => []LaunchFresh
<1>1. TypeOK /\ TypeInv /\ Stopped /\ Ownership => LaunchFresh
  BY RuntimeAssumption
  DEF TypeInv, WorkersInv, WorkersOK, WorkerHands, IdlePC, Ownership, NotLaunched,
      Unregistered, RecordTracksWorker, RecordAt, LaunchFresh, IsTerminal
<1>2. QED
  BY TypeCorrect, OwnershipKept, <1>1, PTL

\* A job reported "canceled" to a client is not run afterwards.
THEOREM CanceledRepliesAreFinal == Spec => []CanceledReplyIsFinal
<1>1. Ownership => CanceledReplyIsFinal
  BY DEF Ownership, CanceledOver, Over, CanceledReplyIsFinal
<1>2. QED
  BY OwnershipKept, <1>1, PTL

-----------------------------------------------------------------------------
(* Nobody forgets a job whose record is still on its way.                  *)

\* The records recover() would find interrupted, but for "canceling", which a
\* late Cancel may leave behind without anybody owing anything.
OnItsWay(j) == store[j].state \in {"queued", "preparing", "running"}

\* NoOrphanRecord with what makes it inductive: a worker about to forget its
\* job has written that job's last record.
Orphanless ==
    faults = 0 =>
        /\ daemon = "up" => \A j \in Jobs : OnItsWay(j) => Held(j)
        /\ \A w \in Workers : wpc[w] = "unregister" => ~OnItsWay(wjob[w])

\* A Save that fails ends the obligation.
LEMMA FailedSave ==
    ASSUME DiskOK, NEW j \in Jobs, NEW r \in Record, SaveFails(j, r)
    PROVE  Orphanless'
<1>1. faults' # 0
  BY RuntimeAssumption DEF SaveFails, DiskOK
<1> QED BY <1>1 DEF Orphanless

\* Every call step keeps a holder for every record on its way.
LEMMA OrphanCalls ==
    ASSUME TypeInv, Ownership, Orphanless, NEW h \in Handlers,
           HandlerStep(h) \/ \E j \in Jobs : StartSave(h, j) \/ CancelLoad(h, j)
    PROVE  Orphanless'
<1> USE DEF TypeInv, WorkersInv, CallsInv, diskVars, queueVars, workerVars, procVars,
            callVars, daemonVars
<1>1. ASSUME NEW j \in Jobs, StartSave(h, j) PROVE Orphanless'
  <2>1. CASE SaveFails(j, Rec("queued", FALSE))
    BY <2>1, FailedSave, RecordFields DEF State
  <2>2. CASE SaveOK(j, Rec("queued", FALSE)) /\ ~SaveFails(j, Rec("queued", FALSE))
    <3>1. /\ OtherRecords(j) /\ store'[j].state = "queued" /\ UNCHANGED faults
      BY <2>2, SaveStates DEF State, SaveOK
    <3>2. /\ hpc[h] \in {"idle", "replied"} /\ hpc'[h] = "enqueue" /\ hjob'[h] = j
          /\ OtherCalls(h) /\ store[j].state = "absent"
          /\ UNCHANGED <<queue, wpc, wjob, daemon>>
      BY <1>1, <2>2 DEF StartSave, CanCall, CallsOK, OtherCalls
    <3>3. \A w \in Workers : wpc[w] = "unregister" => wjob[w] \in Jobs \ {j}
      BY <3>2, Hands DEF Ownership, ProcsOfWorkers, Registered, Early, IdlePC
    <3> QED BY <3>1, <3>2, <3>3 DEF Orphanless, OnItsWay, Held, OtherCalls, OtherRecords
  <2> QED BY <1>1, <2>1, <2>2 DEF StartSave
<1>2. ASSUME StartEnqueue(h) PROVE Orphanless'
  <2>1. /\ hpc[h] = "enqueue" /\ hjob[h] \in Jobs /\ OtherCalls(h)
        /\ Woken /\ UNCHANGED <<wjob, store, faults, daemon>>
    BY <1>2, Hands, EndCallEffect, WakeEffect DEF StartEnqueue
  <2>2. ToSet(queue') = ToSet(queue) \cup {hjob[h]}
    BY <1>2, <2>1, AppendQueue DEF StartEnqueue, QueueOK
  <2> QED BY <2>1, <2>2 DEF Orphanless, OnItsWay, Held, OtherCalls, Woken
<1>3. ASSUME CancelDequeue(h) PROVE Orphanless'
  <2>1. /\ hpc[h] = "dequeue" /\ hjob[h] \in Jobs /\ OtherCalls(h) /\ hjob'[h] = hjob[h]
        /\ UNCHANGED <<wpc, wjob, store, faults, daemon>>
    BY <1>3, Hands, HandlerGotoEffect DEF CancelDequeue
  <2>2. \/ queue' = queue
        \/ hpc'[h] = "cancelQueued" /\ ToSet(queue') = ToSet(queue) \ {hjob[h]}
    <3>1. ASSUME NEW i \in DOMAIN queue, FirstAt(i, hjob[h]), queue' = RemoveAt(queue, i),
                 HandlerGoto(h, "cancelQueued")
          PROVE  hpc'[h] = "cancelQueued" /\ ToSet(queue') = ToSet(queue) \ {hjob[h]}
      <4>1. queue[i] = hjob[h] /\ NoDup(queue)
        BY <3>1 DEF FirstAt, Ownership, SingleOwner, NoDup
      <4>2. ToSet(queue') = ToSet(queue) \ {hjob[h]}
        BY <3>1, <4>1, RemoveAtQueue DEF QueueOK
      <4> QED BY <3>1, <4>2, HandlerGotoEffect
    <3> QED BY <1>3, <3>1 DEF CancelDequeue
  <2> QED BY <2>1, <2>2 DEF Orphanless, OnItsWay, Held, OtherCalls
<1>4. ASSUME CancelQueued(h) \/ CancelMark(h) PROVE Orphanless'
  <2>1. /\ hjob[h] \in Jobs /\ hrec[h].truncated \in BOOLEAN
        /\ UNCHANGED <<queue, wpc, wjob, daemon>>
    BY <1>4, Hands, RecordFields DEF CancelQueued, CancelMark, CallsOK
  <2>2. PICK s \in {"canceled", "canceling"} :
            \/ SaveOK(hjob[h], Rec(s, hrec[h].truncated))
            \/ SaveFails(hjob[h], Rec(s, hrec[h].truncated))
    BY <1>4 DEF CancelQueued, CancelMark
  <2>3. CASE SaveFails(hjob[h], Rec(s, hrec[h].truncated))
    BY <2>1, <2>3, FailedSave, RecordFields DEF State
  <2>4. CASE SaveOK(hjob[h], Rec(s, hrec[h].truncated))
    <3>1. /\ OtherRecords(hjob[h]) /\ store'[hjob[h]].state = s /\ UNCHANGED faults
      BY <2>1, <2>4, SaveStates DEF State, SaveOK
    <3>2. OtherCalls(h)
      BY <1>4, ReplyEffect, EndCallEffect DEF CancelQueued, CancelMark, CallsOK, OtherCalls
    <3>3. \A w \in Workers : wpc[w] = "unregister" => wjob[w] \in Jobs
      BY Hands DEF IdlePC
    <3> QED BY <2>1, <3>1, <3>2, <3>3 DEF Orphanless, OnItsWay, Held, OtherCalls, OtherRecords
  <2> QED BY <2>2, <2>3, <2>4
<1>5. ASSUME \/ \E j \in Jobs : CancelLoad(h, j)
             \/ CancelLookup(h) \/ CancelReread(h) \/ CancelSignal(h) \/ CancelPoll(h)
             \/ CancelTimeout(h)
      PROVE  Orphanless'
  <2>1. /\ hpc[h] \notin {"enqueue", "cancelQueued"} /\ OtherCalls(h)
        /\ UNCHANGED <<queue, wpc, wjob, store, faults, daemon>>
    <3>1. ASSUME NEW j \in Jobs, CancelLoad(h, j) PROVE  /\ hpc[h] \notin {"enqueue", "cancelQueued"} /\ OtherCalls(h)
                 /\ UNCHANGED <<queue, wpc, wjob, store, faults, daemon>>
      BY <3>1 DEF CancelLoad, CanCall, CallsOK, OtherCalls
    <3>2. CASE CancelLookup(h)
      BY <3>2, ReplyEffect, HandlerGotoEffect DEF CancelLookup, Lookup
    <3>3. CASE CancelReread(h) \/ CancelSignal(h) \/ CancelPoll(h) \/ CancelTimeout(h)
      BY <3>3, ReplyEffect, HandlerGotoEffect, EndCallEffect
         DEF CancelReread, CancelSignal, CancelPoll, CancelTimeout
    <3> QED BY <1>5, <3>1, <3>2, <3>3
  <2> QED BY <2>1 DEF Orphanless, OnItsWay, Held, OtherCalls
<1> QED BY <1>1, <1>2, <1>3, <1>4, <1>5 DEF HandlerStep

\* Every worker step does: a worker holds its job until its last record is
\* written, or until a Save has failed.
LEMMA OrphanWorkers ==
    ASSUME TypeInv, Ownership, Orphanless, NEW w \in Workers, WorkerStep(w)
    PROVE  Orphanless'
<1> USE DEF TypeInv, WorkersInv, CallsInv, diskVars, queueVars, workerVars, procVars,
            callVars, daemonVars
<1>1. ASSUME Take(w) PROVE Orphanless'
  <2>1. /\ wpc[w] = "loop" /\ wpc'[w] = "exec" /\ wjob'[w] = Head(queue) /\ OtherWorkers(w)
        /\ UNCHANGED <<hpc, hjob, store, faults, daemon>>
    BY <1>1 DEF Take, WorkersOK, OtherWorkers
  <2>2. ToSet(queue') = ToSet(queue) \ {Head(queue)} /\ wjob[w] = NoJob
    BY <1>1, <2>1, TailQueue DEF Take, QueueOK, Ownership, SingleOwner, NoDup, WorkerHands, IdlePC
  <2> QED BY <2>1, <2>2, RuntimeAssumption DEF Orphanless, OnItsWay, Held, OtherWorkers
<1>2. ASSUME Park(w) \/ Leave(w) PROVE Orphanless'
  <2>1. /\ wpc'[w] # "unregister" /\ OtherWorkers(w)
        /\ UNCHANGED <<queue, wjob, hpc, hjob, store, faults, daemon>>
    BY <1>2, GotoEffect DEF Park, Leave
  <2> QED BY <2>1 DEF Orphanless, OnItsWay, Held, OtherWorkers
<1>3. ASSUME NEW s \in State, NEW t \in BOOLEAN, wpc[w] \notin IdlePC,
             SaveFails(wjob[w], Rec(s, t))
      PROVE  Orphanless'
  BY <1>3, Hands, FailedSave, RecordFields
\* A Save that succeeds.
<1>4. ASSUME NEW s \in State, NEW t \in BOOLEAN, wpc[w] \notin IdlePC,
             SaveOK(wjob[w], Rec(s, t)), OtherWorkers(w),
             UNCHANGED <<queue, hpc, hjob, daemon>>,
             \/ wjob'[w] = wjob[w]
             \/ s \notin {"queued", "preparing", "running"},
             wpc'[w] = "unregister" => /\ wjob'[w] = wjob[w]
                                       /\ s \notin {"queued", "preparing", "running"}
      PROVE  Orphanless'
  <2>1. /\ wjob[w] \in Jobs /\ OtherRecords(wjob[w]) /\ store'[wjob[w]].state = s
        /\ UNCHANGED faults
    BY <1>4, Hands, SaveStates DEF SaveOK
  <2>2. \A v \in Workers : wpc[v] = "unregister" => wjob[v] \in Jobs
    BY Hands DEF IdlePC
  <2>3. \A v \in Workers \ {w} : wjob[v] # wjob[w]
    BY <2>1, RuntimeAssumption DEF Ownership, SingleOwner
  <2> QED BY <1>4, <2>1, <2>2, <2>3 DEF Orphanless, OnItsWay, Held, OtherWorkers, OtherRecords
<1>5. ASSUME SavePreparing(w) \/ SaveRunning(w) \/ SaveCanceled(w) \/ SaveSucceeded(w)
             \/ SaveFailed(w)
      PROVE  Orphanless'
  <2>1. wpc[w] \notin IdlePC /\ wtrunc[w] \in BOOLEAN
    BY <1>5 DEF SavePreparing, SaveRunning, SaveCanceled, SaveSucceeded, SaveFailed,
       IdlePC, WorkersOK
  <2>2. CASE SavePreparing(w) \/ SaveRunning(w)
    <3>1. PICK s \in {"preparing", "running"} :
              \/ SaveFails(wjob[w], Rec(s, FALSE))
              \/ /\ SaveOK(wjob[w], Rec(s, FALSE))
                 /\ Goto(w, "prepare") \/ Goto(w, "register")
      BY <2>2 DEF SavePreparing, SaveRunning
    <3>2. s \in State /\ UNCHANGED <<queue, hpc, hjob, daemon>>
      BY <2>2 DEF SavePreparing, SaveRunning, State
    <3>3. CASE SaveFails(wjob[w], Rec(s, FALSE))
      BY <1>3, <2>1, <3>2, <3>3
    <3>4. CASE SaveOK(wjob[w], Rec(s, FALSE)) /\ (Goto(w, "prepare") \/ Goto(w, "register"))
      <4>1. OtherWorkers(w) /\ wjob' = wjob /\ wpc'[w] # "unregister"
        BY <3>4, GotoEffect
      <4> QED BY <1>4, <2>1, <3>2, <3>4, <4>1
    <3> QED BY <3>1, <3>3, <3>4
  <2>3. CASE SaveCanceled(w) \/ SaveSucceeded(w)
    <3>1. PICK s \in {"canceled", "succeeded"}, t \in BOOLEAN :
              \/ SaveFails(wjob[w], Rec(s, t))
              \/ SaveOK(wjob[w], Rec(s, t)) /\ Goto(w, "unregister")
      BY <2>1, <2>3 DEF SaveCanceled, SaveSucceeded
    <3> QED BY <1>3, <1>4, <2>1, <2>3, <3>1, GotoEffect DEF SaveCanceled, SaveSucceeded, State
  <2>4. CASE SaveFailed(w)
    <3>1. \/ SaveFails(wjob[w], Rec("failed", wtrunc[w]))
          \/ /\ SaveOK(wjob[w], Rec("failed", wtrunc[w]))
             /\ Goto(w, "unregister") \/ Finish(w)
      BY <2>4 DEF SaveFailed
    <3> QED BY <1>3, <1>4, <2>1, <2>4, <3>1, GotoEffect, FinishEffect DEF SaveFailed, State
  <2> QED BY <1>5, <2>2, <2>3, <2>4
<1>6. ASSUME Prepare(w) \/ Register(w) \/ Spawn(w) \/ Exited(w) \/ Terminate(w)
             \/ TermWait(w) \/ KillWait(w)
      PROVE  Orphanless'
  <2>1. \/ \E pc \in WorkerPC \ {"unregister"} : Goto(w, pc)
        \/ \E t \in BOOLEAN : ToFail(w, t)
        \/ ToCanceled(w)
    BY <1>6 DEF Prepare, Register, Spawn, Exited, Terminate, TermWait, KillWait, WorkerPC
  <2>2. wpc'[w] # "unregister" /\ OtherWorkers(w) /\ UNCHANGED wjob
    BY <2>1, GotoEffect, ToFailEffect, ToCanceledEffect
  <2>3. UNCHANGED <<queue, hpc, hjob, store, faults, daemon>>
    BY <1>6 DEF Prepare, Register, Spawn, Exited, Terminate, TermWait, KillWait
  <2> QED BY <2>2, <2>3 DEF Orphanless, OnItsWay, Held, OtherWorkers
<1>7. ASSUME Unregister(w) PROVE Orphanless'
  <2>1. /\ wpc[w] = "unregister" /\ wpc'[w] = "loop" /\ wjob'[w] = NoJob /\ OtherWorkers(w)
        /\ UNCHANGED <<queue, hpc, hjob, store, faults, daemon>>
    BY <1>7, FinishEffect DEF Unregister
  <2> QED BY <2>1 DEF Orphanless, OnItsWay, Held, OtherWorkers
<1> QED BY <1>1, <1>2, <1>5, <1>6, <1>7 DEF WorkerStep

\* recover() leaves nothing on its way before the daemon serves a call.
LEMMA OrphanDaemon ==
    ASSUME TypeInv, Stopped, Orphanless,
           \/ \E j \in Jobs : Overflow(j) \/ ProcExit(j) \/ RecoverJob(j)
           \/ Close \/ Crash \/ Boot \/ RecoverDone
    PROVE  Orphanless'
<1> USE DEF TypeInv, WorkersInv, CallsInv, diskVars, queueVars, workerVars, procVars,
            callVars, daemonVars
<1>1. ASSUME NEW j \in Jobs, Overflow(j) \/ ProcExit(j) PROVE Orphanless'
  BY <1>1 DEF Overflow, ProcExit, Orphanless, OnItsWay, Held
<1>2. ASSUME NEW j \in Jobs, RecoverJob(j) PROVE Orphanless'
  <2>1. Restarted(store[j]) \in Record
    BY RecordFields DEF DiskOK
  <2>2. CASE SaveFails(j, Restarted(store[j]))
    BY <2>1, <2>2, FailedSave
  <2>3. CASE SaveOK(j, Restarted(store[j])) /\ UNCHANGED daemon
    BY <1>2, <2>3 DEF RecoverJob, Stopped, Orphanless
  <2> QED BY <1>2, <2>2, <2>3 DEF RecoverJob
<1>3. ASSUME Close PROVE Orphanless'
  <2>1. Woken /\ UNCHANGED <<queue, wjob, hpc, hjob, store, faults, daemon>>
    BY <1>3, WakeEffect DEF Close
  <2> QED BY <2>1 DEF Orphanless, OnItsWay, Held, Woken
<1>4. ASSUME Crash \/ Boot PROVE Orphanless'
  BY <1>4 DEF Crash, Boot, Stopped, Orphanless
<1>5. ASSUME RecoverDone PROVE Orphanless'
  <2>1. \A j \in Jobs : ~OnItsWay(j)
    BY <1>5 DEF RecoverDone, Interrupted, Persisted, IsTerminal, OnItsWay
  <2> QED BY <1>5, <2>1 DEF RecoverDone, Orphanless, OnItsWay
<1> QED BY <1>1, <1>2, <1>3, <1>4, <1>5

\* While no Save has failed, a record that says its job is on its way has
\* someone to move it, through any number of crashes.
THEOREM RecordsHaveHolders == Spec => []NoOrphanRecord
<1>1. Init => Orphanless
  BY DEF Init, Orphanless, OnItsWay, NoRecord
<1>2. TypeInv /\ Stopped /\ Ownership /\ Orphanless /\ [Next]_vars => Orphanless'
  <2>1. Orphanless /\ UNCHANGED vars => Orphanless'
    BY DEF vars, diskVars, queueVars, workerVars, procVars, callVars, daemonVars,
       Orphanless, OnItsWay, Held
  <2> QED BY <2>1, OrphanCalls, OrphanWorkers, OrphanDaemon DEF Next
<1>3. Orphanless => NoOrphanRecord
  BY DEF Orphanless, OnItsWay, NoOrphanRecord
<1> QED BY <1>1, <1>2, <1>3, TypeCorrect, OwnershipKept, PTL DEF Spec

-----------------------------------------------------------------------------
(* No wakeup is lost.                                                      *)

\* The workers at the top of workerLoop, about to look at the queue.
Awake == {w \in Workers : wpc[w] = "loop"}

\* One worker more, or one fewer, at the top of workerLoop.
LEMMA AwakeCount ==
    ASSUME WorkersOK, NEW w \in Workers
    PROVE  /\ IsFiniteSet(Awake) /\ Cardinality(Awake) \in Nat
           /\ Awake' = Awake \cup {w} /\ wpc[w] # "loop"
                => Cardinality(Awake') = Cardinality(Awake) + 1
           /\ Awake' = Awake \ {w} /\ wpc[w] = "loop"
                => Cardinality(Awake') = Cardinality(Awake) - 1
<1>1. IsFiniteSet(Awake) /\ Awake \subseteq Workers
  BY RuntimeAssumption, FS_Subset DEF Awake
<1>2. w \in Awake <=> wpc[w] = "loop"
  BY DEF Awake
<1>3. Cardinality(Awake) \in Nat
  BY <1>1, FS_CardinalityType
<1>4. ASSUME Awake' = Awake \cup {w}, wpc[w] # "loop"
      PROVE  Cardinality(Awake') = Cardinality(Awake) + 1
  BY <1>1, <1>2, <1>4, FS_AddElement
<1>5. ASSUME Awake' = Awake \ {w}, wpc[w] = "loop"
      PROVE  Cardinality(Awake') = Cardinality(Awake) - 1
  BY <1>1, <1>2, <1>5, FS_RemoveElement
<1>6. QED
  BY <1>1, <1>3, <1>4, <1>5

\* A step that neither adds a task nor takes a worker away from the loop.
LEMMA MoreAwake ==
    ASSUME TypeInv, WorkersOK', WorkConserving, QueueOK',
           Len(queue') <= Len(queue), Awake \subseteq Awake',
           Waiting' \subseteq Waiting
    PROVE  WorkConserving'
<1>1. Awake' \subseteq Workers
  BY DEF Awake
<1>2. IsFiniteSet(Awake') /\ Cardinality(Awake) <= Cardinality(Awake')
  BY <1>1, RuntimeAssumption, FS_Subset DEF Awake
<1>3. /\ Cardinality(Awake) \in Nat /\ Cardinality(Awake') \in Nat
      /\ Len(queue) \in Nat /\ Len(queue') \in Nat
  <2>1. IsFiniteSet(Awake)
    BY RuntimeAssumption, FS_Subset DEF Awake
  <2> QED BY <1>2, <2>1, FS_CardinalityType, LenProperties DEF TypeInv, QueueOK
<1>4. QED
  BY <1>2, <1>3 DEF WorkConserving, Awake

\* Every step keeps enough workers awake for the tasks that wait.
LEMMA PoolNext ==
    ASSUME TypeInv, TypeInv', Stopped, WorkConserving, Next
    PROVE  WorkConserving'
<1> USE DEF TypeInv, WorkersInv, WorkersOK, QueueOK
<1>1. ASSUME UNCHANGED <<wpc, queue>> PROVE WorkConserving'
  BY <1>1 DEF WorkConserving, Waiting
<1>2. ASSUME NEW w \in Workers, OtherWorkers(w), UNCHANGED queue,
             wpc[w] \notin {"loop", "waiting"}, wpc'[w] # "waiting"
      PROVE  WorkConserving'
  <2>1. Awake \subseteq Awake' /\ Waiting' \subseteq Waiting
    BY <1>2 DEF Awake, Waiting, OtherWorkers
  <2> QED BY <1>2, <2>1, MoreAwake
<1>3. ASSUME NEW h \in Handlers, HandlerStep(h) PROVE WorkConserving'
  <2>1. CASE StartEnqueue(h)
    <3>1. Len(queue') = Len(queue) + 1 /\ Len(queue) \in Nat
      BY <2>1 DEF StartEnqueue
    <3>2. CASE Waiting = {}
      <4>1. Waiting' = {}
        BY <2>1, <3>2 DEF StartEnqueue, WakeOne, Waiting
      <4> QED BY <4>1 DEF WorkConserving
    <3>3. CASE Waiting # {}
      <4>1. PICK w \in Waiting : wpc' = [wpc EXCEPT ![w] = "loop"]
        BY <2>1, <3>3 DEF StartEnqueue, WakeOne
      <4>2. Awake' = Awake \cup {w} /\ wpc[w] # "loop" /\ w \in Workers
        BY <4>1 DEF Awake, Waiting
      <4>3. Cardinality(Awake') = Cardinality(Awake) + 1 /\ Cardinality(Awake) \in Nat
        BY <4>2, AwakeCount
      <4> QED BY <3>1, <3>3, <4>3 DEF WorkConserving, Awake
    <3> QED BY <3>2, <3>3
  <2>2. CASE CancelDequeue(h)
    <3>1. UNCHANGED wpc
      BY <2>2 DEF CancelDequeue, workerVars
    <3>2. Len(queue') <= Len(queue)
      <4>1. CASE UNCHANGED queue
        BY <4>1
      <4>2. ASSUME NEW i \in DOMAIN queue, queue' = RemoveAt(queue, i)
            PROVE  Len(queue') <= Len(queue)
        BY <4>2, RemoveAtQueue
      <4> QED BY <2>2, <4>1, <4>2 DEF CancelDequeue
    <3>3. Awake' = Awake /\ Waiting' = Waiting
      BY <3>1 DEF Awake, Waiting
    <3> QED BY <3>2, <3>3, MoreAwake
  <2>3. CASE ~StartEnqueue(h) /\ ~CancelDequeue(h)
    <3>1. UNCHANGED <<wpc, queue>>
      BY <1>3, <2>3 DEF HandlerStep, CancelLookup, CancelQueued, CancelReread, CancelMark,
         CancelSignal, CancelPoll, CancelTimeout, queueVars, workerVars
    <3> QED BY <1>1, <3>1
  <2> QED BY <2>1, <2>2, <2>3
<1>4. ASSUME NEW h \in Handlers, NEW j \in Jobs, StartSave(h, j) \/ CancelLoad(h, j)
      PROVE  WorkConserving'
  BY <1>1, <1>4 DEF StartSave, CancelLoad, queueVars, workerVars
<1>5. ASSUME NEW w \in Workers, Take(w) PROVE WorkConserving'
  <2>1. /\ wpc[w] = "loop" /\ queue # <<>> /\ queue' = Tail(queue)
        /\ wpc' = [wpc EXCEPT ![w] = "exec"]
    BY <1>5 DEF Take
  <2>2. Len(queue') = Len(queue) - 1 /\ Len(queue) \in Nat
    BY <2>1
  <2>3. Awake' = Awake \ {w} /\ Waiting' = Waiting
    BY <2>1 DEF Awake, Waiting
  <2>4. Cardinality(Awake') = Cardinality(Awake) - 1 /\ Cardinality(Awake) \in Nat
    BY <2>1, <2>3, AwakeCount
  <2> QED BY <2>2, <2>3, <2>4 DEF WorkConserving, Awake
<1>6. ASSUME NEW w \in Workers, Park(w) \/ Leave(w) PROVE WorkConserving'
  <2>1. queue' = <<>> /\ Len(queue') = 0
    BY <1>6 DEF Park, Leave, queueVars
  <2>2. Cardinality(Awake)' \in Nat
    <3>1. Awake' \subseteq Workers
      BY DEF Awake
    <3>2. IsFiniteSet(Awake')
      BY <3>1, RuntimeAssumption, FS_Subset
    <3> QED BY <3>2, FS_CardinalityType
  <2> QED BY <2>1, <2>2 DEF WorkConserving, Awake
<1>7. ASSUME NEW w \in Workers, WorkerStep(w), ~Take(w), ~Park(w), ~Leave(w)
      PROVE  WorkConserving'
  <2>1. wpc[w] \notin {"loop", "waiting"} /\ UNCHANGED queue
    BY <1>7 DEF WorkerStep, SavePreparing, Prepare, SaveRunning, Register, Spawn, Exited,
       Terminate, TermWait, KillWait, SaveCanceled, SaveSucceeded, SaveFailed, Unregister, queueVars
  <2>2. OtherWorkers(w) /\ wpc'[w] # "waiting"
    <3>1. \/ \E pc \in WorkerPC \ {"waiting"} : Goto(w, pc)
          \/ \E t \in BOOLEAN : ToFail(w, t)
          \/ ToCanceled(w) \/ Finish(w)
      BY <1>7 DEF WorkerStep, SavePreparing, Prepare, SaveRunning, Register, Spawn, Exited,
         Terminate, TermWait, KillWait, SaveCanceled, SaveSucceeded, SaveFailed, Unregister, WorkerPC
    <3> QED BY <3>1, GotoEffect, ToFailEffect, ToCanceledEffect, FinishEffect
  <2> QED BY <1>2, <2>1, <2>2
<1>8. ASSUME NEW j \in Jobs, Overflow(j) \/ ProcExit(j) \/ RecoverJob(j)
      PROVE  WorkConserving'
  BY <1>1, <1>8 DEF Overflow, ProcExit, RecoverJob, queueVars, workerVars
<1>9. ASSUME Close \/ Crash \/ RecoverDone PROVE WorkConserving'
  <2>1. Waiting' = {}
    BY <1>9 DEF Close, WakeAll, Crash, RecoverDone, Waiting
  <2> QED BY <2>1 DEF WorkConserving
<1>10. ASSUME Boot PROVE WorkConserving'
  BY <1>1, <1>10 DEF Boot, queueVars, workerVars
<1> QED BY <1>3, <1>4, <1>5, <1>6, <1>7, <1>8, <1>9, <1>10 DEF Next

\* No wakeup is lost: while a worker sleeps, every waiting task has a worker on
\* its way to it, whatever Start, Cancel, Close and the other workers do.
THEOREM NoWakeupLost == Spec => []WorkConserving
<1>1. Init => WorkConserving
  BY DEF Init, WorkConserving, Waiting
<1>2. TypeInv /\ TypeInv' /\ Stopped /\ WorkConserving /\ [Next]_vars => WorkConserving'
  <2>1. WorkConserving /\ UNCHANGED vars => WorkConserving'
    BY DEF vars, queueVars, workerVars, WorkConserving, Waiting
  <2> QED BY <2>1, PoolNext
<1> QED BY <1>1, <1>2, TypeCorrect, PTL DEF Spec
=============================================================================

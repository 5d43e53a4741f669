------------------------- MODULE RuntimeProperties -------------------------
(***************************************************************************)
(* What must hold of the runtime: the invariants, the lifecycles it        *)
(* implements, the liveness of the pool, and, at the end, the statements   *)
(* of the repository's comments and tests that the code does not keep.     *)
(***************************************************************************)
EXTENDS Runtime

WorkerPC == {"loop", "waiting", "exec", "prepare", "saverun", "register", "spawn",
             "wait", "terminate", "kill", "cancel", "succeed", "fail",
             "unregister", "exited"}
HandlerPC == {"idle", "enqueue", "lookup", "dequeue", "cancelQueued", "reread",
              "mark", "signal", "poll", "replied"}

DiskOK == store \in [Jobs -> Record] /\ faults \in 0..MaxFaults
QueueOK == queue \in Seq(Jobs) /\ closed \in BOOLEAN
WorkersOK == /\ wpc \in [Workers -> WorkerPC]
             /\ wjob \in [Workers -> Jobs \cup {NoJob}]
             /\ wtrunc \in [Workers -> BOOLEAN]
ProcsOK == /\ procs \subseteq Jobs /\ signalled \subseteq Jobs /\ overflow \subseteq Jobs
           /\ proc \in [Jobs -> {"none", "alive", "gone"}]
CallsOK == /\ hpc \in [Handlers -> HandlerPC]
           /\ hjob \in [Handlers -> Jobs \cup {NoJob}]
           /\ hrec \in [Handlers -> Record] /\ hsup \in [Handlers -> BOOLEAN]
DaemonOK == daemon \in {"down", "recovering", "up"} /\ crashes \in 0..MaxCrashes

\* Every variable has its type.
TypeOK == DiskOK /\ QueueOK /\ WorkersOK /\ ProcsOK /\ CallsOK /\ DaemonOK

-----------------------------------------------------------------------------
\* A job is in the queue at most once, held by at most one worker, and never
\* both: append, the head removal of workerLoop and Cancel's removal from the
\* middle, all under queueMu, hand each task to exactly one party.
SingleOwner ==
    /\ \A i, k \in DOMAIN queue : queue[i] = queue[k] => i = k
    /\ \A w \in Workers : wjob[w] \notin ToSet(queue)
    /\ \A v, w \in Workers : v # w /\ wjob[v] = wjob[w] => wjob[v] = NoJob

\* No agent is launched twice for a job, and none for a job whose record is
\* already terminal, whatever Cancel, crashes and failed Saves did before.
LaunchFresh ==
    \A w \in Workers : wpc[w] = "spawn" =>
        /\ proc[wjob[w]] = "none"
        /\ ~IsTerminal(store[wjob[w]].state)

\* The record a client polls follows the worker that holds the job: no Cancel,
\* however stale the record it loaded, makes a held job look finished or not
\* yet started.  (After a failed Save, and once the worker wrote its last
\* record, nothing is owed.)
RecordAt(pc, s) ==
    /\ pc = "exec" => s = "queued"
    /\ pc \in {"prepare", "saverun"} => s = "preparing"
    /\ pc = "register" => s = "running"
    /\ pc \in {"spawn", "wait", "succeed"} => s \in {"running", "canceling"}
    /\ pc \in {"terminate", "kill", "cancel"} => s = "canceling"
    /\ pc = "fail" => /\ s \notin {"absent", "canceled"}
                      /\ s = "succeeded" => "applied" \in SaveErrors

RecordTracksWorker ==
    \A w \in Workers : wjob[w] # NoJob => RecordAt(wpc[w], store[wjob[w]].state)

\* As long as no Save has failed, a record that says a job is on its way has
\* someone to move it: Start before the enqueue, the queue, a worker, or a
\* Cancel that took it out of the queue.  recover() restores this after a crash.
Held(j) == \/ j \in ToSet(queue)
           \/ \E w \in Workers : wjob[w] = j
           \/ \E h \in Handlers : hjob[h] = j /\ hpc[h] \in {"enqueue", "cancelQueued"}

NoOrphanRecord ==
    faults = 0 /\ daemon = "up" =>
        \A j \in Jobs : store[j].state \in {"queued", "preparing", "running"} => Held(j)

\* No lost wakeup: while a worker sleeps in queueCond.Wait, enough awake
\* workers are about to look at the queue to take every task in it.
WorkConserving ==
    Waiting # {} => Len(queue) <= Cardinality({w \in Workers : wpc[w] = "loop"})

\* When a client has been told "canceled", the job is not waiting to be run and
\* the worker that ran it, if one did, has nothing left but its cleanup.
CanceledReplyIsFinal ==
    \A h \in Handlers :
        hpc[h] = "replied" /\ hrec[h].state = "canceled" =>
            /\ hjob[h] \notin ToSet(queue)
            /\ \A w \in Workers : wjob[w] = hjob[h] => wpc[w] = "unregister"

-----------------------------------------------------------------------------
(* Why the invariants above hold: who owns a job, and what its owner and   *)
(* the calls about it may assume of its record.                            *)

Early == {"absent", "queued", "preparing"}
Unregistered == {"exec", "prepare", "saverun", "register"}
Registered == {"spawn", "wait", "terminate", "kill", "cancel", "succeed", "unregister"}
Fresh(j) == store[j].state = "queued" /\ proc[j] = "none"

\* A call that has just persisted a job, or has just taken it from the queue.
Claims(h) == hpc[h] \in {"enqueue", "cancelQueued"}

QueuedFresh == \A j \in ToSet(queue) : Fresh(j)

ClaimsOwn ==
    \A h \in Handlers : Claims(h) =>
        /\ Fresh(hjob[h]) /\ hjob[h] \notin ToSet(queue)
        /\ \A w \in Workers : wjob[w] # hjob[h]
        /\ \A g \in Handlers \ {h} : Claims(g) => hjob[g] # hjob[h]

NotLaunched ==
    /\ \A j \in Jobs : store[j].state = "absent" => proc[j] = "none"
    /\ \A w \in Workers : wpc[w] \in Unregistered \cup {"spawn"} => proc[wjob[w]] = "none"

ProcsOfWorkers ==
    /\ \A w \in Workers : /\ wpc[w] \in Registered => wjob[w] \in procs
                          /\ wpc[w] \in Unregistered => wjob[w] \notin procs
    /\ \A j \in procs : store[j].state \notin Early /\ \E w \in Workers : wjob[w] = j
    /\ signalled \subseteq procs

\* A Cancel that goes on to write "canceling" found the process registered.
MarksAfterRegister ==
    \A h \in Handlers : hpc[h] \in {"mark", "signal"} =>
        /\ hjob[h] \in Cancelable
        /\ store[hjob[h]].state \notin Early
        /\ \A w \in Workers : wjob[w] = hjob[h] => wpc[w] # "register"

SignalsAfterMark ==
    \A w \in Workers :
        wpc[w] \in Registered \ {"unregister"} /\
        (wjob[w] \in signalled \/ \E h \in Handlers : hpc[h] = "signal" /\ hjob[h] = wjob[w])
            => store[wjob[w]].state = "canceling"

\* Once "canceled" was persisted or loaded, the job is never run again.
Over(j) == /\ store[j].state \notin Early \cup {"running"}
           /\ j \notin ToSet(queue)
           /\ \A w \in Workers : wjob[w] = j => wpc[w] = "unregister"

CanceledOver ==
    /\ \A j \in Jobs : store[j].state = "canceled" => Over(j)
    /\ \A h \in Handlers : hpc[h] # "idle" /\ hrec[h].state = "canceled" => Over(hjob[h])

\* The ownership discipline of the queue, the workers and the calls.
Ownership == /\ SingleOwner /\ QueuedFresh /\ ClaimsOwn
             /\ RecordTracksWorker /\ NotLaunched /\ ProcsOfWorkers
             /\ MarksAfterRegister /\ SignalsAfterMark /\ CanceledOver

-----------------------------------------------------------------------------
\* Jobs whose adapter cannot cancel keep the documented lifecycle of state.go,
\* through crashes and through Saves that fail before the rename.
Incapable == Jobs \ Cancelable

Lifecycle == INSTANCE JobLifecycle WITH
    Jobs <- Incapable, Edges <- edges,
    status <- [j \in Incapable |-> store[j].state]

IncapableLifecycle == Lifecycle!Spec

\* Every job keeps the lifecycle the code really has: the documented edges, a
\* success recorded after "canceling", a stale Cancel that puts "canceling" over
\* a terminal record, and a Save(succeeded) reported as failed after its rename.
ObservedEdges ==
    edges \cup {<<"canceling", "succeeded">>}
          \cup ({"succeeded", "failed", "canceled"} \X {"canceling"})
          \cup (IF "applied" \in SaveErrors THEN {<<"succeeded", "failed">>} ELSE {})

Observed == INSTANCE JobLifecycle WITH
    Jobs <- Jobs, Edges <- ObservedEdges,
    status <- [j \in Jobs |-> store[j].state]

ObservedLifecycle == Observed!Spec

-----------------------------------------------------------------------------
\* A job queued before Close is run to a terminal record, or the daemon dies:
\* no wakeup is lost and Close drains the backlog (no Save errors; jobs whose
\* adapter cannot cancel).
DrainsBacklog ==
    \A j \in Incapable :
        (j \in ToSet(queue) /\ ~closed) ~> (IsTerminal(store[j].state) \/ daemon = "down")

\* Close returns: every worker leaves (wg.Wait), whatever is queued meanwhile.
CloseReturns == closed ~> (daemon = "down" \/ \A w \in Workers : wpc[w] = "exited")

\* A Cancel call always ends, even when the record never becomes terminal.
CancelReturns == \A h \in Handlers : hpc[h] = "poll" ~> hpc[h] # "poll"

-----------------------------------------------------------------------------
(* Statements of the repository that the code does not keep.               *)

\* state.go:20 says a terminal state admits no further transition.  A Cancel
\* that loaded "running" before the worker finished writes "canceling" over it.
TerminalIsFinal ==
    [][\A j \in Jobs : IsTerminal(store[j].state) => store'[j].state = store[j].state]_vars
=============================================================================

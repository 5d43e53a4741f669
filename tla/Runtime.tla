------------------------------ MODULE Runtime ------------------------------
(***************************************************************************)
(* The job runtime of the cliostrad daemon (internal/runtime): the durable *)
(* store of job records, the in-memory queue and its condition variable,   *)
(* the bounded pool of workers, the table of running processes, the RPC    *)
(* calls Start and Cancel, and what survives a crash of the daemon.        *)
(*                                                                         *)
(* Store.Save is one step here: it succeeds, or fails having changed       *)
(* nothing ("lost": any error before the rename) or having replaced the    *)
(* record ("applied": the fsync of the directory failed).                  *)
(***************************************************************************)
EXTENDS JobStates, Naturals, Sequences, FiniteSets, SequencesExt

CONSTANTS Jobs,        \* job ids that Start may draw
          Workers,     \* the goroutines of the pool
          Handlers,    \* the goroutines that serve client calls
          Cancelable,  \* the jobs whose adapter declares Capabilities().Cancel
          NoJob,       \* "no job in hand"
          SaveErrors,  \* how a Save may fail: a subset of {"lost", "applied"}
          MaxFaults,   \* bound: how many Saves fail
          MaxCrashes,  \* bound: how many times the daemon dies
          MayClose     \* whether Runtime.Close may be called

ASSUME RuntimeAssumption ==
    /\ IsFiniteSet(Workers) /\ Workers # {}
    /\ Cancelable \subseteq Jobs
    /\ NoJob \notin Jobs
    /\ SaveErrors \subseteq {"lost", "applied"}
    /\ MaxFaults \in Nat /\ MaxCrashes \in Nat
    /\ MayClose \in BOOLEAN

VARIABLES
    store,      \* store[j]: the record on disk, state "absent" if there is none
    faults,     \* how many Saves have failed
    queue,      \* the tasks waiting for a worker, in order
    closed,     \* Runtime.closed
    wpc,        \* wpc[w]: where worker w is in workerLoop / execute
    wjob,       \* wjob[w]: the task worker w holds
    wtrunc,     \* wtrunc[w]: the Truncated flag worker w is about to persist
    procs,      \* the jobs registered in Runtime.procs
    signalled,  \* the registered jobs whose procHandle.cancel is closed
    proc,       \* proc[j]: the agent's process: none, alive, gone (Wait returned)
    overflow,   \* the registered jobs whose output exceeded MaxStreamSize
    hpc,        \* hpc[h]: where the handler h is in Start / Cancel
    hjob,       \* hjob[h]: the job its call is about
    hrec,       \* hrec[h]: the record the call holds (Cancel's local j)
    hsup,       \* hsup[h]: the "supported" flag of the last reply
    daemon,     \* down, recovering (inside New) or up
    crashes     \* how many times the daemon has died

diskVars   == <<store, faults>>
queueVars  == <<queue, closed>>
workerVars == <<wpc, wjob, wtrunc>>
procVars   == <<procs, signalled, proc, overflow>>
callVars   == <<hpc, hjob, hrec, hsup>>
daemonVars == <<daemon, crashes>>
vars == <<diskVars, queueVars, workerVars, procVars, callVars, daemonVars>>

Record == [state : State \cup {"absent"}, truncated : BOOLEAN]
NoRecord == [state |-> "absent", truncated |-> FALSE]
Rec(s, t) == [state |-> s, truncated |-> t]

-----------------------------------------------------------------------------
\* The outcomes of Store.Save, for the record r of job j.
SaveOK(j, r) == store' = [store EXCEPT ![j] = r] /\ UNCHANGED faults

SaveFails(j, r) ==
    /\ faults < MaxFaults
    /\ faults' = faults + 1
    /\ \/ "lost" \in SaveErrors /\ UNCHANGED store
       \/ "applied" \in SaveErrors /\ store' = [store EXCEPT ![j] = r]

\* The worker moves on; `fail` will persist "failed" with this Truncated flag.
Goto(w, pc) == wpc' = [wpc EXCEPT ![w] = pc] /\ UNCHANGED <<wjob, wtrunc>>
ToFail(w, truncated) == /\ wpc' = [wpc EXCEPT ![w] = "fail"]
                        /\ wtrunc' = [wtrunc EXCEPT ![w] = truncated]
                        /\ UNCHANGED wjob

\* execute returns: the task is dropped and the loop starts over.
Finish(w) == /\ wpc' = [wpc EXCEPT ![w] = "loop"]
             /\ wjob' = [wjob EXCEPT ![w] = NoJob]
             /\ wtrunc' = [wtrunc EXCEPT ![w] = FALSE]

\* queueCond.Signal wakes one waiting worker, if there is one; Broadcast all.
Waiting == {w \in Workers : wpc[w] = "waiting"}

WakeNone == UNCHANGED wpc

WakeOne == IF Waiting = {} THEN UNCHANGED wpc
           ELSE \E w \in Waiting : wpc' = [wpc EXCEPT ![w] = "loop"]

WakeAll == wpc' = [w \in Workers |-> IF w \in Waiting THEN "loop" ELSE wpc[w]]

-----------------------------------------------------------------------------
(* Start: persist the record as queued, then enqueue the task.             *)

\* A handler goroutine serves its next request only after the last reply.
CanCall(h) == daemon = "up" /\ hpc[h] \in {"idle", "replied"}

\* The call ends without a record to report.
EndCall(h) == /\ hpc' = [hpc EXCEPT ![h] = "idle"]
              /\ hjob' = [hjob EXCEPT ![h] = NoJob]
              /\ hrec' = [hrec EXCEPT ![h] = NoRecord]
              /\ hsup' = [hsup EXCEPT ![h] = FALSE]

\* The call reports record r and the supported flag to its client.
Reply(h, r, supported) == /\ hpc' = [hpc EXCEPT ![h] = "replied"]
                          /\ hrec' = [hrec EXCEPT ![h] = r]
                          /\ hsup' = [hsup EXCEPT ![h] = supported]
                          /\ UNCHANGED hjob

HandlerGoto(h, pc) == /\ hpc' = [hpc EXCEPT ![h] = pc]
                      /\ UNCHANGED <<hjob, hrec, hsup>>

StartSave(h, j) ==
    /\ CanCall(h)
    /\ store[j].state = "absent"
    /\ \/ /\ SaveOK(j, Rec("queued", FALSE))
          /\ hpc' = [hpc EXCEPT ![h] = "enqueue"]
          /\ hjob' = [hjob EXCEPT ![h] = j]
          /\ hrec' = [hrec EXCEPT ![h] = NoRecord]
          /\ hsup' = [hsup EXCEPT ![h] = FALSE]
       \/ /\ SaveFails(j, Rec("queued", FALSE))
          /\ EndCall(h)
    /\ UNCHANGED <<queueVars, workerVars, procVars, daemonVars>>

StartEnqueue(h) ==
    /\ hpc[h] = "enqueue"
    /\ queue' = Append(queue, hjob[h])
    /\ WakeOne
    /\ EndCall(h)
    /\ UNCHANGED <<diskVars, closed, wjob, wtrunc, procVars, daemonVars>>

-----------------------------------------------------------------------------
(* Cancel.                                                                 *)

CancelLoad(h, j) ==
    /\ CanCall(h)
    /\ store[j].state # "absent"
    /\ hpc' = [hpc EXCEPT ![h] = "lookup"]
    /\ hjob' = [hjob EXCEPT ![h] = j]
    /\ hrec' = [hrec EXCEPT ![h] = store[j]]
    /\ hsup' = [hsup EXCEPT ![h] = FALSE]
    /\ UNCHANGED <<diskVars, queueVars, workerVars, procVars, daemonVars>>

LookupWithoutCapability(h) == LET r == hrec[h] IN
    IF hjob[h] \notin procs
    THEN IF IsTerminal(r.state)      THEN Reply(h, r, TRUE)
         ELSE IF r.state = "queued" THEN HandlerGoto(h, "dequeue")
         ELSE Reply(h, r, FALSE)
    ELSE IF ~Transition(r.state, "canceling") THEN Reply(h, r, TRUE)
         ELSE HandlerGoto(h, "mark")

\* What Cancel does once it knows whether the job has a registered process.
Lookup(h) == LET r == hrec[h] IN
    IF hjob[h] \notin procs
    THEN IF IsTerminal(r.state)      THEN Reply(h, r, TRUE)
         ELSE IF r.state = "queued" THEN HandlerGoto(h, "dequeue")
         ELSE Reply(h, r, FALSE)
    ELSE IF hjob[h] \notin Cancelable                THEN Reply(h, r, FALSE)
         ELSE IF ~Transition(r.state, "canceling") THEN Reply(h, r, TRUE)
         ELSE HandlerGoto(h, "mark")

CancelLookup(h) ==
    /\ hpc[h] = "lookup"
    /\ Lookup(h)
    /\ UNCHANGED <<diskVars, queueVars, workerVars, procVars, daemonVars>>

\* Take the task back (the first one with this id) if no worker has it yet;
\* otherwise read the record again.
FirstAt(i, j) == queue[i] = j /\ \A k \in 1..(i - 1) : queue[k] # j

CancelDequeueAnyway(h) ==
    /\ hpc[h] = "dequeue"
    /\ HandlerGoto(h, "cancelQueued")
    /\ UNCHANGED <<diskVars, queueVars, workerVars, procVars, daemonVars>>

CancelDequeue(h) ==
    /\ hpc[h] = "dequeue"
    /\ \/ \E i \in DOMAIN queue : /\ FirstAt(i, hjob[h])
                                  /\ queue' = RemoveAt(queue, i)
                                  /\ HandlerGoto(h, "cancelQueued")
       \/ /\ hjob[h] \notin ToSet(queue)
          /\ HandlerGoto(h, "reread")
          /\ UNCHANGED queue
    /\ UNCHANGED <<diskVars, closed, workerVars, procVars, daemonVars>>

CancelQueued(h) == LET r == Rec("canceled", hrec[h].truncated) IN
    /\ hpc[h] = "cancelQueued"
    /\ \/ SaveOK(hjob[h], r) /\ Reply(h, r, TRUE)
       \/ SaveFails(hjob[h], r) /\ EndCall(h)
    /\ UNCHANGED <<queueVars, workerVars, procVars, daemonVars>>

CancelReread(h) == LET r == store[hjob[h]] IN
    /\ hpc[h] = "reread"
    /\ Reply(h, r, IsTerminal(r.state))
    /\ UNCHANGED <<diskVars, queueVars, workerVars, procVars, daemonVars>>

CancelMark(h) == LET r == Rec("canceling", hrec[h].truncated) IN
    /\ hpc[h] = "mark"
    /\ \/ /\ SaveOK(hjob[h], r)
          /\ hpc' = [hpc EXCEPT ![h] = "signal"]
          /\ hrec' = [hrec EXCEPT ![h] = r]
          /\ UNCHANGED <<hjob, hsup>>
       \/ SaveFails(hjob[h], r) /\ EndCall(h)
    /\ UNCHANGED <<queueVars, workerVars, procVars, daemonVars>>

\* signalCancel closes the channel at most once, whoever calls it.  Closing the
\* channel of a handle whose worker has left reaches nobody.
CancelSignal(h) ==
    /\ hpc[h] = "signal"
    /\ signalled' = signalled \cup ({hjob[h]} \cap procs)
    /\ HandlerGoto(h, "poll")
    /\ UNCHANGED <<diskVars, queueVars, workerVars, procs, proc, overflow, daemonVars>>

CancelPoll(h) == LET r == store[hjob[h]] IN
    /\ hpc[h] = "poll"
    /\ IsTerminal(r.state)
    /\ Reply(h, r, TRUE)
    /\ UNCHANGED <<diskVars, queueVars, workerVars, procVars, daemonVars>>

NoCancelTimeout(h) == FALSE

\* The 10 s deadline passes: the client gets an error.  The record may have
\* become terminal since the last Load.
CancelTimeout(h) ==
    /\ hpc[h] = "poll"
    /\ EndCall(h)
    /\ UNCHANGED <<diskVars, queueVars, workerVars, procVars, daemonVars>>

HandlerStep(h) ==
    \/ StartEnqueue(h) \/ CancelLookup(h) \/ CancelDequeue(h) \/ CancelQueued(h)
    \/ CancelReread(h) \/ CancelMark(h) \/ CancelSignal(h)
    \/ CancelPoll(h) \/ CancelTimeout(h)

-----------------------------------------------------------------------------
(* workerLoop: wait for a task, or leave once closed and drained.          *)

TakeWithoutRemoving(w) ==
    /\ wpc[w] = "loop" /\ queue # <<>>
    /\ wjob' = [wjob EXCEPT ![w] = Head(queue)]
    /\ wpc' = [wpc EXCEPT ![w] = "exec"]
    /\ UNCHANGED <<diskVars, queueVars, wtrunc, procVars, callVars, daemonVars>>

Take(w) ==
    /\ wpc[w] = "loop" /\ queue # <<>>
    /\ wjob' = [wjob EXCEPT ![w] = Head(queue)]
    /\ queue' = Tail(queue)
    /\ wpc' = [wpc EXCEPT ![w] = "exec"]
    /\ UNCHANGED <<diskVars, closed, wtrunc, procVars, callVars, daemonVars>>

Park(w) ==
    /\ wpc[w] = "loop" /\ queue = <<>> /\ ~closed
    /\ Goto(w, "waiting")
    /\ UNCHANGED <<diskVars, queueVars, procVars, callVars, daemonVars>>

LeaveUndrained(w) ==
    /\ wpc[w] = "loop" /\ closed
    /\ Goto(w, "exited")
    /\ UNCHANGED <<diskVars, queueVars, procVars, callVars, daemonVars>>

Leave(w) ==
    /\ wpc[w] = "loop" /\ queue = <<>> /\ closed
    /\ Goto(w, "exited")
    /\ UNCHANGED <<diskVars, queueVars, procVars, callVars, daemonVars>>

-----------------------------------------------------------------------------
(* execute: each Save is followed by the steps up to the next one.         *)

SavePreparing(w) == LET r == Rec("preparing", FALSE) IN
    /\ wpc[w] = "exec"
    /\ \/ SaveOK(wjob[w], r) /\ Goto(w, "prepare")
       \/ SaveFails(wjob[w], r) /\ ToFail(w, FALSE)
    /\ UNCHANGED <<queueVars, procVars, callVars, daemonVars>>

\* The repository root or the worktree, then the adapter's Build.
Prepare(w) ==
    /\ wpc[w] = "prepare"
    /\ Goto(w, "saverun") \/ ToFail(w, FALSE)
    /\ UNCHANGED <<diskVars, queueVars, procVars, callVars, daemonVars>>

SaveRunning(w) == LET r == Rec("running", FALSE) IN
    /\ wpc[w] = "saverun"
    /\ \/ SaveOK(wjob[w], r) /\ Goto(w, "register")
       \/ SaveFails(wjob[w], r) /\ ToFail(w, FALSE)
    /\ UNCHANGED <<queueVars, procVars, callVars, daemonVars>>

\* From here on Cancel finds the procHandle.
Register(w) ==
    /\ wpc[w] = "register"
    /\ procs' = procs \cup {wjob[w]}
    /\ Goto(w, "spawn")
    /\ UNCHANGED <<diskVars, queueVars, signalled, proc, overflow, callVars, daemonVars>>

\* cmd.Start: the agent runs, or the error ends in "failed".
Spawn(w) ==
    /\ wpc[w] = "spawn"
    /\ \/ proc' = [proc EXCEPT ![wjob[w]] = "alive"] /\ Goto(w, "wait")
       \/ UNCHANGED proc /\ ToFail(w, FALSE)
    /\ UNCHANGED <<diskVars, queueVars, procs, signalled, overflow, callVars, daemonVars>>

\* The select of runProcess takes either ready branch.  Wait has returned:
\* overflow, a non-zero exit, an unreadable or oversized result, or success.
Exited(w) ==
    /\ wpc[w] = "wait" /\ proc[wjob[w]] = "gone"
    /\ IF wjob[w] \in overflow THEN ToFail(w, TRUE)
       ELSE ToFail(w, FALSE) \/ ToFail(w, TRUE) \/ Goto(w, "succeed")
    /\ UNCHANGED <<diskVars, queueVars, procVars, callVars, daemonVars>>

\* A cancellation was signalled: SIGTERM to the group.
Terminate(w) ==
    /\ wpc[w] = "wait" /\ wjob[w] \in signalled
    /\ Goto(w, "terminate")
    /\ UNCHANGED <<diskVars, queueVars, procVars, callVars, daemonVars>>

\* After the TERM, Wait returns within 5 s or the group gets SIGKILL; after
\* that, Wait returns within 2 s or runProcess stops waiting for it.
ToCanceled(w) == /\ wpc' = [wpc EXCEPT ![w] = "cancel"]
                 /\ wtrunc' = [wtrunc EXCEPT ![w] = wjob[w] \in overflow]
                 /\ UNCHANGED wjob

TermWait(w) ==
    /\ wpc[w] = "terminate"
    /\ \/ proc[wjob[w]] = "gone" /\ ToCanceled(w)
       \/ Goto(w, "kill")
    /\ UNCHANGED <<diskVars, queueVars, procVars, callVars, daemonVars>>

KillWait(w) ==
    /\ wpc[w] = "kill"
    /\ ToCanceled(w)
    /\ UNCHANGED <<diskVars, queueVars, procVars, callVars, daemonVars>>

\* An error here is only logged.
SaveCanceled(w) == LET r == Rec("canceled", wtrunc[w]) IN
    /\ wpc[w] = "cancel"
    /\ SaveOK(wjob[w], r) \/ SaveFails(wjob[w], r)
    /\ Goto(w, "unregister")
    /\ UNCHANGED <<queueVars, procVars, callVars, daemonVars>>

SaveSucceeded(w) == LET r == Rec("succeeded", FALSE) IN
    /\ wpc[w] = "succeed"
    /\ \/ SaveOK(wjob[w], r) /\ Goto(w, "unregister")
       \/ SaveFails(wjob[w], r) /\ ToFail(w, FALSE)
    /\ UNCHANGED <<queueVars, procVars, callVars, daemonVars>>

\* fail: an error is only logged; execute then returns.
SaveFailed(w) == LET r == Rec("failed", wtrunc[w]) IN
    /\ wpc[w] = "fail"
    /\ SaveOK(wjob[w], r) \/ SaveFails(wjob[w], r)
    /\ IF wjob[w] \in procs THEN Goto(w, "unregister") ELSE Finish(w)
    /\ UNCHANGED <<queueVars, procVars, callVars, daemonVars>>

\* The deferred delete from procs: no worker reads the handle or the output
\* buffer of this job again.
Unregister(w) ==
    /\ wpc[w] = "unregister"
    /\ procs' = procs \ {wjob[w]}
    /\ signalled' = signalled \ {wjob[w]}
    /\ overflow' = overflow \ {wjob[w]}
    /\ Finish(w)
    /\ UNCHANGED <<diskVars, queueVars, proc, callVars, daemonVars>>

WorkerStep(w) ==
    \/ Take(w) \/ Park(w) \/ Leave(w)
    \/ SavePreparing(w) \/ Prepare(w) \/ SaveRunning(w) \/ Register(w) \/ Spawn(w)
    \/ Exited(w) \/ Terminate(w) \/ TermWait(w) \/ KillWait(w)
    \/ SaveCanceled(w) \/ SaveSucceeded(w) \/ SaveFailed(w) \/ Unregister(w)

-----------------------------------------------------------------------------
(* The agent's process (external).  Its output may exceed the limit, which *)
(* kills it; sooner or later it ends and Wait returns.                     *)

Overflow(j) ==
    /\ proc[j] = "alive" /\ j \in procs \ overflow
    /\ overflow' = overflow \cup {j}
    /\ UNCHANGED <<diskVars, queueVars, workerVars, procs, signalled, proc, callVars, daemonVars>>

ProcExit(j) ==
    /\ proc[j] = "alive"
    /\ proc' = [proc EXCEPT ![j] = "gone"]
    /\ UNCHANGED <<diskVars, queueVars, workerVars, procs, signalled, overflow,
                   callVars, daemonVars>>

-----------------------------------------------------------------------------
(* The daemon: Close, a crash, and New's recovery before any client call.  *)

CloseWakingOne ==
    /\ MayClose /\ daemon = "up" /\ ~closed
    /\ closed' = TRUE
    /\ WakeOne
    /\ UNCHANGED <<diskVars, queue, wjob, wtrunc, procVars, callVars, daemonVars>>

Close ==
    /\ MayClose /\ daemon = "up" /\ ~closed
    /\ closed' = TRUE
    /\ WakeAll
    /\ UNCHANGED <<diskVars, queue, wjob, wtrunc, procVars, callVars, daemonVars>>

\* Everything in memory is lost; the agents, in their own process groups, and
\* the records on disk are not.
Crash ==
    /\ daemon # "down" /\ crashes < MaxCrashes
    /\ crashes' = crashes + 1
    /\ daemon' = "down"
    /\ queue' = <<>> /\ closed' = FALSE
    /\ wpc' = [w \in Workers |-> "exited"]
    /\ wjob' = [w \in Workers |-> NoJob]
    /\ wtrunc' = [w \in Workers |-> FALSE]
    /\ procs' = {} /\ signalled' = {} /\ overflow' = {}
    /\ hpc' = [h \in Handlers |-> "idle"]
    /\ hjob' = [h \in Handlers |-> NoJob]
    /\ hrec' = [h \in Handlers |-> NoRecord]
    /\ hsup' = [h \in Handlers |-> FALSE]
    /\ UNCHANGED <<diskVars, proc>>

Boot ==
    /\ daemon = "down"
    /\ daemon' = "recovering"
    /\ UNCHANGED <<diskVars, queueVars, workerVars, procVars, callVars, crashes>>

Persisted(r) == r.state # "absent"
OnlyRunning(r) == r.state = "running"

\* The records recover() rewrites: those not terminal.
Interrupted(r) == Persisted(r) /\ ~IsTerminal(r.state)

ReasonAsState(r) == [r EXCEPT !.state = "daemon_restarted"]
Restarted(r) == [r EXCEPT !.state = "failed"]

\* One record of recover(); an error makes New fail and the daemon exit.
RecoverJob(j) ==
    /\ daemon = "recovering" /\ Interrupted(store[j])
    /\ \/ SaveOK(j, Restarted(store[j])) /\ UNCHANGED daemon
       \/ SaveFails(j, Restarted(store[j])) /\ daemon' = "down"
    /\ UNCHANGED <<queueVars, workerVars, procVars, callVars, crashes>>

RecoverDone ==
    /\ daemon = "recovering" /\ \A j \in Jobs : ~Interrupted(store[j])
    /\ daemon' = "up"
    /\ wpc' = [w \in Workers |-> "loop"]
    /\ UNCHANGED <<diskVars, queueVars, wjob, wtrunc, procVars, callVars, crashes>>

-----------------------------------------------------------------------------
Init ==
    /\ store = [j \in Jobs |-> NoRecord] /\ faults = 0
    /\ queue = <<>> /\ closed = FALSE
    /\ wpc = [w \in Workers |-> "loop"]
    /\ wjob = [w \in Workers |-> NoJob]
    /\ wtrunc = [w \in Workers |-> FALSE]
    /\ procs = {} /\ signalled = {} /\ overflow = {}
    /\ proc = [j \in Jobs |-> "none"]
    /\ hpc = [h \in Handlers |-> "idle"]
    /\ hjob = [h \in Handlers |-> NoJob]
    /\ hrec = [h \in Handlers |-> NoRecord]
    /\ hsup = [h \in Handlers |-> FALSE]
    /\ daemon = "up" /\ crashes = 0

Next ==
    \/ \E h \in Handlers : \/ HandlerStep(h)
                           \/ \E j \in Jobs : StartSave(h, j) \/ CancelLoad(h, j)
    \/ \E w \in Workers : WorkerStep(w)
    \/ \E j \in Jobs : Overflow(j) \/ ProcExit(j) \/ RecoverJob(j)
    \/ Close \/ Crash \/ Boot \/ RecoverDone

Spec == Init /\ [][Next]_vars

\* A runnable goroutine eventually runs, an agent's process eventually ends,
\* and recovery goes on.  Clients, Close, crashes and restarts are not owed.
Fairness ==
    /\ \A w \in Workers : WF_vars(WorkerStep(w))
    /\ \A h \in Handlers : WF_vars(HandlerStep(h))
    /\ \A j \in Jobs : WF_vars(ProcExit(j)) /\ WF_vars(RecoverJob(j))
    /\ WF_vars(RecoverDone)

FairSpec == Spec /\ Fairness
=============================================================================

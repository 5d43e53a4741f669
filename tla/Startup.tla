------------------------------ MODULE Startup ------------------------------
(***************************************************************************)
(* main of cmd/cliostrad: a process removes the socket's name, recovers    *)
(* the records, binds the name, restricts it and serves until it dies.     *)
(* The name and the records outlive it and are shared with every other     *)
(* cliostrad of the user; nothing but the order of these steps keeps two   *)
(* of them apart.                                                          *)
(***************************************************************************)
EXTENDS Naturals

CONSTANTS Daemons,    \* processes of cliostrad; one may be launched again
          Jobs,
          NoDaemon,   \* nobody: the socket's name does not exist
          MayOverlap, \* whether one may be launched while another runs
          MaxDeaths,  \* bound: how many processes die
          MaxFaults   \* bound: how many calls of store.Save fail

ASSUME StartupAssumption ==
    /\ NoDaemon \notin Daemons /\ MayOverlap \in BOOLEAN
    /\ MaxDeaths \in Nat /\ MaxFaults \in Nat

VARIABLES
    phase,   \* phase[d]: where the process is in main
    sock,    \* whose socket, living or dead, the name leads to
    rec,     \* rec[j]: what the record says
    task,    \* task[d][j]: where d has the job
    loaded,  \* loaded[d]: the records recover() has loaded and has yet to fail
    wrote,   \* wrote[d]: the records d has saved since it was launched; only
             \* the properties read it
    faults, deaths

bootVars == <<phase, sock, rec, task, loaded, wrote, faults, deaths>>

Phase == {"off", "remove", "load", "recover", "chmod", "serving"}

\* "live": any state that is not terminal.  "ended": what the worker first meant
\* to be the last state; "failed": what fail() wrote after that Save failed.
Final == {"ended", "failed", "canceled", "restarted"}
Status == {"absent", "live"} \cup Final

\* starting: saved, not yet in the queue.  preparing, running: with a worker,
\* its process not yet, or already, where Cancel finds it.  stopping, failing:
\* the same after a Save that failed, with fail() to come.
Task == {"none", "starting", "queued", "preparing", "running", "stopping", "failing"}
Running == {"running", "failing"}

To(d, p) == phase' = [phase EXCEPT ![d] = p]
Move(d, j, t) == task' = [task EXCEPT ![d][j] = t]
NoTasks == [j \in Jobs |-> "none"]

\* The sockets that accept connections: bound, and their process alive.
Listening(d) == phase[d] \in {"chmod", "serving"}

\* store.Save renames the record, or it fails, before the rename or after it.
Unsaved(d, j, s) == UNCHANGED <<rec, wrote, faults>>
SavedInDetail(d, j, s) == /\ rec' = [rec EXCEPT ![j] = IF s = "live" THEN "queued" ELSE s]
                          /\ UNCHANGED <<wrote, faults>>
Renamed(d, j, s) == /\ rec' = [rec EXCEPT ![j] = s]
                    /\ wrote' = [wrote EXCEPT ![d] = @ \cup {j}]
Saved(d, j, s) == Renamed(d, j, s) /\ UNCHANGED faults
Fault == faults < MaxFaults /\ faults' = faults + 1
SaveFails(d, j, s) == Fault /\ (Renamed(d, j, s) \/ UNCHANGED <<rec, wrote>>)

\* The process is gone and its memory with it; the socket's name stays, since
\* neither a kill nor log.Fatalf runs the deferred ln.Close.
Exit(d) == /\ To(d, "off")
           /\ task' = [task EXCEPT ![d] = NoTasks]
           /\ loaded' = [loaded EXCEPT ![d] = {}]
           /\ wrote' = [wrote EXCEPT ![d] = {}]
           /\ UNCHANGED <<sock, rec, faults>>

Launch(d) == /\ phase[d] = "off"
             /\ MayOverlap \/ \A e \in Daemons : phase[e] = "off"
             /\ To(d, "remove")
             /\ UNCHANGED <<sock, rec, task, loaded, wrote, faults, deaths>>

\* os.Remove, whoever the socket belongs to.
StillNamed == sock
Unnamed == NoDaemon
RemoveSocket(d) == /\ phase[d] = "remove"
                   /\ To(d, "load") /\ sock' = Unnamed
                   /\ UNCHANGED <<rec, task, loaded, wrote, faults, deaths>>

AllRecords == {j \in Jobs : rec[j] # "absent"}
NotFinal == {j \in Jobs : rec[j] = "live"}

\* recover(): LoadAll, then one Save for each record that was not terminal.
LoadRecords(d) == /\ phase[d] = "load"
                  /\ To(d, "recover") /\ loaded' = [loaded EXCEPT ![d] = NotFinal]
                  /\ UNCHANGED <<sock, rec, task, wrote, faults, deaths>>

\* A Save that fails ends New and the process: that is RecoverRecord and Die, or Die.
RecoverRecord(d) ==
    \E j \in loaded[d] :
        /\ Saved(d, j, "restarted")
        /\ loaded' = [loaded EXCEPT ![d] = @ \ {j}]
        /\ UNCHANGED <<phase, sock, task, deaths>>

\* net.Listen fails when the name exists, even if nobody listens behind it.
Bound(d) == phase[d] = "recover"
Recovered(d) == phase[d] = "recover" /\ loaded[d] = {}
Listen(d) == /\ Recovered(d)
             /\ \/ /\ sock = NoDaemon /\ sock' = d /\ To(d, "chmod")
                   /\ UNCHANGED <<rec, task, loaded, wrote, faults>>
                \/ sock # NoDaemon /\ Exit(d)
             /\ UNCHANGED deaths

\* os.Chmod works on the name, which may be gone, or another's, by now.
Chmod(d) == /\ phase[d] = "chmod"
            /\ \/ sock # NoDaemon /\ To(d, "serving") /\ UNCHANGED <<sock, rec, task, loaded, wrote, faults>>
               \/ sock = NoDaemon /\ Exit(d)
            /\ UNCHANGED deaths

-----------------------------------------------------------------------------
(* What the daemon's calls and workers do to the records, in outline:      *)
(* Runtime has it in detail.  Cancel's own steps are in Service.           *)

TaskStep(d, j, from, to) == /\ task[d][j] = from /\ Move(d, j, to)
                            /\ UNCHANGED <<phase, sock, loaded, deaths>>

\* Start: one Save, then the queue.  An error leaves the record, if it was
\* renamed, to nobody.
StartJob(d, j) == /\ phase[d] = "serving" /\ rec[j] = "absent"
                  /\ TaskStep(d, j, "none", "starting") /\ Saved(d, j, "live")
StartFails(d, j) == /\ phase[d] = "serving" /\ rec[j] = "absent"
                    /\ TaskStep(d, j, "none", "none") /\ SaveFails(d, j, "live")
Enqueue(d, j) == TaskStep(d, j, "starting", "queued") /\ UNCHANGED <<rec, wrote, faults>>

TakeTask(d, j) == TaskStep(d, j, "queued", "preparing") /\ UNCHANGED <<rec, wrote, faults>>

\* The Saves of preparing and of running; after that one, procs has the process.
Advance(d, j) ==
    \/ \E t \in {"preparing", "running"} : TaskStep(d, j, "preparing", t) /\ Saved(d, j, "live")
    \/ TaskStep(d, j, "preparing", "stopping") /\ SaveFails(d, j, "live")

EndsUnsaved(d, j) == TaskStep(d, j, "preparing", "none") /\ UNCHANGED <<rec, wrote, faults>>

\* The last Save.  An error is only logged, unless the job had succeeded: then
\* fail() follows, over the record if that was renamed.
EndTask(d, j) ==
    \E t \in {"preparing", "stopping", "running"} :
        \/ TaskStep(d, j, t, "none") /\ (Saved(d, j, "ended") \/ SaveFails(d, j, "ended"))
        \/ t = "running" /\ TaskStep(d, j, t, "failing") /\ SaveFails(d, j, "ended")
FailTask(d, j) == /\ TaskStep(d, j, "failing", "none")
                  /\ Saved(d, j, "failed") \/ SaveFails(d, j, "failed")

WorkerStep(d, j) == TakeTask(d, j) \/ Advance(d, j) \/ EndTask(d, j) \/ FailTask(d, j)

\* A crash, a kill, or a log.Fatalf because New, Listen or Chmod failed.
Die(d) == /\ phase[d] # "off" /\ deaths < MaxDeaths
          /\ deaths' = deaths + 1 /\ Exit(d)

BootStep(d) == RemoveSocket(d) \/ LoadRecords(d) \/ RecoverRecord(d) \/ Listen(d) \/ Chmod(d)

\* What earlier processes left: records of any kind, and perhaps the name.
BootInit == /\ phase = [d \in Daemons |-> "off"] /\ sock \in Daemons \cup {NoDaemon}
            /\ rec \in [Jobs -> Status]
            /\ task = [d \in Daemons |-> NoTasks] /\ loaded = [d \in Daemons |-> {}]
            /\ wrote = [d \in Daemons |-> {}]
            /\ faults = 0 /\ deaths = 0
=============================================================================

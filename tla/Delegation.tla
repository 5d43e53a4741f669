----------------------------- MODULE Delegation -----------------------------
(***************************************************************************)
(* The clients of the daemon that wait for results: the MCP tools run,     *)
(* wait and delegate (internal/mcp) and the OpenCode tool                  *)
(* cliostra_delegate (plugins/opencode).  Each starts a job over the RPC   *)
(* socket, polls "result" on a new connection each time, and reports to    *)
(* the host that delegated the work.  The daemon is JobLifecycle, alive or *)
(* not: what Runtime was shown to implement.                               *)
(***************************************************************************)
EXTENDS JobStates, Naturals

CONSTANTS Jobs,        \* the ids the daemon may draw
          Edges,       \* how the daemon moves a record
          Calls,       \* tool calls and the goroutines they leave behind
          NoJob,
          MaxFaults,   \* bound: how many connections break, how many sends fail
          MaxCrashes   \* bound: how many times the daemon dies

ASSUME DelegationAssumption ==
    /\ NoJob \notin Jobs
    /\ Edges \subseteq State \X State
    /\ MaxFaults \in Nat /\ MaxCrashes \in Nat

VARIABLES
    status,   \* status[j]: the record the daemon's handlers read
    daemon,   \* up, down, or recovering inside New
    cpc,      \* cpc[c]: where the call is
    kind,     \* kind[c]: which tool it is
    cjob,     \* cjob[c]: the job it started or waits for
    reply,    \* reply[c]: what it has to report
    known,    \* the ids the host has been given
    told,     \* the reports the host has received
    faults, crashes

callVars  == <<cpc, kind, cjob, reply>>
hostVars  == <<known, told>>
boundVars == <<faults, crashes>>
vars == <<status, daemon, callVars, hostVars, boundVars>>

Daemon == INSTANCE JobLifecycle

\* The tool call of "delegate" and of the plugin returns with the id; what goes
\* on, and reports later, is a goroutine or a promise nobody waits for.
Kind == {"run", "wait", "delegate", "watch"}
Background(c) == kind[c] \in {"delegate", "watch"}

\* What can be reported: a final state, "pending" (waited long enough), "error".
Outcome == {s \in State : IsTerminal(s)} \cup {"pending", "error"}

Goto(c, pc) == cpc' = [cpc EXCEPT ![c] = pc] /\ UNCHANGED <<kind, cjob, reply>>

ToReport(c, outcome) == /\ cpc' = [cpc EXCEPT ![c] = "report"]
                        /\ reply' = [reply EXCEPT ![c] = outcome]
                        /\ UNCHANGED <<kind, cjob>>

\* The call is over.
End(c) == /\ cpc' = [cpc EXCEPT ![c] = "idle"]
          /\ cjob' = [cjob EXCEPT ![c] = NoJob]
          /\ UNCHANGED <<kind, reply>>

\* A connection breaks, or a send fails, though the daemon is alive.
Breaks == faults < MaxFaults /\ faults' = faults + 1 /\ UNCHANGED crashes

\* A request or its answer does not get through.
Unreachable == \/ daemon # "up" /\ UNCHANGED boundVars
               \/ daemon = "up" /\ Breaks

-----------------------------------------------------------------------------
(* Starting a job.                                                         *)

\* A call of run, delegate or the plugin's tool; j is the id it will draw.
Invoke(c, k, j) ==
    /\ cpc[c] = "idle" /\ k # "wait"
    /\ status[j] = "absent" /\ \A d \in Calls : cjob[d] # j
    /\ cpc' = [cpc EXCEPT ![c] = "start"]
    /\ kind' = [kind EXCEPT ![c] = k]
    /\ cjob' = [cjob EXCEPT ![c] = j]
    /\ UNCHANGED <<status, daemon, reply, hostVars, boundVars>>

\* The start handler: a new record, queued.
ServeStart(c) ==
    /\ cpc[c] = "start" /\ daemon = "up"
    /\ Daemon!Create(cjob[c])
    /\ Goto(c, "started")
    /\ UNCHANGED <<daemon, hostVars, boundVars>>

\* The answer arrives: run waits for its job, the others hand out the id and
\* wait in the background.
StartReturns(c) ==
    /\ cpc[c] = "started" /\ daemon = "up"
    /\ known' = IF Background(c) THEN known \cup {cjob[c]} ELSE known
    /\ Goto(c, "poll")
    /\ UNCHANGED <<status, daemon, told, boundVars>>

\* The request is refused or never arrives and there is no job; or there is one,
\* and nobody learns its id.  The tool returns an error.
StartFails(c) ==
    /\ \/ cpc[c] \in {"start", "cut"} /\ UNCHANGED boundVars
       \/ cpc[c] = "started" /\ Unreachable
    /\ End(c)
    /\ UNCHANGED <<status, daemon, hostVars>>

\* wait takes an id the host knows.
InvokeWait(c, j) ==
    /\ cpc[c] = "idle" /\ j \in known
    /\ cpc' = [cpc EXCEPT ![c] = "poll"]
    /\ kind' = [kind EXCEPT ![c] = "wait"]
    /\ cjob' = [cjob EXCEPT ![c] = j]
    /\ UNCHANGED <<status, daemon, reply, hostVars, boundVars>>

-----------------------------------------------------------------------------
(* waitForResultCapped and awaitResult: poll, sleep, give up.              *)

AvailableAlways(s) == s # "queued"

\* The result handler's "available".
Available(s) == IsTerminal(s)

Poll(c) == LET s == status[cjob[c]] IN
    /\ cpc[c] = "poll" /\ daemon = "up"
    /\ IF Available(s) THEN ToReport(c, s) ELSE Goto(c, "sleep")
    /\ UNCHANGED <<status, daemon, hostVars, boundVars>>

\* One failing poll ends the wait: it is not retried.
PollFails(c) ==
    /\ cpc[c] = "poll"
    /\ Unreachable
    /\ ToReport(c, "error")
    /\ UNCHANGED <<status, daemon, hostVars>>

Again(c) ==
    /\ cpc[c] = "sleep"
    /\ Goto(c, "poll")
    /\ UNCHANGED <<status, daemon, hostVars, boundVars>>

\* The deadline has passed; the plugin has none.
NoDeadline(c) == FALSE

Deadline(c) ==
    /\ cpc[c] = "sleep" /\ kind[c] # "watch"
    /\ ToReport(c, "pending")
    /\ UNCHANGED <<status, daemon, hostVars, boundVars>>

\* The host cancels its call of run or wait and gets nothing any more (counted
\* with the failures).
ContextDone(c) ==
    /\ cpc[c] = "sleep" /\ ~Background(c)
    /\ Breaks
    /\ End(c)
    /\ UNCHANGED <<status, daemon, hostVars>>

-----------------------------------------------------------------------------
NamesResult(c) == IF reply[c] \in {"error", "pending"} /\ ~Background(c) THEN {} ELSE {cjob[c]}

\* Every report names the job, except the error of run and wait: their answer
\* is then an empty ResultResponse.
Names(c) == IF reply[c] = "error" /\ ~Background(c) THEN {} ELSE {cjob[c]}

\* The tool's answer, the message to Claude Code's socket, or the prompt of the
\* OpenCode session.  A message that cannot be sent is logged or dropped.
Report(c) ==
    /\ cpc[c] = "report"
    /\ \/ /\ known' = known \cup Names(c)
          /\ told' = told \cup [job : Names(c), outcome : {reply[c]}]
          /\ UNCHANGED boundVars
       \/ Background(c) /\ Breaks /\ UNCHANGED hostVars
    /\ End(c)
    /\ UNCHANGED <<status, daemon>>

CallStep(c) ==
    \/ ServeStart(c) \/ StartReturns(c) \/ StartFails(c)
    \/ Poll(c) \/ PollFails(c) \/ Again(c) \/ Deadline(c) \/ ContextDone(c)
    \/ Report(c)

-----------------------------------------------------------------------------
(* The daemon.                                                             *)

Advances(j, s) ==
    /\ daemon = "up"
    /\ Daemon!Advance(j, s)
    /\ UNCHANGED <<daemon, callVars, hostVars, boundVars>>

Ends(j) == \E s \in State : IsTerminal(s) /\ Advances(j, s)

\* The daemon dies, and with it the connection of every call being served.
Crash ==
    /\ daemon # "down" /\ crashes < MaxCrashes
    /\ daemon' = "down"
    /\ crashes' = crashes + 1
    /\ cpc' = [c \in Calls |-> IF cpc[c] = "started" THEN "cut" ELSE cpc[c]]
    /\ UNCHANGED <<status, kind, cjob, reply, hostVars, faults>>

Boot ==
    /\ daemon = "down"
    /\ daemon' = "recovering"
    /\ UNCHANGED <<status, callVars, hostVars, boundVars>>

\* The records recover() rewrites.
RewrittenAlways(s) == s \notin {"absent", "failed"}

Rewritten(s) == s # "absent" /\ ~IsTerminal(s)

RecoverJob(j) ==
    /\ daemon = "recovering" /\ Rewritten(status[j])
    /\ status' = [status EXCEPT ![j] = "failed"]
    /\ UNCHANGED <<daemon, callVars, hostVars, boundVars>>

RecoverDone ==
    /\ daemon = "recovering" /\ \A j \in Jobs : ~Rewritten(status[j])
    /\ daemon' = "up"
    /\ UNCHANGED <<status, callVars, hostVars, boundVars>>

-----------------------------------------------------------------------------
Init ==
    /\ Daemon!Init
    /\ daemon = "up"
    /\ cpc = [c \in Calls |-> "idle"]
    /\ kind = [c \in Calls |-> "run"]
    /\ cjob = [c \in Calls |-> NoJob]
    /\ reply = [c \in Calls |-> "pending"]
    /\ known = {} /\ told = {}
    /\ faults = 0 /\ crashes = 0

Next ==
    \/ \E c \in Calls : \/ CallStep(c)
                        \/ \E j \in Jobs : \/ InvokeWait(c, j)
                                           \/ \E k \in Kind : Invoke(c, k, j)
    \/ \E j \in Jobs : RecoverJob(j) \/ \E s \in State : Advances(j, s)
    \/ Crash \/ Boot \/ RecoverDone

Spec == Init /\ [][Next]_vars

\* A call in progress goes on, and a wait that keeps polling reaches its deadline.
\* Nothing is owed by the daemon: it may die and stay dead, and a job may never end.
Fairness == \A c \in Calls : WF_vars(CallStep(c)) /\ SF_vars(Deadline(c))

FairSpec == Spec /\ Fairness
=============================================================================

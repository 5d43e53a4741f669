------------------------------ MODULE Service ------------------------------
(***************************************************************************)
(* The daemon as a client meets it: Startup decides who listens behind the *)
(* socket's name, Framing carries one request and one answer, the handlers *)
(* of internal/runtime act on the records in between.                      *)
(***************************************************************************)
EXTENDS Startup, Framing

CONSTANTS RequestSizes,  \* how large a start request may be, prompt included
          ResultSizes    \* how large the frame of a terminal result may be, once
                         \* a result within MaxResultSize has been escaped

ASSUME ServiceAssumption == RequestSizes \subseteq Nat /\ ResultSizes \subseteq Nat

VARIABLES peer,   \* peer[c]: the daemon at the other end
          asked,  \* asked[c]: the method and the job of the request
          cancel  \* cancel[c]: how far the call got in Runtime.Cancel

clientVars == <<peer, asked>>
vars == <<bootVars, wireVars, clientVars, cancel>>

\* lookup: a record not terminal is loaded.  taken: the task is out of the queue.
\* mark: the process was found.  marked: "canceling" is renamed over the record.
Progress == {"none", "lookup", "taken", "mark", "marked"}
Canceling(c, p) == cancel' = [cancel EXCEPT ![c] = p]

\* The jobs a start may create: an id is drawn once.
FreshFor(c, j) == rec[j] = "absent" /\ \A e \in Calls \ {c} : asked[e] # <<"start", j>>

\* The CLI's subcommands, a tool of the MCP server, the plugin's call.
Ask(c, method, j) == /\ method = "start" => FreshFor(c, j)
                     /\ asked' = [asked EXCEPT ![c] = <<method, j>>]

\* The name leads somewhere if the process that bound it is alive.
Open == {d \in Daemons : Listening(d)}

Dial(c, method, j, n) ==
    /\ Ask(c, method, j)
    /\ sock \in Open
    /\ peer' = [peer EXCEPT ![c] = sock]
    /\ \/ CallSends(c, "request", n)
       \/ c \notin Plugin /\ ~Fits(n) /\ CallFails(c, "refused")
    /\ UNCHANGED <<bootVars, cancel>>

\* No name, or a name nobody listens behind.
DialFails(c, method, j) ==
    /\ Ask(c, method, j)
    /\ sock \notin Open
    /\ CallFails(c, "unreachable")
    /\ UNCHANGED <<peer, bootVars, cancel>>

\* startHandler: the Save, or an error or an argument it refuses; then the queue.
HandleStart(c) ==
    /\ spc[c] = "handle" /\ asked[c][1] = "start"
    /\ \/ StartJob(peer[c], asked[c][2]) /\ UNCHANGED wireVars
       \/ Enqueue(peer[c], asked[c][2]) /\ Handle(c, "started", 1)
       \/ StartFails(peer[c], asked[c][2]) /\ Handle(c, "refused", 1)
       \/ rec[asked[c][2]] = "absent" /\ Handle(c, "refused", 1) /\ UNCHANGED bootVars
    /\ UNCHANGED <<clientVars, cancel>>

\* The start of a client that is not among Calls; its answer matters to nobody here.
OthersStart(d, j) == /\ \A c \in Calls : asked[c] # <<"start", j>>
                     /\ StartJob(d, j) \/ StartFails(d, j) \/ Enqueue(d, j)

\* resultHandler, or not_found.  fail() keeps the result of a job that succeeded.
HandleResult(c) ==
    /\ spc[c] = "handle" /\ asked[c][1] = "result"
    /\ LET answer == rec[asked[c][2]] IN
       \E n \in (IF answer \in {"ended", "failed"} THEN ResultSizes ELSE {1}) : Handle(c, answer, n)
    /\ UNCHANGED <<bootVars, clientVars, cancel>>

-----------------------------------------------------------------------------
(* cancelHandler, which is Runtime.Cancel: it loads the record, looks for  *)
(* the process or the task, and saves a copy of what it had loaded.        *)

Cancels(c, p) == spc[c] = "handle" /\ asked[c][1] = "cancel" /\ cancel[c] = p

CancelLoad(c, j) ==
    /\ Cancels(c, "none")
    /\ \/ rec[j] = "live" /\ Canceling(c, "lookup") /\ UNCHANGED wireVars
       \/ rec[j] \in Final /\ Handle(c, rec[j], 1) /\ UNCHANGED cancel
       \/ rec[j] = "absent" /\ Handle(c, "refused", 1) /\ UNCHANGED cancel
    /\ UNCHANGED bootVars

LookupAnyway(c, d, j) ==
    /\ Cancels(c, "lookup")
    /\ task' = [task EXCEPT ![d][j] = IF @ = "queued" THEN "none" ELSE @] /\ Canceling(c, "taken")
    /\ UNCHANGED <<phase, sock, loaded, deaths, rec, wrote, faults, wireVars>>

\* The last case: canceling already, not cancelable, or with a worker that has
\* yet to register it, or had the task when the record was read again.
CancelLookup(c, d, j) ==
    /\ Cancels(c, "lookup")
    /\ \/ /\ TaskStep(d, j, "queued", "none") /\ Canceling(c, "taken")
          /\ UNCHANGED <<rec, wrote, faults, wireVars>>
       \/ task[d][j] \in Running /\ Canceling(c, "mark") /\ UNCHANGED <<bootVars, wireVars>>
       \/ /\ task[d][j] # "queued"
          /\ \E answer \in {"live", rec[j]} : Handle(c, answer, 1)
          /\ UNCHANGED <<bootVars, cancel>>

CancelQueued(c, d, j) ==
    /\ Cancels(c, "taken")
    /\ \/ Saved(d, j, "canceled") /\ Handle(c, "canceled", 1)
       \/ SaveFails(d, j, "canceled") /\ Handle(c, "refused", 1)
    /\ UNCHANGED <<phase, sock, task, loaded, deaths, cancel>>

\* The record may have become terminal since it was loaded.
CancelMark(c, d, j) ==
    /\ Cancels(c, "mark")
    /\ \/ Saved(d, j, "live") /\ Canceling(c, "marked") /\ UNCHANGED wireVars
       \/ /\ Fault /\ Handle(c, "refused", 1)
          /\ \/ Renamed(d, j, "live") /\ Canceling(c, "marked")
             \/ UNCHANGED <<rec, wrote, cancel>>
    /\ UNCHANGED <<phase, sock, task, loaded, deaths>>

\* Polls until the record is terminal, or for 10 s.
CancelPoll(c, j) ==
    /\ Cancels(c, "marked")
    /\ \/ rec[j] \in Final /\ Handle(c, rec[j], 1)
       \/ Handle(c, "refused", 1)
    /\ UNCHANGED <<bootVars, cancel>>

HandleCancel(c) ==
    LET d == peer[c]  j == asked[c][2] IN
    /\ \/ CancelLoad(c, j) \/ CancelLookup(c, d, j) \/ CancelQueued(c, d, j)
       \/ CancelMark(c, d, j) \/ CancelPoll(c, j)
    /\ UNCHANGED clientVars

-----------------------------------------------------------------------------
\* Accept, then Serve; a connection waits in the backlog until main serves.
Accepted(c) == /\ ReadRequest(c) /\ phase[peer[c]] = "serving"
               /\ UNCHANGED <<bootVars, clientVars, cancel>>

CallStep(c) == \/ HandleStart(c) \/ HandleResult(c) \/ HandleCancel(c) \/ Accepted(c)
               \/ (Reply(c) \/ ReadAnswer(c)) /\ UNCHANGED <<bootVars, clientVars, cancel>>

Connections(d) == {c \in Calls : peer[c] = d}

Boot(d) == /\ BootStep(d) /\ UNCHANGED <<clientVars, cancel>>
           /\ \/ phase'[d] # "off" /\ UNCHANGED wireVars
              \/ phase'[d] = "off" /\ ServerDies(Connections(d))

Init == BootInit /\ WireInit /\ peer = [c \in Calls |-> NoDaemon]
                 /\ asked = [c \in Calls |-> <<"none", "none">>]
                 /\ cancel = [c \in Calls |-> "none"]

\* The plugin does not cancel.
Next == \/ \E c \in Calls, j \in Jobs :
              \/ \E n \in RequestSizes : Dial(c, "start", j, n)
              \/ Dial(c, "result", j, 1)
              \/ c \notin Plugin /\ Dial(c, "cancel", j, 1)
              \/ \E method \in {"start", "result"} : DialFails(c, method, j)
              \/ c \notin Plugin /\ DialFails(c, "cancel", j)
        \/ \E c \in Calls : \/ CallStep(c)
                            \/ ClientDies(c) /\ UNCHANGED <<bootVars, clientVars, cancel>>
        \/ \E d \in Daemons :
              \/ Launch(d) /\ UNCHANGED <<wireVars, clientVars, cancel>>
              \/ Boot(d)
              \/ Die(d) /\ ServerDies(Connections(d)) /\ UNCHANGED <<clientVars, cancel>>
              \/ \E j \in Jobs : /\ OthersStart(d, j) \/ WorkerStep(d, j)
                                 /\ UNCHANGED <<wireVars, clientVars, cancel>>

Spec == Init /\ [][Next]_vars

\* A process goes on with main, Serve with its connection, a client reads.
Fairness == /\ \A c \in Calls : WF_vars(CallStep(c))
            /\ \A d \in Daemons : WF_vars(Boot(d))
FairSpec == Spec /\ Fairness
=============================================================================

------------------------- MODULE ServiceProperties -------------------------
(***************************************************************************)
(* What a client may rely on: whom it reaches, what an answer still means  *)
(* later, and that its call ends.                                          *)
(***************************************************************************)
EXTENDS Service

Frames == [msg : {"none", "request", "started", "refused"} \cup Status, size : Nat,
           part : {"none", "whole", "body", "cut"}]

BootOK == /\ phase \in [Daemons -> Phase] /\ sock \in Daemons \cup {NoDaemon}
          /\ rec \in [Jobs -> Status] /\ task \in [Daemons -> [Jobs -> Task]]
          /\ loaded \in [Daemons -> SUBSET Jobs] /\ wrote \in [Daemons -> SUBSET Jobs]
          /\ faults \in 0..MaxFaults /\ deaths \in 0..MaxDeaths
WireOK == /\ cpc \in [Calls -> {"idle", "waiting", "answered", "failed", "gone"}]
          /\ why \in [Calls -> {"", "mangled", "refused", "unreachable", "too_large", "closed", "garbled"}]
          /\ spc \in [Calls -> {"none", "read", "handle", "reply", "closed"}]
          /\ up \in [Calls -> Frames] /\ down \in [Calls -> Frames]
          /\ upEnd \subseteq Calls /\ downEnd \subseteq Calls
ClientsOK == /\ peer \in [Calls -> Daemons \cup {NoDaemon}]
             /\ asked \in [Calls -> {"none", "start", "result", "cancel"} \X (Jobs \cup {"none"})]
             /\ cancel \in [Calls -> Progress]

\* Every variable has its type.
TypeOK == BootOK /\ WireOK /\ ClientsOK

\* Whoever accepts connections has recovered: of the records from before it was
\* launched none is live, so a live one is its own doing.
ReachableIsRecovered ==
    \A d \in Daemons : Listening(d) => {j \in Jobs : rec[j] = "live"} \subseteq wrote[d]

\* The jobs over whose record, whatever it said by then, a Cancel wrote
\* "canceling", and those that a Cancel has out of the queue and not yet saved.
Marked == {j \in Jobs : \E c \in Calls : asked[c] = <<"cancel", j>> /\ cancel[c] = "marked"}
Taken == {j \in Jobs : \E c \in Calls : Cancels(c, "taken") /\ asked[c][2] = j}

\* While no Save fails, a live record is in the hands of the daemon's queue, its
\* workers or a Cancel, or it is what a Cancel wrote, perhaps over a final state.
LiveHasHolder ==
    \A d \in Daemons, j \in Jobs :
        Listening(d) /\ rec[j] = "live" /\ faults = 0 =>
            task[d][j] # "none" \/ j \in Taken \cup Marked

\* A final state, once a client has been told it, stays the job's state through
\* every death, recovery and later call, but for two ways the code has to lose
\* it: a Cancel that had loaded the record writes over what the worker wrote,
\* and fail() replaces an outcome whose Save failed after its rename.  Neither
\* touches "canceled" by a client that took the task back, nor "restarted".
Lasts(j, state) == \/ rec[j] = state
                   \/ state \in {"ended", "failed"} /\ j \in Marked
                   \/ state = "ended" /\ rec[j] = "failed"

FinalAnswersLast ==
    \A c \in Calls : cpc[c] = "answered" /\ down[c].msg \in Final =>
        Lasts(asked[c][2], down[c].msg)

\* A start that was answered left a record, whatever died since.
StartedIsRecorded ==
    \A c \in Calls : cpc[c] = "answered" /\ down[c].msg = "started" =>
        rec[asked[c][2]] # "absent"

\* The limits of the two readers and of the writer agree: no client gives up on
\* an answer that the daemon was willing to write.
WrittenIsReadable == \A c \in Calls : why[c] # "too_large"

\* Every call ends, with an answer, with an error, or with its process: since a
\* call is made once, there comes a time when none waits any more.
CallsEnd == <>[](\A c \in Calls : cpc[c] # "waiting")

\* A daemon launched when no more of them die comes to serve: what the dead ones
\* left behind, the socket's name included, does not stop it.
ComesBack ==
    \A d \in Daemons : phase[d] = "remove" /\ deaths = MaxDeaths ~> phase[d] = "serving"

-----------------------------------------------------------------------------
(* Statements of the repository that the code does not keep.               *)

\* openspec/specs/local-job-runtime says there is one daemon per user.
SingleDaemon ==
    \A d, e \in Daemons : phase[d] = "serving" /\ phase[e] = "serving" => d = e

\* runtime.go:16-18 says MaxResultSize leaves WriteFrame no reason to refuse a
\* result: while its daemon lives, no call is closed without an answer.
ResultsFit == \A c \in Calls : why[c] = "closed" => deaths > 0
=============================================================================

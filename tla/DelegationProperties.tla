------------------------ MODULE DelegationProperties ------------------------
(***************************************************************************)
(* What a host that delegates work may rely on.                            *)
(***************************************************************************)
EXTENDS Delegation

CallPC == {"idle", "start", "started", "cut", "poll", "sleep", "report"}

\* Every variable has its type.
TypeOK ==
    /\ status \in [Jobs -> State \cup {"absent"}]
    /\ daemon \in {"up", "down", "recovering"}
    /\ cpc \in [Calls -> CallPC] /\ kind \in [Calls -> Kind]
    /\ cjob \in [Calls -> Jobs \cup {NoJob}] /\ reply \in [Calls -> Outcome]
    /\ known \subseteq Jobs /\ told \subseteq [job : Jobs, outcome : Outcome]
    /\ faults \in 0..MaxFaults /\ crashes \in 0..MaxCrashes

-----------------------------------------------------------------------------
Final(outcome) == outcome \notin {"pending", "error"}

\* A final outcome the host was told stays the job's record: no later poll,
\* restart or recovery contradicts it, although the report is made long after
\* the poll it comes from.  (Where the daemon keeps the documented lifecycle.)
ReportsStayTrue == \A m \in told : Final(m.outcome) => status[m.job] = m.outcome

\* Unless a connection broke, the host cancelled or the daemon died, a job that
\* was created has someone who waits for it or a host that knows its id: run and
\* wait that give up hand out the id.
NoneAbandoned ==
    faults = 0 /\ crashes = 0 =>
        \A j \in Jobs : status[j] # "absent" => j \in known \/ \E c \in Calls : cjob[c] = j

\* run, wait and delegate end, whatever the job and the daemon do: the host is
\* not blocked and the goroutine of delegate does not leak.
CallsEnd == \A c \in Calls : (cpc[c] # "idle" /\ kind[c] # "watch") ~> cpc[c] = "idle"

-----------------------------------------------------------------------------
\* A job that goes on can end.
JobsEnd == \A j \in Jobs : WF_vars(Ends(j))

\* delegate.go:35 promises that the result of a delegated job arrives by itself
\* when the job ends.  One poll of delegate's goroutine that fails, while the
\* daemon restarts, ends its wait with an error.
DelegatedResultArrives ==
    JobsEnd =>
        \A j \in Jobs :
            (\E c \in Calls : kind[c] = "delegate" /\ cpc[c] = "poll" /\ cjob[c] = j)
                ~> \E m \in told : m.job = j /\ m.outcome # "error"
=============================================================================

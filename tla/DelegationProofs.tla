-------------------------- MODULE DelegationProofs --------------------------
(***************************************************************************)
(* Reports stay true, and no job is abandoned, for any sets of jobs and    *)
(* calls and any bounds.                                                   *)
(*                                                                         *)
(* The argument: a call that is past the start handler has a job with a    *)
(* record, and no other call shares it before that; a host knows only such *)
(* jobs; a call in the background has handed out its id before it polls;   *)
(* a final reply that waits to be reported is still the record; and an     *)
(* error needs a fault or a crash.                                         *)
(***************************************************************************)
EXTENDS DelegationProperties, TLAPS

JobsOfCalls ==
    \A c \in Calls :
        /\ cpc[c] = "idle" <=> cjob[c] = NoJob
        /\ cpc[c] = "start" => /\ status[cjob[c]] = "absent"
                               /\ \A d \in Calls : cjob[d] = cjob[c] => d = c
        /\ cpc[c] \notin {"idle", "start"} => status[cjob[c]] # "absent"

KnownCreated == \A j \in known : status[j] # "absent"

BackgroundKnown ==
    \A c \in Calls :
        Background(c) /\ cpc[c] \in {"poll", "sleep", "report"} => cjob[c] \in known

RepliesTrue ==
    \A c \in Calls : cpc[c] = "report" /\ Final(reply[c]) => status[cjob[c]] = reply[c]

Outage == faults > 0 \/ crashes > 0

ErrorsHaveCause ==
    /\ daemon # "up" => Outage
    /\ \A c \in Calls : cpc[c] = "cut" \/ (cpc[c] = "report" /\ reply[c] = "error") => Outage

CallInv == /\ TypeOK /\ JobsOfCalls /\ KnownCreated /\ BackgroundKnown
           /\ ErrorsHaveCause /\ NoneAbandoned

\* The documented lifecycle leaves no terminal state.
TerminalEdges == \A e \in Edges : ~IsTerminal(e[1])

-----------------------------------------------------------------------------
LEMMA CallInvInit == Init => CallInv
  BY DelegationAssumption
  DEF Init, Daemon!Init, CallInv, TypeOK, JobsOfCalls, KnownCreated, BackgroundKnown,
      ErrorsHaveCause, NoneAbandoned, CallPC, Kind, Outcome

LEMMA CallInvStep == CallInv /\ [Next]_vars => CallInv'
<1> SUFFICES ASSUME CallInv, [Next]_vars PROVE CallInv'
  OBVIOUS
<1> USE DelegationAssumption
    DEF CallInv, TypeOK, JobsOfCalls, KnownCreated, BackgroundKnown, ErrorsHaveCause,
        Outage, NoneAbandoned, CallPC, Kind, Outcome, Background, callVars, hostVars, boundVars
<1>1. ASSUME NEW c \in Calls, NEW k \in Kind, NEW j \in Jobs, Invoke(c, k, j) PROVE CallInv'
  BY <1>1 DEF Invoke
<1>2. ASSUME NEW c \in Calls, NEW j \in Jobs, InvokeWait(c, j) PROVE CallInv'
  BY <1>2 DEF InvokeWait
<1>3. ASSUME NEW c \in Calls, ServeStart(c) PROVE CallInv'
  BY <1>3 DEF ServeStart, Daemon!Create, Goto, State
<1>4. ASSUME NEW c \in Calls, StartReturns(c) PROVE CallInv'
  BY <1>4 DEF StartReturns, Goto
<1>5. ASSUME NEW c \in Calls, StartFails(c) PROVE CallInv'
  BY <1>5 DEF StartFails, Unreachable, Breaks, End
<1>6. ASSUME NEW c \in Calls, Poll(c) PROVE CallInv'
  BY <1>6 DEF Poll, Available, IsTerminal, State, ToReport, Goto
<1>7. ASSUME NEW c \in Calls, PollFails(c) PROVE CallInv'
  BY <1>7 DEF PollFails, Unreachable, Breaks, ToReport
<1>8. ASSUME NEW c \in Calls, Again(c) PROVE CallInv'
  BY <1>8 DEF Again, Goto
<1>9. ASSUME NEW c \in Calls, Deadline(c) PROVE CallInv'
  BY <1>9 DEF Deadline, ToReport
<1>10. ASSUME NEW c \in Calls, ContextDone(c) PROVE CallInv'
  BY <1>10 DEF ContextDone, Breaks, End
<1>11. ASSUME NEW c \in Calls, Report(c) PROVE CallInv'
  BY <1>11 DEF Report, Names, Breaks, End
<1>12. ASSUME NEW j \in Jobs, NEW s \in State, Advances(j, s) PROVE CallInv'
  BY <1>12 DEF Advances, Daemon!Advance, State
<1>13. ASSUME NEW j \in Jobs, RecoverJob(j) PROVE CallInv'
  BY <1>13 DEF RecoverJob, Rewritten, State
<1>14. CASE Crash
  BY <1>14 DEF Crash
<1>15. CASE Boot
  BY <1>15 DEF Boot
<1>16. CASE RecoverDone
  BY <1>16 DEF RecoverDone
<1>17. CASE UNCHANGED vars
  BY <1>17 DEF vars
<1> QED BY <1>1, <1>2, <1>3, <1>4, <1>5, <1>6, <1>7, <1>8, <1>9, <1>10, <1>11, <1>12,
           <1>13, <1>14, <1>15, <1>16, <1>17 DEF Next, CallStep

-----------------------------------------------------------------------------
LEMMA TruthInit == Init => RepliesTrue /\ ReportsStayTrue
  BY DEF Init, RepliesTrue, ReportsStayTrue

LEMMA TruthStep ==
    ASSUME TerminalEdges
    PROVE  CallInv /\ RepliesTrue /\ ReportsStayTrue /\ [Next]_vars
               => RepliesTrue' /\ ReportsStayTrue'
<1> DEFINE Truth == RepliesTrue /\ ReportsStayTrue
<1> SUFFICES ASSUME CallInv, Truth, [Next]_vars PROVE Truth'
  OBVIOUS
<1> USE DelegationAssumption DEF CallInv, TypeOK, JobsOfCalls, RepliesTrue, ReportsStayTrue,
        Outcome, Final, IsTerminal, callVars, hostVars, boundVars
<1>1. ASSUME NEW c \in Calls, NEW k \in Kind, NEW j \in Jobs, Invoke(c, k, j) PROVE Truth'
  BY <1>1 DEF Invoke
<1>2. ASSUME NEW c \in Calls, NEW j \in Jobs, InvokeWait(c, j) PROVE Truth'
  BY <1>2 DEF InvokeWait
<1>3. ASSUME NEW c \in Calls, ServeStart(c) PROVE Truth'
  BY <1>3 DEF ServeStart, Daemon!Create, Goto, State
<1>4. ASSUME NEW c \in Calls, StartReturns(c) PROVE Truth'
  BY <1>4 DEF StartReturns, Goto
<1>5. ASSUME NEW c \in Calls, StartFails(c) PROVE Truth'
  BY <1>5 DEF StartFails, End
<1>6. ASSUME NEW c \in Calls, Poll(c) PROVE Truth'
  BY <1>6 DEF Poll, Available, ToReport, Goto
<1>7. ASSUME NEW c \in Calls, PollFails(c) PROVE Truth'
  BY <1>7 DEF PollFails, ToReport
<1>8. ASSUME NEW c \in Calls, Again(c) PROVE Truth'
  BY <1>8 DEF Again, Goto
<1>9. ASSUME NEW c \in Calls, Deadline(c) PROVE Truth'
  BY <1>9 DEF Deadline, ToReport
<1>10. ASSUME NEW c \in Calls, ContextDone(c) PROVE Truth'
  BY <1>10 DEF ContextDone, End
<1>11. ASSUME NEW c \in Calls, Report(c) PROVE Truth'
  BY <1>11 DEF Report, Names, End
<1>12. ASSUME NEW j \in Jobs, NEW s \in State, Advances(j, s) PROVE Truth'
  BY <1>12, TerminalEdges DEF Advances, Daemon!Advance, State, TerminalEdges
<1>13. ASSUME NEW j \in Jobs, RecoverJob(j) PROVE Truth'
  BY <1>13 DEF RecoverJob, Rewritten, State
<1>14. CASE Crash
  BY <1>14 DEF Crash
<1>15. CASE Boot
  BY <1>15 DEF Boot
<1>16. CASE RecoverDone
  BY <1>16 DEF RecoverDone
<1>17. CASE UNCHANGED vars
  BY <1>17 DEF vars
<1> QED BY <1>1, <1>2, <1>3, <1>4, <1>5, <1>6, <1>7, <1>8, <1>9, <1>10, <1>11, <1>12,
           <1>13, <1>14, <1>15, <1>16, <1>17 DEF Next, CallStep

-----------------------------------------------------------------------------
\* The clients of the daemon stay well typed, whatever the jobs, the calls and
\* the lifecycle the daemon follows.
THEOREM CallsTypeCorrect == Spec => []TypeOK
<1>1. CallInv => TypeOK
  BY DEF CallInv
<1> QED BY <1>1, CallInvInit, CallInvStep, PTL DEF Spec

\* run, wait, delegate and the plugin's tool lose no job: unless a connection
\* broke, a host cancelled or the daemon died, somebody waits for it or knows its id.
THEOREM JobsAreNotAbandoned == Spec => []NoneAbandoned
<1>1. CallInv => NoneAbandoned
  BY DEF CallInv
<1> QED BY <1>1, CallInvInit, CallInvStep, PTL DEF Spec

\* If the daemon leaves no terminal state, what waitForResultCapped and
\* awaitResult report as final is final, however late it is reported and
\* however often the daemon dies and recovers.
THEOREM ReportsAreTrue == ASSUME TerminalEdges PROVE Spec => []ReportsStayTrue
<1>1. Init => CallInv /\ RepliesTrue /\ ReportsStayTrue
  BY CallInvInit, TruthInit
<1>2. CallInv /\ RepliesTrue /\ ReportsStayTrue /\ [Next]_vars
          => (CallInv /\ RepliesTrue /\ ReportsStayTrue)'
  BY CallInvStep, TruthStep, TerminalEdges
<1> QED BY <1>1, <1>2, PTL DEF Spec
=============================================================================

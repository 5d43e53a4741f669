--------------------------- MODULE ServiceProofs ---------------------------
(***************************************************************************)
(* What a client may rely on, for any processes, jobs and calls.  Types,   *)
(* and that whatever is written can be read, need nothing else; the rest   *)
(* holds as long as no two processes of cliostrad run at once.             *)
(*                                                                         *)
(* The argument: only a serving process has tasks and only a recovering    *)
(* one has records loaded; a process that recovers has loaded every live   *)
(* record, so that whatever is live once it listens was written by it.  A  *)
(* task in the hands of a worker or a Cancel has a record that is not yet  *)
(* final, or that fail() is about to replace; two Cancels never have the   *)
(* same task, and none marks a task that another took from the queue.      *)
(* Hence a record that is final changes in two ways only.                  *)
(***************************************************************************)
EXTENDS ServiceProperties, TLAPS

Alone == \A d, e \in Daemons : phase[d] # "off" /\ phase[e] # "off" => d = e

Unfinished == {"starting", "queued", "preparing", "stopping", "running"}
Custody ==
    \A d \in Daemons :
        /\ loaded[d] # {} => phase[d] = "recover"
        /\ \A j \in loaded[d] : rec[j] = "live"
        /\ \A j \in Jobs :
              /\ task[d][j] # "none" => phase[d] = "serving"
              /\ task[d][j] \in Unfinished => rec[j] = "live"
              /\ task[d][j] = "failing" => rec[j] \in {"live", "ended"}
              /\ rec[j] = "live" /\ phase[d] = "recover" => j \in loaded[d]
              /\ rec[j] = "live" /\ Listening(d) => j \in wrote[d]

\* A Cancel that is to mark a job and one that is to save "canceled".
CancelCustody ==
    \A c \in Calls :
        /\ spc[c] = "handle" => phase[peer[c]] = "serving"
        /\ Cancels(c, "mark") => /\ task[peer[c]][asked[c][2]] \in Running \cup {"none"}
                                 /\ rec[asked[c][2]] \in {"live", "ended", "failed"}
        /\ Cancels(c, "taken") => /\ task[peer[c]][asked[c][2]] = "none"
                                  /\ rec[asked[c][2]] = "live"
                                  /\ \A e \in Calls \ {c} : Cancels(e, "mark") \/ Cancels(e, "taken") =>
                                         asked[e][2] # asked[c][2]

Custodial == Alone /\ Custody /\ CancelCustody /\ LiveHasHolder

Calling ==
    \A c \in Calls :
        /\ cpc[c] = "idle" => spc[c] = "none"
        /\ spc[c] = "none" => down[c].msg = "none" /\ cancel[c] = "none"
        /\ spc[c] # "none" => peer[c] \in Daemons /\ asked[c] \in {"start", "result", "cancel"} \X Jobs
        /\ spc[c] \in {"read", "reply"} /\ cancel[c] # "none" => up[c].part = "none"

\* What an answer on the wire says of the job.
AnswersTrue ==
    \A c \in Calls : /\ down[c].msg \in Final => Lasts(asked[c][2], down[c].msg)
                     /\ down[c].msg = "started" => rec[asked[c][2]] # "absent"

\* A record that is final changes from "ended" to "failed", or by a Cancel; none
\* goes away.
RecordsKept ==
    \A j \in Jobs :
        \/ rec'[j] = rec[j]
        \/ /\ rec'[j] # "absent"
           /\ \/ rec[j] \notin Final
              \/ rec[j] = "ended" /\ rec'[j] = "failed"
              \/ rec[j] \in {"ended", "failed"} /\ j \in Marked'
MarksKept == Marked \subseteq Marked'

\* Answers stay true if records and marks are kept, and tasks have records.
AnswersStay == AnswersTrue /\ Custody /\ RecordsKept /\ MarksKept => AnswersTrue'

\* What the calls and the workers, and what main does to the boot variables.
Saves(d, j, s) == Saved(d, j, s) \/ SaveFails(d, j, s)
MayRename(d, j, s) == Renamed(d, j, s) \/ UNCHANGED <<rec, wrote>>
TaskMoves(d, j) == StartJob(d, j) \/ StartFails(d, j) \/ Enqueue(d, j) \/ WorkerStep(d, j)
TakesBack(d, j) == TaskStep(d, j, "queued", "none") /\ UNCHANGED <<rec, wrote, faults>>
CancelSaves(d, j, s) == Saves(d, j, s) /\ UNCHANGED <<phase, sock, task, loaded, deaths>>
CancelMoves(d, j) == TakesBack(d, j) \/ CancelSaves(d, j, "canceled") \/ CancelSaves(d, j, "live")
MainMoves(d) == Launch(d) \/ BootStep(d) \/ Die(d)
BootMoves == \E d \in Daemons : MainMoves(d) \/ \E j \in Jobs : TaskMoves(d, j) \/ CancelMoves(d, j)

-----------------------------------------------------------------------------
\* What a Save may do, whether or not it reports an error.
LEMMA SaveOutcome ==
  ASSUME BootOK, NEW d \in Daemons, NEW j \in Jobs, NEW s \in Status, Saves(d, j, s)
  PROVE  /\ rec' \in [Jobs -> Status] /\ wrote' \in [Daemons -> SUBSET Jobs] /\ faults' \in 0..MaxFaults
         /\ MayRename(d, j, s)
         /\ Saved(d, j, s) \/ faults' > 0
<1> USE StartupAssumption DEF BootOK
<1>1. faults' \in 0..MaxFaults /\ MayRename(d, j, s) /\ (Saved(d, j, s) \/ faults' > 0)
  BY DEF Saves, Saved, SaveFails, Fault, MayRename
<1>2. rec' \in [Jobs -> Status] /\ wrote' \in [Daemons -> SUBSET Jobs]
  <2>1. CASE Renamed(d, j, s)
    <3>1. rec' = [rec EXCEPT ![j] = s] /\ wrote' = [wrote EXCEPT ![d] = @ \cup {j}]
      BY <2>1 DEF Renamed
    <3>2. rec' \in [Jobs -> Status]
      BY <3>1
    <3>3. wrote' \in [Daemons -> SUBSET Jobs]
      BY <3>1
    <3> QED BY <3>2, <3>3
  <2>2. CASE UNCHANGED <<rec, wrote>>
    BY <2>2
  <2> QED BY <1>1, <2>1, <2>2 DEF MayRename
<1> QED BY <1>1, <1>2

LEMMA TaskTypes ==
  ASSUME BootOK, NEW d \in Daemons, NEW j \in Jobs, NEW from, NEW to \in Task, TaskStep(d, j, from, to)
  PROVE  /\ task' \in [Daemons -> [Jobs -> Task]] /\ Move(d, j, to) /\ task' = [task EXCEPT ![d][j] = to]
         /\ task[d][j] = from /\ UNCHANGED <<phase, sock, loaded, deaths>>
  BY DEF BootOK, TaskStep, Move

\* The boot variables keep their types, whoever runs at the same time.
LEMMA BootTypes ==
  ASSUME BootOK, BootMoves \/ UNCHANGED bootVars
  PROVE  BootOK'
<1> USE StartupAssumption DEF Phase, To
<1>1. ASSUME NEW d \in Daemons, Launch(d) \/ RemoveSocket(d) \/ LoadRecords(d) PROVE BootOK'
  <2>1. CASE Launch(d)
    BY <2>1 DEF BootOK, Launch
  <2>2. CASE RemoveSocket(d)
    BY <2>2 DEF BootOK, RemoveSocket, Unnamed
  <2>3. CASE LoadRecords(d)
    <3>1. /\ loaded' = [loaded EXCEPT ![d] = NotFinal] /\ NotFinal \in SUBSET Jobs
          /\ phase' = [phase EXCEPT ![d] = "recover"]
          /\ UNCHANGED <<sock, rec, task, wrote, faults, deaths>>
      BY <2>3 DEF LoadRecords, NotFinal
    <3> QED BY <3>1 DEF BootOK
  <2> QED BY <1>1, <2>1, <2>2, <2>3
<1>2. ASSUME NEW d \in Daemons, RecoverRecord(d) PROVE BootOK'
  <2>1. PICK j \in loaded[d] : /\ Saved(d, j, "restarted") /\ loaded' = [loaded EXCEPT ![d] = @ \ {j}]
                               /\ UNCHANGED <<phase, sock, task, deaths>>
    BY <1>2 DEF RecoverRecord
  <2>2. j \in Jobs /\ "restarted" \in Status /\ Saves(d, j, "restarted")
    BY <2>1 DEF BootOK, Status, Final, Saves
  <2> QED BY <2>1, <2>2, SaveOutcome DEF BootOK
<1>3. ASSUME NEW d \in Daemons, Listen(d) \/ Chmod(d) \/ Die(d) PROVE BootOK'
  <2>1. CASE Exit(d) /\ deaths' \in 0..MaxDeaths
    BY <2>1 DEF BootOK, Exit, NoTasks, Task
  <2>2. CASE ~Exit(d)
    BY <1>3, <2>2 DEF BootOK, Listen, Chmod, Die
  <2> QED BY <1>3, <2>1, <2>2 DEF BootOK, Listen, Chmod, Die
<1>4. ASSUME NEW d \in Daemons, NEW j \in Jobs, NEW s \in Status, NEW from, NEW to \in Task,
             TaskStep(d, j, from, to), Saves(d, j, s) \/ UNCHANGED <<rec, wrote, faults>>
      PROVE  BootOK'
  BY <1>4, TaskTypes, SaveOutcome DEF BootOK
<1>5. ASSUME NEW d \in Daemons, NEW j \in Jobs, TaskMoves(d, j) PROVE BootOK'
  <2> USE <1>4 DEF Task, Status, Final, Saves
  <2>1. CASE StartJob(d, j) \/ StartFails(d, j) \/ Enqueue(d, j) \/ TakeTask(d, j)
    BY <2>1 DEF StartJob, StartFails, Enqueue, TakeTask
  <2>2. CASE Advance(d, j)
    BY <2>2 DEF Advance
  <2>3. CASE EndTask(d, j) \/ FailTask(d, j)
    BY <2>3 DEF EndTask, FailTask
  <2> QED BY <1>5, <2>1, <2>2, <2>3 DEF TaskMoves, WorkerStep
<1>6. ASSUME NEW d \in Daemons, NEW j \in Jobs, CancelMoves(d, j) PROVE BootOK'
  <2>1. CASE TakesBack(d, j)
    BY <1>4, <2>1 DEF TakesBack, Task, Status
  <2>2. CASE CancelSaves(d, j, "canceled") \/ CancelSaves(d, j, "live")
    BY <2>2, SaveOutcome DEF CancelSaves, BootOK, Status, Final
  <2> QED BY <1>6, <2>1, <2>2 DEF CancelMoves
<1>7. CASE UNCHANGED bootVars
  BY <1>7 DEF bootVars, BootOK
<1> QED BY <1>1, <1>2, <1>3, <1>5, <1>6, <1>7 DEF BootMoves, MainMoves, BootStep

LEMMA CustodialInit == BootInit => BootOK /\ Alone /\ Custody
  BY StartupAssumption DEF BootInit, BootOK, Alone, Custody, Listening, NoTasks, Phase, Status, Task, Unfinished

\* One process at a time: the others have no tasks and load nothing.
LEMMA Lonely ==
  ASSUME BootOK, Alone, Custody, NEW d \in Daemons, phase[d] # "off", NEW e \in Daemons, e # d
  PROVE  /\ phase[e] = "off" /\ loaded[e] = {} /\ ~Listening(e)
         /\ \A j \in Jobs : task[e][j] = "none"
  BY DEF Alone, Custody, Listening

\* The serving daemon moves one task and may save its record.
LEMMA TaskCustody ==
  ASSUME BootOK, Alone, Custody, NEW d \in Daemons, phase[d] = "serving", NEW j \in Jobs,
         UNCHANGED <<phase, loaded>>,
         NEW t \in Task, Move(d, j, t),
         NEW s \in Status, MayRename(d, j, s),
         t \in Unfinished => rec'[j] = "live", t = "failing" => rec'[j] \in {"live", "ended"}
  PROVE  Alone' /\ Custody'
<1> USE DEF Move, MayRename
<1>1. Alone'
  BY DEF Alone
<1>2. loaded[d] = {} /\ (\A k \in Jobs : task[d][k] # "none" => phase[d] = "serving") /\ Listening(d)
  BY DEF Custody, Listening
<1>3. ASSUME NEW k \in Jobs, k # j
      PROVE  rec'[k] = rec[k] /\ task'[d][k] = task[d][k] /\ (k \in wrote[d] => k \in wrote'[d])
  BY <1>3 DEF BootOK, Renamed
<1>4. task'[d][j] = t /\ (rec'[j] = "live" => j \in wrote'[d])
  BY <1>2 DEF BootOK, Renamed, Custody
<1>5. ASSUME NEW e \in Daemons, e # d
      PROVE  /\ phase'[e] = "off" /\ loaded'[e] = {}
             /\ \A k \in Jobs : task'[e][k] = "none"
  BY <1>5, Lonely DEF BootOK
<1>6. ASSUME NEW e \in Daemons, e # d, NEW k \in Jobs
      PROVE  /\ task'[e][k] = "none" /\ phase'[e] = "off"
  BY <1>5, <1>6
<1>7. ASSUME NEW k \in Jobs
      PROVE  /\ task'[d][k] \in Unfinished => rec'[k] = "live"
             /\ task'[d][k] = "failing" => rec'[k] \in {"live", "ended"}
             /\ rec'[k] = "live" => k \in wrote'[d]
  BY <1>2, <1>3, <1>4 DEF Custody
<1> QED BY <1>1, <1>2, <1>5, <1>6, <1>7 DEF Custody, Listening, Unfinished

\* The calls that a step of the daemon does not touch keep what is said of them.
Untouched(c) == /\ spc'[c] = "handle" => spc[c] = "handle"
                /\ asked'[c] = asked[c] /\ peer'[c] = peer[c] /\ cancel'[c] = cancel[c]

LEMMA CallsKept ==
  ASSUME BootOK, Calling, Alone, CancelCustody, NEW d \in Daemons, phase[d] = "serving", NEW j \in Jobs,
         UNCHANGED phase, NEW t \in Task, Move(d, j, t),
         \A k \in Jobs \ {j} : rec'[k] = rec[k],
         \A c \in Calls : Untouched(c),
         \A c \in Calls : (Cancels(c, "mark"))' /\ asked[c][2] = j =>
             t \in Running \cup {"none"} /\ rec'[j] \in {"live", "ended", "failed"},
         \A c \in Calls : (Cancels(c, "taken"))' /\ asked[c][2] = j => t = "none" /\ rec'[j] = "live"
  PROVE  CancelCustody'
<1> USE DEF Move
<1>1. ASSUME NEW c \in Calls, spc'[c] = "handle"
      PROVE  /\ spc[c] = "handle" /\ peer'[c] = d /\ peer[c] = d /\ phase'[d] = "serving"
             /\ asked'[c] = asked[c] /\ asked[c][2] \in Jobs
  BY <1>1 DEF Untouched, CancelCustody, Calling, Alone
<1>2. ASSUME NEW k \in Jobs, k # j PROVE task'[d][k] = task[d][k] /\ rec'[k] = rec[k]
  BY <1>2 DEF BootOK
<1>3. task'[d][j] = t
  BY DEF BootOK
<1>4. ASSUME NEW c \in Calls, NEW p \in {"mark", "taken"}, (Cancels(c, p))'
      PROVE  Cancels(c, p) /\ spc'[c] = "handle" /\ asked'[c] = asked[c]
  BY <1>4 DEF Untouched, Cancels
<1>5. ASSUME NEW c \in Calls, (Cancels(c, "mark"))'
      PROVE  /\ task'[peer'[c]][asked'[c][2]] \in Running \cup {"none"}
             /\ rec'[asked'[c][2]] \in {"live", "ended", "failed"}
  <2>1. /\ Cancels(c, "mark") /\ peer'[c] = d /\ peer[c] = d /\ asked'[c] = asked[c] /\ asked[c][2] \in Jobs
    BY <1>1, <1>4, <1>5
  <2>2. CASE asked[c][2] = j
    BY <1>3, <1>5, <2>1, <2>2
  <2>3. CASE asked[c][2] # j
    BY <1>2, <2>1, <2>3 DEF CancelCustody
  <2> QED BY <2>2, <2>3
<1>6. ASSUME NEW c \in Calls, (Cancels(c, "taken"))'
      PROVE  /\ task'[peer'[c]][asked'[c][2]] = "none"
             /\ rec'[asked'[c][2]] = "live"
             /\ \A e \in Calls \ {c} : (Cancels(e, "mark"))' \/ (Cancels(e, "taken"))' =>
                    asked'[e][2] # asked'[c][2]
  <2>1. /\ Cancels(c, "taken") /\ peer'[c] = d /\ peer[c] = d /\ asked'[c] = asked[c] /\ asked[c][2] \in Jobs
    BY <1>1, <1>4, <1>6
  <2>2. task'[peer'[c]][asked'[c][2]] = "none" /\ rec'[asked'[c][2]] = "live"
    <3>1. CASE asked[c][2] = j
      BY <1>3, <1>6, <2>1, <3>1
    <3>2. CASE asked[c][2] # j
      BY <1>2, <2>1, <3>2 DEF CancelCustody
    <3> QED BY <3>1, <3>2
  <2>3. ASSUME NEW e \in Calls \ {c}, (Cancels(e, "mark"))' \/ (Cancels(e, "taken"))'
        PROVE  asked'[e][2] # asked'[c][2]
    BY <1>4, <2>1, <2>3 DEF CancelCustody
  <2> QED BY <2>2, <2>3
<1> QED BY <1>1, <1>5, <1>6 DEF CancelCustody

-----------------------------------------------------------------------------
\* main moves while no call is being handled, or all of them end with it.
LEMMA MainPhase ==
  ASSUME BootOK, Alone, Custody, MayOverlap = FALSE, NEW d \in Daemons, MainMoves(d)
  PROVE  \/ (\A e \in Daemons : phase[e] = "off") /\ phase'[d] # "off"
         \/ phase[d] \in {"remove", "load", "recover", "chmod"} /\ phase'[d] # "off"
         \/ phase[d] # "off" /\ Exit(d) /\ phase'[d] = "off"
<1> USE DEF To, BootOK
<1>1. CASE Launch(d)
  BY <1>1 DEF Launch
<1>2. CASE RemoveSocket(d) \/ LoadRecords(d)
  BY <1>2 DEF RemoveSocket, LoadRecords
<1>3. CASE RecoverRecord(d)
  BY <1>3 DEF RecoverRecord, Custody
<1>4. Exit(d) => phase'[d] = "off"
  BY DEF Exit
<1>5. CASE Listen(d) \/ Chmod(d) \/ Die(d)
  BY <1>4, <1>5 DEF Listen, Recovered, Chmod, Die
<1> QED BY <1>1, <1>2, <1>3, <1>5 DEF MainMoves, BootStep

LEMMA MainCalls ==
  ASSUME BootOK, Alone, Custody, CancelCustody, Calling, MayOverlap = FALSE, NEW d \in Daemons, MainMoves(d),
         \/ phase'[d] # "off" /\ UNCHANGED wireVars
         \/ phase'[d] = "off" /\ ServerDies(Connections(d))
  PROVE  \A c \in Calls : spc'[c] # "handle"
<1> SUFFICES ASSUME NEW c \in Calls, spc'[c] = "handle" PROVE FALSE
  OBVIOUS
<1>1. spc[c] = "handle" /\ (phase'[d] = "off" => c \notin Connections(d))
  BY DEF wireVars, ServerDies
<1>2. peer[c] \in Daemons /\ phase[peer[c]] = "serving"
  BY <1>1 DEF CancelCustody, Calling
<1>3. phase[d] # "off" => peer[c] = d
  BY <1>2 DEF Alone
<1>4. c \notin Connections(d) => peer[c] # d
  BY DEF Connections
<1> QED BY <1>1, <1>2, <1>3, <1>4, MainPhase

\* A process that ends takes all it had in memory with it.
LEMMA ExitCustody ==
  ASSUME BootOK, Alone, Custody, LiveHasHolder, NEW d \in Daemons, phase[d] # "off", Exit(d)
  PROVE  Alone' /\ Custody' /\ LiveHasHolder' /\ RecordsKept
<1> USE DEF BootOK, Exit, To, NoTasks
<1>1. \A e \in Daemons : phase'[e] = "off" /\ loaded'[e] = {} /\ \A j \in Jobs : task'[e][j] = "none"
  BY Lonely
<1>2. Alone' /\ RecordsKept
  BY <1>1 DEF Alone, RecordsKept
<1>3. Custody' /\ LiveHasHolder'
  BY <1>1 DEF Custody, LiveHasHolder, Listening, Unfinished
<1> QED BY <1>2, <1>3

LEMMA MainCustody ==
  ASSUME BootOK, Alone, Custody, LiveHasHolder, CancelCustody, Calling, MayOverlap = FALSE,
         NEW d \in Daemons, MainMoves(d), UNCHANGED <<clientVars, cancel>>
  PROVE  Alone' /\ Custody' /\ LiveHasHolder' /\ RecordsKept
<1>1. CASE phase[d] # "off" /\ Exit(d)
  BY <1>1, ExitCustody
<1>2. Marked' = Marked
  BY DEF clientVars, Marked
<1>3. ASSUME NEW e \in Daemons, e # d, phase[d] # "off"
      PROVE  phase[e] = "off" /\ loaded[e] = {} /\ \A j \in Jobs : task[e][j] = "none"
  BY <1>3, Lonely
<1>4. CASE Launch(d)
  <2>1. /\ \A e \in Daemons : phase[e] = "off"
        /\ phase' = [phase EXCEPT ![d] = "remove"] /\ UNCHANGED <<sock, rec, task, loaded, wrote, faults, deaths>>
    BY <1>4 DEF Launch, To
  <2>2. \A e \in Daemons : loaded[e] = {} /\ \A j \in Jobs : task[e][j] = "none"
    BY <2>1 DEF Custody
  <2>3. \A e \in Daemons : phase'[e] = IF e = d THEN "remove" ELSE "off"
    BY <2>1 DEF BootOK
  <2> QED BY <2>1, <2>2, <2>3 DEF Alone, Custody, LiveHasHolder, RecordsKept, Listening, Unfinished
<1>5. CASE RemoveSocket(d) \/ LoadRecords(d)
  <2>1. /\ phase[d] \in {"remove", "load"} /\ UNCHANGED <<rec, task, wrote, faults, deaths>>
        /\ \E p \in {"load", "recover"} : phase' = [phase EXCEPT ![d] = p]
        /\ phase'[d] = "recover" => loaded' = [loaded EXCEPT ![d] = NotFinal]
        /\ phase'[d] # "recover" => loaded' = loaded
    BY <1>5 DEF RemoveSocket, LoadRecords, To, BootOK
  <2>2. \A e \in Daemons : /\ \A j \in Jobs : task[e][j] = "none"
                           /\ e # d => phase'[e] = "off" /\ loaded'[e] = {}
    BY <1>3, <2>1 DEF BootOK, Custody
  <2>3. phase'[d] \in {"load", "recover"} /\ (phase'[d] = "recover" => loaded'[d] = NotFinal) /\ (phase'[d] # "recover" => loaded'[d] = {})
    BY <2>1 DEF BootOK, Custody
  <2>4. Alone' /\ RecordsKept
    BY <2>1, <2>2 DEF Alone, RecordsKept
  <2>5. LiveHasHolder'
    BY <2>2, <2>3 DEF LiveHasHolder, Listening
  <2>6. Custody'
    BY <2>1, <2>2, <2>3 DEF Custody, Listening, Unfinished, NotFinal
  <2> QED BY <2>4, <2>5, <2>6
<1>6. CASE RecoverRecord(d)
  <2>1. PICK j \in loaded[d] : /\ Saved(d, j, "restarted") /\ loaded' = [loaded EXCEPT ![d] = @ \ {j}]
                               /\ UNCHANGED <<phase, sock, task, deaths>>
    BY <1>6 DEF RecoverRecord
  <2>2. j \in Jobs /\ rec[j] = "live" /\ phase[d] = "recover"
    BY <2>1 DEF BootOK, Custody
  <2>3. rec' = [rec EXCEPT ![j] = "restarted"] /\ wrote' = [wrote EXCEPT ![d] = @ \cup {j}]
    BY <2>1 DEF Saved, Renamed
  <2>4. \A e \in Daemons : /\ \A k \in Jobs : task'[e][k] = "none"
                           /\ e # d => phase'[e] = "off" /\ loaded'[e] = {}
    BY <1>3, <2>1, <2>2 DEF BootOK, Custody
  <2>5. phase'[d] = "recover" /\ loaded'[d] = loaded[d] \ {j}
    BY <2>1, <2>2 DEF BootOK
  <2>6. \A k \in Jobs : rec'[k] = IF k = j THEN "restarted" ELSE rec[k]
    BY <2>3 DEF BootOK
  <2>7. Alone' /\ RecordsKept /\ LiveHasHolder'
    BY <2>2, <2>4, <2>5, <2>6 DEF Alone, RecordsKept, Final, LiveHasHolder, Listening
  <2>8. loaded'[d] \subseteq Jobs
    BY <2>5 DEF BootOK
  <2> QED BY <2>2, <2>4, <2>5, <2>6, <2>7, <2>8 DEF Custody, Listening, Unfinished
<1>7. CASE (Listen(d) \/ Chmod(d)) /\ ~Exit(d)
  <2>1. /\ phase[d] \in {"recover", "chmod"} /\ UNCHANGED <<rec, task, loaded, wrote, faults, deaths>>
        /\ \E p \in {"chmod", "serving"} : phase' = [phase EXCEPT ![d] = p]
        /\ phase[d] = "recover" => loaded[d] = {}
    BY <1>7 DEF Listen, Recovered, Chmod, To
  <2>2. \A e \in Daemons : /\ \A j \in Jobs : task[e][j] = "none"
                           /\ e # d => phase'[e] = "off" /\ loaded[e] = {}
    BY <1>3, <2>1 DEF BootOK, Custody
  <2>3. phase'[d] \in {"chmod", "serving"} /\ loaded[d] = {}
    BY <2>1 DEF BootOK, Custody
  <2>4. phase[d] = "recover" => \A j \in Jobs : rec[j] # "live"
    BY <2>1 DEF Custody
  <2>5. Taken = {}
    <3>1. \A c \in Calls : spc[c] # "handle"
      BY <2>1 DEF CancelCustody, Calling, Alone
    <3> QED BY <3>1 DEF Taken, Cancels
  <2>6. Alone' /\ Custody' /\ RecordsKept
    BY <2>1, <2>2, <2>3, <2>4 DEF Alone, Custody, RecordsKept, Listening, Unfinished
  <2>7. LiveHasHolder'
    BY <1>2, <2>1, <2>2, <2>3, <2>4, <2>5 DEF LiveHasHolder, Listening
  <2> QED BY <2>6, <2>7
<1> QED BY <1>1, <1>4, <1>5, <1>6, <1>7 DEF MainMoves, BootStep, Listen, Recovered, Chmod, Die

-----------------------------------------------------------------------------
\* Calls and workers of the one that serves.
LEMMA HoldersKept ==
  ASSUME BootOK, Alone, Custody, LiveHasHolder, NEW d \in Daemons, phase[d] = "serving", NEW j \in Jobs,
         UNCHANGED phase, NEW t \in Task, Move(d, j, t),
         \A k \in Jobs \ {j} : rec'[k] = rec[k], faults' = 0 => faults = 0,
         MarksKept, Taken \subseteq Taken' \cup {j},
         rec'[j] = "live" /\ faults' = 0 => t # "none" \/ j \in Taken' \cup Marked'
  PROVE  LiveHasHolder'
<1> USE DEF Move
<1> SUFFICES ASSUME NEW e \in Daemons, NEW k \in Jobs, Listening(e)', rec'[k] = "live", faults' = 0
             PROVE  task'[e][k] # "none" \/ k \in Taken' \cup Marked'
  BY DEF LiveHasHolder
<1>1. e = d
  BY DEF Listening, Alone
<1>2. CASE k = j
  BY <1>1, <1>2 DEF BootOK
<1>3. CASE k # j
  <2>1. task[e][k] # "none" \/ k \in Taken \cup Marked
    BY <1>3 DEF LiveHasHolder, Listening
  <2>2. task'[e][k] = task[e][k]
    BY <1>1, <1>3 DEF BootOK
  <2> QED BY <1>3, <2>1, <2>2 DEF MarksKept
<1> QED BY <1>2, <1>3

LEMMA UntouchedKeep ==
  ASSUME Calling, \A c \in Calls : Untouched(c),
         \A c \in Calls : spc[c] = "handle" /\ cancel[c] = "taken" => spc'[c] = "handle" \/ asked[c][1] # "cancel"
  PROVE  MarksKept /\ Taken \subseteq Taken'
<1>1. MarksKept
  BY DEF MarksKept, Marked, Untouched
<1>2. ASSUME NEW c \in Calls, Cancels(c, "taken") PROVE (Cancels(c, "taken"))' /\ asked'[c] = asked[c]
  BY <1>2 DEF Cancels, Untouched
<1>3. Taken \subseteq Taken'
  BY <1>2 DEF Taken
<1> QED BY <1>1, <1>3

LEMMA TaskStepKeeps ==
  ASSUME BootOK, Custodial, Calling, NEW d \in Daemons, phase[d] = "serving", NEW j \in Jobs,
         NEW from, NEW t \in Task, TaskStep(d, j, from, t),
         NEW s \in Status, Saves(d, j, s) \/ UNCHANGED <<rec, wrote, faults>>,
         \A c \in Calls : Untouched(c), MarksKept, Taken \subseteq Taken',
         t \in Unfinished => rec'[j] = "live", t = "failing" => rec'[j] \in {"live", "ended"},
         \/ from \in {"starting", "queued", "preparing", "stopping"}
         \/ rec[j] = "absent"
         \/ from \in Running /\ t \in Running \cup {"none"} /\ rec'[j] \in {"live", "ended", "failed"},
         rec'[j] = "live" /\ faults' = 0 => t # "none",
         rec'[j] # rec[j] => /\ rec'[j] # "absent"
                             /\ rec[j] \notin Final \/ (rec[j] = "ended" /\ rec'[j] = "failed")
  PROVE  Custodial' /\ RecordsKept
<1>1. Move(d, j, t) /\ task[d][j] = from /\ UNCHANGED <<phase, sock, loaded, deaths>>
  BY TaskTypes
<1>2. MayRename(d, j, s)
  BY SaveOutcome DEF MayRename
<1>3. faults' = 0 => faults = 0
  BY DEF Saves, Saved, SaveFails, Fault, BootOK
<1>4. \A k \in Jobs \ {j} : rec'[k] = rec[k]
  BY <1>2 DEF MayRename, Renamed, BootOK
<1>5. Alone' /\ Custody'
  BY <1>1, <1>2, TaskCustody DEF Custodial
<1>6. LiveHasHolder'
  BY <1>1, <1>3, <1>4, HoldersKept DEF Custodial
<1>7. ASSUME NEW c \in Calls, NEW p \in {"mark", "taken"}, (Cancels(c, p))', asked[c][2] = j
      PROVE  /\ Cancels(c, p) /\ task[d][j] = from
             /\ p = "mark" => from \in Running \cup {"none"} /\ rec[j] \in {"live", "ended", "failed"}
             /\ p = "taken" => from = "none" /\ rec[j] = "live"
  <2>1. Cancels(c, p)
    BY <1>7 DEF Cancels, Untouched
  <2>2. peer[c] = d
    BY <2>1 DEF Cancels, Custodial, CancelCustody, Calling, Alone
  <2> QED BY <1>1, <1>7, <2>1, <2>2 DEF Custodial, CancelCustody
<1>8. \A c \in Calls : (Cancels(c, "mark"))' /\ asked[c][2] = j =>
          t \in Running \cup {"none"} /\ rec'[j] \in {"live", "ended", "failed"}
  BY <1>7 DEF Running
<1>9. \A c \in Calls : (Cancels(c, "taken"))' /\ asked[c][2] = j => t = "none" /\ rec'[j] = "live"
  BY <1>7 DEF Running
<1>10. CancelCustody'
  BY <1>1, <1>4, <1>8, <1>9, CallsKept DEF Custodial
<1>11. RecordsKept
  BY <1>4 DEF RecordsKept
<1> QED BY <1>5, <1>6, <1>10, <1>11 DEF Custodial

LEMMA TaskMovesKeep ==
  ASSUME BootOK, Custodial, Calling, NEW d \in Daemons, NEW j \in Jobs, TaskMoves(d, j),
         \A c \in Calls : Untouched(c), MarksKept, Taken \subseteq Taken'
  PROVE  Custodial' /\ RecordsKept
<1> DEFINE Kept == Custodial' /\ RecordsKept
<1> SUFFICES Kept
  OBVIOUS
<1>0. rec \in [Jobs -> Status] /\ {"live", "ended", "failed"} \subseteq Status
  BY DEF BootOK, Status, Final
<1>1. task[d][j] # "none" => phase[d] = "serving"
  BY DEF Custodial, Custody
<1>2. /\ task[d][j] \in Unfinished => rec[j] = "live"
      /\ task[d][j] = "failing" => rec[j] \in {"live", "ended"}
  BY DEF Custodial, Custody
<1>3. ASSUME NEW s \in Status, Saves(d, j, s)
      PROVE  /\ rec'[j] \in {rec[j], s}
             /\ rec'[j] = s \/ faults' > 0
  BY <1>0, <1>3, SaveOutcome DEF MayRename, Saved, Renamed
<1>4. CASE StartJob(d, j)
  <2>1. phase[d] = "serving" /\ rec[j] = "absent" /\ TaskStep(d, j, "none", "starting") /\ Saves(d, j, "live")
    BY <1>4 DEF StartJob, Saves
  <2>2. rec'[j] = "live"
    BY <1>0, <1>4 DEF StartJob, Saved, Renamed
  <2> HIDE DEF Kept
  <2>3. Kept
    BY <1>0, <2>1, <2>2, TaskStepKeeps DEF Kept, Task, Unfinished, Final
  <2> QED BY <2>3
<1>5. CASE StartFails(d, j)
  <2>1. phase[d] = "serving" /\ rec[j] = "absent" /\ TaskStep(d, j, "none", "none") /\ Saves(d, j, "live")
    BY <1>5 DEF StartFails, Saves
  <2>2. rec'[j] \in {"absent", "live"} /\ faults' # 0
    <3>1. faults' = faults + 1
      BY <1>5 DEF StartFails, SaveFails, Fault
    <3> QED BY <1>0, <1>3, <2>1, <3>1, StartupAssumption DEF BootOK
  <2>3. Kept
    BY <1>0, <2>1, <2>2, TaskStepKeeps DEF Kept, Task, Unfinished, Final
  <2> QED BY <2>3
<1>6. CASE Enqueue(d, j) \/ TakeTask(d, j)
  <2>1. PICK from \in {"starting", "queued"}, t \in {"queued", "preparing"} :
           TaskStep(d, j, from, t) /\ UNCHANGED <<rec, wrote, faults>>
    BY <1>6 DEF Enqueue, TakeTask
  <2>2. task[d][j] = from /\ phase[d] = "serving" /\ rec[j] = "live"
    BY <1>1, <1>2, <2>1 DEF TaskStep, Unfinished
  <2>3. Kept
    BY <1>0, <2>1, <2>2, TaskStepKeeps DEF Kept, Task, Unfinished, Final
  <2> QED BY <2>3
<1>7. CASE Advance(d, j)
  <2>1. PICK t \in {"preparing", "running", "stopping"} : TaskStep(d, j, "preparing", t) /\ Saves(d, j, "live")
    BY <1>7 DEF Advance, Saves
  <2>2. task[d][j] = "preparing" /\ phase[d] = "serving" /\ rec[j] = "live" /\ rec'[j] = "live"
    BY <1>0, <1>1, <1>2, <1>3, <2>1 DEF TaskStep, Unfinished
  <2>3. Kept
    BY <1>0, <2>1, <2>2, TaskStepKeeps DEF Kept, Task, Unfinished, Final
  <2> QED BY <2>3
<1>8. CASE EndTask(d, j)
  <2>1. PICK from \in {"preparing", "stopping", "running"} :
           \E t \in {"none", "failing"} : /\ TaskStep(d, j, from, t) /\ Saves(d, j, "ended")
                                          /\ t = "failing" => from = "running"
    BY <1>8 DEF EndTask, Saves
  <2>2. PICK t \in {"none", "failing"} : /\ TaskStep(d, j, from, t) /\ Saves(d, j, "ended")
                                         /\ t = "failing" => from = "running"
    BY <2>1
  <2>3. /\ task[d][j] = from /\ phase[d] = "serving" /\ rec[j] = "live" /\ rec'[j] \in {"live", "ended"}
        /\ rec'[j] = "ended" \/ faults' # 0
    BY <1>0, <1>1, <1>2, <1>3, <2>2 DEF TaskStep, Unfinished
  <2>4. Kept
    BY <1>0, <2>2, <2>3, TaskStepKeeps DEF Kept, Task, Unfinished, Final, Running
  <2> QED BY <2>4
<1>9. CASE FailTask(d, j)
  <2>1. TaskStep(d, j, "failing", "none") /\ Saves(d, j, "failed")
    BY <1>9 DEF FailTask, Saves
  <2>2. /\ task[d][j] = "failing" /\ phase[d] = "serving" /\ rec[j] \in {"live", "ended"}
        /\ rec'[j] \in {rec[j], "failed"} /\ (rec'[j] = "failed" \/ faults' # 0)
    BY <1>0, <1>1, <1>2, <1>3, <2>1 DEF TaskStep
  <2>3. Kept
    BY <1>0, <2>1, <2>2, TaskStepKeeps DEF Kept, Task, Unfinished, Final, Running
  <2> QED BY <2>3
<1> QED BY <1>4, <1>5, <1>6, <1>7, <1>8, <1>9 DEF TaskMoves, WorkerStep

-----------------------------------------------------------------------------
\* A Cancel that finds the process or the task, or saves.
LEMMA CancelingCalls ==
  ASSUME BootOK, Calling, Alone, CancelCustody, NEW c \in Calls, spc[c] = "handle",
         NEW d \in Daemons, NEW j \in Jobs, peer[c] = d, asked[c][2] = j,
         UNCHANGED <<phase, clientVars>>, NEW t \in Task, Move(d, j, t),
         \A k \in Jobs \ {j} : rec'[k] = rec[k],
         \A e \in Calls \ {c} : Untouched(e),
         \A e \in Calls \ {c} : asked[e][2] = j => ~Cancels(e, "taken"),
         \A e \in Calls \ {c} : Cancels(e, "mark") /\ asked[e][2] = j =>
             t \in Running \cup {"none"} /\ rec'[j] \in {"live", "ended", "failed"},
         (Cancels(c, "mark"))' => t \in Running \cup {"none"} /\ rec'[j] \in {"live", "ended", "failed"},
         (Cancels(c, "taken"))' => /\ t = "none" /\ rec'[j] = "live"
                                   /\ \A e \in Calls \ {c} : Cancels(e, "mark") => asked[e][2] # j
  PROVE  CancelCustody'
<1> USE DEF Move
<1>1. asked' = asked /\ peer' = peer /\ phase' = phase /\ phase[d] = "serving"
  BY DEF clientVars, CancelCustody
<1>2. ASSUME NEW e \in Calls, spc'[e] = "handle"
      PROVE  spc[e] = "handle" /\ peer[e] = d /\ asked[e][2] \in Jobs
  <2>1. spc[e] = "handle"
    BY <1>2 DEF Untouched
  <2> QED BY <1>1, <2>1 DEF CancelCustody, Calling, Alone
<1>3. ASSUME NEW k \in Jobs, k # j PROVE task'[d][k] = task[d][k] /\ rec'[k] = rec[k]
  BY <1>3 DEF BootOK
<1>4. task'[d][j] = t
  BY DEF BootOK
<1>5. ASSUME NEW e \in Calls \ {c}, NEW p \in {"mark", "taken"}, (Cancels(e, p))'
      PROVE  Cancels(e, p) /\ peer[e] = d /\ asked[e][2] \in Jobs
  <2>1. Cancels(e, p)
    BY <1>5 DEF Untouched, Cancels
  <2> QED BY <1>2, <1>5, <2>1 DEF Cancels
<1>6. ASSUME NEW e \in Calls, (Cancels(e, "mark"))'
      PROVE  task'[peer[e]][asked[e][2]] \in Running \cup {"none"} /\ rec'[asked[e][2]] \in {"live", "ended", "failed"}
  <2>1. CASE e = c
    BY <1>4, <1>6, <2>1
  <2>2. CASE e # c /\ asked[e][2] = j
    BY <1>4, <1>5, <1>6, <2>2
  <2>3. CASE e # c /\ asked[e][2] # j
    BY <1>3, <1>5, <1>6, <2>3 DEF CancelCustody
  <2> QED BY <2>1, <2>2, <2>3
<1>7. ASSUME NEW e \in Calls, (Cancels(e, "taken"))'
      PROVE  /\ task'[peer[e]][asked[e][2]] = "none" /\ rec'[asked[e][2]] = "live"
             /\ \A f \in Calls \ {e} : (Cancels(f, "mark"))' \/ (Cancels(f, "taken"))' => asked[f][2] # asked[e][2]
  <2>1. CASE e = c
    BY <1>4, <1>5, <1>7, <2>1
  <2>2. CASE e # c
    <3>1. Cancels(e, "taken") /\ peer[e] = d /\ asked[e][2] \in Jobs /\ asked[e][2] # j
      BY <1>5, <1>7, <2>2
    <3>2. task'[peer[e]][asked[e][2]] = "none" /\ rec'[asked[e][2]] = "live"
      BY <1>3, <3>1 DEF CancelCustody
    <3>3. ASSUME NEW f \in Calls \ {e}, (Cancels(f, "mark"))' \/ (Cancels(f, "taken"))'
          PROVE  asked[f][2] # asked[e][2]
      <4>1. CASE f = c
        BY <3>1, <4>1
      <4>2. CASE f # c
        BY <1>5, <3>1, <3>3, <4>2 DEF CancelCustody
      <4> QED BY <4>1, <4>2
    <3> QED BY <3>2, <3>3
  <2> QED BY <2>1, <2>2
<1>8. \A e \in Calls : spc'[e] = "handle" => phase'[peer'[e]] = "serving"
  BY <1>1, <1>2
<1> QED BY <1>1, <1>6, <1>7, <1>8 DEF CancelCustody

LEMMA CancelingMarks ==
  ASSUME NEW c \in Calls, UNCHANGED clientVars, \A e \in Calls \ {c} : Untouched(e),
         cancel[c] = "marked" => cancel'[c] = "marked"
  PROVE  MarksKept
<1> SUFFICES ASSUME NEW j \in Marked PROVE j \in Marked'
  BY DEF MarksKept
<1>1. PICK e \in Calls : asked[e] = <<"cancel", j>> /\ cancel[e] = "marked"
  BY DEF Marked
<1>2. asked'[e] = <<"cancel", j>> /\ cancel'[e] = "marked"
  BY <1>1 DEF Untouched, clientVars
<1> QED BY <1>2 DEF Marked

LEMMA CancelingTaken ==
  ASSUME NEW c \in Calls, NEW j \in Jobs, asked[c][2] = j, UNCHANGED clientVars,
         \A e \in Calls \ {c} : Untouched(e) /\ (spc[e] = "handle" => spc'[e] = "handle")
  PROVE  Taken \subseteq Taken' \cup {j}
<1> SUFFICES ASSUME NEW k \in Taken, k # j PROVE k \in Taken'
  OBVIOUS
<1>1. PICK e \in Calls : Cancels(e, "taken") /\ asked[e][2] = k
  BY DEF Taken
<1>2. (Cancels(e, "taken"))' /\ asked'[e][2] = k /\ k \in Jobs
  BY <1>1 DEF Untouched, clientVars, Cancels, Taken
<1> QED BY <1>2 DEF Taken

LEMMA CancelKeeps ==
  ASSUME BootOK, Custodial, Calling, NEW c \in Calls, spc[c] = "handle",
         NEW d \in Daemons, NEW j \in Jobs, peer[c] = d, asked[c][2] = j, UNCHANGED <<phase, loaded>>, UNCHANGED clientVars,
         \A e \in Calls \ {c} : Untouched(e), \A e \in Calls \ {c} : spc[e] = "handle" => spc'[e] = "handle",
         cancel[c] # "marked",
         NEW t \in Task, Move(d, j, t), NEW s \in Status, MayRename(d, j, s), faults' = 0 => faults = 0,
         t \in Unfinished => rec'[j] = "live", t = "failing" => rec'[j] \in {"live", "ended"},
         \A e \in Calls \ {c} : asked[e][2] = j => ~Cancels(e, "taken"),
         \A e \in Calls \ {c} : Cancels(e, "mark") /\ asked[e][2] = j =>
             t \in Running \cup {"none"} /\ rec'[j] \in {"live", "ended", "failed"},
         (Cancels(c, "mark"))' => t \in Running \cup {"none"} /\ rec'[j] \in {"live", "ended", "failed"},
         (Cancels(c, "taken"))' => /\ t = "none" /\ rec'[j] = "live"
                                   /\ \A e \in Calls \ {c} : Cancels(e, "mark") => asked[e][2] # j,
         rec'[j] = "live" /\ faults' = 0 => t # "none" \/ j \in Taken' \cup Marked'
  PROVE  Alone' /\ Custody' /\ CancelCustody' /\ LiveHasHolder'
<1>1. phase[d] = "serving"
  BY DEF Custodial, CancelCustody
<1>2. Alone' /\ Custody'
  BY <1>1, TaskCustody DEF Custodial
<1>3. \A k \in Jobs \ {j} : rec'[k] = rec[k]
  BY DEF MayRename, Renamed, BootOK
<1>4. CancelCustody'
  BY <1>3, CancelingCalls DEF Custodial
<1>5. MarksKept /\ Taken \subseteq Taken' \cup {j}
  BY CancelingMarks, CancelingTaken
<1>6. LiveHasHolder'
  BY <1>1, <1>3, <1>5, HoldersKept DEF Custodial
<1> QED BY <1>2, <1>4, <1>6

\* What the Cancel of c may do next.
CancelStep(c, d, j) ==
    \/ Cancels(c, "lookup") /\ TakesBack(d, j) /\ UNCHANGED spc /\ Canceling(c, "taken")
    \/ /\ Cancels(c, "lookup") /\ task[d][j] \in Running /\ UNCHANGED bootVars
       /\ UNCHANGED spc /\ Canceling(c, "mark")
    \/ Cancels(c, "taken") /\ CancelSaves(d, j, "canceled") /\ spc'[c] # "handle" /\ UNCHANGED cancel
    \/ /\ Cancels(c, "mark") /\ CancelSaves(d, j, "live")
       /\ \/ UNCHANGED <<rec, wrote, cancel>> /\ spc'[c] # "handle" /\ faults' > 0
          \/ Canceling(c, "marked")

LEMMA CancelMovesKeep ==
  ASSUME BootOK, Custodial, Calling, cancel \in [Calls -> Progress], NEW c \in Calls, NEW d \in Daemons, NEW j \in Jobs,
         peer[c] = d, asked[c] = <<"cancel", j>>, UNCHANGED clientVars,
         \A e \in Calls \ {c} : Untouched(e), \A e \in Calls \ {c} : spc[e] = "handle" => spc'[e] = "handle",
         CancelStep(c, d, j)
  PROVE  Custodial' /\ RecordsKept
<1>1. /\ rec \in [Jobs -> Status] /\ "live" \in Status /\ "canceled" \in Status
      /\ spc[c] = "handle" /\ phase[d] = "serving" /\ asked[c][2] = j /\ cancel[c] # "marked"
  BY DEF BootOK, Status, Final, Cancels, Custodial, CancelCustody, CancelStep
<1>2. \A e \in Calls : Cancels(e, "mark") \/ Cancels(e, "taken") => peer[e] = d
  BY <1>1 DEF Cancels, Custodial, CancelCustody, Calling, Alone
<1>3. CASE Cancels(c, "lookup") /\ TakesBack(d, j) /\ UNCHANGED spc /\ Canceling(c, "taken")
  <2>1. PICK t \in Task : t = "none" /\ Move(d, j, t)
    BY <1>3, TaskTypes DEF TakesBack, Task
  <2>2. task[d][j] = "queued" /\ UNCHANGED <<phase, loaded>> /\ UNCHANGED <<rec, wrote, faults>>
    BY <1>3, TaskTypes DEF TakesBack, Task
  <2>3. rec[j] = "live" /\ cancel'[c] = "taken" /\ MayRename(d, j, "live")
    BY <1>3, <2>2 DEF Custodial, Custody, Unfinished, Canceling, MayRename
  <2>4. \A e \in Calls : Cancels(e, "mark") \/ Cancels(e, "taken") => asked[e][2] # j
    BY <1>2, <2>2 DEF Custodial, CancelCustody, Running
  <2>5. ~(Cancels(c, "mark"))'
    BY <2>3 DEF Cancels
  <2>6. j \in Taken'
    <3>1. (Cancels(c, "taken"))' /\ asked'[c][2] = j
      BY <1>1, <1>3, <2>3 DEF Cancels, clientVars
    <3> QED BY <3>1 DEF Taken
  <2>7. Alone' /\ Custody' /\ CancelCustody' /\ LiveHasHolder'
    BY <1>1, <2>1, <2>2, <2>3, <2>4, <2>5, <2>6, CancelKeeps DEF Unfinished
  <2> QED BY <2>2, <2>7 DEF Custodial, RecordsKept
<1>4. CASE Cancels(c, "lookup") /\ task[d][j] \in Running /\ UNCHANGED bootVars /\ UNCHANGED spc /\ Canceling(c, "mark")
  <2>1. UNCHANGED <<phase, loaded>> /\ UNCHANGED <<rec, wrote, faults>> /\ task' = task
    BY <1>4 DEF bootVars
  <2>2. PICK t \in Task : t = task[d][j] /\ Move(d, j, t)
    BY <2>1 DEF BootOK, Move
  <2>3. rec[j] \in {"live", "ended"} /\ (t \in Unfinished => rec[j] = "live") /\ cancel'[c] = "mark"
    BY <1>4, <2>2 DEF Custodial, Custody, Running, Unfinished, Canceling
  <2>4. \A e \in Calls : Cancels(e, "taken") => asked[e][2] # j
    BY <1>2, <1>4 DEF Custodial, CancelCustody, Running
  <2>5. ~(Cancels(c, "taken"))' /\ MayRename(d, j, "live") /\ t \in Running /\ t # "none"
    BY <1>4, <2>1, <2>2, <2>3 DEF Cancels, MayRename, Running
  <2>6. Alone' /\ Custody' /\ CancelCustody' /\ LiveHasHolder'
    BY <1>1, <2>1, <2>2, <2>3, <2>4, <2>5, CancelKeeps
  <2> QED BY <2>1, <2>6 DEF Custodial, RecordsKept
<1>5. ASSUME CancelSaves(d, j, "canceled") \/ CancelSaves(d, j, "live")
      PROVE  UNCHANGED <<phase, loaded>> /\ task' = task /\ (faults' = 0 => faults = 0)
  BY <1>5 DEF CancelSaves, Saves, Saved, SaveFails, Fault, BootOK
<1>6. CASE Cancels(c, "taken") /\ CancelSaves(d, j, "canceled") /\ spc'[c] # "handle" /\ UNCHANGED cancel
  <2>1. MayRename(d, j, "canceled") /\ (Saved(d, j, "canceled") \/ faults' > 0)
    BY <1>1, <1>6, SaveOutcome DEF CancelSaves
  <2>2. task[d][j] = "none" /\ rec[j] = "live"
    BY <1>6 DEF Custodial, CancelCustody
  <2>3. PICK t \in Task : t = "none" /\ Move(d, j, t)
    BY <1>5, <1>6, <2>2 DEF BootOK, Move, Task
  <2>4. rec'[j] \in {"live", "canceled"} /\ ~(rec'[j] = "live" /\ faults' = 0)
    BY <1>1, <2>1, <2>2 DEF MayRename, Saved, Renamed
  <2>5. \A e \in Calls \ {c} : Cancels(e, "mark") \/ Cancels(e, "taken") => asked[e][2] # j
    BY <1>1, <1>6 DEF Custodial, CancelCustody
  <2>6. ~(Cancels(c, "taken"))' /\ ~(Cancels(c, "mark"))'
    BY <1>6 DEF Cancels
  <2>7. Alone' /\ Custody' /\ CancelCustody' /\ LiveHasHolder'
    BY <1>1, <1>5, <1>6, <2>1, <2>3, <2>4, <2>5, <2>6, CancelKeeps DEF Unfinished
  <2>8. RecordsKept
    BY <1>1, <2>1, <2>2, <2>4 DEF RecordsKept, Final, MayRename, Renamed
  <2> QED BY <2>7, <2>8 DEF Custodial
<1>7. CASE /\ Cancels(c, "mark") /\ CancelSaves(d, j, "live")
           /\ \/ UNCHANGED <<rec, wrote, cancel>> /\ spc'[c] # "handle" /\ faults' > 0
              \/ Canceling(c, "marked")
  <2>1. MayRename(d, j, "live")
    BY <1>1, <1>7, SaveOutcome DEF CancelSaves
  <2>2. /\ task[d][j] \in Running \cup {"none"} /\ rec[j] \in {"live", "ended", "failed"}
        /\ task[d][j] = "failing" => rec[j] \in {"live", "ended"}
        /\ task[d][j] \in Unfinished => rec[j] = "live"
    BY <1>1, <1>7 DEF Custodial, CancelCustody, Custody
  <2>3. PICK t \in Task : t = task[d][j] /\ Move(d, j, t)
    BY <1>5, <1>7 DEF BootOK, Move
  <2>4. rec'[j] \in {"live", rec[j]}
    BY <1>1, <2>1 DEF MayRename, Renamed
  <2>5. \A e \in Calls \ {c} : Cancels(e, "taken") => asked[e][2] # j
    BY <1>1, <1>7 DEF Custodial, CancelCustody
  <2>6. cancel'[c] = "marked" \/ (UNCHANGED <<rec, wrote, cancel>> /\ spc'[c] # "handle" /\ faults' > 0)
    BY <1>7 DEF Canceling
  <2>7. ~(Cancels(c, "taken"))' /\ ~(Cancels(c, "mark"))'
    BY <2>6 DEF Cancels
  <2>8. cancel'[c] = "marked" => j \in Marked'
    <3>1. asked'[c] = <<"cancel", j>>
      BY DEF clientVars
    <3> QED BY <3>1 DEF Marked
  <2>9. faults' = 0 => j \in Marked'
    BY <2>6, <2>8
  <2>10. Alone' /\ Custody' /\ CancelCustody' /\ LiveHasHolder'
    BY <1>1, <1>5, <1>7, <2>1, <2>2, <2>3, <2>4, <2>5, <2>7, <2>9, CancelKeeps
  <2>11. RecordsKept
    BY <1>1, <2>1, <2>2, <2>4, <2>6, <2>8 DEF RecordsKept, Final, MayRename, Renamed
  <2> QED BY <2>10, <2>11 DEF Custodial
<1> QED BY <1>3, <1>4, <1>6, <1>7 DEF CancelStep

-----------------------------------------------------------------------------
\* What is on the wire was allowed to be written, and no reader refused it.
Fitting == \A c \in Calls : /\ down[c].part # "none" => Fits(down[c].size)
                            /\ why[c] # "too_large"

Wire == WireOK /\ ClientsOK /\ Calling /\ Fitting
Typed == BootOK /\ Wire
ServiceInv == Typed /\ Custodial /\ AnswersTrue

LEMMA CancelBoots ==
  ASSUME Typed, NEW c \in Calls, HandleCancel(c)
  PROVE  BootMoves \/ UNCHANGED bootVars
<1> DEFINE d == peer[c]  j == asked[c][2]
<1>1. spc[c] = "handle" /\ d \in Daemons /\ j \in Jobs
  BY DEF HandleCancel, CancelLoad, CancelLookup, CancelQueued, CancelMark, CancelPoll, Cancels, Typed, Wire, Calling
<1>2. CASE CancelLoad(c, j) \/ CancelPoll(c, j)
  BY <1>2 DEF CancelLoad, CancelPoll
<1>3. CASE CancelLookup(c, d, j) \/ CancelQueued(c, d, j) \/ CancelMark(c, d, j)
  <2> HIDE DEF d, j
  <2>1. CancelMoves(d, j) \/ UNCHANGED bootVars
    BY <1>3 DEF CancelLookup, CancelQueued, CancelMark, CancelMoves, TakesBack, CancelSaves, Saves, SaveFails
  <2> QED BY <1>1, <2>1 DEF BootMoves
<1> QED BY <1>2, <1>3 DEF HandleCancel

LEMMA Booting ==
  ASSUME Typed, Next
  PROVE  BootMoves \/ UNCHANGED bootVars
<1>1. ASSUME NEW c \in Calls, NEW j \in Jobs, NEW method, NEW n,
             Dial(c, method, j, n) \/ DialFails(c, method, j)
      PROVE  UNCHANGED bootVars
  BY <1>1 DEF Dial, DialFails
<1>2. ASSUME NEW c \in Calls, CallStep(c)
      PROVE  BootMoves \/ UNCHANGED bootVars
  <2>1. CASE HandleStart(c)
    <3>1. peer[c] \in Daemons /\ asked[c][2] \in Jobs
      BY <2>1 DEF HandleStart, Typed, Wire, Calling
    <3>2. CASE TaskMoves(peer[c], asked[c][2])
      BY <3>1, <3>2 DEF BootMoves
    <3>3. CASE UNCHANGED bootVars
      BY <3>3
    <3> QED BY <2>1, <3>2, <3>3 DEF HandleStart, TaskMoves
  <2>2. CASE HandleResult(c)
    BY <2>2 DEF HandleResult
  <2>3. CASE Accepted(c) \/ ((Reply(c) \/ ReadAnswer(c)) /\ UNCHANGED <<bootVars, clientVars, cancel>>)
    BY <2>3 DEF Accepted
  <2>4. CASE HandleCancel(c)
    BY <2>4, CancelBoots
  <2> QED BY <1>2, <2>1, <2>2, <2>3, <2>4 DEF CallStep
<1>3. ASSUME NEW d \in Daemons,
             Launch(d) \/ Boot(d) \/ Die(d) \/ \E j \in Jobs : OthersStart(d, j) \/ WorkerStep(d, j)
      PROVE  BootMoves
  BY <1>3 DEF BootMoves, MainMoves, TaskMoves, OthersStart, Boot
<1> QED BY <1>1, <1>2, <1>3 DEF Next

\* A frame stays a frame when less of it, or more, is on the wire.
LEMMA FramePart ==
  ASSUME NEW f \in Frames, NEW p \in {"none", "whole", "body", "cut"}
  PROVE  /\ [f EXCEPT !.part = p] \in Frames
         /\ [f EXCEPT !.part = p].msg = f.msg /\ [f EXCEPT !.part = p].size = f.size
  BY DEF Frames

LEMMA CutsAreFrames ==
  ASSUME NEW f \in Frames, NEW g \in Cuts(f)
  PROVE  /\ g \in Frames /\ g.msg = f.msg /\ g.size = f.size
         /\ g.part # "none" => f.part # "none"
<1>1. CASE f.part = "whole"
  <2>1. PICK p \in {"whole", "body", "cut"} : g = [f EXCEPT !.part = p]
    BY <1>1 DEF Cuts
  <2> QED BY <1>1, <2>1, FramePart
<1>2. CASE f.part # "whole"
  BY <1>2 DEF Cuts
<1> QED BY <1>1, <1>2

\* A step that leaves the clients' variables alone needs to be checked for these.
LEMMA WireKept ==
  ASSUME Wire, WireOK', Fitting', UNCHANGED <<clientVars, cancel>>,
         \A c \in Calls : cancel[c] # "none" /\ spc'[c] \in {"read", "reply"} => up'[c].part = "none",
         \A c \in Calls : /\ cpc'[c] = "idle" => cpc[c] = "idle"
                          /\ spc'[c] = "none" <=> spc[c] = "none"
                          /\ down'[c].msg = down[c].msg \/ spc[c] # "none"
  PROVE  Wire'
<1>1. ClientsOK'
  BY DEF Wire, ClientsOK, clientVars
<1>2. Calling'
  BY DEF Wire, Calling, clientVars
<1> QED BY <1>1, <1>2 DEF Wire

\* What was said of a job keeps its truth as records and marks are kept.
LEMMA LastsKept ==
  ASSUME RecordsKept, MarksKept, NEW j \in Jobs, NEW state \in Final, Lasts(j, state)
  PROVE  \/ rec'[j] = state
         \/ state \in {"ended", "failed"} /\ j \in Marked'
         \/ state = "ended" /\ rec'[j] = "failed"
  BY DEF RecordsKept, MarksKept, Lasts, Final

\* Answers stay true while no new one is given and no request replaces an old one.
SaysTrue(c) == /\ down[c].msg \in Final => Lasts(asked[c][2], down[c].msg)
               /\ down[c].msg = "started" => rec[asked[c][2]] # "absent"

LEMMA AnswerKept ==
  ASSUME Calling, AnswersTrue, RecordsKept, MarksKept, NEW c \in Calls,
         down'[c].msg = "none" \/ (down'[c].msg = down[c].msg /\ asked'[c] = asked[c])
  PROVE  SaysTrue(c)'
<1> DEFINE msg == down[c].msg  j == asked[c][2]
<1>1. CASE down'[c].msg = "none"
  BY <1>1 DEF SaysTrue, Final
<1>2. CASE msg # "none" /\ down'[c].msg = msg /\ asked'[c] = asked[c]
  <2>1. j \in Jobs
    BY <1>2 DEF Calling
  <2>2. msg \in Final => \/ rec'[j] = msg
                         \/ msg \in {"ended", "failed"} /\ j \in Marked'
                         \/ msg = "ended" /\ rec'[j] = "failed"
    <3>1. msg \in Final => Lasts(j, msg)
      BY DEF AnswersTrue
    <3> QED BY <2>1, <3>1, LastsKept
  <2>3. msg = "started" => rec'[j] # "absent"
    BY <2>1 DEF AnswersTrue, RecordsKept, Final
  <2>4. down'[c].msg = msg /\ asked'[c][2] = j
    BY <1>2
  <2> HIDE DEF msg, j
  <2> QED BY <2>2, <2>3, <2>4 DEF SaysTrue, Lasts
<1> QED BY <1>1, <1>2

LEMMA AnswersKept ==
  ASSUME Calling,
         \A c \in Calls : \/ down'[c].msg = "none"
                          \/ down'[c].msg = down[c].msg /\ asked'[c] = asked[c]
  PROVE  AnswersStay
<1> SUFFICES ASSUME AnswersTrue, RecordsKept, MarksKept, NEW c \in Calls
             PROVE  SaysTrue(c)'
  BY DEF AnswersStay, AnswersTrue, SaysTrue
<1> QED BY AnswerKept

LEMMA FailKeeps ==
  ASSUME Wire, NEW c \in Calls, NEW r \in {"refused", "unreachable"}, CallFails(c, r)
  PROVE  /\ WireOK' /\ Fitting' /\ spc' = spc /\ down' = down
         /\ spc[c] = "none" /\ down[c].msg = "none"
         /\ cpc' = [cpc EXCEPT ![c] = "failed"]
<1>1. /\ spc' = spc /\ down' = down /\ spc[c] = "none" /\ down[c].msg = "none"
      /\ cpc' = [cpc EXCEPT ![c] = "failed"] /\ why' = [why EXCEPT ![c] = r]
      /\ UNCHANGED <<up, upEnd, downEnd>>
  BY DEF Wire, Calling, CallFails, End
<1>2. WireOK'
  BY <1>1 DEF Wire, WireOK
<1>3. Fitting'
  BY <1>1 DEF Wire, WireOK, Fitting
<1> QED BY <1>1, <1>2, <1>3

LEMMA DialStep ==
  ASSUME Typed, NEW c \in Calls, NEW j \in Jobs, NEW method \in {"start", "result", "cancel"},
         NEW n \in Nat, Dial(c, method, j, n)
  PROVE  Wire' /\ AnswersStay
<1>0. cpc[c] = "idle" /\ spc[c] = "none" /\ down[c].msg = "none" /\ UNCHANGED <<down, rec, cancel>>
  BY DEF Dial, CallSends, CallFails, Typed, Wire, Calling, bootVars
<1>1. asked' = [asked EXCEPT ![c] = <<method, j>>] /\ peer' = [peer EXCEPT ![c] = sock] /\ sock \in Daemons
  BY DEF Dial, Ask, Open
<1>2. ClientsOK'
  BY <1>0, <1>1 DEF Typed, Wire, ClientsOK
<1>3. WireOK' /\ Calling' /\ Fitting'
  <2>1. CASE CallSends(c, "request", n)
    <3>1. /\ cpc' = [cpc EXCEPT ![c] = "waiting"] /\ why' = [why EXCEPT ![c] = ""]
          /\ spc' = [spc EXCEPT ![c] = "read"]
          /\ up' = [up EXCEPT ![c] = Frame("request", n, "whole")]
          /\ UNCHANGED <<down, upEnd, downEnd>>
      BY <2>1 DEF CallSends, End, Serve
    <3>2. Frame("request", n, "whole") \in Frames
      BY DEF Frame, Frames
    <3>3. WireOK'
      BY <3>1, <3>2 DEF Typed, Wire, WireOK
    <3>4. Calling'
      <4>1. ASSUME NEW e \in Calls, e # c
            PROVE  /\ cpc'[e] = cpc[e] /\ spc'[e] = spc[e] /\ down'[e] = down[e] /\ cancel'[e] = cancel[e]
                   /\ up'[e] = up[e] /\ peer'[e] = peer[e] /\ asked'[e] = asked[e]
        BY <1>0, <1>1, <3>1, <4>1 DEF Typed, Wire, WireOK, ClientsOK
      <4>2. /\ cpc'[c] = "waiting" /\ cancel'[c] = "none" /\ peer'[c] \in Daemons
            /\ asked'[c] \in {"start", "result", "cancel"} \X Jobs /\ spc'[c] = "read"
        <5>1. cancel[c] = "none"
          BY <1>0 DEF Typed, Wire, Calling
        <5>2. cpc'[c] = "waiting" /\ spc'[c] = "read"
          BY <3>1 DEF Typed, Wire, WireOK
        <5>3. peer'[c] = sock /\ asked'[c] = <<method, j>>
          BY <1>1 DEF Typed, Wire, ClientsOK
        <5> QED BY <1>0, <1>1, <5>1, <5>2, <5>3
      <4>3. ASSUME NEW e \in Calls
            PROVE  /\ cpc'[e] = "idle" => spc'[e] = "none"
                   /\ spc'[e] = "none" => down'[e].msg = "none" /\ cancel'[e] = "none"
                   /\ spc'[e] # "none" => peer'[e] \in Daemons /\ asked'[e] \in {"start", "result", "cancel"} \X Jobs
                   /\ spc'[e] \in {"read", "reply"} /\ cancel'[e] # "none" => up'[e].part = "none"
        <5>1. CASE e # c
          BY <4>1, <5>1 DEF Typed, Wire, Calling
        <5>2. CASE e = c
          BY <4>2, <5>2
        <5> QED BY <5>1, <5>2
      <4> QED BY <4>3 DEF Calling
    <3>5. Fitting'
      BY <3>1 DEF Typed, Wire, WireOK, Fitting
    <3> QED BY <3>3, <3>4, <3>5
  <2>2. CASE CallFails(c, "refused")
    <3>1. WireOK' /\ Fitting'
      BY <2>2, FailKeeps DEF Typed
    <3>2. /\ spc' = spc /\ down' = down /\ cpc' = [cpc EXCEPT ![c] = "failed"]
          /\ up' = up /\ cancel' = cancel
          /\ \A e \in Calls : e # c => asked'[e] = asked[e] /\ peer'[e] = peer[e]
      <4>1. /\ spc' = spc /\ down' = down /\ cpc' = [cpc EXCEPT ![c] = "failed"]
            /\ up' = up /\ cancel' = cancel
        BY <1>0, <2>2, FailKeeps DEF CallFails, Typed
      <4>2. \A e \in Calls : e # c => asked'[e] = asked[e] /\ peer'[e] = peer[e]
        BY <1>1 DEF Typed, Wire, ClientsOK
      <4> QED BY <4>1, <4>2
    <3>3. ASSUME NEW e \in Calls
          PROVE  /\ cpc'[e] = "idle" => spc'[e] = "none"
                 /\ spc'[e] = "none" => down'[e].msg = "none" /\ cancel'[e] = "none"
                 /\ spc'[e] # "none" => peer'[e] \in Daemons /\ asked'[e] \in {"start", "result", "cancel"} \X Jobs
                 /\ spc'[e] \in {"read", "reply"} /\ cancel'[e] # "none" => up'[e].part = "none"
      <4>1. CASE e # c
        BY <3>2, <4>1 DEF Typed, Wire, WireOK, Calling
      <4>2. CASE e = c
        BY <1>0, <3>2, <4>2 DEF Typed, Wire, Calling
      <4> QED BY <4>1, <4>2
    <3>4. Calling'
      BY <3>3 DEF Calling
    <3> QED BY <3>1, <3>4
  <2> QED BY <2>1, <2>2 DEF Dial
<1>4. AnswersStay
  <2>2. \A e \in Calls : down'[e].msg = "none" \/ (down'[e].msg = down[e].msg /\ asked'[e] = asked[e])
    BY <1>0, <1>1 DEF Typed, Wire, ClientsOK
  <2> QED BY <2>2, AnswersKept DEF Typed, Wire
<1> QED BY <1>2, <1>3, <1>4 DEF Wire

LEMMA DialFailsStep ==
  ASSUME Typed, NEW c \in Calls, NEW j \in Jobs, NEW method \in {"start", "result", "cancel"},
         DialFails(c, method, j)
  PROVE  Wire' /\ AnswersStay
<1>0. cpc[c] = "idle" /\ spc[c] = "none" /\ down[c].msg = "none" /\ UNCHANGED <<down, spc, up, peer, rec, cancel>>
  BY DEF DialFails, CallFails, Typed, Wire, Calling, bootVars
<1>1. asked' = [asked EXCEPT ![c] = <<method, j>>]
  BY DEF DialFails, Ask
<1>2. Wire'
  <2>1. WireOK' /\ Fitting' /\ cpc' = [cpc EXCEPT ![c] = "failed"]
    BY FailKeeps DEF DialFails, Typed, Wire
  <2>2. ClientsOK'
    BY <1>0, <1>1 DEF Typed, Wire, ClientsOK
  <2>3. Calling'
    <3>1. ASSUME NEW e \in Calls, e # c
          PROVE  cpc'[e] = cpc[e] /\ asked'[e] = asked[e]
      BY <1>1, <2>1, <3>1 DEF Typed, Wire, WireOK, ClientsOK
    <3>2. cpc'[c] = "failed"
      BY <2>1 DEF Typed, Wire, WireOK
    <3> QED BY <1>0, <3>1, <3>2 DEF Typed, Wire, Calling
  <2> QED BY <2>1, <2>2, <2>3 DEF Wire
<1>3. \A e \in Calls : down'[e].msg = "none" \/ (down'[e].msg = down[e].msg /\ asked'[e] = asked[e])
  BY <1>0, <1>1 DEF Typed, Wire, ClientsOK
<1> QED BY <1>2, <1>3, AnswersKept DEF Typed, Wire

\* The handlers: an answer is true when it is given.
LEMMA HandleStep ==
  ASSUME Typed, NEW c \in Calls, NEW msg \in {"started", "refused"} \cup Status, NEW n \in Nat,
         Handle(c, msg, n), UNCHANGED clientVars,
         cancel' \in [Calls -> Progress], \A e \in Calls \ {c} : cancel'[e] = cancel[e],
         msg \in Final => rec'[asked[c][2]] = msg,
         msg = "started" /\ Custody => rec'[asked[c][2]] # "absent"
  PROVE  Wire' /\ AnswersStay
<1>1. Wire'
  <2>1. WireOK' /\ ClientsOK' /\ Fitting'
    <3>1. WireOK' /\ ClientsOK'
      BY DEF Handle, Serve, Frame, NoFrame, Frames, clientVars, Typed, Wire, WireOK, ClientsOK
    <3>2. Fitting'
      BY DEF Handle, Frame, Typed, Wire, WireOK, Fitting
    <3> QED BY <3>1, <3>2
  <2>2. ASSUME NEW e \in Calls, e # c
        PROVE  /\ UNCHANGED <<cpc, peer, asked>> /\ spc'[e] = spc[e] /\ down'[e] = down[e]
               /\ up'[e] = up[e] /\ cancel'[e] = cancel[e]
    BY <2>2 DEF Handle, Serve, clientVars, Typed, Wire, WireOK
  <2>3. /\ UNCHANGED <<cpc, peer, asked>> /\ spc[c] = "handle" /\ spc'[c] = "reply" /\ up'[c].part = "none"
    BY DEF Handle, Serve, NoFrame, Frame, clientVars, Typed, Wire, WireOK
  <2>4. Calling'
    BY <2>2, <2>3 DEF Typed, Wire, Calling
  <2> QED BY <2>1, <2>4 DEF Wire
<1>2. ASSUME NEW e \in Calls, e # c
      PROVE  down'[e] = down[e] /\ asked'[e] = asked[e]
  BY <1>2 DEF Handle, Typed, Wire, WireOK, clientVars
<1>3. down'[c].msg = msg /\ asked'[c] = asked[c]
  BY DEF Handle, Frame, Typed, Wire, WireOK, clientVars
<1>4. ASSUME AnswersTrue, Custody, RecordsKept, MarksKept, NEW e \in Calls
      PROVE  SaysTrue(e)'
  <2>1. CASE e # c
    BY <1>2, <1>4, <2>1, AnswerKept DEF Typed, Wire
  <2>2. CASE e = c
    BY <1>3, <1>4, <2>2 DEF SaysTrue, Lasts
  <2> QED BY <2>1, <2>2
<1>5. AnswersStay
  BY <1>4 DEF AnswersStay, AnswersTrue, SaysTrue
<1> QED BY <1>1, <1>5

\* A call that goes on with its Cancel, or with its Start, gives no answer yet.
LEMMA ProgressStep ==
  ASSUME Typed, NEW c \in Calls, spc[c] = "handle", UNCHANGED wireVars, UNCHANGED clientVars,
         cancel' \in [Calls -> Progress], \A e \in Calls \ {c} : cancel'[e] = cancel[e]
  PROVE  Wire' /\ AnswersStay
<1>1. UNCHANGED <<cpc, why, spc, up, down, upEnd, downEnd>> /\ UNCHANGED <<peer, asked>>
  BY DEF wireVars, clientVars
<1>2. WireOK' /\ ClientsOK' /\ Fitting'
  BY <1>1 DEF Typed, Wire, WireOK, ClientsOK, Fitting
<1>3. Calling'
  BY <1>1 DEF Typed, Wire, Calling
<1> QED BY <1>1, <1>2, <1>3, AnswersKept DEF Typed, Wire

LEMMA HandleStartStep ==
  ASSUME Typed, NEW c \in Calls, HandleStart(c)
  PROVE  Wire' /\ AnswersStay
<1>1. /\ spc[c] = "handle" /\ asked[c][2] \in Jobs /\ peer[c] \in Daemons /\ UNCHANGED clientVars
      /\ cancel' \in [Calls -> Progress] /\ (\A e \in Calls \ {c} : cancel'[e] = cancel[e])
  BY DEF HandleStart, Typed, Wire, Calling, WireOK, ClientsOK
<1>2. CASE StartJob(peer[c], asked[c][2]) /\ UNCHANGED wireVars
  BY <1>1, <1>2, ProgressStep
<1>3. CASE Handle(c, "refused", 1)
  BY <1>1, <1>3, HandleStep DEF Final
<1>4. CASE Enqueue(peer[c], asked[c][2]) /\ Handle(c, "started", 1)
  <2>1. task[peer[c]][asked[c][2]] = "starting" /\ rec' = rec
    BY <1>4 DEF Enqueue, TaskStep
  <2>2. Custody => rec'[asked[c][2]] = "live"
    BY <1>1, <2>1 DEF Custody, Unfinished
  <2> QED BY <1>1, <1>4, <2>2, HandleStep DEF Final
<1> QED BY <1>2, <1>3, <1>4 DEF HandleStart

LEMMA HandleResultStep ==
  ASSUME Typed, NEW c \in Calls, HandleResult(c)
  PROVE  Wire' /\ AnswersStay
<1>1. /\ spc[c] = "handle" /\ asked[c][2] \in Jobs /\ UNCHANGED clientVars
      /\ cancel' \in [Calls -> Progress] /\ (\A e \in Calls \ {c} : cancel'[e] = cancel[e])
  BY DEF HandleResult, Typed, Wire, Calling, WireOK, ClientsOK
<1>2. PICK n \in ResultSizes \cup {1} : Handle(c, rec[asked[c][2]], n)
  BY DEF HandleResult
<1>3. n \in Nat /\ rec[asked[c][2]] \in Status /\ UNCHANGED rec
  BY <1>1, <1>2, ServiceAssumption DEF HandleResult, bootVars, Typed, BootOK
<1>4. rec[asked[c][2]] # "started"
  BY <1>3 DEF Status, Final
<1> QED BY <1>1, <1>2, <1>3, <1>4, HandleStep

LEMMA HandleCancelStep ==
  ASSUME Typed, NEW c \in Calls, HandleCancel(c)
  PROVE  Wire' /\ AnswersStay
<1> DEFINE d == peer[c]  j == asked[c][2]
<1>1. /\ spc[c] = "handle" /\ j \in Jobs /\ d \in Daemons /\ UNCHANGED clientVars
      /\ \/ CancelLoad(c, j) \/ CancelLookup(c, d, j) \/ CancelQueued(c, d, j)
         \/ CancelMark(c, d, j) \/ CancelPoll(c, j)
  BY DEF HandleCancel, CancelLoad, CancelLookup, CancelQueued, CancelMark, CancelPoll, Cancels, Typed, Wire, Calling
<1>2. rec \in [Jobs -> Status] /\ rec[j] \in Status /\ "live" \in Status /\ "canceled" \in Status /\ 1 \in Nat
  BY <1>1 DEF Typed, BootOK, Status, Final
<1>3. ASSUME NEW p \in {"lookup", "taken", "mark", "marked"}, Canceling(c, p) \/ UNCHANGED cancel
      PROVE  cancel' \in [Calls -> Progress] /\ (\A e \in Calls \ {c} : cancel'[e] = cancel[e])
  BY <1>3 DEF Canceling, Typed, Wire, ClientsOK, Progress
<1> HIDE DEF d
<1>4. ASSUME UNCHANGED wireVars, NEW p \in {"lookup", "taken", "mark", "marked"}, Canceling(c, p)
      PROVE  Wire' /\ AnswersStay
  BY <1>1, <1>3, <1>4, ProgressStep
<1>5. ASSUME NEW msg \in {"refused"} \cup Status, Handle(c, msg, 1), msg \in Final => rec'[j] = msg,
             UNCHANGED cancel \/ Canceling(c, "marked")
      PROVE  Wire' /\ AnswersStay
  <2>1. msg # "started"
    BY <1>5 DEF Status, Final
  <2> QED BY <1>1, <1>2, <1>3, <1>5, <2>1, HandleStep
<1> HIDE DEF j
<1>6. CASE CancelLoad(c, j)
  <2>1. UNCHANGED rec
    BY <1>6 DEF CancelLoad, bootVars
  <2> QED BY <1>2, <1>4, <1>5, <1>6, <2>1 DEF CancelLoad, Final
<1>7. CASE CancelLookup(c, d, j)
  <2>1. CASE \E answer \in {"live", rec[j]} : Handle(c, answer, 1) /\ UNCHANGED <<bootVars, cancel>>
    BY <1>2, <1>5, <2>1 DEF bootVars, Final
  <2>2. CASE \E p \in {"taken", "mark"} : UNCHANGED wireVars /\ Canceling(c, p)
    BY <1>4, <2>2
  <2> QED BY <1>7, <2>1, <2>2 DEF CancelLookup
<1>8. CASE CancelQueued(c, d, j)
  <2>1. Saved(d, j, "canceled") => rec'[j] = "canceled"
    BY <1>1, <1>2 DEF Saved, Renamed
  <2> QED BY <1>2, <1>5, <1>8, <2>1 DEF CancelQueued, Final
<1>9. CASE CancelMark(c, d, j)
  BY <1>4, <1>5, <1>9 DEF CancelMark, Final
<1>10. CASE CancelPoll(c, j)
  <2>1. UNCHANGED rec
    BY <1>10 DEF CancelPoll, bootVars
  <2> QED BY <1>2, <1>5, <1>10, <2>1 DEF CancelPoll, Final
<1> QED BY <1>1, <1>6, <1>7, <1>8, <1>9, <1>10

\* The other steps of a connection give no answer.
LEMMA ConnectionStep ==
  ASSUME Typed, NEW c \in Calls, ReadRequest(c) \/ Reply(c) \/ ReadAnswer(c) \/ ClientDies(c),
         UNCHANGED <<rec, clientVars, cancel>>
  PROVE  Wire' /\ AnswersStay
<1>2. CASE ReadRequest(c)
  <2>1. Wire'
    <3>1. /\ spc[c] = "read" /\ UNCHANGED <<cpc, why, up, down, upEnd>>
          /\ \E p \in {"handle", "closed"} : spc' = [spc EXCEPT ![c] = p]
          /\ downEnd' = downEnd \/ downEnd' = downEnd \cup {c}
      BY <1>2 DEF ReadRequest, Serve, Hangup
    <3>2. spc \in [Calls -> {"none", "read", "handle", "reply", "closed"}]
      BY DEF Typed, Wire, WireOK
    <3>3. WireOK'
      <4>1. /\ spc' \in [Calls -> {"none", "read", "handle", "reply", "closed"}]
            /\ downEnd \subseteq Calls => downEnd' \subseteq Calls
        BY <3>1, <3>2
      <4> QED BY <3>1, <4>1 DEF Typed, Wire, WireOK
    <3>4. Fitting'
      BY <3>1 DEF Typed, Wire, Fitting
    <3>5. \A e \in Calls : /\ spc'[e] = "none" <=> spc[e] = "none"
                           /\ spc'[e] \in {"read", "reply"} => spc'[e] = spc[e]
      BY <3>1, <3>2
    <3>6. \A e \in Calls : cancel[e] # "none" /\ spc'[e] \in {"read", "reply"} => up'[e].part = "none"
      BY <3>1, <3>5 DEF Typed, Wire, Calling
    <3> QED BY <3>1, <3>3, <3>4, <3>5, <3>6, WireKept DEF Typed, Wire
  <2> QED BY <1>2, <2>1, AnswersKept DEF ReadRequest, clientVars, Typed, Wire
<1>3. CASE Reply(c)
  <2>1. /\ spc[c] = "reply" /\ UNCHANGED <<cpc, why, up, upEnd>>
        /\ \E p \in {"read", "closed"} : spc' = [spc EXCEPT ![c] = p]
        /\ downEnd' = downEnd \/ downEnd' = downEnd \cup {c}
    BY <1>3 DEF Reply, Serve, Hangup, NextRequest, WriteFails
  <2>2. /\ down' = [down EXCEPT ![c] = down'[c]]
        /\ down'[c] \in Frames /\ down'[c].msg \in {"none", down[c].msg}
        /\ down'[c].part # "none" => Fits(down'[c].size)
    <3>1. down[c] \in Frames /\ down \in [Calls -> Frames]
      BY DEF Typed, Wire, WireOK
    <3>2. CASE down' = [down EXCEPT ![c] = NoFrame]
      <4>1. NoFrame \in Frames /\ NoFrame.msg = "none" /\ NoFrame.part = "none"
        BY DEF NoFrame, Frame, Frames
      <4>2. down'[c] = NoFrame
        BY <3>1, <3>2
      <4> QED BY <3>2, <4>1, <4>2
    <3>3. CASE Fits(down[c].size) /\ down' = [down EXCEPT ![c].part = "whole"]
      <4>1. down' = [down EXCEPT ![c] = [down[c] EXCEPT !.part = "whole"]]
        BY <3>1, <3>3
      <4>2. down'[c] = [down[c] EXCEPT !.part = "whole"]
        BY <3>1, <4>1
      <4> QED BY <3>1, <3>3, <4>1, <4>2, FramePart
    <3> QED BY <1>3, <3>2, <3>3 DEF Reply
  <2>3. WireOK'
    <3>1. PICK g \in Frames : down' = [down EXCEPT ![c] = g]
      BY <2>2
    <3>2. down' \in [Calls -> Frames]
      BY <3>1 DEF Typed, Wire, WireOK
    <3> QED BY <2>1, <3>2 DEF Typed, Wire, WireOK
  <2>4. \A e \in Calls : down'[e].msg = "none" \/ (down'[e].msg = down[e].msg /\ asked'[e] = asked[e])
    BY <2>2 DEF clientVars, Typed, Wire, WireOK
  <2>5. Fitting'
    BY <2>1, <2>2 DEF Typed, Wire, WireOK, Fitting
  <2>6. Wire'
    <3>1. spc \in [Calls -> {"none", "read", "handle", "reply", "closed"}]
      BY DEF Typed, Wire, WireOK
    <3>2. \A e \in Calls : /\ spc'[e] = "none" <=> spc[e] = "none"
                           /\ spc'[e] \in {"read", "reply"} => spc[e] \in {"read", "reply"}
      BY <2>1, <3>1
    <3>4. \A e \in Calls : cancel[e] # "none" /\ spc'[e] \in {"read", "reply"} => up'[e].part = "none"
      BY <2>1, <3>2 DEF Typed, Wire, Calling
    <3>3. \A e \in Calls : down'[e].msg = down[e].msg \/ spc[e] # "none"
      BY <2>1, <2>2 DEF Typed, Wire, WireOK
    <3> QED BY <2>1, <2>3, <2>5, <3>2, <3>3, <3>4, WireKept DEF Typed, Wire
  <2> QED BY <2>4, <2>6, AnswersKept DEF Typed, Wire
<1>4. CASE ReadAnswer(c)
  <2>0. down[c].size \in Nat /\ (down[c].part # "none" => down[c].size + 1 <= Limit)
    BY DEF Typed, Wire, WireOK, Frames, Fitting, Fits
  <2>1. Outcome(down[c]) \in {"closed", "garbled", "frame"}
    BY <2>0, FramingAssumption DEF Outcome, Oversized
  <2>2. PluginOutcome(down[c]) \in {"closed", "frame"}
    BY <2>0, FramingAssumption DEF PluginOutcome
  <2>3. Wire'
    <3>1. /\ UNCHANGED <<spc, up, down, downEnd>> /\ upEnd' = upEnd \cup {c}
          /\ \E p \in {"answered", "failed"}, r \in {"", "mangled", "closed", "garbled"} :
                cpc' = [cpc EXCEPT ![c] = p] /\ why' = [why EXCEPT ![c] = r]
      BY <1>4, <2>1, <2>2 DEF ReadAnswer, End
    <3>2. WireOK'
      <4>1. PICK p \in {"answered", "failed"}, r \in {"", "mangled", "closed", "garbled"} :
               cpc' = [cpc EXCEPT ![c] = p] /\ why' = [why EXCEPT ![c] = r]
        BY <3>1
      <4>2. /\ cpc' \in [Calls -> {"idle", "waiting", "answered", "failed", "gone"}]
            /\ why' \in [Calls -> {"", "mangled", "refused", "unreachable", "too_large", "closed", "garbled"}]
        BY <4>1 DEF Typed, Wire, WireOK
      <4> QED BY <3>1, <4>2 DEF Typed, Wire, WireOK
    <3>3. Fitting'
      BY <3>1 DEF Typed, Wire, WireOK, Fitting
    <3>4. \A e \in Calls : cancel[e] # "none" /\ spc'[e] \in {"read", "reply"} => up'[e].part = "none"
      BY <3>1 DEF Typed, Wire, Calling
    <3> QED BY <3>1, <3>2, <3>3, <3>4, WireKept DEF Typed, Wire, WireOK
  <2> QED BY <1>4, <2>3, AnswersKept DEF ReadAnswer, clientVars, Typed, Wire
<1>5. CASE ClientDies(c)
  <2>1. Wire'
    <3>1. /\ UNCHANGED <<spc, down, downEnd>> /\ upEnd' = upEnd \cup {c}
          /\ cpc' = [cpc EXCEPT ![c] = "gone"] /\ why' = [why EXCEPT ![c] = ""]
      BY <1>5 DEF ClientDies, End
    <3>2. PICK f \in Cuts(up[c]) : up' = [up EXCEPT ![c] = f]
      BY <1>5 DEF ClientDies
    <3>3. f \in Frames
      BY <3>2, CutsAreFrames DEF Typed, Wire, WireOK
    <3>4. WireOK'
      BY <3>1, <3>2, <3>3 DEF Typed, Wire, WireOK
    <3>5. Fitting'
      BY <3>1 DEF Typed, Wire, WireOK, Fitting
    <3>6. \A e \in Calls : cancel[e] # "none" /\ spc'[e] \in {"read", "reply"} => up'[e].part = "none"
      <4>1. up[c].part = "none" => f.part = "none"
        BY <3>2, CutsAreFrames DEF Typed, Wire, WireOK
      <4>2. \A e \in Calls : up'[e] = up[e] \/ (e = c /\ up'[e] = f)
        BY <3>2 DEF Typed, Wire, WireOK
      <4> QED BY <3>1, <4>1, <4>2 DEF Typed, Wire, Calling
    <3> QED BY <3>1, <3>4, <3>5, <3>6, WireKept DEF Typed, Wire, WireOK
  <2> QED BY <1>5, <2>1, AnswersKept DEF ClientDies, clientVars, Typed, Wire
<1> QED BY <1>2, <1>3, <1>4, <1>5

LEMMA ServerDiesStep ==
  ASSUME Typed, NEW S \in SUBSET Calls, ServerDies(S), UNCHANGED <<clientVars, cancel>>
  PROVE  Wire' /\ AnswersStay
<1>1. ASSUME NEW e \in Calls
      PROVE  /\ down'[e] \in Frames /\ down'[e].msg = down[e].msg /\ down'[e].size = down[e].size
             /\ down'[e].part # "none" => down[e].part # "none"
  <2>1. down'[e] \in Cuts(down[e]) \cup {down[e]}
    BY DEF ServerDies
  <2> QED BY <2>1, CutsAreFrames DEF Typed, Wire, WireOK
<1>2. down' \in [Calls -> Frames]
  <2>1. DOMAIN down' = Calls /\ down' = [e \in Calls |-> down'[e]]
    BY DEF ServerDies
  <2> QED BY <1>1, <2>1
<1>3. /\ spc' \in [Calls -> {"none", "read", "handle", "reply", "closed"}]
      /\ \A e \in Calls : /\ spc'[e] = "none" <=> spc[e] = "none"
                          /\ spc'[e] # "closed" => spc'[e] = spc[e]
      /\ downEnd' \subseteq Calls /\ UNCHANGED <<cpc, why, up, upEnd>>
  BY DEF ServerDies, Typed, Wire, WireOK
<1>4. Wire'
  <2>1. Fitting'
    BY <1>1, <1>3 DEF Typed, Wire, Fitting
  <2>2. WireOK' /\ ClientsOK'
    BY <1>2, <1>3 DEF clientVars, Typed, Wire, WireOK, ClientsOK
  <2>3. Calling'
    BY <1>1, <1>3 DEF clientVars, Typed, Wire, Calling
  <2> QED BY <2>1, <2>2, <2>3 DEF Wire
<1> QED BY <1>1, <1>4, AnswersKept DEF clientVars, Typed, Wire

-----------------------------------------------------------------------------
LEMMA ServiceInvInit == Init => ServiceInv
<1> SUFFICES ASSUME Init PROVE ServiceInv
  OBVIOUS
<1>1. BootOK /\ Alone /\ Custody /\ (\A d \in Daemons : phase[d] = "off")
  BY CustodialInit DEF Init, BootInit
<1>2. Wire /\ AnswersTrue /\ \A c \in Calls : spc[c] = "none"
  BY DEF Init, WireInit, NoFrame, Frame, Frames, Wire, WireOK, ClientsOK, Calling, Fitting,
     AnswersTrue, Final, Progress
<1>3. CancelCustody /\ LiveHasHolder
  BY <1>1, <1>2 DEF CancelCustody, Cancels, LiveHasHolder, Listening
<1> QED BY <1>1, <1>2, <1>3 DEF ServiceInv, Typed, Custodial

\* Each step keeps what is on the wire as it should be, and the answers true.
LEMMA WireStep ==
  ASSUME Typed, [Next]_vars
  PROVE  Wire' /\ AnswersStay
<1>1. CASE UNCHANGED <<wireVars, clientVars, cancel>>
  <2>1. Wire'
    BY <1>1 DEF wireVars, clientVars, Typed, Wire, WireOK, ClientsOK, Calling, Fitting
  <2> QED BY <1>1, <2>1, AnswersKept DEF wireVars, clientVars, Typed, Wire
<1>2. CASE \E c \in Calls, j \in Jobs, method \in {"start", "result", "cancel"} :
              DialFails(c, method, j) \/ \E n \in Nat : Dial(c, method, j, n)
  BY <1>2, DialStep, DialFailsStep
<1>3. CASE \E c \in Calls : CallStep(c) \/ (ClientDies(c) /\ UNCHANGED <<bootVars, clientVars, cancel>>)
  <2>1. PICK c \in Calls : CallStep(c) \/ (ClientDies(c) /\ UNCHANGED <<bootVars, clientVars, cancel>>)
    BY <1>3
  <2>2. CASE HandleStart(c) \/ HandleResult(c) \/ HandleCancel(c)
    BY <2>2, HandleStartStep, HandleResultStep, HandleCancelStep
  <2>3. CASE /\ ReadRequest(c) \/ Reply(c) \/ ReadAnswer(c) \/ ClientDies(c)
             /\ UNCHANGED <<bootVars, clientVars, cancel>>
    <3>1. UNCHANGED <<rec, clientVars, cancel>>
      BY <2>3 DEF bootVars
    <3> QED BY <2>3, <3>1, ConnectionStep
  <2> QED BY <2>1, <2>2, <2>3 DEF CallStep, Accepted
<1>4. CASE \E d \in Daemons : ServerDies(Connections(d)) /\ UNCHANGED <<clientVars, cancel>>
  <2>1. \A d \in Daemons : Connections(d) \in SUBSET Calls
    BY DEF Connections
  <2> QED BY <1>4, <2>1, ServerDiesStep
<1>5. CASE Next
  <2>1. RequestSizes \subseteq Nat /\ 1 \in Nat
    BY ServiceAssumption
  <2> QED BY <1>1, <1>2, <1>3, <1>4, <1>5, <2>1 DEF Next, Boot
<1> QED BY <1>1, <1>5 DEF vars

-----------------------------------------------------------------------------
\* Steps that leave the records, the tasks and the processes alone.
LEMMA QuietStep ==
  ASSUME Typed, Custodial, UNCHANGED bootVars,
         \A c \in Calls : cancel[c] = "marked" => cancel'[c] = "marked" /\ asked'[c] = asked[c],
         \A c \in Calls : Cancels(c, "taken") => Cancels(c, "taken")' /\ asked'[c] = asked[c],
         \A c \in Calls : spc'[c] = "handle" =>
             /\ peer'[c] = peer[c] /\ asked'[c] = asked[c]
             /\ spc[c] = "handle" \/ phase[peer[c]] = "serving"
             /\ cancel'[c] \in {"mark", "taken"} => spc[c] = "handle" /\ cancel[c] = cancel'[c]
  PROVE  Custodial' /\ RecordsKept /\ MarksKept
<1>1. UNCHANGED <<phase, sock, rec, task, loaded, wrote, faults, deaths>>
  BY DEF bootVars
<1>2. MarksKept /\ Taken \subseteq Taken'
  BY DEF MarksKept, Marked, Taken
<1>3. Alone' /\ Custody' /\ RecordsKept
  BY <1>1 DEF Custodial, Alone, Custody, Listening, RecordsKept
<1>4. LiveHasHolder'
  BY <1>1, <1>2 DEF Custodial, LiveHasHolder, Listening, MarksKept
<1>5. ASSUME NEW c \in Calls, NEW p \in {"mark", "taken"}, Cancels(c, p)'
      PROVE  Cancels(c, p) /\ asked'[c] = asked[c] /\ peer'[c] = peer[c]
  BY <1>5 DEF Cancels
<1>6. \A c \in Calls : spc'[c] = "handle" => phase'[peer'[c]] = "serving"
  BY <1>1 DEF Custodial, CancelCustody
<1>7. ASSUME NEW c \in Calls, Cancels(c, "mark")'
      PROVE  /\ task'[peer'[c]][asked'[c][2]] \in Running \cup {"none"}
             /\ rec'[asked'[c][2]] \in {"live", "ended", "failed"}
  BY <1>1, <1>5, <1>7 DEF Custodial, CancelCustody
<1>8. ASSUME NEW c \in Calls, Cancels(c, "taken")'
      PROVE  /\ task'[peer'[c]][asked'[c][2]] = "none" /\ rec'[asked'[c][2]] = "live"
             /\ \A e \in Calls \ {c} : Cancels(e, "mark")' \/ Cancels(e, "taken")' =>
                    asked'[e][2] # asked'[c][2]
  BY <1>1, <1>5, <1>8 DEF Custodial, CancelCustody
<1>9. CancelCustody'
  BY <1>6, <1>7, <1>8 DEF CancelCustody
<1> QED BY <1>2, <1>3, <1>4, <1>9 DEF Custodial

LEMMA DialCustody ==
  ASSUME Typed, Custodial, NEW c \in Calls, NEW j, NEW method, NEW n,
         Dial(c, method, j, n) \/ DialFails(c, method, j)
  PROVE  Custodial' /\ RecordsKept /\ MarksKept
<1>1. /\ spc[c] = "none" /\ cancel[c] = "none" /\ UNCHANGED <<cancel, bootVars>>
      /\ \A e \in Calls \ {c} : asked'[e] = asked[e] /\ peer'[e] = peer[e] /\ spc'[e] = spc[e]
      /\ spc'[c] # "handle"
  <2>1. /\ cpc[c] = "idle" /\ UNCHANGED <<cancel, bootVars>>
        /\ asked' = [asked EXCEPT ![c] = <<method, j>>]
        /\ peer' = peer \/ peer' = [peer EXCEPT ![c] = sock]
        /\ spc' = spc \/ spc' = [spc EXCEPT ![c] = "read"]
    BY DEF Dial, DialFails, Ask, CallSends, CallFails, Serve
  <2>2. spc[c] = "none" /\ cancel[c] = "none"
    BY <2>1 DEF Typed, Wire, Calling
  <2>3. spc \in [Calls -> {"none", "read", "handle", "reply", "closed"}]
    BY DEF Typed, Wire, WireOK
  <2>4. asked = [e \in Calls |-> asked[e]] /\ peer = [e \in Calls |-> peer[e]]
    BY DEF Typed, Wire, ClientsOK
  <2> QED BY <2>1, <2>2, <2>3, <2>4
<1>2. \A e \in Calls : cancel[e] # "none" \/ spc[e] # "none" => e # c
  BY <1>1
<1>3. \A e \in Calls : Cancels(e, "taken") => Cancels(e, "taken")' /\ asked'[e] = asked[e]
  BY <1>1, <1>2 DEF Cancels
<1>4. UNCHANGED bootVars /\ UNCHANGED cancel
  BY <1>1
<1> QED BY <1>1, <1>2, <1>3, <1>4, QuietStep

\* Steps of one call that answer, read or wait, and change no record and no task.
LEMMA CallCustody ==
  ASSUME Typed, Custodial, NEW c \in Calls, UNCHANGED bootVars, UNCHANGED clientVars,
         \/ UNCHANGED <<spc, cancel>>
         \/ ReadRequest(c) /\ phase[peer[c]] = "serving" /\ UNCHANGED cancel
         \/ spc[c] = "reply" /\ (\E p \in {"read", "closed"} : Serve(c, p)) /\ UNCHANGED cancel
         \/ spc[c] = "handle" /\ ~Cancels(c, "taken") /\ Serve(c, "reply") /\ UNCHANGED cancel
         \/ Cancels(c, "none") /\ Canceling(c, "lookup") /\ UNCHANGED spc
  PROVE  Custodial' /\ RecordsKept /\ MarksKept
<1>1. peer' = peer /\ asked' = asked
  BY DEF clientVars
<1>2. ASSUME NEW e \in Calls, e # c PROVE spc'[e] = spc[e] /\ cancel'[e] = cancel[e]
  BY <1>2 DEF ReadRequest, Hangup, Serve, Canceling, Typed, Wire, WireOK, ClientsOK
<1>3. /\ cancel[c] = "marked" => cancel'[c] = "marked"
      /\ Cancels(c, "taken") => spc'[c] = "handle" /\ cancel'[c] = "taken"
  BY DEF ReadRequest, Canceling, Cancels, Typed, Wire, WireOK, ClientsOK
<1>4. spc'[c] = "handle" => /\ spc[c] = "handle" \/ phase[peer[c]] = "serving"
                            /\ cancel'[c] \in {"mark", "taken"} => spc[c] = "handle" /\ cancel[c] = cancel'[c]
  <2>1. CASE UNCHANGED <<spc, cancel>>
    BY <2>1
  <2>2. CASE ReadRequest(c) /\ phase[peer[c]] = "serving" /\ UNCHANGED cancel
    <3>1. spc'[c] = "handle" => Outcome(up[c]) = "frame" /\ spc[c] = "read"
      BY <2>2 DEF ReadRequest, Hangup, Serve, Typed, Wire, WireOK
    <3>2. Outcome(up[c]) = "frame" => up[c].part # "none"
      BY DEF Outcome, Oversized
    <3>3. spc[c] = "read" /\ up[c].part # "none" => cancel[c] = "none"
      BY DEF Typed, Wire, Calling
    <3> QED BY <2>2, <3>1, <3>2, <3>3
  <2>3. CASE \E p \in {"read", "reply", "closed"} : Serve(c, p)
    BY <2>3 DEF Serve, Typed, Wire, WireOK
  <2>4. CASE Cancels(c, "none") /\ Canceling(c, "lookup") /\ UNCHANGED spc
    BY <2>4 DEF Cancels, Canceling, Typed, Wire, ClientsOK
  <2> QED BY <2>1, <2>2, <2>3, <2>4
<1>5. \A e \in Calls : cancel[e] = "marked" => cancel'[e] = "marked" /\ asked'[e] = asked[e]
  BY <1>1, <1>2, <1>3
<1>6. \A e \in Calls : Cancels(e, "taken") => Cancels(e, "taken")' /\ asked'[e] = asked[e]
  BY <1>1, <1>2, <1>3 DEF Cancels
<1>7. \A e \in Calls : spc'[e] = "handle" =>
             /\ peer'[e] = peer[e] /\ asked'[e] = asked[e]
             /\ spc[e] = "handle" \/ phase[peer[e]] = "serving"
             /\ cancel'[e] \in {"mark", "taken"} => spc[e] = "handle" /\ cancel[e] = cancel'[e]
  BY <1>1, <1>2, <1>4
<1> QED BY <1>5, <1>6, <1>7, QuietStep

\* Start and the workers move a task; every Cancel stays where it is.
LEMMA TaskCallsCustody ==
  ASSUME Typed, Custodial, NEW d \in Daemons, NEW j \in Jobs, TaskMoves(d, j), UNCHANGED <<clientVars, cancel>>,
         NEW c \in Calls, UNCHANGED spc \/ (asked[c][1] = "start" /\ Serve(c, "reply"))
  PROVE  Custodial' /\ RecordsKept /\ MarksKept
<1>1. /\ asked' = asked /\ peer' = peer /\ cancel' = cancel
      /\ \A e \in Calls : spc'[e] = spc[e] \/ (spc'[e] = "reply" /\ asked[e][1] # "cancel")
  BY DEF clientVars, Serve, Typed, Wire, WireOK
<1>2. \A e \in Calls : Untouched(e)
  BY <1>1 DEF Untouched
<1>3. MarksKept /\ Taken \subseteq Taken'
  BY <1>1, <1>2, UntouchedKeep DEF Typed, Wire
<1> QED BY <1>2, <1>3, TaskMovesKeep DEF Typed, Wire

LEMMA MainStepCustody ==
  ASSUME Typed, Custodial, MayOverlap = FALSE, NEW d \in Daemons, MainMoves(d), UNCHANGED <<clientVars, cancel>>,
         \/ phase'[d] # "off" /\ UNCHANGED wireVars
         \/ phase'[d] = "off" /\ ServerDies(Connections(d))
  PROVE  Custodial' /\ RecordsKept /\ MarksKept
<1>1. Alone' /\ Custody' /\ LiveHasHolder' /\ RecordsKept
  BY MainCustody DEF Typed, Wire, Custodial
<1>2. \A c \in Calls : spc'[c] # "handle"
  BY MainCalls DEF Typed, Wire, Custodial
<1>3. CancelCustody'
  BY <1>2 DEF CancelCustody, Cancels
<1>4. MarksKept
  BY DEF MarksKept, Marked, clientVars
<1> QED BY <1>1, <1>3, <1>4 DEF Custodial

LEMMA CancelCallCustody ==
  ASSUME Typed, Custodial, NEW c \in Calls, HandleCancel(c)
  PROVE  Custodial' /\ RecordsKept /\ MarksKept
<1>1. PICK d \in Daemons, j \in Jobs :
         /\ peer[c] = d /\ asked[c] = <<"cancel", j>>
         /\ \/ CancelLoad(c, j) \/ CancelLookup(c, d, j) \/ CancelQueued(c, d, j)
            \/ CancelMark(c, d, j) \/ CancelPoll(c, j)
  <2>1. spc[c] = "handle" /\ asked[c][1] = "cancel"
    BY DEF HandleCancel, CancelLoad, CancelLookup, CancelQueued, CancelMark, CancelPoll, Cancels
  <2>2. peer[c] \in Daemons /\ asked[c] = <<"cancel", asked[c][2]>> /\ asked[c][2] \in Jobs
    BY <2>1 DEF Typed, Wire, Calling
  <2> QED BY <2>2 DEF HandleCancel
<1>2. UNCHANGED clientVars /\ spc[c] = "handle" /\ asked[c][1] = "cancel"
  BY <1>1 DEF HandleCancel, CancelLoad, CancelLookup, CancelQueued, CancelMark, CancelPoll, Cancels
<1>3. CASE /\ UNCHANGED bootVars
           /\ \/ ~Cancels(c, "taken") /\ Serve(c, "reply") /\ UNCHANGED cancel
              \/ Cancels(c, "none") /\ Canceling(c, "lookup") /\ UNCHANGED spc
  BY <1>2, <1>3, CallCustody
<1>4. CASE /\ CancelStep(c, d, j)
           /\ UNCHANGED spc \/ Serve(c, "reply")
           /\ UNCHANGED cancel \/ \E p \in Progress : Canceling(c, p)
  <2>1. ASSUME NEW e \in Calls, e # c PROVE spc'[e] = spc[e] /\ cancel'[e] = cancel[e]
    BY <1>4, <2>1 DEF Serve, Canceling, Typed, Wire, WireOK, ClientsOK
  <2>2. /\ \A e \in Calls \ {c} : Untouched(e)
        /\ \A e \in Calls \ {c} : spc[e] = "handle" => spc'[e] = "handle"
    BY <1>2, <2>1 DEF Untouched, clientVars
  <2>3. cancel[c] # "marked"
    BY <1>4 DEF CancelStep, Cancels
  <2>4. MarksKept
    BY <1>2, <2>2, <2>3, CancelingMarks
  <2>5. cancel \in [Calls -> Progress]
    BY DEF Typed, Wire, ClientsOK
  <2> QED BY <1>1, <1>2, <1>4, <2>2, <2>4, <2>5, CancelMovesKeep DEF Typed, Wire
<1>5. ASSUME NEW m, NEW n, Handle(c, m, n) PROVE Serve(c, "reply") /\ spc'[c] # "handle"
  BY <1>5 DEF Handle, Serve, Typed, Wire, WireOK
<1>6. CASE CancelLoad(c, j) \/ CancelPoll(c, j)
  BY <1>3, <1>5, <1>6 DEF CancelLoad, CancelPoll, Cancels, wireVars
<1>7. CASE CancelLookup(c, d, j)
  <2>1. CASE \E answer \in {"live", rec[j]} : Handle(c, answer, 1) /\ UNCHANGED <<bootVars, cancel>>
    BY <1>3, <1>5, <1>7, <2>1 DEF CancelLookup, Cancels
  <2>2. CASE UNCHANGED wireVars /\ \E p \in {"taken", "mark"} : Canceling(c, p)
    BY <1>4, <1>7, <2>1, <2>2 DEF CancelLookup, CancelStep, TakesBack, wireVars, Progress
  <2> QED BY <1>7, <2>1, <2>2 DEF CancelLookup
<1>8. CASE CancelQueued(c, d, j)
  BY <1>4, <1>5, <1>8 DEF CancelQueued, CancelStep, CancelSaves, Saves
<1>9. CASE CancelMark(c, d, j)
  <2>1. CancelSaves(d, j, "live") /\ Cancels(c, "mark")
    BY <1>9 DEF CancelMark, CancelSaves, Saves, SaveFails
  <2>2. CASE Canceling(c, "marked")
    <3>1. UNCHANGED spc \/ Serve(c, "reply")
      BY <1>5, <1>9 DEF CancelMark, wireVars
    <3> QED BY <1>4, <2>1, <2>2, <3>1 DEF CancelStep, Progress
  <2>3. CASE ~Canceling(c, "marked")
    <3>1. Fault /\ Handle(c, "refused", 1) /\ UNCHANGED <<rec, wrote, cancel>>
      BY <1>9, <2>3 DEF CancelMark
    <3>2. faults' > 0
      BY <3>1 DEF Fault, Typed, BootOK
    <3>3. spc'[c] # "handle" /\ Serve(c, "reply")
      BY <1>5, <3>1
    <3> QED BY <1>4, <2>1, <3>1, <3>2, <3>3 DEF CancelStep
  <2> QED BY <2>2, <2>3
<1> QED BY <1>1, <1>6, <1>7, <1>8, <1>9

\* Each step of processes that do not overlap keeps what they have in hand.
LEMMA CustodyStep ==
  ASSUME MayOverlap = FALSE, Typed, Custodial, [Next]_vars
  PROVE  Custodial' /\ RecordsKept /\ MarksKept
<1> DEFINE Kept == Custodial' /\ RecordsKept /\ MarksKept
<1> SUFFICES Kept
  OBVIOUS
<1>1. ASSUME NEW c \in Calls, UNCHANGED bootVars, UNCHANGED <<clientVars, cancel>>, UNCHANGED spc PROVE Kept
  BY <1>1, CallCustody
<1>2. CASE UNCHANGED vars
  <2>1. UNCHANGED bootVars /\ UNCHANGED <<clientVars, cancel>> /\ UNCHANGED spc
    BY <1>2 DEF vars, wireVars
  <2>2. \A e \in Calls : asked'[e] = asked[e] /\ peer'[e] = peer[e]
    BY <2>1 DEF clientVars
  <2> QED BY <2>1, <2>2, QuietStep DEF Cancels
<1>3. CASE \E c \in Calls, j \in Jobs : \/ \E method, n : Dial(c, method, j, n)
                                        \/ \E method : DialFails(c, method, j)
  BY <1>3, DialCustody
<1>4. ASSUME NEW c \in Calls, CallStep(c) PROVE Kept
  <2>1. CASE HandleStart(c)
    <3>1. /\ spc[c] = "handle" /\ asked[c][1] = "start" /\ UNCHANGED <<clientVars, cancel>>
          /\ peer[c] \in Daemons /\ asked[c][2] \in Jobs
      BY <2>1 DEF HandleStart, Typed, Wire, Calling
    <3>2. UNCHANGED spc \/ Serve(c, "reply")
      BY <2>1 DEF HandleStart, Handle, wireVars
    <3>3. CASE TaskMoves(peer[c], asked[c][2])
      BY <3>1, <3>2, <3>3, TaskCallsCustody
    <3>4. CASE UNCHANGED bootVars
      BY <3>1, <3>2, <3>4, CallCustody DEF Cancels
    <3> QED BY <2>1, <3>3, <3>4 DEF HandleStart, TaskMoves
  <2>2. CASE HandleResult(c)
    <3>1. /\ spc[c] = "handle" /\ ~Cancels(c, "taken") /\ Serve(c, "reply")
          /\ UNCHANGED bootVars /\ UNCHANGED <<clientVars, cancel>>
      BY <2>2 DEF HandleResult, Cancels, Handle
    <3> QED BY <3>1, CallCustody
  <2>3. CASE HandleCancel(c)
    BY <2>3, CancelCallCustody
  <2>4. CASE Accepted(c)
    <3>1. /\ ReadRequest(c) /\ phase[peer[c]] = "serving" /\ UNCHANGED bootVars /\ UNCHANGED <<clientVars, cancel>>
      BY <2>4 DEF Accepted
    <3> QED BY <3>1, CallCustody
  <2>5. CASE Reply(c) /\ UNCHANGED <<bootVars, clientVars, cancel>>
    <3>1. /\ spc[c] = "reply" /\ \E p \in {"read", "closed"} : Serve(c, p)
          /\ UNCHANGED bootVars /\ UNCHANGED <<clientVars, cancel>>
      BY <2>5 DEF Reply, NextRequest, WriteFails, Hangup
    <3> QED BY <3>1, CallCustody
  <2>6. CASE ReadAnswer(c) /\ UNCHANGED <<bootVars, clientVars, cancel>>
    BY <1>1, <2>6 DEF ReadAnswer
  <2> QED BY <1>4, <2>1, <2>2, <2>3, <2>4, <2>5, <2>6 DEF CallStep
<1>5. ASSUME NEW c \in Calls, ClientDies(c), UNCHANGED <<bootVars, clientVars, cancel>> PROVE Kept
  BY <1>1, <1>5 DEF ClientDies
<1>6. ASSUME NEW d \in Daemons,
             \/ Launch(d) /\ UNCHANGED <<wireVars, clientVars, cancel>>
             \/ Boot(d)
             \/ Die(d) /\ ServerDies(Connections(d)) /\ UNCHANGED <<clientVars, cancel>>
      PROVE  Kept
  <2>1. MainMoves(d) /\ UNCHANGED <<clientVars, cancel>>
    BY <1>6 DEF MainMoves, Boot
  <2>2. Launch(d) => phase'[d] # "off"
    BY DEF Launch, To, Typed, BootOK
  <2>3. Die(d) => phase'[d] = "off"
    BY DEF Die, Exit, To, Typed, BootOK
  <2>4. \/ phase'[d] # "off" /\ UNCHANGED wireVars
        \/ phase'[d] = "off" /\ ServerDies(Connections(d))
    BY <1>6, <2>2, <2>3 DEF Boot
  <2> QED BY <2>1, <2>4, MainStepCustody
<1>7. ASSUME NEW d \in Daemons, NEW j \in Jobs, OthersStart(d, j) \/ WorkerStep(d, j), UNCHANGED <<wireVars, clientVars, cancel>>
      PROVE  Kept
  <2>1. /\ TaskMoves(d, j) /\ UNCHANGED <<clientVars, cancel>> /\ UNCHANGED spc
        /\ UNCHANGED asked /\ UNCHANGED peer
    BY <1>7 DEF TaskMoves, OthersStart, wireVars, clientVars
  <2>2. \A c \in Calls : Untouched(c)
    BY <2>1 DEF Untouched
  <2>3. MarksKept /\ Taken \subseteq Taken'
    BY <2>1, <2>2, UntouchedKeep DEF Typed, Wire
  <2> QED BY <2>1, <2>2, <2>3, TaskMovesKeep DEF Typed, Wire
<1> QED BY <1>2, <1>3, <1>4, <1>5, <1>6, <1>7 DEF Next

\* Types and sizes, however many processes run at once.
THEOREM TypedAlways == Spec => []Typed
<1>1. Init => Typed
  BY ServiceInvInit DEF ServiceInv
<1>2. Typed /\ [Next]_vars => Typed'
  BY WireStep, Booting, BootTypes DEF Typed, vars
<1> QED BY <1>1, <1>2, PTL DEF Spec

\* What holds of every behaviour of processes that do not overlap.
THEOREM ServiceInvariant ==
  ASSUME MayOverlap = FALSE
  PROVE  Spec => []ServiceInv
<1>1. ServiceInv /\ [Next]_vars => ServiceInv'
  <2> SUFFICES ASSUME ServiceInv, [Next]_vars PROVE ServiceInv'
    OBVIOUS
  <2>1. BootMoves \/ UNCHANGED bootVars
    BY Booting DEF ServiceInv, vars
  <2>2. Typed'
    BY <2>1, WireStep, BootTypes DEF ServiceInv, Typed
  <2>3. Custodial' /\ RecordsKept /\ MarksKept
    BY CustodyStep DEF ServiceInv
  <2>4. Custody
    BY DEF ServiceInv, Custodial
  <2> QED BY <2>2, <2>3, <2>4, WireStep DEF ServiceInv, AnswersStay
<1> QED BY ServiceInvInit, <1>1, PTL DEF Spec

\* Every reachable state of the daemon and its connections is well typed.
THEOREM ServiceTypeCorrect == Spec => []TypeOK
<1>1. Typed => TypeOK
  BY DEF Typed, Wire, TypeOK
<1> QED BY TypedAlways, <1>1, PTL

\* No client, of either kind, gives up on an answer the daemon wrote: what fits
\* the writer's limit fits the readers', whatever dies in the middle of it.
THEOREM AnswersAreReadable == Spec => []WrittenIsReadable
<1>1. Typed => WrittenIsReadable
  BY DEF Typed, Wire, Fitting, WrittenIsReadable
<1> QED BY TypedAlways, <1>1, PTL

\* Whoever accepts connections has recovered: whatever is live was saved by it.
THEOREM ReachableHaveRecovered ==
  ASSUME MayOverlap = FALSE
  PROVE  Spec => []ReachableIsRecovered
<1>1. ServiceInv => ReachableIsRecovered
  BY DEF ServiceInv, Custodial, Custody, ReachableIsRecovered
<1> QED BY ServiceInvariant, <1>1, PTL

\* Until a Save fails, a live record has a task or a Cancel at work on it, or is
\* what a Cancel wrote: neither a recovery nor a race of workers and Cancels
\* leaves another one behind.
THEOREM LiveRecordsHaveHolders ==
  ASSUME MayOverlap = FALSE
  PROVE  Spec => []LiveHasHolder
<1>1. ServiceInv => LiveHasHolder
  BY DEF ServiceInv, Custodial
<1> QED BY ServiceInvariant, <1>1, PTL

\* A final state that a client was told stays the job's state, but for a Cancel
\* that wrote over the worker's and for fail() after a Save.
THEOREM FinalAnswersStay ==
  ASSUME MayOverlap = FALSE
  PROVE  Spec => []FinalAnswersLast
<1>1. ServiceInv => FinalAnswersLast
  BY DEF ServiceInv, AnswersTrue, FinalAnswersLast
<1> QED BY ServiceInvariant, <1>1, PTL

\* A start that was answered has a record for ever.
THEOREM StartsAreRecorded ==
  ASSUME MayOverlap = FALSE
  PROVE  Spec => []StartedIsRecorded
<1>1. ServiceInv => StartedIsRecorded
  BY DEF ServiceInv, AnswersTrue, StartedIsRecorded
<1> QED BY ServiceInvariant, <1>1, PTL
=============================================================================

---------------------------- MODULE RuntimeTypes ----------------------------
(***************************************************************************)
(* Type correctness of Runtime: for every number of jobs, workers and      *)
(* connections, every mix of Save errors and any number of crashes; and    *)
(* what the operations on its queue do.                                    *)
(***************************************************************************)
EXTENDS RuntimeProperties, Integers, SequenceTheorems, TLAPS

-----------------------------------------------------------------------------
(* The three operations on the queue, seen as a set: append (Start),       *)
(* removal of the head (workerLoop) and of one element (Cancel).           *)

NoDup(q) == \A i, k \in DOMAIN q : q[i] = q[k] => i = k

\* Start's append adds a job that is not in the queue yet.
LEMMA AppendQueue ==
    ASSUME NEW S, NEW q \in Seq(S), NEW x \in S
    PROVE  /\ Append(q, x) \in Seq(S)
           /\ ToSet(Append(q, x)) = ToSet(q) \cup {x}
           /\ NoDup(q) /\ x \notin ToSet(q) => NoDup(Append(q, x))
<1>1. DOMAIN q = 1..Len(q) /\ Len(q) \in Nat
  OBVIOUS
<1>2. /\ DOMAIN Append(q, x) = 1..(Len(q) + 1)
      /\ \A i \in 1..Len(q) : Append(q, x)[i] = q[i]
      /\ Append(q, x)[Len(q) + 1] = x
  OBVIOUS
<1>3. ToSet(Append(q, x)) = ToSet(q) \cup {x}
  <2>1. ASSUME NEW y \in ToSet(Append(q, x)) PROVE y \in ToSet(q) \cup {x}
    BY <1>1, <1>2 DEF ToSet
  <2>2. ASSUME NEW y \in ToSet(q) PROVE y \in ToSet(Append(q, x))
    BY <1>1, <1>2 DEF ToSet
  <2>3. x \in ToSet(Append(q, x))
    BY <1>1, <1>2 DEF ToSet
  <2>4. QED
    BY <2>1, <2>2, <2>3
<1>4. ASSUME NoDup(q), x \notin ToSet(q) PROVE NoDup(Append(q, x))
  BY <1>1, <1>2, <1>4 DEF NoDup, ToSet
<1>5. QED
  BY <1>3, <1>4

\* A worker's pop of the head.
LEMMA TailQueue ==
    ASSUME NEW S, NEW q \in Seq(S), q # <<>>
    PROVE  /\ Head(q) \in S /\ Head(q) \in ToSet(q) /\ Tail(q) \in Seq(S)
           /\ NoDup(q) => /\ ToSet(Tail(q)) = ToSet(q) \ {Head(q)}
                          /\ NoDup(Tail(q))
<1>1. DOMAIN q = 1..Len(q) /\ Len(q) \in Nat \ {0} /\ Head(q) = q[1]
  OBVIOUS
<1>2. /\ DOMAIN Tail(q) = 1..(Len(q) - 1)
      /\ \A i \in 1..(Len(q) - 1) : Tail(q)[i] = q[i + 1]
  OBVIOUS
<1>3. ASSUME NoDup(q), NEW y \in ToSet(Tail(q)) PROVE y \in ToSet(q) \ {Head(q)}
  <2>1. PICK i \in 1..(Len(q) - 1) : y = q[i + 1]
    BY <1>2 DEF ToSet
  <2>2. i + 1 \in DOMAIN q /\ 1 \in DOMAIN q /\ i + 1 # 1
    BY <1>1
  <2>3. QED
    BY <1>1, <1>3, <2>1, <2>2 DEF NoDup, ToSet
<1>4. ASSUME NoDup(q), NEW y \in ToSet(q) \ {Head(q)} PROVE y \in ToSet(Tail(q))
  <2>1. PICK i \in DOMAIN q : y = q[i] /\ i # 1
    BY <1>1 DEF ToSet
  <2>2. i - 1 \in 1..(Len(q) - 1) /\ (i - 1) + 1 = i
    BY <1>1, <2>1
  <2>3. Tail(q)[i - 1] = q[i] /\ i - 1 \in DOMAIN Tail(q)
    BY <1>2, <2>2
  <2>4. QED
    BY <2>1, <2>3 DEF ToSet
<1>5. ASSUME NoDup(q) PROVE NoDup(Tail(q))
  <2> SUFFICES ASSUME NEW i \in DOMAIN Tail(q), NEW k \in DOMAIN Tail(q), 
                      Tail(q)[i] = Tail(q)[k]
               PROVE  i = k
    BY DEF NoDup
  <2>1. i + 1 \in DOMAIN q /\ k + 1 \in DOMAIN q /\ q[i + 1] = q[k + 1]
    BY <1>1, <1>2
  <2>2. i + 1 = k + 1
    BY <1>5, <2>1 DEF NoDup
  <2>3. QED
    BY <2>2, <1>1, <1>2
<1>6. Head(q) \in ToSet(q)
  BY <1>1 DEF ToSet
<1>7. Head(q) \in S /\ Tail(q) \in Seq(S)
  BY HeadTailProperties
<1>8. ASSUME NoDup(q) PROVE ToSet(Tail(q)) = ToSet(q) \ {Head(q)}
  BY <1>3, <1>4, <1>8
<1>9. QED
  BY <1>5, <1>6, <1>7, <1>8

\* Cancel's removal of a task from the middle.
LEMMA RemoveAtQueue ==
    ASSUME NEW S, NEW q \in Seq(S), NEW n \in DOMAIN q
    PROVE  /\ RemoveAt(q, n) \in Seq(S) /\ Len(RemoveAt(q, n)) = Len(q) - 1
           /\ NoDup(q) => /\ ToSet(RemoveAt(q, n)) = ToSet(q) \ {q[n]}
                          /\ NoDup(RemoveAt(q, n))
<1> DEFINE r == RemoveAt(q, n)
<1>1. DOMAIN q = 1..Len(q) /\ Len(q) \in Nat /\ n \in 1..Len(q)
  OBVIOUS
<1>2. /\ r \in Seq(S) /\ Len(r) = Len(q) - 1 /\ DOMAIN r = 1..(Len(q) - 1)
      /\ \A i \in 1..(Len(q) - 1) : r[i] = IF i < n THEN q[i] ELSE q[i + 1]
  <2> DEFINE a == SubSeq(q, 1, n - 1)
             b == SubSeq(q, n + 1, Len(q))
  <2>1. \A i \in 1..Len(q) : q[i] \in S
    BY <1>1
  <2>2. a \in Seq(S) /\ Len(a) = n - 1 /\ \A i \in 1..(n - 1) : a[i] = q[i]
    BY <1>1, <2>1, SubSeqProperties
  <2>3. b \in Seq(S) /\ Len(b) = Len(q) - n /\ \A i \in 1..(Len(q) - n) : b[i] = q[n + i]
    <3>1. \A i \in (n + 1)..Len(q) : q[i] \in S
      BY <1>1, <2>1
    <3>2. /\ b \in Seq(S)
          /\ Len(b) = IF n + 1 <= Len(q) THEN Len(q) - (n + 1) + 1 ELSE 0
          /\ \A i \in 1..(Len(q) - (n + 1) + 1) : b[i] = q[(n + 1) + i - 1]
      BY <1>1, <3>1, SubSeqProperties
    <3>3. \A i \in 1..(Len(q) - n) : (n + 1) + i - 1 = n + i
      BY <1>1
    <3> HIDE DEF b
    <3>4. QED
      BY <1>1, <3>2, <3>3
  <2> HIDE DEF a, b
  <2>4. r = a \o b
    BY DEF RemoveAt, a, b
  <2>5. /\ r \in Seq(S) /\ Len(r) = Len(q) - 1
        /\ \A i \in 1..(Len(q) - 1) :
              r[i] = IF i <= n - 1 THEN a[i] ELSE b[i - (n - 1)]
    <3>1. Len(a) + Len(b) = Len(q) - 1
      BY <1>1, <2>2, <2>3
    <3>2. /\ a \o b \in Seq(S) /\ Len(a \o b) = Len(a) + Len(b)
          /\ \A i \in 1..(Len(a) + Len(b)) :
                (a \o b)[i] = IF i <= Len(a) THEN a[i] ELSE b[i - Len(a)]
      BY <2>2, <2>3, ConcatProperties
    <3> HIDE DEF r
    <3>3. QED
      BY <2>2, <2>4, <3>1, <3>2
  <2>6. ASSUME NEW i \in 1..(Len(q) - 1)
        PROVE  r[i] = IF i < n THEN q[i] ELSE q[i + 1]
    <3>1. CASE i < n
      <4>1. i \in 1..(n - 1) /\ i <= n - 1
        BY <1>1, <3>1
      <4>2. QED
        BY <4>1, <3>1, <2>2, <2>5
    <3>2. CASE ~(i < n)
      <4>1. i - (n - 1) \in 1..(Len(q) - n) /\ ~(i <= n - 1) /\ n + (i - (n - 1)) = i + 1
        BY <1>1, <3>2
      <4>2. QED
        BY <4>1, <3>2, <2>3, <2>5
    <3>3. QED
      BY <3>1, <3>2
  <2> HIDE DEF r
  <2>7. QED
    BY <2>5, <2>6
<1> HIDE DEF r
<1>3. ASSUME NEW i \in DOMAIN r
      PROVE  \E k \in DOMAIN q \ {n} : r[i] = q[k] /\ (k = i \/ k = i + 1)
                                       /\ (k = i <=> i < n)
  BY <1>1, <1>2
<1>4. ASSUME NoDup(q), NEW y \in ToSet(r) PROVE y \in ToSet(q) \ {q[n]}
  BY <1>3, <1>1, <1>4 DEF ToSet, NoDup
<1>5. ASSUME NEW y \in ToSet(q) \ {q[n]} PROVE y \in ToSet(r)
  <2>1. PICK k \in DOMAIN q : y = q[k] /\ k # n
    BY DEF ToSet
  <2>2. CASE k < n
    BY <1>1, <1>2, <2>1, <2>2 DEF ToSet
  <2>3. CASE k > n
    <3>1. k - 1 \in DOMAIN r /\ r[k - 1] = q[k]
      BY <1>1, <1>2, <2>3
    <3>2. QED
      BY <3>1, <2>1 DEF ToSet
  <2>4. QED
    BY <1>1, <2>1, <2>2, <2>3
<1>6. ASSUME NoDup(q) PROVE NoDup(r)
  <2> SUFFICES ASSUME NEW i \in DOMAIN r, NEW k \in DOMAIN r, r[i] = r[k]
               PROVE  i = k
    BY DEF NoDup
  <2>1. PICK a \in DOMAIN q \ {n} : r[i] = q[a] /\ (a = i \/ a = i + 1) /\ (a = i <=> i < n)
    BY <1>3
  <2>2. PICK b \in DOMAIN q \ {n} : r[k] = q[b] /\ (b = k \/ b = k + 1) /\ (b = k <=> k < n)
    BY <1>3
  <2>3. a = b
    BY <1>6, <2>1, <2>2 DEF NoDup
  <2>4. i \in Int /\ k \in Int /\ n \in Int /\ a \in Int /\ b \in Int
    BY <1>1, <1>2
  <2>5. QED
    BY <2>1, <2>2, <2>3, <2>4
<1>7. ASSUME NoDup(q) PROVE ToSet(r) = ToSet(q) \ {q[n]}
  BY <1>4, <1>5, <1>7
<1>8. QED
  BY <1>2, <1>6, <1>7 DEF r

-----------------------------------------------------------------------------
(* Types, and which steps have a job in hand.                              *)

IdlePC == {"loop", "waiting", "exited"}
WorkerHands == \A w \in Workers : wjob[w] = NoJob <=> wpc[w] \in IdlePC
CallHands == \A h \in Handlers : hjob[h] = NoJob <=> hpc[h] = "idle"

WorkersInv == WorkersOK /\ WorkerHands
CallsInv == CallsOK /\ CallHands
TypeInv == DiskOK /\ QueueOK /\ WorkersInv /\ ProcsOK /\ CallsInv /\ DaemonOK

\* Before New returns there is no queue, no worker with a job, no call.
Stopped == daemon # "up" =>
    /\ queue = <<>> /\ procs = {} /\ signalled = {}
    /\ \A w \in Workers : wpc[w] = "exited" /\ wjob[w] = NoJob
    /\ \A h \in Handlers : hpc[h] = "idle"

\* The records the code builds are records, with the fields it gave them.
LEMMA RecordFields ==
    /\ \A s \in State \cup {"absent"}, t \in BOOLEAN :
          Rec(s, t) \in Record /\ Rec(s, t).state = s
    /\ \A r \in Record : r.state \in State \cup {"absent"} /\ r.truncated \in BOOLEAN
    /\ \A r \in Record : Restarted(r) \in Record /\ Restarted(r).state = "failed"
    /\ NoRecord \in Record /\ NoRecord.state = "absent"
<1>1. ASSUME NEW s \in State \cup {"absent"}, NEW t \in BOOLEAN
      PROVE  Rec(s, t) \in Record /\ Rec(s, t).state = s
  BY DEF Rec, Record
<1>2. ASSUME NEW r \in Record
      PROVE  r.state \in State \cup {"absent"} /\ r.truncated \in BOOLEAN
  BY DEF Record
<1>3. ASSUME NEW r \in Record
      PROVE  Restarted(r) \in Record /\ Restarted(r).state = "failed"
  BY DEF Record, State, Restarted
<1>4. NoRecord \in Record /\ NoRecord.state = "absent"
  BY DEF Record, State, NoRecord
<1>5. QED
  BY <1>1, <1>2, <1>3, <1>4

\* A Save, whatever its outcome, leaves a well typed store.
LEMMA SaveType ==
    ASSUME DiskOK, NEW j \in Jobs, NEW r \in Record, SaveOK(j, r) \/ SaveFails(j, r)
    PROVE  DiskOK'
<1>1. store' \in [Jobs -> Record]
  BY DEF DiskOK, SaveOK, SaveFails
<1>2. faults' \in 0..MaxFaults
  BY RuntimeAssumption DEF DiskOK, SaveOK, SaveFails
<1>3. QED
  BY <1>1, <1>2 DEF DiskOK

\* A worker that moves on keeps its job in hand until it finishes.
LEMMA GotoType ==
    ASSUME WorkersInv, NEW w \in Workers, NEW pc \in WorkerPC, Goto(w, pc),
           wpc[w] \in IdlePC <=> pc \in IdlePC
    PROVE  WorkersInv'
BY DEF WorkersInv, WorkersOK, WorkerHands, Goto

LEMMA ToFailType ==
    ASSUME WorkersInv, NEW w \in Workers, NEW t \in BOOLEAN, ToFail(w, t),
           wpc[w] \notin IdlePC
    PROVE  WorkersInv'
BY DEF WorkersInv, WorkersOK, WorkerHands, ToFail, IdlePC, WorkerPC

LEMMA FinishType ==
    ASSUME WorkersInv, NEW w \in Workers, Finish(w)
    PROVE  WorkersInv'
BY DEF WorkersInv, WorkersOK, WorkerHands, Finish, IdlePC, WorkerPC

\* Waking sleeping workers gives them no job.
LEMMA WakeType ==
    ASSUME WorkersInv, WakeOne \/ WakeAll, UNCHANGED <<wjob, wtrunc>>
    PROVE  WorkersInv'
BY DEF WorkersInv, WorkersOK, WorkerHands, WakeOne, WakeAll, Waiting, IdlePC, WorkerPC

\* A call that ends, answers or moves on.
LEMMA EndCallType ==
    ASSUME CallsInv, NEW h \in Handlers, EndCall(h)
    PROVE  CallsInv'
BY RecordFields DEF CallsInv, CallsOK, CallHands, EndCall, HandlerPC

LEMMA ReplyType ==
    ASSUME CallsInv, NEW h \in Handlers, NEW r \in Record, NEW t \in BOOLEAN,
           Reply(h, r, t), hpc[h] # "idle"
    PROVE  CallsInv'
BY DEF CallsInv, CallsOK, CallHands, Reply, HandlerPC

LEMMA HandlerGotoType ==
    ASSUME CallsInv, NEW h \in Handlers, NEW pc \in HandlerPC \ {"idle"},
           HandlerGoto(h, pc), hpc[h] # "idle"
    PROVE  CallsInv'
BY DEF CallsInv, CallsOK, CallHands, HandlerGoto, HandlerPC

\* What a step leaves alone stays well typed.
LEMMA FrameType ==
    /\ DiskOK /\ UNCHANGED diskVars => DiskOK'
    /\ QueueOK /\ UNCHANGED queueVars => QueueOK'
    /\ WorkersInv /\ UNCHANGED workerVars => WorkersInv'
    /\ ProcsOK /\ UNCHANGED procVars => ProcsOK'
    /\ CallsInv /\ UNCHANGED callVars => CallsInv'
    /\ DaemonOK /\ UNCHANGED daemonVars => DaemonOK'
BY DEF DiskOK, QueueOK, WorkersInv, WorkersOK, WorkerHands, ProcsOK, CallsInv, CallsOK,
       CallHands, DaemonOK, diskVars, queueVars, workerVars, procVars, callVars, daemonVars

\* The initial state is well typed.
LEMMA TypeInit == Init => TypeInv
<1> SUFFICES ASSUME Init PROVE TypeInv
  OBVIOUS
<1>1. DiskOK
  BY RuntimeAssumption, RecordFields DEF Init, DiskOK
<1>2. QueueOK /\ ProcsOK
  BY EmptySeq DEF Init, QueueOK, ProcsOK
<1>3. WorkersInv
  BY DEF Init, WorkersInv, WorkersOK, WorkerHands, WorkerPC, IdlePC
<1>4. CallsInv
  BY RecordFields DEF Init, CallsInv, CallsOK, CallHands, HandlerPC
<1>5. DaemonOK
  BY RuntimeAssumption DEF Init, DaemonOK
<1>6. QED
  BY <1>1, <1>2, <1>3, <1>4, <1>5 DEF TypeInv

\* A handler with a call in progress has a job, and so has a busy worker.
LEMMA Hands ==
    ASSUME TypeInv
    PROVE  /\ \A h \in Handlers : hpc[h] # "idle" => hjob[h] \in Jobs
           /\ \A w \in Workers : wpc[w] \notin IdlePC => wjob[w] \in Jobs
BY DEF TypeInv, WorkersInv, WorkersOK, WorkerHands, CallsInv, CallsOK, CallHands

\* Every call step keeps the types.
LEMMA TypeCalls ==
    ASSUME TypeInv, NEW h \in Handlers,
           HandlerStep(h) \/ \E j \in Jobs : StartSave(h, j) \/ CancelLoad(h, j)
    PROVE  TypeInv'
<1> USE FrameType DEF TypeInv
<1>1. ASSUME NEW j \in Jobs, StartSave(h, j) PROVE TypeInv'
  <2>1. DiskOK'
    BY <1>1, SaveType, RecordFields DEF StartSave, State
  <2>2. CallsInv'
    <3>1. CASE EndCall(h)
      BY <3>1, EndCallType
    <3>2. CASE /\ hpc' = [hpc EXCEPT ![h] = "enqueue"] /\ hjob' = [hjob EXCEPT ![h] = j]
               /\ hrec' = [hrec EXCEPT ![h] = NoRecord] /\ hsup' = [hsup EXCEPT ![h] = FALSE]
      BY <3>2, RuntimeAssumption, RecordFields DEF CallsInv, CallsOK, CallHands, HandlerPC
    <3>3. QED
      BY <1>1, <3>1, <3>2 DEF StartSave
  <2>3. QED
    BY <1>1, <2>1, <2>2 DEF StartSave
<1>2. ASSUME StartEnqueue(h) PROVE TypeInv'
  <2>1. hjob[h] \in Jobs
    BY <1>2, Hands DEF StartEnqueue
  <2>2. QueueOK'
    BY <1>2, <2>1, AppendQueue DEF QueueOK, StartEnqueue
  <2>3. QED
    BY <1>2, <2>2, WakeType, EndCallType DEF StartEnqueue
<1>3. ASSUME NEW j \in Jobs, CancelLoad(h, j) PROVE TypeInv'
  <2>1. CallsInv'
    BY <1>3, RuntimeAssumption DEF CancelLoad, CallsInv, CallsOK, CallHands, HandlerPC, DiskOK
  <2>2. QED
    BY <1>3, <2>1 DEF CancelLoad
<1>4. ASSUME CancelLookup(h) PROVE TypeInv'
  <2>1. hrec[h] \in Record
    BY DEF CallsInv, CallsOK
  <2>2. CallsInv'
    BY <1>4, <2>1, ReplyType, HandlerGotoType DEF CancelLookup, Lookup, HandlerPC
  <2>3. QED
    BY <1>4, <2>2 DEF CancelLookup
<1>5. ASSUME CancelDequeue(h) PROVE TypeInv'
  <2>1. QueueOK'
    BY <1>5, RemoveAtQueue DEF QueueOK, CancelDequeue
  <2>2. CallsInv'
    BY <1>5, HandlerGotoType DEF CancelDequeue, HandlerPC
  <2>3. QED
    BY <1>5, <2>1, <2>2 DEF CancelDequeue
<1>6. ASSUME CancelQueued(h) \/ CancelMark(h) PROVE TypeInv'
  <2>1. hjob[h] \in Jobs /\ hrec[h].truncated \in BOOLEAN
    BY <1>6, Hands, RecordFields DEF CancelQueued, CancelMark, CallsInv, CallsOK
  <2>2. /\ Rec("canceled", hrec[h].truncated) \in Record
        /\ Rec("canceling", hrec[h].truncated) \in Record
    BY <2>1, RecordFields DEF State
  <2>3. DiskOK'
    BY <1>6, <2>1, <2>2, SaveType DEF CancelQueued, CancelMark
  <2>4. CallsInv'
    <3>1. CASE CancelQueued(h)
      BY <3>1, <2>2, ReplyType, EndCallType DEF CancelQueued
    <3>2. CASE EndCall(h)
      BY <3>2, EndCallType
    <3>3. CASE CancelMark(h) /\ ~EndCall(h)
      BY <3>3, <2>2 DEF CancelMark, CallsInv, CallsOK, CallHands, HandlerPC
    <3>4. QED
      BY <1>6, <3>1, <3>2, <3>3
  <2>5. QED
    BY <1>6, <2>3, <2>4 DEF CancelQueued, CancelMark
<1>7. ASSUME CancelReread(h) \/ CancelPoll(h) PROVE TypeInv'
  <2>1. store[hjob[h]] \in Record
    BY <1>7, Hands DEF CancelReread, CancelPoll, DiskOK
  <2>2. CallsInv'
    <3>1. IsTerminal(store[hjob[h]].state) \in BOOLEAN
      BY DEF IsTerminal
    <3>2. PICK t \in BOOLEAN : Reply(h, store[hjob[h]], t)
      BY <1>7, <3>1 DEF CancelReread, CancelPoll
    <3>3. QED
      BY <1>7, <2>1, <3>2, ReplyType DEF CancelReread, CancelPoll
  <2>3. QED
    BY <1>7, <2>2 DEF CancelReread, CancelPoll
<1>8. ASSUME CancelSignal(h) PROVE TypeInv'
  <2>1. ProcsOK'
    BY <1>8 DEF CancelSignal, ProcsOK
  <2>2. CallsInv'
    BY <1>8, HandlerGotoType DEF CancelSignal, HandlerPC
  <2>3. QED
    BY <1>8, <2>1, <2>2 DEF CancelSignal
<1>9. ASSUME CancelTimeout(h) PROVE TypeInv'
  BY <1>9, EndCallType DEF CancelTimeout
<1>10. QED
  BY <1>1, <1>2, <1>3, <1>4, <1>5, <1>6, <1>7, <1>8, <1>9 DEF HandlerStep

\* Every worker step keeps the types.
LEMMA TypeWorkers ==
    ASSUME TypeInv, NEW w \in Workers, WorkerStep(w)
    PROVE  TypeInv'
<1> USE FrameType DEF TypeInv
<1>1. ASSUME Take(w) PROVE TypeInv'
  <2>1. Head(queue) \in Jobs /\ QueueOK'
    BY <1>1, TailQueue DEF QueueOK, Take
  <2>2. WorkersInv'
    BY <1>1, <2>1, RuntimeAssumption DEF Take, WorkersInv, WorkersOK, WorkerHands, WorkerPC, IdlePC
  <2>3. QED
    BY <1>1, <2>1, <2>2 DEF Take
<1>2. ASSUME Park(w) \/ Leave(w) PROVE TypeInv'
  BY <1>2, GotoType DEF Park, Leave, WorkerPC, IdlePC
<1>3. ASSUME SavePreparing(w) \/ SaveRunning(w) PROVE TypeInv'
  <2>1. wjob[w] \in Jobs
    BY <1>3, Hands DEF SavePreparing, SaveRunning, IdlePC
  <2>2. DiskOK'
    BY <1>3, <2>1, SaveType, RecordFields DEF SavePreparing, SaveRunning, State
  <2>3. WorkersInv'
    BY <1>3, GotoType, ToFailType DEF SavePreparing, SaveRunning, WorkerPC, IdlePC
  <2>4. QED
    BY <1>3, <2>2, <2>3 DEF SavePreparing, SaveRunning
<1>4. ASSUME Prepare(w) PROVE TypeInv'
  <2>1. WorkersInv'
    BY <1>4, GotoType, ToFailType DEF Prepare, WorkerPC, IdlePC
  <2>2. QED
    BY <1>4, <2>1 DEF Prepare
<1>5. ASSUME Register(w) \/ Spawn(w) PROVE TypeInv'
  <2>1. wjob[w] \in Jobs
    BY <1>5, Hands DEF Register, Spawn, IdlePC
  <2>2. ProcsOK'
    BY <1>5, <2>1 DEF Register, Spawn, ProcsOK
  <2>3. WorkersInv'
    BY <1>5, GotoType, ToFailType DEF Register, Spawn, WorkerPC, IdlePC
  <2>4. QED
    BY <1>5, <2>2, <2>3 DEF Register, Spawn
<1>6. ASSUME Exited(w) \/ Terminate(w) PROVE TypeInv'
  <2>1. WorkersInv'
    BY <1>6, GotoType, ToFailType DEF Exited, Terminate, WorkerPC, IdlePC
  <2>2. QED
    BY <1>6, <2>1 DEF Exited, Terminate
<1>7. ASSUME TermWait(w) \/ KillWait(w) PROVE TypeInv'
  <2>1. CASE ToCanceled(w)
    <3>1. WorkersInv'
      BY <1>7, <2>1 DEF TermWait, KillWait, ToCanceled, WorkersInv, WorkersOK, WorkerHands,
         WorkerPC, IdlePC
    <3>2. QED
      BY <1>7, <3>1 DEF TermWait, KillWait
  <2>2. CASE TermWait(w) /\ Goto(w, "kill")
    <3>1. WorkersInv'
      BY <2>2, GotoType DEF TermWait, WorkerPC, IdlePC
    <3>2. QED
      BY <2>2, <3>1 DEF TermWait
  <2>3. QED
    BY <1>7, <2>1, <2>2 DEF TermWait, KillWait
<1>8. ASSUME SaveCanceled(w) \/ SaveSucceeded(w) PROVE TypeInv'
  <2>1. wjob[w] \in Jobs /\ wtrunc[w] \in BOOLEAN
    BY <1>8, Hands DEF SaveCanceled, SaveSucceeded, IdlePC, WorkersInv, WorkersOK
  <2>2. DiskOK'
    BY <1>8, <2>1, SaveType, RecordFields DEF SaveCanceled, SaveSucceeded, State
  <2>3. WorkersInv'
    BY <1>8, GotoType, ToFailType DEF SaveCanceled, SaveSucceeded, WorkerPC, IdlePC
  <2>4. QED
    BY <1>8, <2>2, <2>3 DEF SaveCanceled, SaveSucceeded
<1>9. ASSUME SaveFailed(w) PROVE TypeInv'
  <2>1. wjob[w] \in Jobs /\ wtrunc[w] \in BOOLEAN
    BY <1>9, Hands DEF SaveFailed, IdlePC, WorkersInv, WorkersOK
  <2>2. DiskOK'
    BY <1>9, <2>1, SaveType, RecordFields DEF SaveFailed, State
  <2>3. WorkersInv'
    BY <1>9, GotoType, FinishType DEF SaveFailed, WorkerPC, IdlePC
  <2>4. QED
    BY <1>9, <2>2, <2>3 DEF SaveFailed
<1>10. ASSUME Unregister(w) PROVE TypeInv'
  <2>1. ProcsOK'
    BY <1>10 DEF Unregister, ProcsOK
  <2>2. QED
    BY <1>10, <2>1, FinishType DEF Unregister
<1>11. QED
  BY <1>1, <1>2, <1>3, <1>4, <1>5, <1>6, <1>7, <1>8, <1>9, <1>10 DEF WorkerStep

\* Every step of a process or of the daemon as a whole keeps the types.
LEMMA TypeDaemon ==
    ASSUME TypeInv, Stopped,
           \/ \E j \in Jobs : Overflow(j) \/ ProcExit(j) \/ RecoverJob(j)
           \/ Close \/ Crash \/ Boot \/ RecoverDone
    PROVE  TypeInv'
<1> USE FrameType DEF TypeInv
<1>1. ASSUME NEW j \in Jobs, Overflow(j) \/ ProcExit(j) PROVE TypeInv'
  <2>1. ProcsOK'
    BY <1>1 DEF Overflow, ProcExit, ProcsOK
  <2>2. QED
    BY <1>1, <2>1 DEF Overflow, ProcExit
<1>2. ASSUME NEW j \in Jobs, RecoverJob(j) PROVE TypeInv'
  <2>1. DiskOK'
    BY <1>2, SaveType, RecordFields DEF RecoverJob, DiskOK
  <2>2. DaemonOK'
    BY <1>2 DEF RecoverJob, DaemonOK
  <2>3. QED
    BY <1>2, <2>1, <2>2 DEF RecoverJob
<1>3. ASSUME Close PROVE TypeInv'
  <2>1. QueueOK'
    BY <1>3 DEF Close, QueueOK
  <2>2. QED
    BY <1>3, <2>1, WakeType DEF Close
<1>4. ASSUME Crash PROVE TypeInv'
  <2>1. QueueOK' /\ ProcsOK'
    BY <1>4, EmptySeq DEF Crash, QueueOK, ProcsOK
  <2>2. WorkersInv'
    BY <1>4 DEF Crash, WorkersInv, WorkersOK, WorkerHands, WorkerPC, IdlePC
  <2>3. CallsInv'
    BY <1>4, RecordFields DEF Crash, CallsInv, CallsOK, CallHands, HandlerPC
  <2>4. DaemonOK'
    BY <1>4, RuntimeAssumption DEF Crash, DaemonOK
  <2>5. QED
    BY <1>4, <2>1, <2>2, <2>3, <2>4 DEF Crash
<1>5. ASSUME Boot PROVE TypeInv'
  <2>1. DaemonOK'
    BY <1>5 DEF Boot, DaemonOK
  <2>2. QED
    BY <1>5, <2>1 DEF Boot
<1>6. ASSUME RecoverDone PROVE TypeInv'
  <2>1. WorkersInv'
    BY <1>6 DEF RecoverDone, WorkersInv, WorkersOK, WorkerHands, WorkerPC, IdlePC, Stopped
  <2>2. DaemonOK'
    BY <1>6 DEF RecoverDone, DaemonOK
  <2>3. QED
    BY <1>6, <2>1, <2>2 DEF RecoverDone
<1>7. QED
  BY <1>1, <1>2, <1>3, <1>4, <1>5, <1>6

\* Nothing is left in memory while the daemon is down or recovering.
LEMMA StoppedNext == ASSUME TypeInv, Stopped, Next PROVE Stopped'
<1>1. ASSUME NEW h \in Handlers, HandlerStep(h) PROVE Stopped'
  <2>1. hpc[h] # "idle" /\ UNCHANGED daemon
    BY <1>1 DEF HandlerStep, StartEnqueue, CancelLookup, CancelDequeue, CancelQueued,
       CancelReread, CancelMark, CancelSignal, CancelPoll, CancelTimeout, daemonVars
  <2>2. QED
    BY <2>1 DEF Stopped
<1>2. ASSUME NEW h \in Handlers, NEW j \in Jobs, StartSave(h, j) \/ CancelLoad(h, j)
      PROVE  Stopped'
  BY <1>2 DEF StartSave, CancelLoad, CanCall, Stopped, daemonVars
<1>3. ASSUME NEW w \in Workers, WorkerStep(w) PROVE Stopped'
  <2>1. wpc[w] # "exited" /\ UNCHANGED daemon
    BY <1>3 DEF WorkerStep, Take, Park, Leave, SavePreparing, Prepare, SaveRunning, Register,
       Spawn, Exited, Terminate, TermWait, KillWait, SaveCanceled, SaveSucceeded, SaveFailed,
       Unregister, daemonVars
  <2>2. QED
    BY <2>1 DEF Stopped
<1>4. ASSUME NEW j \in Jobs, Overflow(j) PROVE Stopped'
  BY <1>4 DEF Overflow, Stopped, daemonVars
<1>5. ASSUME NEW j \in Jobs, ProcExit(j) \/ RecoverJob(j) PROVE Stopped'
  BY <1>5 DEF ProcExit, RecoverJob, Stopped, queueVars, workerVars, callVars, daemonVars, procVars
<1>6. ASSUME Close \/ Boot \/ RecoverDone PROVE Stopped'
  BY <1>6 DEF Close, Boot, RecoverDone, Stopped, queueVars, workerVars, callVars, daemonVars, procVars
<1>7. ASSUME Crash PROVE Stopped'
  BY <1>7 DEF Crash, Stopped
<1>8. QED
  BY <1>1, <1>2, <1>3, <1>4, <1>5, <1>6, <1>7 DEF Next

\* Every variable keeps its type: with any number of jobs, workers, calls,
\* Save errors and crashes.
THEOREM TypeCorrect == Spec => [](TypeOK /\ TypeInv /\ Stopped)
<1>1. Init => TypeInv /\ Stopped
  BY TypeInit DEF Init, Stopped
<1>2. TypeInv /\ Stopped /\ [Next]_vars => (TypeInv /\ Stopped)'
  <2> SUFFICES ASSUME TypeInv, Stopped, [Next]_vars PROVE (TypeInv /\ Stopped)'
    OBVIOUS
  <2>1. CASE Next
    BY <2>1, TypeCalls, TypeWorkers, TypeDaemon, StoppedNext DEF Next
  <2>2. CASE UNCHANGED vars
    BY <2>2, FrameType DEF vars, TypeInv, Stopped, queueVars, workerVars, procVars, callVars,
       daemonVars, diskVars
  <2>3. QED
    BY <2>1, <2>2
<1>3. TypeInv => TypeOK
  BY DEF TypeInv, TypeOK, WorkersInv, CallsInv
<1>4. QED
  BY <1>1, <1>2, <1>3, PTL DEF Spec
=============================================================================

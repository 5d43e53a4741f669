---------------------------- MODULE JobLifecycle ----------------------------
(***************************************************************************)
(* What the durable store promises a client that polls it: every job is    *)
(* born queued and then only moves along Edges.  No queue, no worker, no   *)
(* process, no crash: those are details of Runtime, which implements this. *)
(***************************************************************************)
EXTENDS JobStates

CONSTANTS Jobs,   \* the jobs the promise is about
          Edges   \* the allowed changes of state, a set of pairs

VARIABLE status   \* the state a client reads for each job

\* No record exists before Start.
Init == status = [j \in Jobs |-> "absent"]

\* Start persists the record.
Create(j) == /\ status[j] = "absent"
             /\ status' = [status EXCEPT ![j] = "queued"]

\* The record of one job moves along one edge.
Advance(j, s) == /\ <<status[j], s>> \in Edges
                 /\ status' = [status EXCEPT ![j] = s]

Next == \E j \in Jobs : Create(j) \/ \E s \in State : Advance(j, s)

Spec == Init /\ [][Next]_status
=============================================================================

---------------------------- MODULE AtomicRecord ----------------------------
(***************************************************************************)
(* What Store promises for the record of one job: Save replaces it in one  *)
(* step, an acknowledged Save survives a power loss, a failed one has      *)
(* happened or not, and Load returns a record that was there when it began.*)
(* No files, no names, no cache: those are details of Store.               *)
(***************************************************************************)
CONSTANTS Savers,    \* the goroutines that save the record
          Readers,   \* the goroutines that load it
          Values,    \* what the record may say
          None       \* no record, no call in progress

VARIABLES record,    \* what a Load that begins now returns
          durable,   \* what may be found after a power loss
          saving,    \* saving[s]: the Save in progress
          loading    \* loading[r]: what the Load in progress will return

avars == <<record, durable, saving, loading>>

Pending(v) == [value |-> v, done |-> FALSE]
Done(v) == [value |-> v, done |-> TRUE]

Init == /\ record = None /\ durable = {None}
        /\ saving = [s \in Savers |-> None]
        /\ loading = [r \in Readers |-> None]

Begin(s, v) == /\ saving[s] = None
               /\ saving' = [saving EXCEPT ![s] = Pending(v)]
               /\ UNCHANGED <<record, durable, loading>>

Commit(s, v) == /\ saving[s] = Pending(v)
                /\ saving' = [saving EXCEPT ![s] = Done(v)]
                /\ record' = v
                /\ durable' = durable \cup {v}
                /\ UNCHANGED loading

\* Save returns nil: the record it wrote is there to stay.
Succeed(s, v) == /\ saving[s] = Done(v)
                 /\ saving' = [saving EXCEPT ![s] = None]
                 /\ durable' = {v}
                 /\ UNCHANGED <<record, loading>>

\* Save returns an error, before or after the record changed.
Fail(s) == /\ saving' = [saving EXCEPT ![s] = None]
           /\ UNCHANGED <<record, durable, loading>>

BeginLoad(r) == /\ loading[r] = None /\ record # None
                /\ loading' = [loading EXCEPT ![r] = record]
                /\ UNCHANGED <<record, durable, saving>>

EndLoad(r) == /\ loading' = [loading EXCEPT ![r] = None]
              /\ UNCHANGED <<record, durable, saving>>

\* The daemon is gone, and with it the calls in progress.
Interrupted == /\ saving' = [s \in Savers |-> None]
               /\ loading' = [r \in Readers |-> None]

Crash == Interrupted /\ UNCHANGED <<record, durable>>

PowerLoss == /\ Interrupted
             /\ record' \in durable
             /\ durable' = {record'}

Next == \/ \E s \in Savers : \/ Fail(s)
                             \/ \E v \in Values : Begin(s, v) \/ Commit(s, v) \/ Succeed(s, v)
        \/ \E r \in Readers : BeginLoad(r) \/ EndLoad(r)
        \/ Crash \/ PowerLoss

Spec == Init /\ [][Next]_avars
=============================================================================

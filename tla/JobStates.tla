----------------------------- MODULE JobStates -----------------------------
(***************************************************************************)
(* The job state machine of internal/runtime/state.go: the states, the     *)
(* declared edges, and the validation every in-memory change goes through. *)
(***************************************************************************)

\* The seven states a persisted job can be in.
State == {"queued", "preparing", "running", "succeeded", "failed",
          "canceling", "canceled"}

\* A state that "admits no further transitions".
IsTerminal(s) == s \in {"succeeded", "failed", "canceled"}

\* The declared transitions, as a relation.
edges == ({"queued"}    \X {"preparing", "failed", "canceled"})
    \cup ({"preparing"} \X {"running", "failed"})
    \cup ({"running"}   \X {"succeeded", "failed", "canceling"})
    \cup ({"canceling"} \X {"canceled", "failed"})

\* Transition(from, to) returns nil: staying put is always allowed.
Transition(from, to) == from = to \/ <<from, to>> \in edges
=============================================================================

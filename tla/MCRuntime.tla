----------------------------- MODULE MCRuntime -----------------------------
(***************************************************************************)
(* Small instances of Runtime for TLC: a job whose adapter can cancel and  *)
(* one or two whose adapter cannot, one or two workers and connections.    *)
(***************************************************************************)
EXTENDS RuntimeProperties

CONSTANTS j1, j2, j3, w1, w2, h1, h2

\* Workers are interchangeable, and so are connections and the jobs whose
\* adapter cannot cancel.
Symmetry == Permutations(Workers) \cup Permutations(Handlers) \cup Permutations(Incapable)
=============================================================================

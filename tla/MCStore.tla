------------------------------- MODULE MCStore -------------------------------
(***************************************************************************)
(* Small instances of Store for TLC: a worker and a Cancel that save, one  *)
(* client that loads, a short record and a longer one.                     *)
(***************************************************************************)
EXTENDS StoreProperties, TLC

CONSTANTS worker, cancel, client, canceling, succeeded, i1, i2, i3, i4, i5

\* "succeeded" carries the result, "canceling" does not.
RecordLength == (canceling :> 1) @@ (succeeded :> 2)

Symmetry == Permutations(Inodes)
=============================================================================

---------------------------- MODULE MCExecution ----------------------------
(***************************************************************************)
(* Every adapter with outputs of at most two lines; and managed worktrees  *)
(* of every small repository with up to two links, which an agent changes. *)
(***************************************************************************)
EXTENDS ExecutionProperties

CONSTANTS m1, m2, x, y

SmallLines == {Line("message", t) : t \in {<<>>, <<x>>, <<y>>}}
              \cup {Line(k, <<>>) : k \in {"error", "null", "denied", "junk", "long"}}
\* The adapters that do not look at the lines need no more than their number; a
\* managed worktree needs an output that fits and one that does not.
SmallOutputs(a) ==
    CASE a \in {"codex", "opencode", "agy"} -> BoundedSeq(SmallLines, 2)
      [] a = "managed" -> BoundedSeq({Line("junk", <<>>), Line("long", <<>>)}, 1)
      [] OTHER -> BoundedSeq({Line("junk", <<>>), Line("long", <<>>)}, 2)

\* With agy installed, the job that shares the host with its sync is agy's.
SmallHosts(agy) == IF agy THEN {"agy"} ELSE Adapters

\* All three bits, or one of them missing.
SomeBits == {b \in Bits : (b.r /\ b.w) \/ (b.r /\ b.x) \/ (b.w /\ b.x)}
=============================================================================

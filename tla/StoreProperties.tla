--------------------------- MODULE StoreProperties ---------------------------
(***************************************************************************)
(* What Store must guarantee: Saves that do not overlap are atomic and     *)
(* durable whatever fails or dies; and the claim of its comment that two   *)
(* overlapping Saves refute.                                               *)
(***************************************************************************)
EXTENDS Store

SaverPC == {"open", "write", "sync", "rename", "syncdir"}
Entry == Inodes \cup {None}

\* Every variable has its type, and no inode ever has both names.
TypeOK ==
    /\ content \in [Inodes -> Seq(Values)]
    /\ flushed \subseteq Inodes
    /\ dir \in dirs /\ dirs \subseteq [tmp : Entry, final : Entry]
    /\ \A d \in dirs : d.tmp = d.final => d.tmp = None
    /\ spc \in [Savers -> SaverPC]
    /\ sval \in [Savers -> Values \cup {None}]
    /\ sfd \in [Savers -> Entry]
    /\ rfd \in [Readers -> Entry]
    /\ faults \in 0..MaxFaults /\ crashes \in 0..MaxCrashes

-----------------------------------------------------------------------------
\* The Save of s as its caller sees it.
Call(s) == IF Idle(s) THEN None
           ELSE [value |-> sval[s], done |-> spc[s] = "syncdir"]

\* When no two Saves of a record overlap, Save is the atomic, durable
\* replacement that the runtime takes it for, and Load returns a whole record:
\* through failing system calls, temporary files left behind, crashes of the
\* daemon and power losses at any point.
Record == INSTANCE AtomicRecord WITH
    record  <- ReadInode(dir.final),
    durable <- {ReadInode(d.final) : d \in dirs},
    saving  <- [s \in Savers |-> Call(s)],
    loading <- [r \in Readers |-> ReadInode(rfd[r])]

AtomicSaves == Record!Spec

-----------------------------------------------------------------------------
\* store.go:28-30 says a crash in the middle of a write never leaves a corrupt
\* record.  Two overlapping Saves (a worker's and Cancel's) share the temporary
\* file, and leave one at rest that is the head of one and the tail of the other.
NeverCorrupt ==
    (\A s \in Savers : Idle(s)) => ReadInode(dir.final) \in Values \cup {None}
=============================================================================

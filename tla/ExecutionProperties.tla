------------------------ MODULE ExecutionProperties ------------------------
(***************************************************************************)
(* What a delegated job owes its user: the answer the agent gave, the work *)
(* it left, a tree without write bits for a job that is to read, nothing   *)
(* left behind; and what the sync of agy's registry owes to the user's own *)
(* entries.                                                                *)
(***************************************************************************)
EXTENDS Execution

Stages == {"prepare", "strip", "build", "run", "scan", "diff", "restore", "remove", "over", "crashed"}

\* Every variable has its type.
TypeOK ==
    /\ stage \in Stages /\ adapter \in Adapters /\ {readOnly, alive} \subseteq BOOLEAN
    /\ mode = Gone \/ mode \in [Nodes -> Bits]
    /\ link \in [{"c", "e"} -> Nodes \cup {"missing"}]
    /\ changes \subseteq {"f", "new", ".atl", "c", "e"}
    /\ tampered \subseteq Dirs \cup {"f", "c", "e"}
    /\ outcome.state \in {"running", "succeeded", "failed", "canceled"}
    /\ outcome.answer.kind \in {"text", "raw", "error"} /\ outcome.diff \subseteq {"f", "new", "c", "e"}
    /\ sync \in {"off", "read", "skipped", "add", "done"} /\ adding \in Servers \cup {NoServer}
    /\ missing \cup orphans \cup failed \subseteq Servers
    /\ headless \in [Servers -> {"absent", "own", "copied"}]

\* While the agent of a read-only job runs in a managed worktree it finds no file
\* and no directory with its write bit, wherever the repository's links lead: a
\* tree that stripWrite could not do to the end is not used.  It is a barrier for
\* an agent that takes the modes as they are, not for one that sets its own; and
\* it is gone once the daemon restores the tree of a canceled job.
BarrierStands ==
    Managed /\ readOnly /\ alive /\ mode # Gone =>
        \/ tampered # {} \/ (outcome.state = "canceled" /\ stage # "restore")
        \/ \A p \in {"f", "new", "outside"} : ~Writes(p)

\* A worktree outlives its job only if the daemon died, git failed, the agent
\* outlived its cancellation, or restoreWrite met what stops it: a directory that
\* cannot be listed, a link that leads nowhere with bits still to restore or below
\* a directory that cannot be entered, or one that takes a directory's x bit away
\* after Walk has passed it.  The links may be the repository's or the agent's;
\* the directories are the agent's doing.
Visited(p, l) == \E i, k \in DOMAIN Walk : Walk[i] = p /\ Walk[k] = l /\ i < k
Treacherous == \/ \E l \in DOMAIN link : \/ link[l] \in Dirs /\ Visited(link[l], l)
                                         \/ link[l] = "missing" /\ (readOnly \/ tampered \cap Dirs # {})
                                         \/ link[l] = "f" /\ ~mode["d"].x
               \/ \E d \in Dirs : ~mode[d].r

NothingLeftBehind ==
    stage = "over" /\ mode # Gone => git > 0 \/ outcome.state = "canceled" \/ Treacherous

\* The diff of a successful job shows all it left in the worktree and did not
\* commit there, new files and links included, as far as it fits, unless git
\* failed or the agent changed modes.
DiffShowsWork ==
    Managed /\ ~readOnly /\ outcome.state = "succeeded" /\ stage \in {"remove", "over"} =>
        \/ git > 0
        \/ tampered \cap (Dirs \cup {"f"}) # {}
        \/ /\ outcome.diff \subseteq changes
           /\ Cardinality(outcome.diff) = MaxDiff \/ changes \ {".atl"} \subseteq outcome.diff

\* The answer of a successful job is what the agent said before any line too
\* long for the scanner: codex's last message, opencode's messages in order,
\* agy's last result if it was no error and no denied tool emptied it; else all
\* of the output.
Before(o) == {i \in DOMAIN o : \A k \in 1..i : o[k].kind # "long"}
Said(o, kinds) == {i \in Before(o) : o[i].kind \in kinds}
LastSaid(o, kinds) == CHOOSE i \in Said(o, kinds) : \A k \in Said(o, kinds) : k <= i
AllSaid(o) ==
    LET texts[n \in 0..Len(o)] ==
            IF n = 0 THEN <<>>
            ELSE texts[n - 1] \o (IF n \in Said(o, {"message"}) THEN o[n].text ELSE <<>>)
    IN  texts[Len(o)]

Answers(a, o) ==
    LET results == {"message", "error", "null"}
        spoken == Said(o, IF a = "agy" THEN results ELSE {"message"})
        last == LastSaid(o, IF a = "agy" THEN results ELSE {"message"}) IN
    IF a \notin {"codex", "opencode", "agy"} \/ spoken = {} THEN Raw
    ELSE IF a = "opencode" THEN Text(AllSaid(o))
    ELSE IF o[last].kind = "message" THEN Text(o[last].text)
    ELSE IF o[last].kind = "null" THEN Raw ELSE Error

AnswerIsWhatWasSaid ==
    outcome.state = "succeeded" =>
        /\ outcome.answer = Answers(adapter, out) /\ outcome.answer # Error
        /\ adapter = "agy" /\ Said(out, {"denied"}) # {} => outcome.answer.text # <<>>
        /\ outcome.answer = Raw => \A i \in DOMAIN out : out[i].kind # "long"

\* The user's own entries in the headless registry are never overwritten, not
\* even by a child that outlived its daemon.
OwnEntriesKept == [][\A m \in Servers : headless[m] = "own" => headless'[m] = "own"]_vars

\* A sync that ended has copied every server of the desktop that the headless
\* registry lacked, except those whose own copy failed.
SyncIsComplete == sync = "done" => Desktop \subseteq Present \cup failed
=============================================================================

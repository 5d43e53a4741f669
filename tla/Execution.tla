----------------------------- MODULE Execution -----------------------------
(***************************************************************************)
(* execute (worker.go) between its Saves: where the agent works, what      *)
(* becomes of its output, of its work and of its worktree.  One job of one *)
(* adapter; the queue, Cancel and the records are in Runtime.  The daemon  *)
(* also syncs agy's registry (McpSync) and may die.                        *)
(*                                                                         *)
(* The agent is external and runs as the user.  That it is to change       *)
(* nothing is said to it by flags, environment or prompt, which it keeps   *)
(* to or not; what it does outside of a managed worktree, the user's       *)
(* repository included, is its own affair and no part of the state.        *)
(***************************************************************************)
EXTENDS AgentOutput, Worktree, McpSync

CONSTANTS LinkTargets,  \* where a link of the worktree, at c or e, may end
          Words,        \* what a text is made of
          Outputs(_),   \* what an adapter's agent may print
          Used(_),      \* the adapters that may have a job, with agy installed or not
          MaxResult,    \* MaxResultSize, for an answer
          MaxDiff,      \* and for a diff
          MaxGitFaults, MaxCrashes,  \* bounds
          AgentBits,    \* the modes the agent may give a file or a directory
          MaxTampered   \* bound: the paths whose mode or link it changes

\* "managed": any adapter that directRepoAdapters does not name.
Adapters == {"claude-code", "codex", "opencode", "agy", "managed"}

ASSUME ExecutionAssumption ==
    /\ LinkTargets \subseteq (Nodes \ {"c", "e"}) \cup {"missing"}
    /\ \A agy \in BOOLEAN : Used(agy) \subseteq Adapters
    /\ \A a \in Adapters : Outputs(a) \subseteq Seq(Lines(Words))
    /\ {MaxResult, MaxDiff, MaxGitFaults, MaxCrashes, MaxTampered} \subseteq Nat
    /\ MaxResult < LongLine /\ AgentBits \subseteq Bits

VARIABLES
    stage,
    adapter, readOnly,
    link,      \* the links of the repository's HEAD, then those the agent made
    mode,      \* the worktree's modes; Gone when there is none
    alive,     \* the agent's process runs
    changes,   \* what it changed in the worktree and did not commit
    tampered,  \* the paths whose mode or link it changed
    out,
    outcome,   \* what the record will say
    git,       \* the git commands that failed on their own
    crashes

execVars == <<stage, adapter, readOnly, link, mode, alive, changes, tampered, out, outcome, git, crashes>>
vars == <<execVars, syncVars>>

Managed == adapter = "managed"
Outcome(state, answer, diff) == [state |-> state, answer |-> answer, diff |-> diff]
Failed == Outcome("failed", Error, {})
Cleanup == IF Managed THEN "restore" ELSE "over"
Pass(s) == stage' = s /\ UNCHANGED outcome
Fail == stage' = Cleanup /\ outcome' = Failed
\* A failure before execute has deferred the cleanup.
FailEarly == stage' = "over" /\ outcome' = Failed

\* A git command fails on its own: a lock, a full disk.
GitFails == git < MaxGitFaults /\ git' = git + 1

\* gitToplevel, then for a managed worktree gitHeadOID and git worktree add.
Prepare ==
    /\ stage = "prepare"
    /\ \/ FailEarly /\ UNCHANGED mode
       \/ ~Managed /\ Pass("build") /\ UNCHANGED mode
       \/ Managed /\ Pass(IF readOnly THEN "strip" ELSE "build") /\ mode' = Writable
    /\ UNCHANGED <<adapter, readOnly, link, alive, changes, tampered, out, git, crashes>>

Ignored == FALSE
Stopped == Walked(mode, link, FALSE).err
StripWrite ==
    /\ stage = "strip"
    /\ mode' = Walked(mode, link, FALSE).mode
    /\ IF Stopped THEN FailEarly ELSE Pass("build")
    /\ UNCHANGED <<adapter, readOnly, link, alive, changes, tampered, out, git, crashes>>

\* Build finds the binary; then the process starts.
Build ==
    /\ stage = "build"
    /\ \/ Fail /\ UNCHANGED alive
       \/ /\ adapter = "agy" => installed
          /\ Managed => mode["root"].x
          /\ Pass("run") /\ alive' = TRUE
    /\ UNCHANGED <<adapter, readOnly, link, mode, changes, tampered, out, git, crashes>>

-----------------------------------------------------------------------------
(* The agent (external) in a managed worktree.                             *)

\* What the modes let it write: a tracked file, in place or anew; an entry of
\* the root; what a link leads to.
Writes(p) ==
    CASE p = "f" -> Enter(mode, "f") /\ (mode["f"].w \/ mode["d"].w)
      [] p = "outside" -> \E l \in DOMAIN link : link[l] = "outside" /\ Enter(mode, l) /\ mode["outside"].w
      [] OTHER -> mode["root"].w /\ mode["root"].x

AgentWrites ==
    /\ alive /\ mode # Gone
    /\ \E p \in {"f", "new", ".atl"} : Writes(p) /\ changes' = changes \cup {p}
    /\ UNCHANGED <<stage, adapter, readOnly, link, mode, alive, tampered, out, outcome, git, crashes>>

\* It runs as the user, who owns the tree: it may put links in it, and no mode
\* stops it from setting another.
Tampers(p) == tampered' = tampered \cup {p} /\ Cardinality(tampered') <= MaxTampered

AgentLinks ==
    /\ alive /\ mode # Gone
    /\ \E l \in {"c", "e"}, to \in LinkTargets \cup {"c", "e"} :
          /\ Writes(l) /\ Tampers(l) /\ to \in LinkTargets \cup {l}
          /\ link' = [link EXCEPT ![l] = to] /\ changes' = changes \cup {l}
    /\ UNCHANGED <<stage, adapter, readOnly, mode, alive, out, outcome, git, crashes>>

AgentChmods ==
    /\ alive /\ mode # Gone
    /\ \E p \in Dirs \cup {"f"}, bits \in AgentBits :
          Enter(mode, p) /\ Tampers(p) /\ mode' = [mode EXCEPT ![p] = bits]
    /\ UNCHANGED <<stage, adapter, readOnly, link, alive, changes, out, outcome, git, crashes>>

\* A commit moves the worktree's detached HEAD.
AgentCommits ==
    /\ alive /\ mode # Gone /\ changes # {}
    /\ changes' = {}
    /\ UNCHANGED <<stage, adapter, readOnly, link, mode, alive, tampered, out, outcome, git, crashes>>

-----------------------------------------------------------------------------
\* The agent ends, its output in memory; or runProcess returns for another
\* reason: a cancellation, perhaps with the process still alive, an overflow, an
\* exit code.
AgentEnds ==
    /\ stage = "run" /\ alive /\ alive' = FALSE
    /\ Pass("scan") /\ out' \in Outputs(adapter)
    /\ UNCHANGED <<adapter, readOnly, link, mode, changes, tampered, git, crashes>>

AgentStopped ==
    /\ stage = "run"
    /\ \/ Fail /\ alive' = FALSE
       \/ /\ adapter \in {"claude-code", "managed"}
          /\ stage' = Cleanup /\ outcome' = Outcome("canceled", Error, {})
          /\ alive' \in BOOLEAN
    /\ UNCHANGED <<adapter, readOnly, link, mode, changes, tampered, out, git, crashes>>

AgentExits ==
    /\ stage # "run" /\ alive /\ alive' = FALSE
    /\ UNCHANGED <<stage, adapter, readOnly, link, mode, changes, tampered, out, outcome, git, crashes>>

\* Adapter.Result and MaxResultSize.
TakeResult ==
    LET answer == Result(adapter, out) IN
    /\ stage = "scan"
    /\ IF answer.kind = "error" \/ Size(answer, out) > MaxResult THEN Fail
       ELSE /\ stage' = IF Managed /\ ~readOnly THEN "diff" ELSE Cleanup
            /\ outcome' = Outcome("succeeded", answer, {})
    /\ UNCHANGED <<adapter, readOnly, link, mode, alive, changes, tampered, out, git, crashes>>

\* git add -A and git diff --cached HEAD: what was not committed, new files and
\* links included, the scaffolding excluded, of what git can read.  A long diff
\* is cut, an error leaves it empty, and neither is recorded.
WithScaffolding == changes
TrackedOnly == changes \ {"new", ".atl"}
Uncommitted == changes \ {".atl"}
Shown(files) == IF Legible(mode) THEN {files} ELSE SUBSET files
Cut(files) == kSubset(IF Cardinality(files) < MaxDiff THEN Cardinality(files) ELSE MaxDiff, files)
Diff ==
    /\ stage = "diff" /\ stage' = Cleanup
    /\ \/ \E files \in Shown(Uncommitted) : \E d \in Cut(files) :
              outcome' = [outcome EXCEPT !.diff = d] /\ UNCHANGED git
       \/ GitFails /\ UNCHANGED outcome
    /\ UNCHANGED <<adapter, readOnly, link, mode, alive, changes, tampered, out, crashes>>

\* The deferred cleanupWorktree ignores the errors of both its steps.
Unrestored == mode
Restored == Walked(mode, link, TRUE).mode
RestoreWrite ==
    /\ stage = "restore" /\ Pass("remove")
    /\ mode' = Restored
    /\ UNCHANGED <<adapter, readOnly, link, alive, changes, tampered, out, git, crashes>>

RemoveWorktree ==
    /\ stage = "remove" /\ Pass("over")
    /\ \/ Removable(mode) /\ mode' = Gone /\ UNCHANGED git
       \/ (~Removable(mode) \/ alive) /\ UNCHANGED <<mode, git>>
       \/ GitFails /\ UNCHANGED mode
    /\ UNCHANGED <<adapter, readOnly, link, alive, changes, tampered, out, crashes>>

ExecStep == \/ Prepare \/ StripWrite \/ Build
            \/ AgentWrites \/ AgentLinks \/ AgentChmods \/ AgentCommits
            \/ AgentEnds \/ AgentStopped \/ AgentExits
            \/ TakeResult \/ Diff \/ RestoreWrite \/ RemoveWorktree

\* The daemon dies; the agent and the child of the sync live on, and nothing of
\* the job but its record, written before the cleanup, is looked at again.
Crash == /\ crashes < MaxCrashes /\ crashes' = crashes + 1
         /\ sync # "off" /\ SyncDies
         /\ stage' = IF stage = "over" THEN stage ELSE "crashed"
         /\ outcome' = IF stage \in {"restore", "remove", "over", "crashed"} THEN outcome ELSE Failed
         /\ UNCHANGED <<adapter, readOnly, link, mode, alive, changes, tampered, out, git>>

\* What is no link leads to itself.
NoLinks == [l \in {"c", "e"} |-> l]

Init == /\ SyncInit
        /\ stage = "prepare" /\ adapter \in Used(installed) /\ readOnly \in BOOLEAN
        /\ link \in (IF Managed THEN [{"c", "e"} -> LinkTargets \cup {"c", "e"}] ELSE {NoLinks})
        /\ \A l \in {"c", "e"} : link[l] \in LinkTargets \cup {l}
        /\ mode = Gone /\ alive = FALSE
        /\ changes = {} /\ tampered = {} /\ out = <<>>
        /\ outcome = Outcome("running", Error, {}) /\ git = 0 /\ crashes = 0

Next == \/ ExecStep /\ UNCHANGED syncVars
        \/ (SyncStep \/ SyncStarts) /\ UNCHANGED execVars
        \/ Crash

Spec == Init /\ [][Next]_vars
=============================================================================

------------------------------ MODULE Worktree ------------------------------
(***************************************************************************)
(* A managed worktree as chmod sees it (git.go, worktree.go).  filepath.   *)
(* Walk visits a directory, then its entries in lexical order, and stops   *)
(* at the first error; it does not follow links, but os.Chmod does.        *)
(***************************************************************************)
EXTENDS Naturals, FiniteSetsExt, SequencesExt

\* The checkout: the entries c, d and e of the root, f inside d; c and e may be
\* links.  "outside" is a directory of the user's that a link may lead to.
Walk == <<"root", "c", "d", "f", "e">>
Dirs == {"root", "d"}
Nodes == ToSet(Walk) \cup {"outside"}
Above == [p \in Nodes |-> CASE p \in {"c", "d", "e"} -> {"root"}
                            [] p = "f" -> {"root", "d"}
                            [] OTHER   -> {}]

\* link[p]: where the entry p leads; to itself when it is no link.
Leads(link, p) == IF p \in DOMAIN link THEN link[p] ELSE p

\* r: it can be read, or listed.  w: it can be written.  x: if a directory, it
\* can be entered.
Bits == [r : BOOLEAN, w : BOOLEAN, x : BOOLEAN]
Writable == [p \in Nodes |-> [r |-> TRUE, w |-> TRUE, x |-> TRUE]]
Gone == <<>>

Enter(mode, p) == \A d \in Above[p] : mode[d].x

\* Walk lists a directory before it is visited.
Listed(mode, p) == p \in Dirs => mode[p].r

Chmod(walk, link, p, w) ==
    LET to == Leads(link, p) IN
    IF to = "missing" \/ ~Enter(walk.mode, p) \/ ~Listed(walk.mode, p) THEN [walk EXCEPT !.err = TRUE]
    ELSE IF ~Enter(walk.mode, to) THEN [walk EXCEPT !.err = TRUE]
    ELSE [walk EXCEPT !.mode[to] = [r |-> TRUE, w |-> w, x |-> p \in Dirs]]

\* stripWrite and restoreWrite: the modes they leave and whether they failed.
Walked(mode, link, w) ==
    LET Visit(walk, k) == IF walk.err THEN walk ELSE Chmod(walk, link, Walk[k], w) IN
    Visit(Visit(Visit(Visit(Visit([mode |-> mode, err |-> FALSE], 1), 2), 3), 4), 5)

\* git can remove the tree if it can empty every directory, and show what is in
\* it if it can read all of it.
Removable(mode) == \A d \in Dirs : mode[d].r /\ mode[d].w /\ mode[d].x
Legible(mode) == \A p \in ToSet(Walk) : Enter(mode, p) /\ mode[p].r
=============================================================================

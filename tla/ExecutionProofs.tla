--------------------------- MODULE ExecutionProofs ---------------------------
(***************************************************************************)
(* What a job can write, answer and leave behind, and what the sync of     *)
(* agy's registry may overwrite, for every repository, adapter and bound.  *)
(***************************************************************************)
EXTENDS AnswerProofs

-----------------------------------------------------------------------------
(* The sync of agy's registry.                                             *)

\* The children that may still write an entry, and the entries they may write.
Claimed == missing \cup orphans \cup ({adding} \ {NoServer})

\* What is to be copied was absent when the registries were read, so it is not
\* the user's own; and nothing of the desktop's is forgotten on the way.
SyncInv ==
    /\ sync \in {"off", "read", "skipped", "add", "done"}
    /\ adding \in Servers \cup {NoServer}
    /\ missing \cup orphans \cup failed \subseteq Servers
    /\ headless \in [Servers -> {"absent", "own", "copied"}]
    /\ adding # NoServer \/ missing # {} => sync = "add"
    /\ \A m \in Claimed : headless[m] # "own"
    /\ sync \in {"add", "done"} => Desktop \subseteq Present \cup failed \cup missing \cup {adding}

\* Every step of the sync, its death with the daemon included, keeps SyncInv.
LEMMA SyncStepKeeps ==
    ASSUME SyncInv, SyncStep \/ SyncStarts \/ (sync # "off" /\ SyncDies)
    PROVE  SyncInv'
<1> USE SyncAssumption DEF SyncInv, Claimed, Present
<1>1. CASE NothingToSync
  BY <1>1 DEF NothingToSync
<1>2. CASE ReadRegistries
  BY <1>2 DEF ReadRegistries, Missing
<1>3. CASE AddServer
  BY <1>3 DEF AddServer
<1>4. CASE AddReturns
  <2>1. CASE headless' = [headless EXCEPT ![adding] = "copied"] /\ UNCHANGED <<missing, failed>>
    BY <1>4, <2>1 DEF AddReturns
  <2>2. CASE failed' = failed \cup {adding} /\ GoOn /\ UNCHANGED headless
    BY <1>4, <2>2 DEF AddReturns, GoOn
  <2> QED BY <1>4, <2>1, <2>2 DEF AddReturns
<1>5. CASE SyncReturns
  BY <1>5 DEF SyncReturns
<1>6. CASE OrphanEnds
  BY <1>6 DEF OrphanEnds
<1>7. CASE SyncStarts
  BY <1>7 DEF SyncStarts
<1>8. CASE SyncDies
  BY <1>8 DEF SyncDies
<1> QED BY <1>1, <1>2, <1>3, <1>4, <1>5, <1>6, <1>7, <1>8 DEF SyncStep

\* It holds when a daemon first starts.
LEMMA SyncInitially == SyncInit => SyncInv
BY DEF SyncInit, SyncInv, Claimed

\* No step of the job disturbs it.
LEMMA SyncKept == SyncInv /\ [Next]_vars => SyncInv'
<1> SUFFICES ASSUME SyncInv, [Next]_vars PROVE SyncInv'
  OBVIOUS
<1>1. CASE UNCHANGED syncVars
  BY <1>1 DEF syncVars, SyncInv, Claimed, Present
<1>2. CASE SyncStep \/ SyncStarts
  BY <1>2, SyncStepKeeps
<1>3. CASE Crash
  BY <1>3, SyncStepKeeps DEF Crash
<1> QED BY <1>1, <1>2, <1>3 DEF Next, vars

\* A sync that ended has copied every server of the desktop's registry that the
\* headless one lacked, except those whose copy failed.
THEOREM SyncCompletes == Spec => []SyncIsComplete
<1>1. Init => SyncInv
  BY SyncInitially DEF Init
<1>2. SyncInv => SyncIsComplete
  BY SyncAssumption DEF SyncInv, SyncIsComplete, Present
<1> QED BY <1>1, <1>2, SyncKept, PTL DEF Spec

\* No step overwrites an entry of the user's own, whoever takes it: the
\* goroutine, or a child that outlived the daemon that started it.
THEOREM OwnEntriesStay == Spec => OwnEntriesKept
<1>1. Init => SyncInv
  BY SyncInitially DEF Init
<1>2. SyncInv /\ [Next]_vars => [\A m \in Servers : headless[m] = "own" => headless'[m] = "own"]_vars
  <2> SUFFICES ASSUME SyncInv, Next, NEW m \in Servers, headless[m] = "own"
               PROVE  headless'[m] = "own"
    OBVIOUS
  <2>1. CASE AddReturns
    BY <2>1 DEF AddReturns, SyncInv, Claimed
  <2>2. CASE OrphanEnds
    BY <2>2 DEF OrphanEnds, SyncInv, Claimed
  <2>3. CASE UNCHANGED headless
    BY <2>3
  <2> QED BY <2>1, <2>2, <2>3 DEF Next, SyncStep, SyncStarts, Crash, SyncDies, syncVars,
             NothingToSync, ReadRegistries, AddServer, SyncReturns
<1> QED BY <1>1, <1>2, SyncKept, PTL DEF Spec, OwnEntriesKept

-----------------------------------------------------------------------------
(* The worktree's modes.                                                   *)

\* The types of modes and of links.
Modes == [Nodes -> Bits]
Links == [{"c", "e"} -> Nodes \cup {"missing"}]

\* The entries it visits.
WalkSet == ToSet(Walk)

\* The order of the walk, and the files, spelt out.
LEMMA WalkIs ==
    /\ Walk[1] = "root" /\ Walk[2] = "c" /\ Walk[3] = "d" /\ Walk[4] = "f" /\ Walk[5] = "e"
    /\ DOMAIN Walk = 1..5
    /\ WalkSet = {"root", "c", "d", "f", "e"}
    /\ Nodes = {"root", "c", "d", "f", "e", "outside"}
BY DEF Walk, WalkSet, Nodes, ToSet

\* Above, spelt out.
LEMMA AboveIs ==
    /\ Above["root"] = {} /\ Above["outside"] = {} /\ Above["f"] = {"root", "d"}
    /\ Above["c"] = {"root"} /\ Above["d"] = {"root"} /\ Above["e"] = {"root"}
BY WalkIs DEF Above

\* What can be reached.
LEMMA EnterIs ==
    ASSUME NEW m
    PROVE  /\ Enter(m, "root") /\ Enter(m, "outside")
           /\ Enter(m, "f") <=> m["root"].x /\ m["d"].x
           /\ \A p \in {"c", "d", "e"} : Enter(m, p) <=> m["root"].x
BY AboveIs DEF Enter

\* One visit, of the entry p.
Visit(walk, l, p, w) == IF walk.err THEN walk ELSE Chmod(walk, l, p, w)

\* A walk under way.
Walks == [mode : Modes, err : BOOLEAN]

\* A link leads to a file or nowhere.
LEMMA LeadsTo ==
    ASSUME NEW l \in Links, NEW p \in WalkSet
    PROVE  Leads(l, p) \in Nodes \cup {"missing"}
BY WalkIs DEF Links, Leads

\* What chmod makes of the modes of a tree.
Set(m, to, w, x) == [m EXCEPT ![to] = [r |-> TRUE, w |-> w, x |-> x]]

\* It sets the mode of one file and no other.
Sets(m, n, to, w, x) == /\ to \in Nodes /\ n[to].r /\ (n[to].w <=> w) /\ (n[to].x <=> x)
                        /\ \A q \in Nodes \ {to} : n[q] = m[q]

\* And leaves modes.
LEMMA SetMode ==
    ASSUME NEW m \in Modes, NEW to \in Nodes, NEW w \in BOOLEAN, NEW x \in BOOLEAN
    PROVE  Set(m, to, w, x) \in Modes /\ Sets(m, Set(m, to, w, x), to, w, x)
<1> DEFINE bits == [r |-> TRUE, w |-> w, x |-> x]
<1>1. bits \in Bits /\ bits.r /\ bits.w = w /\ bits.x = x
  BY DEF Bits
<1> HIDE DEF bits
<1>2. [m EXCEPT ![to] = bits] \in Modes
  BY <1>1 DEF Modes
<1>3. Sets(m, [m EXCEPT ![to] = bits], to, w, x)
  BY <1>1 DEF Modes, Sets
<1> QED BY <1>2, <1>3 DEF Set, bits

\* What lets a walk change the mode of what the entry p leads to.
Passes(m, l, p) == /\ Leads(l, p) # "missing" /\ Enter(m, p) /\ Listed(m, p)
                   /\ Enter(m, Leads(l, p))

\* What a visit does when it has what it needs, and when it has not.
LEMMA VisitIs ==
    ASSUME NEW walk \in Walks, NEW l \in Links, NEW p \in WalkSet, NEW w \in BOOLEAN
    PROVE  LET v == Visit(walk, l, p, w) IN
           /\ v \in Walks
           /\ ~v.err <=> ~walk.err /\ Passes(walk.mode, l, p)
           /\ v.err => v.mode = walk.mode
           /\ ~v.err => Sets(walk.mode, v.mode, Leads(l, p), w, p \in Dirs)
<1> DEFINE to == Leads(l, p)
           x  == p \in Dirs
<1>1. /\ to \in Nodes \cup {"missing"} /\ x \in BOOLEAN
      /\ walk.mode \in Modes /\ walk.err \in BOOLEAN
  BY LeadsTo DEF Walks
<1>2. CASE walk.err
  BY <1>2 DEF Visit
<1>3. CASE ~walk.err /\ ~Passes(walk.mode, l, p)
  <2>1. Visit(walk, l, p, w) = [walk EXCEPT !.err = TRUE]
    BY <1>3 DEF Visit, Chmod, Passes
  <2> QED BY <1>3, <2>1 DEF Walks
<1>4. CASE ~walk.err /\ Passes(walk.mode, l, p)
  <2>1. to \in Nodes
    BY <1>1, <1>4 DEF Passes
  <2>2. Set(walk.mode, to, w, x) \in Modes /\ Sets(walk.mode, Set(walk.mode, to, w, x), to, w, x)
    <3> HIDE DEF to, x
    <3> QED BY <1>1, <2>1, SetMode
  <2>3. Visit(walk, l, p, w) = [walk EXCEPT !.mode = Set(walk.mode, to, w, x)]
    <3>1. walk.mode \in Modes /\ ~walk.err /\ to # "missing"
      BY <1>4 DEF Walks, Passes
    <3> QED BY <1>4, <3>1 DEF Visit, Chmod, Passes, Set
  <2> HIDE DEF to, x
  <2>4. /\ Visit(walk, l, p, w) \in Walks /\ ~Visit(walk, l, p, w).err
        /\ Visit(walk, l, p, w).mode = Set(walk.mode, to, w, x)
    BY <1>4, <2>2, <2>3 DEF Walks
  <2> QED BY <1>4, <2>2, <2>4 DEF to, x
<1> QED BY <1>1, <1>2, <1>3, <1>4

\* What a visit that strips the write bit does to it.
LEMMA VisitStrips ==
    ASSUME NEW walk \in Walks, NEW l \in Links, NEW p \in WalkSet, ~Visit(walk, l, p, FALSE).err
    PROVE  /\ ~walk.err
           /\ ~Visit(walk, l, p, FALSE).mode[Leads(l, p)].w
           /\ \A n \in Nodes : ~walk.mode[n].w => ~Visit(walk, l, p, FALSE).mode[n].w
<1>1. ~walk.err /\ Sets(walk.mode, Visit(walk, l, p, FALSE).mode, Leads(l, p), FALSE, p \in Dirs)
  BY VisitIs
<1>2. ASSUME NEW n \in Nodes, ~walk.mode[n].w PROVE ~Visit(walk, l, p, FALSE).mode[n].w
  <2>1. CASE n = Leads(l, p)
    BY <1>1, <2>1 DEF Sets
  <2>2. CASE n # Leads(l, p)
    BY <1>1, <1>2, <2>2 DEF Sets
  <2> QED BY <2>1, <2>2
<1>3. ~Visit(walk, l, p, FALSE).mode[Leads(l, p)].w
  BY <1>1 DEF Sets
<1> QED BY <1>1, <1>2, <1>3

\* A walk is its five visits, and stops where one fails.
LEMMA Walking ==
    ASSUME NEW m \in Modes, NEW l \in Links, NEW w \in BOOLEAN
    PROVE  \E w0, w1, w2, w3, w4, w5 \in Walks :
              /\ w0 = [mode |-> m, err |-> FALSE]
              /\ w1 = Visit(w0, l, "root", w)
              /\ w2 = Visit(w1, l, "c", w)
              /\ w3 = Visit(w2, l, "d", w)
              /\ w4 = Visit(w3, l, "f", w)
              /\ w5 = Visit(w4, l, "e", w)
              /\ w5 = Walked(m, l, w)
<1> DEFINE w0 == [mode |-> m, err |-> FALSE]
           w1 == Visit(w0, l, "root", w)
           w2 == Visit(w1, l, "c", w)
           w3 == Visit(w2, l, "d", w)
           w4 == Visit(w3, l, "f", w)
           w5 == Visit(w4, l, "e", w)
<1>1. w0 \in Walks
  BY DEF Walks
<1>2. w1 \in Walks
  BY <1>1, VisitIs, WalkIs
<1>3. w2 \in Walks
  BY <1>2, VisitIs, WalkIs
<1>4. w3 \in Walks
  BY <1>3, VisitIs, WalkIs
<1>5. w4 \in Walks
  BY <1>4, VisitIs, WalkIs
<1>6. w5 \in Walks
  BY <1>5, VisitIs, WalkIs
<1>7. w5 = Walked(m, l, w)
  BY WalkIs DEF Walked, Visit
<1> HIDE DEF w5
<1> QED BY <1>1, <1>2, <1>3, <1>4, <1>5, <1>6, <1>7 DEF w5

\* Its modes are modes, wherever it stops.
LEMMA WalkedTyped ==
    ASSUME NEW m \in Modes, NEW l \in Links, NEW w \in BOOLEAN
    PROVE  Walked(m, l, w).mode \in Modes /\ Walked(m, l, w).err \in BOOLEAN
BY Walking DEF Walks

\* No file the agent could change can be written: not one of the worktree's, in
\* place or anew, and not one behind a link.
Locked(m, l) == /\ ~m["root"].w /\ ~m["d"].w /\ ~m["f"].w
                /\ (\E p \in {"c", "e"} : l[p] = "outside") => ~m["outside"].w

\* stripWrite, if it gets to the end, locks the worktree, links and all.
LEMMA StripLocks ==
    ASSUME NEW m \in Modes, NEW l \in Links, ~Walked(m, l, FALSE).err
    PROVE  Locked(Walked(m, l, FALSE).mode, l)
<1>1. PICK w0, w1, w2, w3, w4, w5 \in Walks :
              /\ w0 = [mode |-> m, err |-> FALSE]
              /\ w1 = Visit(w0, l, "root", FALSE)
              /\ w2 = Visit(w1, l, "c", FALSE)
              /\ w3 = Visit(w2, l, "d", FALSE)
              /\ w4 = Visit(w3, l, "f", FALSE)
              /\ w5 = Visit(w4, l, "e", FALSE)
              /\ w5 = Walked(m, l, FALSE)
  BY Walking
<1>2. /\ ~w4.err /\ ~w5.mode[Leads(l, "e")].w
      /\ \A p \in Nodes : ~w4.mode[p].w => ~w5.mode[p].w
  <2>1. w5 = Visit(w4, l, "e", FALSE) /\ ~w5.err
    BY <1>1
  <2> QED BY <2>1, VisitStrips, WalkIs
<1>3. /\ ~w3.err /\ ~w4.mode[Leads(l, "f")].w
      /\ \A p \in Nodes : ~w3.mode[p].w => ~w4.mode[p].w
  <2>1. w4 = Visit(w3, l, "f", FALSE)
    BY <1>1
  <2> QED BY <1>2, <2>1, VisitStrips, WalkIs
<1>4. /\ ~w2.err /\ ~w3.mode[Leads(l, "d")].w
      /\ \A p \in Nodes : ~w2.mode[p].w => ~w3.mode[p].w
  <2>1. w3 = Visit(w2, l, "d", FALSE)
    BY <1>1
  <2> QED BY <1>3, <2>1, VisitStrips, WalkIs
<1>5. /\ ~w1.err /\ ~w2.mode[Leads(l, "c")].w
      /\ \A p \in Nodes : ~w1.mode[p].w => ~w2.mode[p].w
  <2>1. w2 = Visit(w1, l, "c", FALSE)
    BY <1>1
  <2> QED BY <1>4, <2>1, VisitStrips, WalkIs
<1>6. ~w1.mode[Leads(l, "root")].w
  <2>1. w1 = Visit(w0, l, "root", FALSE)
    BY <1>1
  <2> QED BY <1>5, <2>1, VisitStrips, WalkIs
<1>7. /\ Leads(l, "root") = "root" /\ Leads(l, "f") = "f" /\ Leads(l, "d") = "d"
      /\ Leads(l, "c") = l["c"] /\ Leads(l, "e") = l["e"]
  BY DEF Leads, Links
<1>8. ~w5.mode["root"].w /\ ~w5.mode["d"].w /\ ~w5.mode["f"].w
  BY <1>2, <1>3, <1>4, <1>5, <1>6, <1>7, WalkIs
<1>9. ASSUME NEW p \in {"c", "e"}, l[p] = "outside" PROVE ~w5.mode["outside"].w
  BY <1>2, <1>3, <1>4, <1>5, <1>7, <1>9, WalkIs
<1> QED BY <1>1, <1>8, <1>9 DEF Locked

\* No link takes away an x bit that Walk still needs, or that it has just given.
Harmless(l) == l["c"] # "root" /\ l["e"] \notin {"root", "d"}
\* A link that leads nowhere.
Dangling(l) == "missing" \in {l["c"], l["e"]}
\* The other causes that stop a walk: of them the agent is the author.
Stuck(m, l) == ~m["root"].r \/ ~m["d"].r \/ (l["c"] = "f" /\ ~m["d"].x)
\* The directories after a walk that has reached them.
Swept(m, w) == \A d \in {"root", "d"} : m[d].r /\ m[d].x /\ (m[d].w <=> w)

\* The first visit.
LEMMA RootVisit ==
    ASSUME NEW walk \in Walks, NEW l \in Links, NEW w \in BOOLEAN, ~walk.err
    PROVE  LET v == Visit(walk, l, "root", w) IN
           /\ ~v.err <=> walk.mode["root"].r
           /\ ~v.err => /\ v.mode["root"].r /\ v.mode["root"].x /\ (v.mode["root"].w <=> w)
                        /\ v.mode["d"] = walk.mode["d"]
<1>1. Leads(l, "root") = "root" /\ "root" \in WalkSet
  BY WalkIs DEF Leads, Links
<1>2. Passes(walk.mode, l, "root") <=> walk.mode["root"].r
  BY <1>1, AboveIs DEF Passes, Enter, Listed, Dirs
<1>3. ~Visit(walk, l, "root", w).err =>
          Sets(walk.mode, Visit(walk, l, "root", w).mode, "root", w, TRUE)
  BY <1>1, VisitIs DEF Dirs
<1> QED BY <1>1, <1>2, <1>3, VisitIs, WalkIs DEF Sets

\* The visit of the link c: it may set the mode of d before Walk is there.
LEMMA CVisit ==
    ASSUME NEW walk \in Walks, NEW l \in Links, NEW w \in BOOLEAN, ~walk.err,
           walk.mode["root"].x, Harmless(l), l["c"] # "missing"
    PROVE  LET v == Visit(walk, l, "c", w) IN
           /\ v.mode["root"] = walk.mode["root"]
           /\ v.err => l["c"] = "f" /\ ~walk.mode["d"].x /\ v.mode = walk.mode
           /\ ~v.err => v.mode["d"] = walk.mode["d"] \/ v.mode["d"].r
<1>1. Leads(l, "c") = l["c"] /\ l["c"] \in Nodes /\ "c" \in WalkSet /\ "c" \notin Dirs
  BY WalkIs DEF Leads, Links, Dirs
<1>2. ~Passes(walk.mode, l, "c") => l["c"] = "f" /\ ~walk.mode["d"].x
  <2>1. Enter(walk.mode, "c") /\ Listed(walk.mode, "c")
    BY <1>1, EnterIs DEF Listed
  <2>2. ~Enter(walk.mode, l["c"]) => l["c"] = "f" /\ ~walk.mode["d"].x
    BY <1>1, EnterIs, WalkIs
  <2> QED BY <1>1, <2>1, <2>2 DEF Passes
<1>3. ~Visit(walk, l, "c", w).err => Sets(walk.mode, Visit(walk, l, "c", w).mode, l["c"], w, FALSE)
  <2>1. ~Visit(walk, l, "c", w).err =>
            Sets(walk.mode, Visit(walk, l, "c", w).mode, Leads(l, "c"), w, "c" \in Dirs)
    BY <1>1, VisitIs
  <2> QED BY <1>1, <2>1 DEF Sets
<1>4. CASE Visit(walk, l, "c", w).err
  BY <1>1, <1>2, <1>4, VisitIs
<1>5. CASE ~Visit(walk, l, "c", w).err
  BY <1>1, <1>3, <1>5, WalkIs DEF Sets, Harmless
<1> QED BY <1>4, <1>5

\* The visit of d.
LEMMA DVisit ==
    ASSUME NEW walk \in Walks, NEW l \in Links, NEW w \in BOOLEAN, ~walk.err, walk.mode["root"].x
    PROVE  LET v == Visit(walk, l, "d", w) IN
           /\ ~v.err <=> walk.mode["d"].r
           /\ v.err => v.mode = walk.mode
           /\ ~v.err => /\ v.mode["root"] = walk.mode["root"]
                        /\ v.mode["d"].r /\ v.mode["d"].x /\ (v.mode["d"].w <=> w)
<1>1. Leads(l, "d") = "d" /\ "d" \in WalkSet
  BY WalkIs DEF Leads, Links
<1>2. Passes(walk.mode, l, "d") <=> walk.mode["d"].r
  BY <1>1, AboveIs DEF Passes, Enter, Listed, Dirs
<1>3. ~Visit(walk, l, "d", w).err => Sets(walk.mode, Visit(walk, l, "d", w).mode, "d", w, TRUE)
  BY <1>1, VisitIs DEF Dirs
<1> QED BY <1>1, <1>2, <1>3, VisitIs, WalkIs DEF Sets

\* The visits after it leave the directories as they are.
LEMMA LaterVisit ==
    ASSUME NEW walk \in Walks, NEW l \in Links, NEW w \in BOOLEAN, NEW p \in {"f", "e"},
           Harmless(l)
    PROVE  LET v == Visit(walk, l, p, w) IN
           /\ v.mode["root"] = walk.mode["root"] /\ v.mode["d"] = walk.mode["d"]
           /\ ~walk.err /\ walk.mode["root"].x /\ walk.mode["d"].x /\ Leads(l, p) # "missing" => ~v.err
<1>1. p \in WalkSet /\ p \notin Dirs /\ Leads(l, p) \in Nodes \cup {"missing"}
  BY WalkIs, LeadsTo DEF Dirs
<1>2. Leads(l, p) \notin {"root", "d"}
  BY DEF Leads, Links, Harmless
<1>3. ASSUME walk.mode["root"].x, walk.mode["d"].x, Leads(l, p) # "missing"
      PROVE  Passes(walk.mode, l, p)
  <2>1. \A q \in Nodes : Enter(walk.mode, q)
    BY <1>3, EnterIs, WalkIs
  <2>2. p \in Nodes /\ Listed(walk.mode, p)
    BY <1>1, WalkIs DEF Listed
  <2> QED BY <1>1, <1>3, <2>1, <2>2 DEF Passes
<1>4. ~Visit(walk, l, p, w).err => Sets(walk.mode, Visit(walk, l, p, w).mode, Leads(l, p), w, FALSE)
  <2>1. ~Visit(walk, l, p, w).err =>
            Sets(walk.mode, Visit(walk, l, p, w).mode, Leads(l, p), w, p \in Dirs)
    BY <1>1, VisitIs
  <2> QED BY <1>1, <2>1 DEF Sets
<1>5. CASE Visit(walk, l, p, w).err
  BY <1>1, <1>3, <1>5, VisitIs
<1>6. CASE ~Visit(walk, l, p, w).err
  BY <1>1, <1>2, <1>4, <1>6, WalkIs DEF Sets
<1> QED BY <1>5, <1>6

\* A walk over a tree with harmless links reaches both directories, or it is
\* stopped before by what still is there when it ends; if it reaches them and no
\* link dangles, it gets to its end.
LEMMA WalkSweeps ==
    ASSUME NEW m \in Modes, NEW l \in Links, NEW w \in BOOLEAN, Harmless(l), l["c"] # "missing"
    PROVE  LET v == Walked(m, l, w) IN
           \/ Stuck(m, l) /\ Stuck(v.mode, l)
           \/ Swept(v.mode, w) /\ (~Dangling(l) => ~v.err)
<1>1. PICK w0, w1, w2, w3, w4, w5 \in Walks :
              /\ w0 = [mode |-> m, err |-> FALSE]
              /\ w1 = Visit(w0, l, "root", w)
              /\ w2 = Visit(w1, l, "c", w)
              /\ w3 = Visit(w2, l, "d", w)
              /\ w4 = Visit(w3, l, "f", w)
              /\ w5 = Visit(w4, l, "e", w)
              /\ w5 = Walked(m, l, w)
  BY Walking
<1>2. w0.mode = m /\ ~w0.err
  BY <1>1
<1>3. /\ w4.mode["root"] = w3.mode["root"] /\ w4.mode["d"] = w3.mode["d"]
      /\ w5.mode["root"] = w4.mode["root"] /\ w5.mode["d"] = w4.mode["d"]
  BY <1>1, LaterVisit
<1>4. CASE ~m["root"].r
  <2>1. w1.err /\ w1.mode = m
    <3>1. w1 = Visit(w0, l, "root", w) /\ "root" \in WalkSet
      BY <1>1, WalkIs
    <3>2. Visit(w0, l, "root", w).err
      BY <1>2, <1>4, RootVisit
    <3>3. Visit(w0, l, "root", w).mode = w0.mode
      BY <3>1, <3>2, VisitIs
    <3> QED BY <1>2, <3>1, <3>2, <3>3
  <2>2. w2 = w1 /\ w3 = w2
    BY <1>1, <2>1 DEF Visit
  <2> QED BY <1>1, <1>3, <1>4, <2>1, <2>2 DEF Stuck
<1>5. CASE m["root"].r
  <2>1. /\ ~w1.err /\ w1.mode["d"] = m["d"]
        /\ w1.mode["root"].r /\ w1.mode["root"].x /\ (w1.mode["root"].w <=> w)
    BY <1>1, <1>2, <1>5, RootVisit
  <2>2. /\ w2.mode["root"] = w1.mode["root"]
        /\ w2.err => l["c"] = "f" /\ ~w1.mode["d"].x /\ w2.mode = w1.mode
        /\ ~w2.err => w2.mode["d"] = w1.mode["d"] \/ w2.mode["d"].r
    BY <1>1, <2>1, CVisit
  <2>3. CASE w2.err
    <3>1. w3 = w2
      BY <1>1, <2>3 DEF Visit
    <3> QED BY <1>1, <1>3, <2>1, <2>2, <2>3, <3>1 DEF Stuck
  <2>4. CASE ~w2.err /\ ~w2.mode["d"].r
    <3>1. w3.mode = w2.mode /\ ~m["d"].r
      BY <1>1, <2>1, <2>2, <2>4, DVisit
    <3> QED BY <1>1, <1>3, <2>4, <3>1 DEF Stuck
  <2>5. CASE ~w2.err /\ w2.mode["d"].r
    <3>1. /\ ~w3.err /\ w3.mode["root"] = w2.mode["root"]
          /\ w3.mode["d"].r /\ w3.mode["d"].x /\ (w3.mode["d"].w <=> w)
      BY <1>1, <2>1, <2>2, <2>5, DVisit
    <3>2. Swept(w5.mode, w)
      BY <1>3, <2>1, <2>2, <3>1 DEF Swept
    <3>3. ASSUME ~Dangling(l) PROVE ~w5.err
      <4>1. Leads(l, "f") = "f" /\ Leads(l, "e") = l["e"] /\ l["e"] # "missing"
        BY <3>3 DEF Leads, Links, Dangling
      <4>2. ~w4.err
        BY <1>1, <2>1, <2>2, <3>1, <4>1, LaterVisit
      <4> QED BY <1>1, <1>3, <2>1, <2>2, <3>1, <4>1, <4>2, LaterVisit
    <3> QED BY <1>1, <3>2, <3>3
  <2> QED BY <2>3, <2>4, <2>5
<1> QED BY <1>4, <1>5

\* A walk that gives the write bit back leaves directories that have all their
\* bits as they are, even if a link stops it.
LEMMA FullStays ==
    ASSUME NEW m \in Modes, NEW l \in Links, Harmless(l), Swept(m, TRUE)
    PROVE  Swept(Walked(m, l, TRUE).mode, TRUE)
<1>1. CASE l["c"] # "missing"
  BY <1>1, WalkSweeps DEF Stuck, Swept
<1>2. CASE l["c"] = "missing"
  <2>1. PICK w0, w1, w2, w3, w4, w5 \in Walks :
              /\ w0 = [mode |-> m, err |-> FALSE]
              /\ w1 = Visit(w0, l, "root", TRUE)
              /\ w2 = Visit(w1, l, "c", TRUE)
              /\ w3 = Visit(w2, l, "d", TRUE)
              /\ w4 = Visit(w3, l, "f", TRUE)
              /\ w5 = Visit(w4, l, "e", TRUE)
              /\ w5 = Walked(m, l, TRUE)
    BY Walking
  <2>2. w0.mode = m /\ ~w0.err /\ m["root"].r
    BY <2>1 DEF Swept
  <2>3. /\ w1.mode["root"].r /\ w1.mode["root"].x /\ w1.mode["root"].w
        /\ w1.mode["d"] = m["d"]
    <3>1. w1 = Visit(w0, l, "root", TRUE)
      BY <2>1
    <3> QED BY <2>2, <3>1, RootVisit
  <2>4. w2.err /\ w2.mode = w1.mode
    <3>1. "c" \in WalkSet /\ ~Passes(w1.mode, l, "c")
      BY <1>2, WalkIs DEF Passes, Leads, Links
    <3> QED BY <2>1, <3>1, VisitIs
  <2>5. w3 = w2 /\ w4 = w3 /\ w5 = w4
    BY <2>1, <2>4 DEF Visit
  <2> QED BY <2>1, <2>3, <2>4, <2>5 DEF Swept
<1> QED BY <1>1, <1>2

-----------------------------------------------------------------------------
(* The job.                                                                *)

\* What an agent may change.
Files == {"f", "new", ".atl", "c", "e"}

\* The typing the other invariants need; what an adapter says is left open.
Typed ==
    /\ stage \in Stages /\ adapter \in Adapters /\ readOnly \in BOOLEAN /\ alive \in BOOLEAN
    /\ link \in Links /\ mode \in Modes \cup {Gone}
    /\ changes \subseteq Files /\ tampered \subseteq Dirs \cup {"f", "c", "e"} /\ git \in Nat
    /\ outcome = Outcome(outcome.state, outcome.answer, outcome.diff)

\* The stages between the creation of a worktree and its cleanup.
Working == {"build", "run", "scan", "diff", "restore"}

\* The record says what has happened so far.
Decided ==
    /\ stage \in {"prepare", "strip", "build", "run", "scan"} => outcome.state = "running"
    /\ stage = "diff" => outcome.state = "succeeded" /\ ~readOnly
    /\ stage \in {"strip", "diff", "restore", "remove"} => Managed

\* An agent outlives its stage only if the daemon died or the job was canceled.
Attended ==
    /\ stage = "run" => alive
    /\ alive => stage \in {"run", "crashed"} \/ outcome.state = "canceled"

\* Until restoreWrite, or the agent, undoes it, nothing a read-only job could
\* write is writable.
Barred ==
    /\ Managed /\ readOnly /\ tampered = {} /\ (alive \/ stage \in {"build", "run"})
    /\ outcome.state # "canceled" \/ stage = "restore"
    => Locked(mode, link)

\* What the modes are: those of git or those of stripWrite, where the agent has
\* not set its own; and those of restoreWrite.
Kept ==
    /\ ~Managed \/ stage = "prepare" => mode = Gone
    /\ stage = "strip" => readOnly /\ mode = Writable
    /\ Managed /\ stage \in Working =>
          /\ mode \in Modes
          /\ ~readOnly /\ tampered \cap (Dirs \cup {"f"}) = {} => mode = Writable
          /\ ~readOnly /\ tampered \cap Dirs = {} => Swept(mode, TRUE)
    /\ stage = "remove" /\ outcome.state # "canceled" /\ ~Treacherous => Removable(mode)

\* The diff is the last of its job's stages to look at the changes; nobody makes
\* any more.
DiffSeen ==
    Managed /\ ~readOnly /\ outcome.state = "succeeded" /\ stage \in {"restore", "remove", "over"} =>
        \/ git > 0
        \/ tampered \cap (Dirs \cup {"f"}) # {}
        \/ /\ outcome.diff \subseteq changes
           /\ Cardinality(outcome.diff) = MaxDiff \/ changes \ {".atl"} \subseteq outcome.diff

\* The answer of a job that succeeded is what Result made of the output.
Answered ==
    /\ out \in Seq(AllLines)
    /\ outcome.state \in {"running", "succeeded", "failed", "canceled"}
    /\ outcome.answer \in Responses /\ outcome.diff \subseteq {"f", "new", "c", "e"}
    /\ outcome.state = "succeeded" =>
          /\ outcome.answer = Result(adapter, out) /\ outcome.answer # Error
          /\ Size(outcome.answer, out) <= MaxResult

\* The inductive invariant of a job.
ExecInv == /\ Typed /\ Decided /\ Attended /\ Barred /\ Kept /\ NothingLeftBehind /\ DiffSeen
           /\ Answered

\* What is known of a tree that is not Treacherous.
LEMMA LinkCases ==
    ASSUME link' \in Links, ~Treacherous'
    PROVE  /\ Harmless(link') /\ ~Stuck(mode', link')
           /\ Dangling(link') => ~readOnly' /\ tampered' \cap Dirs = {}
<1>1. DOMAIN link' = {"c", "e"}
  BY DEF Links
<1>2. Visited("root", "c") /\ Visited("root", "e") /\ Visited("d", "e")
  BY WalkIs DEF Visited
<1> QED BY <1>1, <1>2 DEF Treacherous, Harmless, Dangling, Stuck, Dirs

\* A tree git can remove.
LEMMA SweptIs == ASSUME NEW m, Swept(m, TRUE) PROVE Removable(m)
BY DEF Swept, Removable, Dirs

\* The modes git gives a worktree.
LEMMA WritableIs ==
    /\ Writable \in Modes /\ Swept(Writable, TRUE) /\ Legible(Writable)
    /\ \A l : ~Stuck(Writable, l)
<1> DEFINE bits == [r |-> TRUE, w |-> TRUE, x |-> TRUE]
<1>1. bits \in Bits /\ bits.r /\ bits.w /\ bits.x
  BY DEF Bits
<1>2. Writable = [p \in Nodes |-> bits]
  BY DEF Writable
<1> HIDE DEF bits
<1>3. Writable \in Modes
  BY <1>1, <1>2 DEF Modes
<1>4. \A p \in Nodes : Writable[p].r /\ Writable[p].w /\ Writable[p].x
  BY <1>1, <1>2
<1>5. Legible(Writable)
  BY <1>4, EnterIs, WalkIs DEF Legible, WalkSet
<1> QED BY <1>3, <1>4, <1>5, WalkIs DEF Swept, Stuck

\* A job begins with nothing done.
LEMMA ExecInitially == Init => ExecInv
<1> SUFFICES ASSUME Init PROVE ExecInv
  OBVIOUS
<1>1. adapter \in Adapters
  BY ExecutionAssumption DEF Init, SyncInit
<1>2. link \in Links
  <2>1. NoLinks \in Links
    BY WalkIs DEF NoLinks, Links
  <2>2. [{"c", "e"} -> LinkTargets \cup {"c", "e"}] \subseteq Links
    BY WalkIs, ExecutionAssumption DEF Links
  <2> QED BY <2>1, <2>2 DEF Init
<1>3. outcome = Outcome(outcome.state, outcome.answer, outcome.diff) /\ outcome.state = "running"
  BY DEF Init, Outcome
<1>4. Answered
  <2>1. outcome.answer = Error /\ outcome.diff = {} /\ out = <<>>
    BY DEF Init, Outcome
  <2>2. <<>> \in Seq(AllLines)
    OBVIOUS
  <2> QED BY <1>3, <2>1, <2>2 DEF Answered, Responses
<1> QED BY <1>1, <1>2, <1>3, <1>4 DEF Init, ExecInv, Typed, Stages, Decided, Attended, Barred, Kept,
           NothingLeftBehind, DiffSeen, Working

\* What an outcome is made of.
LEMMA OutcomeIs ==
    ASSUME NEW s, NEW a, NEW d
    PROVE  /\ Outcome(s, a, d).state = s /\ Outcome(s, a, d).answer = a /\ Outcome(s, a, d).diff = d
           /\ Outcome(s, a, d) =
                  Outcome(Outcome(s, a, d).state, Outcome(s, a, d).answer, Outcome(s, a, d).diff)
BY DEF Outcome

\* A stage ends in failure, and the outcome says so.
LEMMA FailedIs == Failed.state = "failed" /\ Failed = Outcome(Failed.state, Failed.answer, Failed.diff)
BY OutcomeIs DEF Failed

\* Only a managed worktree is cleaned up.
LEMMA CleanupIs == (Managed => Cleanup = "restore") /\ (~Managed => Cleanup = "over")
BY DEF Cleanup, Managed

\* The steps of a job keep the types.
LEMMA TypedKept == ASSUME Typed, Kept, Decided, ExecStep \/ Crash PROVE Typed'
<1> USE CleanupIs, FailedIs DEF Typed, Stages, Pass, Fail, FailEarly
<1>1. CASE Prepare
  BY <1>1, WritableIs DEF Prepare
<1>2. CASE StripWrite
  <2>1. stage = "strip" /\ mode' = Walked(mode, link, FALSE).mode
    BY <1>2 DEF StripWrite
  <2>2. mode' \in Modes
    BY <2>1, WalkedTyped, WritableIs DEF Kept
  <2> QED BY <1>2, <2>2 DEF StripWrite
<1>3. CASE Build
  BY <1>3 DEF Build
<1>4. CASE AgentWrites
  BY <1>4 DEF AgentWrites, Files
<1>5. CASE AgentLinks
  <2>1. PICK l \in {"c", "e"}, to \in LinkTargets \cup {"c", "e"} :
            Tampers(l) /\ link' = [link EXCEPT ![l] = to] /\ changes' = changes \cup {l}
    BY <1>5 DEF AgentLinks
  <2>2. link' \in Links
    BY <2>1, WalkIs, ExecutionAssumption DEF Links
  <2> QED BY <1>5, <2>1, <2>2 DEF AgentLinks, Tampers, Files
<1>14. CASE AgentChmods
  <2>1. PICK p \in Dirs \cup {"f"}, bits \in AgentBits :
            Tampers(p) /\ mode' = [mode EXCEPT ![p] = bits]
    BY <1>14 DEF AgentChmods
  <2>2. mode' \in Modes
    BY <1>14, <2>1, ExecutionAssumption DEF AgentChmods, Modes
  <2> QED BY <1>14, <2>1, <2>2 DEF AgentChmods, Tampers
<1>15. CASE AgentCommits
  BY <1>15 DEF AgentCommits
<1>6. CASE AgentEnds
  BY <1>6 DEF AgentEnds
<1>7. CASE AgentStopped
  <2>1. CASE Fail /\ alive' = FALSE
    BY <1>7, <2>1 DEF AgentStopped
  <2>2. CASE stage' = Cleanup /\ outcome' = Outcome("canceled", Error, {}) /\ alive' \in BOOLEAN
    BY <1>7, <2>2, OutcomeIs DEF AgentStopped
  <2> QED BY <1>7, <2>1, <2>2 DEF AgentStopped
<1>8. CASE AgentExits
  BY <1>8 DEF AgentExits
<1>9. CASE TakeResult
  BY <1>9, OutcomeIs DEF TakeResult
<1>10. CASE Diff
  <2>1. ASSUME NEW d, outcome' = [outcome EXCEPT !.diff = d]
        PROVE  outcome' = Outcome(outcome'.state, outcome'.answer, outcome'.diff)
    BY <2>1 DEF Outcome
  <2>2. git' \in Nat
    BY <1>10 DEF Diff, GitFails
  <2> QED BY <1>10, <2>1, <2>2 DEF Diff
<1>11. CASE RestoreWrite
  <2>1. mode \in Modes
    BY <1>11 DEF RestoreWrite, Kept, Decided, Working
  <2>2. mode' \in Modes
    BY <1>11, <2>1, WalkedTyped DEF RestoreWrite, Restored
  <2> QED BY <1>11, <2>2 DEF RestoreWrite
<1>12. CASE RemoveWorktree
  BY <1>12 DEF RemoveWorktree, GitFails
<1>13. CASE Crash
  BY <1>13 DEF Crash
<1> QED BY <1>1, <1>2, <1>3, <1>4, <1>5, <1>6, <1>7, <1>8, <1>9, <1>10, <1>11, <1>12, <1>13, <1>14, <1>15
        DEF ExecStep

\* A job's adapter and whether it may write never change.
LEMMA JobKept == ASSUME ExecStep \/ Crash PROVE UNCHANGED <<adapter, readOnly>>
BY DEF ExecStep, Crash, Prepare, StripWrite, Build, AgentWrites, AgentLinks, AgentChmods,
       AgentCommits, AgentEnds, AgentStopped, AgentExits, TakeResult, Diff, RestoreWrite, RemoveWorktree

\* Every step keeps Decided, one case per step.
LEMMA DecidedKept == ASSUME Typed, Decided, ExecStep \/ Crash PROVE Decided'
<1> USE JobKept, CleanupIs, FailedIs DEF Decided, Managed, Pass, Fail, FailEarly
<1>1. CASE Prepare
  BY <1>1 DEF Prepare
<1>2. CASE StripWrite
  BY <1>2 DEF StripWrite
<1>3. CASE Build
  BY <1>3 DEF Build
<1>4. CASE AgentWrites \/ AgentLinks \/ AgentChmods \/ AgentCommits \/ AgentExits
  BY <1>4 DEF AgentWrites, AgentLinks, AgentChmods, AgentCommits, AgentExits
<1>6. CASE AgentEnds
  BY <1>6 DEF AgentEnds
<1>7. CASE AgentStopped
  BY <1>7, OutcomeIs DEF AgentStopped
<1>9. CASE TakeResult
  BY <1>9, OutcomeIs DEF TakeResult
<1>10. CASE Diff
  BY <1>10 DEF Diff
<1>11. CASE RestoreWrite
  BY <1>11 DEF RestoreWrite
<1>12. CASE RemoveWorktree
  BY <1>12 DEF RemoveWorktree
<1>13. CASE Crash
  BY <1>13 DEF Crash
<1> QED BY <1>1, <1>2, <1>3, <1>4, <1>6, <1>7, <1>9, <1>10, <1>11, <1>12, <1>13 DEF ExecStep

\* Every step keeps Attended.
LEMMA AttendedKept == ASSUME Typed, Decided, Attended, ExecStep \/ Crash PROVE Attended'
<1> USE JobKept, CleanupIs, FailedIs DEF Attended, Decided, Pass, Fail, FailEarly
<1>1. CASE Prepare
  BY <1>1 DEF Prepare
<1>2. CASE StripWrite
  BY <1>2 DEF StripWrite
<1>3. CASE Build
  BY <1>3 DEF Build
<1>4. CASE AgentWrites \/ AgentLinks \/ AgentChmods \/ AgentCommits \/ AgentExits
  BY <1>4 DEF AgentWrites, AgentLinks, AgentChmods, AgentCommits, AgentExits
<1>6. CASE AgentEnds
  BY <1>6 DEF AgentEnds
<1>7. CASE AgentStopped
  <2>1. CASE Fail /\ alive' = FALSE
    BY <1>7, <2>1
  <2>2. CASE outcome' = Outcome("canceled", Error, {})
    BY <1>7, <2>2, OutcomeIs DEF AgentStopped
  <2> QED BY <1>7, <2>1, <2>2 DEF AgentStopped
<1>9. CASE TakeResult
  BY <1>9, OutcomeIs DEF TakeResult
<1>10. CASE Diff
  BY <1>10 DEF Diff, Typed
<1>11. CASE RestoreWrite
  BY <1>11 DEF RestoreWrite
<1>12. CASE RemoveWorktree
  BY <1>12 DEF RemoveWorktree
<1>13. CASE Crash
  BY <1>13 DEF Crash
<1> QED BY <1>1, <1>2, <1>3, <1>4, <1>6, <1>7, <1>9, <1>10, <1>11, <1>12, <1>13 DEF ExecStep

\* An agent that can still act, while its job is in hand, is in the stage run.
LEMMA Acting ==
    ASSUME Typed, Decided, Attended, alive
    PROVE  \/ stage \in {"run", "crashed"}
           \/ outcome.state = "canceled" /\ stage \in {"restore", "remove", "over"}
BY DEF Typed, Stages, Decided, Attended

\* Every step keeps Kept; restoreWrite by WalkSweeps and FullStays.
LEMMA KeptKept == ASSUME Typed, Decided, Attended, Kept, ExecStep \/ Crash PROVE Kept'
<1> DEFINE Fine(m, t) == /\ m \in Modes
                         /\ ~readOnly /\ t \cap (Dirs \cup {"f"}) = {} => m = Writable
                         /\ ~readOnly /\ t \cap Dirs = {} => Swept(m, TRUE)
           Held == outcome.state # "canceled" /\ ~Treacherous => Removable(mode)
<1>1. UNCHANGED <<adapter, readOnly>> /\ (Managed' <=> Managed)
  BY JobKept DEF Managed
<1>2. /\ ~Managed \/ stage = "prepare" => mode = Gone
      /\ stage = "strip" => readOnly /\ Managed /\ mode = Writable
      /\ Managed /\ stage \in Working => Fine(mode, tampered)
      /\ stage = "remove" => Held
  BY DEF Kept, Decided
<1>3. SUFFICES /\ ~Managed \/ stage' = "prepare" => mode' = Gone
               /\ stage' = "strip" => readOnly /\ mode' = Writable
               /\ Managed /\ stage' \in Working => Fine(mode', tampered')
               /\ stage' = "remove" => Held'
  BY <1>1 DEF Kept
<1>4. UNCHANGED <<outcome, link, tampered, mode>> => (Held' <=> Held)
  BY <1>1 DEF Treacherous
<1> HIDE DEF Fine, Held
<1> USE <1>2, CleanupIs DEF Working, Pass, Fail, FailEarly
<1>5. CASE Prepare
  <2>1. Fine(Writable, tampered)
    BY WritableIs DEF Fine
  <2> QED BY <1>5, <2>1 DEF Prepare
<1>6. CASE StripWrite
  <2>1. Walked(mode, link, FALSE).mode \in Modes
    BY <1>6, WalkedTyped, WritableIs DEF StripWrite, Typed
  <2>2. Fine(mode', tampered')
    BY <1>6, <2>1 DEF StripWrite, Fine
  <2> QED BY <1>6, <2>2 DEF StripWrite
<1>7. CASE Build
  BY <1>7 DEF Build
<1>8. CASE AgentWrites \/ AgentCommits \/ AgentExits
  BY <1>4, <1>8 DEF AgentWrites, AgentCommits, AgentExits
<1>9. CASE AgentLinks \/ AgentChmods
  <2>1. alive /\ mode # Gone /\ UNCHANGED <<stage, outcome>>
    BY <1>9 DEF AgentLinks, AgentChmods
  <2>2. Managed /\ stage \notin {"prepare", "strip"} /\ (stage = "remove" => outcome.state = "canceled")
    BY <2>1, Acting
  <2>3. stage' = "remove" => Held'
    BY <2>1, <2>2 DEF Held
  <2>4. ASSUME stage \in Working PROVE Fine(mode', tampered')
    <3>1. CASE AgentLinks
      <4>1. PICK l \in {"c", "e"} : tampered' = tampered \cup {l} /\ mode' = mode
        BY <3>1 DEF AgentLinks, Tampers
      <4>2. Fine(mode, tampered)
        BY <2>2, <2>4
      <4> QED BY <4>1, <4>2 DEF Fine
    <3>2. CASE AgentChmods
      <4>1. PICK p \in Dirs \cup {"f"}, bits \in AgentBits :
                tampered' = tampered \cup {p} /\ mode' = [mode EXCEPT ![p] = bits]
        BY <3>2 DEF AgentChmods, Tampers
      <4>2. Fine(mode, tampered)
        BY <2>2, <2>4
      <4>3. mode' \in Modes
        BY <4>1, <4>2, ExecutionAssumption DEF Fine, Modes
      <4>4. CASE p \in Dirs
        BY <4>1, <4>3, <4>4 DEF Fine
      <4>5. CASE p = "f"
        <5>1. Swept(mode, TRUE) => Swept(mode', TRUE)
          BY <4>1, <4>2, <4>5, WalkIs DEF Swept, Modes, Fine
        <5> QED BY <4>1, <4>2, <4>3, <4>5, <5>1 DEF Fine
      <4> QED BY <4>1, <4>4, <4>5
    <3> QED BY <1>9, <3>1, <3>2
  <2> QED BY <2>1, <2>2, <2>3, <2>4
<1>10. CASE AgentEnds \/ AgentStopped
  BY <1>10 DEF AgentEnds, AgentStopped
<1>11. CASE TakeResult \/ Diff
  BY <1>11 DEF TakeResult, Diff
<1>12. CASE RestoreWrite
  <2>1. /\ Managed /\ Fine(mode, tampered) /\ mode' = Walked(mode, link, TRUE).mode
        /\ stage' = "remove" /\ UNCHANGED <<link, tampered>> /\ mode \in Modes /\ link \in Links
    BY <1>12 DEF RestoreWrite, Restored, Decided, Typed, Fine
  <2>2. ASSUME ~Treacherous' PROVE Removable(mode')
    <3>1. Harmless(link) /\ ~Stuck(mode', link) /\ (Dangling(link) => ~readOnly /\ tampered \cap Dirs = {})
      BY <1>1, <2>1, <2>2, LinkCases
    <3>2. Swept(mode', TRUE)
      <4>1. CASE link["c"] # "missing"
        BY <2>1, <3>1, <4>1, WalkSweeps
      <4>2. CASE link["c"] = "missing"
        <5>1. Swept(mode, TRUE)
          BY <2>1, <3>1, <4>2 DEF Dangling, Fine
        <5> QED BY <2>1, <3>1, <5>1, FullStays
      <4> QED BY <4>1, <4>2
    <3> QED BY <3>2, SweptIs
  <2> QED BY <2>1, <2>2 DEF Held
<1>13. CASE RemoveWorktree
  BY <1>13 DEF RemoveWorktree, Decided
<1>14. CASE Crash
  BY <1>14 DEF Crash
<1> QED BY <1>5, <1>6, <1>7, <1>8, <1>9, <1>10, <1>11, <1>12, <1>13, <1>14 DEF ExecStep

\* Every step keeps Barred: stripWrite locks what the agent could write.
LEMMA BarredKept ==
    ASSUME Typed, Decided, Attended, Kept, Barred, ExecStep \/ Crash
    PROVE  Barred'
<1>1. UNCHANGED <<adapter, readOnly>> /\ (Managed' <=> Managed)
  BY JobKept DEF Managed
<1>2. SUFFICES ASSUME Managed, readOnly, tampered' = {}, alive' \/ stage' \in {"build", "run"},
                      outcome'.state # "canceled" \/ stage' = "restore"
               PROVE  Locked(mode', link')
  BY <1>1 DEF Barred
<1> USE CleanupIs, FailedIs DEF Pass, Fail, FailEarly
<1>3. ASSUME tampered = {}, alive \/ stage \in {"build", "run"},
             outcome.state # "canceled" \/ stage = "restore"
      PROVE  Locked(mode, link)
  BY <1>2, <1>3 DEF Barred
<1>4. CASE Prepare
  BY <1>2, <1>4 DEF Prepare, Attended, Decided
<1>5. CASE StripWrite
  <2>1. stage = "strip" /\ outcome.state = "running" /\ ~alive
    BY <1>5 DEF StripWrite, Attended, Decided
  <2>2. ~Stopped
    BY <1>2, <1>5, <2>1 DEF StripWrite
  <2>3. mode \in Modes /\ link \in Links
    BY <2>1, WritableIs DEF Kept, Typed
  <2> QED BY <1>5, <2>2, <2>3, StripLocks DEF StripWrite, Stopped
<1>6. CASE Build
  <2>1. stage = "build" /\ outcome.state = "running" /\ UNCHANGED <<mode, link, tampered>>
    BY <1>6 DEF Build, Decided
  <2> QED BY <1>2, <1>3, <2>1
<1>7. CASE AgentWrites \/ AgentCommits
  BY <1>2, <1>3, <1>7 DEF AgentWrites, AgentCommits
<1>8. CASE AgentLinks \/ AgentChmods
  BY <1>2, <1>8 DEF AgentLinks, AgentChmods, Tampers
<1>9. CASE AgentEnds \/ AgentExits
  BY <1>2, <1>3, <1>9 DEF AgentEnds, AgentExits
<1>10. CASE AgentStopped
  <2>1. stage = "run" /\ outcome.state = "running" /\ UNCHANGED <<mode, link, tampered>>
    BY <1>10 DEF AgentStopped, Decided
  <2> QED BY <1>2, <1>3, <2>1
<1>11. CASE TakeResult \/ Diff
  <2>1. stage \in {"scan", "diff"} /\ outcome.state # "canceled" /\ UNCHANGED alive
    BY <1>11 DEF TakeResult, Diff, Decided
  <2>2. ~alive /\ stage' \notin {"build", "run"}
    BY <1>11, <2>1 DEF TakeResult, Diff, Attended
  <2> QED BY <1>2, <2>1, <2>2
<1>12. CASE RestoreWrite \/ RemoveWorktree
  <2>1. /\ stage \in {"restore", "remove"} /\ stage' \in {"remove", "over"}
        /\ UNCHANGED <<alive, outcome>>
    BY <1>12 DEF RestoreWrite, RemoveWorktree
  <2> QED BY <1>2, <2>1 DEF Attended
<1>13. CASE Crash
  <2>1. /\ UNCHANGED <<alive, mode, link, tampered>> /\ stage' \in {"over", "crashed"}
        /\ outcome.state = "canceled" => outcome'.state = "canceled"
    BY <1>13 DEF Crash, Decided, Typed, Stages
  <2> QED BY <1>2, <1>3, <2>1
<1> QED BY <1>4, <1>5, <1>6, <1>7, <1>8, <1>9, <1>10, <1>11, <1>12, <1>13 DEF ExecStep

\* No step leaves a worktree behind: a walk that fails, or a removal that does,
\* has one of the listed causes.
LEMMA LeftKept ==
    ASSUME Typed, Decided, Attended, Kept, NothingLeftBehind, ExecStep \/ Crash
    PROVE  NothingLeftBehind'
<1>1. Managed' <=> Managed
  BY JobKept DEF Managed
<1>2. ASSUME UNCHANGED <<link, tampered, mode>> PROVE Treacherous' <=> Treacherous
  BY <1>2, JobKept DEF Treacherous
<1> USE <1>1, CleanupIs, FailedIs DEF NothingLeftBehind, Pass, Fail, FailEarly
<1>3. CASE Prepare
  BY <1>3 DEF Prepare, Kept
<1>4. CASE StripWrite
  <2>1. stage = "strip" /\ mode = Writable /\ readOnly /\ UNCHANGED <<link, readOnly>> /\ link \in Links
    BY <1>4 DEF StripWrite, Kept, Typed
  <2>2. ASSUME ~Treacherous' PROVE ~Stopped
    <3>1. Harmless(link) /\ ~Dangling(link)
      BY <2>1, <2>2, LinkCases
    <3> QED BY <2>1, <3>1, WalkSweeps, WritableIs DEF Stopped, Dangling
  <2> QED BY <1>4, <2>2 DEF StripWrite
<1>5. CASE Build
  BY <1>5 DEF Build, Kept
<1>6. CASE AgentWrites \/ AgentLinks \/ AgentChmods \/ AgentCommits
  <2>1. alive /\ UNCHANGED <<stage, outcome>>
    BY <1>6 DEF AgentWrites, AgentLinks, AgentChmods, AgentCommits
  <2> QED BY <2>1, Acting
<1>7. CASE AgentExits
  BY <1>2, <1>7 DEF AgentExits
<1>8. CASE AgentEnds
  BY <1>8 DEF AgentEnds
<1>9. CASE AgentStopped
  BY <1>9 DEF AgentStopped, Kept
<1>10. CASE TakeResult
  BY <1>10 DEF TakeResult, Kept
<1>11. CASE Diff
  BY <1>11 DEF Diff, Decided
<1>12. CASE RestoreWrite
  BY <1>12 DEF RestoreWrite
<1>13. CASE RemoveWorktree
  <2>1. CASE mode' = Gone
    BY <2>1
  <2>2. CASE (~Removable(mode) \/ alive) /\ UNCHANGED <<mode, git>>
    <3>1. stage = "remove" /\ UNCHANGED <<link, tampered, outcome>>
      BY <1>13 DEF RemoveWorktree
    <3>2. alive => outcome.state = "canceled"
      BY <3>1 DEF Attended
    <3> QED BY <1>2, <2>2, <3>1, <3>2 DEF Kept
  <2>3. CASE GitFails
    BY <2>3 DEF GitFails, Typed
  <2> QED BY <1>13, <2>1, <2>2, <2>3 DEF RemoveWorktree
<1>14. CASE Crash
  BY <1>2, <1>14 DEF Crash
<1> QED BY <1>3, <1>4, <1>5, <1>6, <1>7, <1>8, <1>9, <1>10, <1>11, <1>12, <1>13, <1>14 DEF ExecStep

\* A diff that is cut is as long as it may be; one that is not cut is whole.
LEMMA CutIs ==
    ASSUME changes \subseteq Files, NEW d \in Cut(Uncommitted)
    PROVE  /\ d \subseteq changes
           /\ Cardinality(d) = MaxDiff \/ changes \ {".atl"} \subseteq d
<1> DEFINE u == Uncommitted
<1>1. u = changes \ {".atl"} /\ d \subseteq u /\ u \subseteq {"f", "new", "c", "e"}
  BY DEF Uncommitted, Cut, kSubset, Files
<1>2. IsFiniteSet(u) /\ IsFiniteSet(d)
  <2>1. IsFiniteSet({"f", "new", "c", "e"})
    <3>1. IsFiniteSet({"f"})
      BY FS_Singleton
    <3>2. IsFiniteSet({"f"} \cup {"new"})
      BY <3>1, FS_AddElement
    <3>3. IsFiniteSet(({"f"} \cup {"new"}) \cup {"c"})
      BY <3>2, FS_AddElement
    <3>4. IsFiniteSet((({"f"} \cup {"new"}) \cup {"c"}) \cup {"e"})
      BY <3>3, FS_AddElement
    <3>5. {"f", "new", "c", "e"} = (({"f"} \cup {"new"}) \cup {"c"}) \cup {"e"}
      OBVIOUS
    <3> QED BY <3>4, <3>5
  <2> QED BY <1>1, <2>1, FS_Subset
<1>3. Cardinality(d) = IF Cardinality(u) < MaxDiff THEN Cardinality(u) ELSE MaxDiff
  BY DEF Cut, kSubset
<1> HIDE DEF u
<1>4. CASE Cardinality(d) = Cardinality(u)
  BY <1>1, <1>2, <1>4, FS_Subset
<1> QED BY <1>1, <1>3, <1>4

\* Every step keeps DiffSeen: the agent of a successful job has ended.
LEMMA DiffSeenKept ==
    ASSUME Typed, Decided, Attended, Kept, DiffSeen, ExecStep \/ Crash
    PROVE  DiffSeen'
<1>1. (Managed' <=> Managed) /\ readOnly' = readOnly
  BY JobKept DEF Managed
<1> USE <1>1, CleanupIs, FailedIs DEF DiffSeen, Pass, Fail, FailEarly
<1>2. CASE Prepare \/ StripWrite \/ Build
  BY <1>2 DEF Prepare, StripWrite, Build, Decided
<1>3. CASE AgentWrites \/ AgentLinks \/ AgentChmods \/ AgentCommits
  <2>1. alive /\ UNCHANGED <<stage, outcome>>
    BY <1>3 DEF AgentWrites, AgentLinks, AgentChmods, AgentCommits
  <2> QED BY <2>1, Acting
<1>4. CASE AgentExits
  BY <1>4 DEF AgentExits
<1>5. CASE AgentEnds
  BY <1>5 DEF AgentEnds
<1>6. CASE AgentStopped
  BY <1>6, OutcomeIs DEF AgentStopped
<1>7. CASE TakeResult
  BY <1>7, OutcomeIs DEF TakeResult
<1>8. CASE Diff
  <2>1. CASE tampered \cap (Dirs \cup {"f"}) = {} /\ Managed
    <3>1. stage = "diff" /\ ~readOnly /\ UNCHANGED <<changes, tampered>>
      BY <1>8 DEF Diff, Decided
    <3>2. Shown(Uncommitted) = {Uncommitted}
      BY <2>1, <3>1, WritableIs DEF Shown, Kept, Working
    <3>3. ASSUME NEW d \in Cut(Uncommitted), outcome' = [outcome EXCEPT !.diff = d] PROVE DiffSeen'
      <4>1. outcome'.diff = d
        BY <3>3 DEF Typed, Outcome
      <4> QED BY <3>1, <4>1, CutIs DEF Typed
    <3>4. CASE GitFails
      BY <3>4 DEF GitFails, Typed
    <3> QED BY <1>8, <3>2, <3>3, <3>4 DEF Diff
  <2>2. CASE tampered \cap (Dirs \cup {"f"}) # {} \/ ~Managed
    BY <1>8, <2>2 DEF Diff
  <2> QED BY <2>1, <2>2
<1>9. CASE RestoreWrite
  BY <1>9 DEF RestoreWrite
<1>10. CASE RemoveWorktree
  <2>1. git' = git \/ git' > 0
    BY <1>10 DEF RemoveWorktree, GitFails, Typed
  <2>2. UNCHANGED <<changes, tampered, outcome>> /\ stage = "remove"
    BY <1>10 DEF RemoveWorktree
  <2> QED BY <2>1, <2>2
<1>11. CASE Crash
  BY <1>11 DEF Crash
<1> QED BY <1>2, <1>3, <1>4, <1>5, <1>6, <1>7, <1>8, <1>9, <1>10, <1>11 DEF ExecStep

\* Every step keeps Answered: the output is not written again after TakeResult
\* has read it.
LEMMA AnsweredKept == ASSUME Typed, Decided, Answered, ExecStep \/ Crash PROVE Answered'
<1>1. adapter' = adapter /\ adapter \in Adapters
  BY JobKept DEF Typed
<1>2. ASSUME UNCHANGED <<outcome, out>> PROVE Answered'
  BY <1>1, <1>2 DEF Answered
<1>3. ASSUME NEW s \in {"failed", "canceled"}, UNCHANGED out, outcome' = Outcome(s, Error, {})
      PROVE  Answered'
  BY <1>3 DEF Answered, Outcome, Responses
<1> USE <1>2, <1>3 DEF Pass, Fail, FailEarly, Failed
<1>4. CASE Prepare \/ StripWrite \/ Build
  BY <1>4 DEF Prepare, StripWrite, Build
<1>5. CASE AgentWrites \/ AgentLinks \/ AgentChmods \/ AgentCommits \/ AgentExits
  BY <1>5 DEF AgentWrites, AgentLinks, AgentChmods, AgentCommits, AgentExits
<1>11. CASE RestoreWrite \/ RemoveWorktree
  BY <1>11 DEF RestoreWrite, RemoveWorktree
<1>6. CASE AgentEnds
  <2>1. out' \in Seq(AllLines)
    BY <1>1, <1>6, ExecutionAssumption DEF AgentEnds, AllLines
  <2>2. UNCHANGED outcome /\ outcome.state # "succeeded"
    BY <1>6 DEF AgentEnds, Decided
  <2> QED BY <2>1, <2>2 DEF Answered
<1>7. CASE AgentStopped
  BY <1>7 DEF AgentStopped
<1>8. CASE TakeResult
  <2> DEFINE answer == Result(adapter, out)
  <2>1. UNCHANGED out /\ out \in Seq(AllLines) /\ answer \in Responses
    BY <1>1, <1>8, ResultIs DEF TakeResult, Answered
  <2>2. ASSUME answer.kind # "error", ~(Size(answer, out) > MaxResult),
               outcome' = Outcome("succeeded", answer, {})
        PROVE  Answered'
    <3>1. Size(answer, out) <= MaxResult /\ answer # Error
      <4>1. Size(answer, out) \in Nat
        BY <2>1, ResponseIs, SizeIs
      <4> QED BY <2>1, <2>2, <4>1, ResponseIs, ExecutionAssumption
    <3> HIDE DEF answer
    <3>2. outcome'.state = "succeeded" /\ outcome'.answer = answer /\ outcome'.diff = {}
      BY <2>2, OutcomeIs
    <3> QED BY <1>1, <2>1, <3>1, <3>2 DEF Answered, answer
  <2> QED BY <1>8, <2>1, <2>2 DEF TakeResult
<1>9. CASE Diff
  <2>1. UNCHANGED out
    BY <1>9 DEF Diff
  <2>2. ASSUME NEW files \in Shown(Uncommitted), NEW d \in Cut(files),
               outcome' = [outcome EXCEPT !.diff = d]
        PROVE  Answered'
    <3>1. outcome'.diff = d /\ outcome'.answer = outcome.answer /\ outcome'.state = outcome.state
      BY <2>2 DEF Typed, Outcome
    <3>2. d \subseteq {"f", "new", "c", "e"}
      <4>1. d \subseteq files
        BY DEF Cut, kSubset
      <4>2. files \subseteq Uncommitted
        BY DEF Shown
      <4> QED BY <4>1, <4>2 DEF Uncommitted, Typed, Files
    <3> QED BY <1>1, <2>1, <3>1, <3>2 DEF Answered
  <2> QED BY <1>9, <2>1, <2>2 DEF Diff
<1>10. CASE Crash
  BY <1>10 DEF Crash
<1> QED BY <1>4, <1>5, <1>6, <1>7, <1>8, <1>9, <1>10, <1>11 DEF ExecStep

\* The inductive invariant, put together.
LEMMA ExecKept == ExecInv /\ [Next]_vars => ExecInv'
<1> SUFFICES ASSUME ExecInv, [Next]_vars PROVE ExecInv'
  OBVIOUS
<1> USE DEF ExecInv
<1>1. CASE UNCHANGED execVars
  <2>1. UNCHANGED <<stage, adapter, readOnly, link, mode, alive, changes, tampered, out, outcome, git>>
    BY <1>1 DEF execVars
  <2>2. (Managed' <=> Managed) /\ (Treacherous' <=> Treacherous)
    BY <2>1 DEF Managed, Treacherous
  <2>3. Typed' /\ Decided' /\ Attended' /\ Barred'
    BY <2>1, <2>2 DEF Typed, Decided, Attended, Barred
  <2>4. Kept' /\ NothingLeftBehind'
    BY <2>1, <2>2 DEF Kept, NothingLeftBehind
  <2>5. DiffSeen' /\ Answered'
    BY <2>1, <2>2 DEF DiffSeen, Answered
  <2> QED BY <2>3, <2>4, <2>5
<1>2. CASE ExecStep \/ Crash
  BY <1>2, TypedKept, DecidedKept, AttendedKept, BarredKept, KeptKept, LeftKept, DiffSeenKept,
     AnsweredKept
<1> QED BY <1>1, <1>2 DEF Next, vars

\* Every variable keeps its type.
THEOREM ExecutionTypeCorrect == Spec => []TypeOK
<1>1. Init => SyncInv
  BY SyncInitially DEF Init
<1>2. ExecInv /\ SyncInv => TypeOK
  <2> SUFFICES ASSUME ExecInv, SyncInv PROVE TypeOK
    OBVIOUS
  <2>1. outcome.answer.kind \in {"text", "raw", "error"}
    BY ResponseIs DEF ExecInv, Answered
  <2> QED BY <2>1 DEF ExecInv, SyncInv, TypeOK, Typed, Answered, Modes, Links, Files
<1> QED BY <1>1, <1>2, ExecInitially, ExecKept, SyncKept, PTL DEF Spec

\* A job that succeeds answers what its agent said, whatever it printed.
THEOREM AnswersAreSaid == Spec => []AnswerIsWhatWasSaid
<1>1. ExecInv => AnswerIsWhatWasSaid
  <2> SUFFICES ASSUME ExecInv, outcome.state = "succeeded"
               PROVE  /\ outcome.answer = Answers(adapter, out) /\ outcome.answer # Error
                      /\ adapter = "agy" /\ Said(out, {"denied"}) # {} => outcome.answer.text # <<>>
                      /\ outcome.answer = Raw => \A i \in DOMAIN out : out[i].kind # "long"
    BY DEF AnswerIsWhatWasSaid
  <2>1. /\ out \in Seq(AllLines) /\ adapter \in Adapters
        /\ outcome.answer = Result(adapter, out) /\ outcome.answer # Error
        /\ Size(outcome.answer, out) <= MaxResult
    BY DEF ExecInv, Typed, Answered
  <2> QED BY <2>1, ResultIs, RawFits
<1> QED BY <1>1, ExecInitially, ExecKept, PTL DEF Spec

\* While the agent of a read-only job runs, and until it sets modes or links of
\* its own, it finds nothing in its worktree, or behind the repository's links,
\* that it could write.
THEOREM BarriersStand == Spec => []BarrierStands
<1>1. ExecInv => BarrierStands
  <2> SUFFICES ASSUME ExecInv, Managed, readOnly, alive, tampered = {},
                      outcome.state # "canceled" \/ stage = "restore",
                      NEW p \in {"f", "new", "outside"}
               PROVE  ~Writes(p)
    BY DEF BarrierStands
  <2>1. Locked(mode, link) /\ DOMAIN link = {"c", "e"}
    BY DEF ExecInv, Barred, Typed, Links
  <2>2. ~Writes("f")
    BY <2>1 DEF Writes, Locked
  <2>3. ~Writes("new")
    BY <2>1 DEF Writes, Locked
  <2>4. ~Writes("outside")
    BY <2>1 DEF Writes, Locked
  <2> QED BY <2>2, <2>3, <2>4
<1> QED BY <1>1, ExecInitially, ExecKept, PTL DEF Spec

\* The worktree of a job that is over is gone, unless git failed, the job was
\* canceled, or the walk of restoreWrite met a link or a mode that stops it.
THEOREM WorktreesGo == Spec => []NothingLeftBehind
<1>1. ExecInv => NothingLeftBehind
  BY DEF ExecInv
<1> QED BY <1>1, ExecInitially, ExecKept, PTL DEF Spec

\* The diff of a successful job shows the work it left and did not commit, as far
\* as it fits, unless git failed or the agent changed modes.
THEOREM DiffIsWhole == Spec => []DiffShowsWork
<1>1. ExecInv => DiffShowsWork
  BY DEF ExecInv, DiffSeen, DiffShowsWork
<1> QED BY <1>1, ExecInitially, ExecKept, PTL DEF Spec
=============================================================================

---------------------------- MODULE AnswerProofs ----------------------------
(***************************************************************************)
(* What Adapter.Result makes of an output of any length, proved along the  *)
(* folds it is: the last message of codex, the messages of opencode one    *)
(* after the other, the last word of agy.                                  *)
(***************************************************************************)
EXTENDS ExecutionProperties, FiniteSetTheorems, WellFoundedInduction, TLAPS


-----------------------------------------------------------------------------
(* Numbers and folds.                                                      *)

\* Induction over the numbers: a set that has 0 and every successor has them all.
LEMMA Counting ==
    ASSUME NEW S \in SUBSET Nat, 0 \in S, \A n \in S : n + 1 \in S
    PROVE  S = Nat
<1> DEFINE R == OpToRel(<, Nat)
           T == Nat \ S
<1>1. IsWellFoundedOn(R, Nat)
  BY NatLessThanWellFounded
<1>2. SUFFICES ASSUME T # {} PROVE FALSE
  OBVIOUS
<1>3. PICK x \in T : \A y \in T : <<y, x>> \notin R
  <2> HIDE DEF R, T
  <2>1. T \subseteq Nat
    BY DEF T
  <2> QED BY <1>1, <1>2, <2>1, WFMin
<1>4. x \in Nat /\ x - 1 \in Nat /\ x - 1 < x /\ (x - 1) + 1 = x
  OBVIOUS
<1>5. <<x - 1, x>> \in R
  BY <1>4 DEF OpToRel
<1>6. x - 1 \in S
  BY <1>3, <1>4, <1>5
<1> QED BY <1>4, <1>6

\* The greatest number of a set that has its bound.
LEMMA MaxIs ==
    ASSUME NEW k \in Nat, NEW t \in SUBSET (1..k), k \in t
    PROVE  Max(t) = k
<1>1. \A y \in t : k >= y
  OBVIOUS
<1>2. \A x \in t : (\A y \in t : x >= y) => x = k
  OBVIOUS
<1> QED BY <1>1, <1>2 DEF Max

\* A set of numbers has a least element.
LEMMA MinIs ==
    ASSUME NEW S \in SUBSET Nat, S # {}
    PROVE  Min(S) \in S /\ \A y \in S : Min(S) <= y
<1> DEFINE R == OpToRel(<, Nat)
<1>1. IsWellFoundedOn(R, Nat)
  BY NatLessThanWellFounded
<1>2. PICK x \in S : \A y \in S : <<y, x>> \notin R
  <2> HIDE DEF R
  <2> QED BY <1>1, WFMin
<1>3. ASSUME NEW y \in S PROVE x <= y
  <2>1. y < x => <<y, x>> \in R
    BY DEF OpToRel
  <2> HIDE DEF R
  <2>2. ~(y < x)
    BY <1>2, <2>1
  <2> QED BY <2>2
<1> QED BY <1>3 DEF Min

\* A set of numbers up to a bound has a greatest element.
LEMMA FiniteMax ==
    ASSUME NEW n \in Nat, NEW t \in SUBSET (1..n), t # {}
    PROVE  Max(t) \in t
<1> DEFINE Top(k) == \A u \in SUBSET (1..k) : u # {} => \E x \in u : \A y \in u : x >= y
           S == {k \in Nat : Top(k)}
<1>1. 0 \in S
  <2>1. 1..0 = {}
    OBVIOUS
  <2> QED BY <2>1
<1>2. ASSUME NEW k \in S PROVE k + 1 \in S
  <2>1. k \in Nat /\ Top(k)
    OBVIOUS
  <2>2. ASSUME NEW u \in SUBSET (1..(k + 1)), u # {} PROVE \E x \in u : \A y \in u : x >= y
    <3>1. CASE k + 1 \in u
      BY <2>1, <3>1
    <3>2. CASE k + 1 \notin u
      <4>1. u \in SUBSET (1..k)
        BY <2>1, <3>2
      <4> QED BY <2>1, <2>2, <4>1
    <3> QED BY <3>1, <3>2
  <2> QED BY <2>1, <2>2
<1>3. n \in S
  <2> HIDE DEF S
  <2>1. S \in SUBSET Nat
    BY DEF S
  <2> QED BY <1>1, <1>2, <2>1, Counting
<1>4. \E x \in t : \A y \in t : x >= y
  BY <1>3
<1> QED BY <1>4 DEF Max

\* g gives every set of places the fold of what s has there, the greatest place
\* folded last.
Folds(g, A, L, base, step, s) ==
    /\ g \in [SUBSET DOMAIN s -> A]
    /\ g = [t \in SUBSET DOMAIN s |->
               IF t = {} THEN base ELSE step[<<g[t \ {Max(t)}], s[Max(t)]>>]]
    /\ \A t \in SUBSET DOMAIN s : t # {} => s[Max(t)] \in L /\ g[t \ {Max(t)}] \in A

\* There is such a function.
LEMMA FoldExists ==
    ASSUME NEW A, NEW L, NEW base \in A, NEW step \in [A \X L -> A], NEW s \in Seq(L)
    PROVE  \E g : Folds(g, A, L, base, step, s)
<1> DEFINE Goes(g, k) == \A t \in SUBSET (1..k) :
              g[t] = IF t = {} THEN base ELSE step[<<g[t \ {Max(t)}], s[Max(t)]>>]
           Folded(k) == \E g \in [SUBSET (1..k) -> A] : Goes(g, k)
           S == {k \in Nat : k <= Len(s) => Folded(k)}
<1>0. /\ Len(s) \in Nat /\ DOMAIN s = 1..Len(s) /\ \A i \in 1..Len(s) : s[i] \in L
  OBVIOUS
<1>1. 0 \in S
  <2> DEFINE g == [t \in SUBSET (1..0) |-> base]
  <2>1. 1..0 = {}
    OBVIOUS
  <2>2. g \in [SUBSET (1..0) -> A] /\ Goes(g, 0)
    BY <2>1
  <2>3. Folded(0)
    BY <2>2
  <2> HIDE DEF Folded
  <2> QED BY <2>3
<1>2. ASSUME NEW k \in S PROVE k + 1 \in S
  <2>1. SUFFICES ASSUME k + 1 <= Len(s) PROVE Folded(k + 1)
    <3> HIDE DEF Folded
    <3> QED OBVIOUS
  <2>2. k \in Nat /\ Folded(k)
    <3> HIDE DEF Folded
    <3> QED BY <2>1, <1>0
  <2>3. PICK g \in [SUBSET (1..k) -> A] : Goes(g, k)
    BY <2>2
  <2> DEFINE n == k + 1
             h == [t \in SUBSET (1..n) |-> IF n \in t THEN step[<<g[t \ {n}], s[n]>>] ELSE g[t]]
  <2>4. n \in Nat /\ n \in 1..Len(s) /\ s[n] \in L
    BY <2>1, <1>0
  <2>5. \A t \in SUBSET (1..n) : /\ t \ {n} \in SUBSET (1..k)
                                 /\ n \notin t => t \in SUBSET (1..k)
    <3>1. \A i \in 1..n : i # n => i \in 1..k
      BY <2>2
    <3> HIDE DEF n
    <3> QED BY <3>1
  <2> HIDE DEF n
  <2>6. h \in [SUBSET (1..n) -> A]
    BY <2>3, <2>4, <2>5
  <2>7. ASSUME NEW t \in SUBSET (1..n)
        PROVE  h[t] = IF t = {} THEN base ELSE step[<<h[t \ {Max(t)}], s[Max(t)]>>]
    <3>1. CASE n \in t
      <4>1. Max(t) = n
        BY <2>4, <3>1, MaxIs
      <4>2. h[t \ {n}] = g[t \ {n}]
        BY <2>5
      <4> QED BY <3>1, <4>1, <4>2
    <3>2. CASE n \notin t /\ t # {}
      <4>1. h[t] = step[<<g[t \ {Max(t)}], s[Max(t)]>>]
        BY <2>3, <2>5, <3>2
      <4>2. h[t \ {Max(t)}] = g[t \ {Max(t)}]
        BY <3>2
      <4> QED BY <3>2, <4>1, <4>2
    <3>3. CASE t = {}
      BY <2>3, <2>5, <3>3
    <3> QED BY <3>1, <3>2, <3>3
  <2>8. Goes(h, n)
    BY <2>7
  <2> HIDE DEF h, Goes
  <2> QED BY <2>6, <2>8 DEF n
<1>3. Len(s) \in S
  <2> HIDE DEF S
  <2> QED BY <1>0, <1>1, <1>2, Counting DEF S
<1>4. Folded(Len(s))
  <2> HIDE DEF Folded
  <2> QED BY <1>0, <1>3
<1>5. PICK g \in [SUBSET (1..Len(s)) -> A] : Goes(g, Len(s))
  BY <1>4
<1>6. ASSUME NEW t \in SUBSET DOMAIN s, t # {}
      PROVE  s[Max(t)] \in L /\ g[t \ {Max(t)}] \in A
  <2>1. Max(t) \in t
    BY <1>0, <1>6, FiniteMax
  <2> QED BY <1>0, <1>5, <2>1
<1>7. Folds(g, A, L, base, step, s)
  BY <1>0, <1>5, <1>6 DEF Folds
<1> QED BY <1>7

\* The sets of places a fold goes through are 1..0, 1..1, and so on.
LEMMA FoldTrace ==
    ASSUME NEW n \in Nat, NEW g
    PROVE  /\ 1..0 = {}
           /\ \A k \in 1..n : /\ 1..k # {} /\ 1..k \in SUBSET (1..n) /\ Max(1..k) = k
                              /\ (1..k) \ {k} = 1..(k - 1)
<1>1. 1..0 = {}
  OBVIOUS
<1>2. ASSUME NEW k \in 1..n
      PROVE  /\ 1..k # {} /\ 1..k \in SUBSET (1..n) /\ Max(1..k) = k
             /\ (1..k) \ {k} = 1..(k - 1)
  <2>1. k \in Nat /\ k \in 1..k
    OBVIOUS
  <2>2. Max(1..k) = k
    BY <2>1, MaxIs
  <2> QED BY <2>1, <2>2
<1> QED BY <1>1, <1>2

-----------------------------------------------------------------------------
(* What a scanner sees.                                                    *)

\* What an agent may print.
AllLines == Lines(Words)

\* Only a message has a text.
LEMMA LinesAre ==
    /\ \A l \in AllLines : /\ l = Line(l.kind, l.text) /\ l.text \in Seq(Words)
                           /\ l.kind \in {"message", "error", "null", "denied", "junk", "long"}
                           /\ l.kind # "message" => l.text = <<>>
    /\ Line("null", <<>>) \in AllLines
<1>1. ASSUME NEW l \in AllLines
      PROVE  /\ l = Line(l.kind, l.text) /\ l.text \in Seq(Words)
             /\ l.kind \in {"message", "error", "null", "denied", "junk", "long"}
             /\ l.kind # "message" => l.text = <<>>
  <2>1. CASE l \in [kind : {"message"}, text : Seq(Words)]
    BY <2>1 DEF Line
  <2>2. CASE l \in [kind : {"error", "null", "denied", "junk", "long"}, text : {<<>>}]
    <3>1. l.text = <<>> /\ l.kind \in {"error", "null", "denied", "junk", "long"}
      BY <2>2
    <3>2. l = Line(l.kind, l.text)
      BY <2>2 DEF Line
    <3>3. <<>> \in Seq(Words)
      OBVIOUS
    <3> QED BY <3>1, <3>2, <3>3
  <2> QED BY <2>1, <2>2 DEF AllLines, Lines
<1>2. Line("null", <<>>) \in AllLines
  BY DEF AllLines, Lines, Line
<1> QED BY <1>1, <1>2

\* What a scanner sees: the lines before the first one too long for it.
LEMMA ScannedIs ==
    ASSUME NEW o \in Seq(AllLines)
    PROVE  /\ Scanned(o) \in Seq(AllLines)
           /\ Before(o) = 1..Len(Scanned(o)) /\ Len(Scanned(o)) <= Len(o)
           /\ \A i \in 1..Len(Scanned(o)) : Scanned(o)[i] = o[i]
<1> DEFINE I == {i \in 1..Len(o) : o[i].kind = "long"}
           first == Min(I)
<1>1. Scanned(o) = IF I = {} THEN o ELSE SubSeq(o, 1, first - 1)
  <2>1. CASE I = {}
    BY <2>1 DEF Scanned, SelectInSeq
  <2>2. CASE I # {}
    <3>1. first # 0
      BY <2>2, MinIs
    <3> QED BY <2>2, <3>1 DEF Scanned, SelectInSeq
  <2> QED BY <2>1, <2>2
<1>2. CASE I = {}
  <2>1. Before(o) = 1..Len(o)
    BY <1>2 DEF Before
  <2> QED BY <1>1, <1>2, <2>1
<1>3. CASE I # {}
  <2>1. first \in I /\ \A i \in I : first <= i
    <3>1. I \in SUBSET Nat
      OBVIOUS
    <3> HIDE DEF I
    <3> QED BY <1>3, <3>1, MinIs
  <2> HIDE DEF first
  <2>2. first \in 1..Len(o) /\ o[first].kind = "long"
    BY <2>1
  <2>3. /\ SubSeq(o, 1, first - 1) \in Seq(AllLines) /\ Len(SubSeq(o, 1, first - 1)) = first - 1
        /\ \A i \in 1..(first - 1) : SubSeq(o, 1, first - 1)[i] = o[i]
    BY <2>2
  <2>4. Before(o) = 1..(first - 1)
    BY <2>1, <2>2 DEF Before
  <2> QED BY <1>1, <1>3, <2>2, <2>3, <2>4
<1> QED BY <1>2, <1>3

\* i is the last of the first k lines of s that has one of the kinds.
IsLast(i, s, k, kinds) == /\ i \in 1..k /\ s[i].kind \in kinds
                          /\ \A j \in 1..k : s[j].kind \in kinds => j <= i
NoneOf(s, k, kinds) == \A j \in 1..k : s[j].kind \notin kinds

\* What was said, in terms of what the scanner saw.
LEMMA SaidIs ==
    ASSUME NEW o \in Seq(AllLines), NEW kinds
    PROVE  LET s == Scanned(o) IN
           /\ Said(o, kinds) = {i \in 1..Len(s) : s[i].kind \in kinds}
           /\ NoneOf(s, Len(s), kinds) <=> Said(o, kinds) = {}
           /\ \A i : IsLast(i, s, Len(s), kinds) => i \in Said(o, kinds) /\ LastSaid(o, kinds) = i
<1> DEFINE s == Scanned(o)
<1>1. Before(o) = 1..Len(s) /\ s \in Seq(AllLines) /\ \A i \in 1..Len(s) : s[i] = o[i]
  BY ScannedIs
<1> HIDE DEF s
<1>2. Said(o, kinds) = {i \in 1..Len(s) : s[i].kind \in kinds}
  BY <1>1 DEF Said
<1>3. NoneOf(s, Len(s), kinds) <=> Said(o, kinds) = {}
  BY <1>2 DEF NoneOf
<1>4. ASSUME NEW i, IsLast(i, s, Len(s), kinds)
      PROVE  i \in Said(o, kinds) /\ LastSaid(o, kinds) = i
  <2>1. i \in Said(o, kinds) /\ \A k \in Said(o, kinds) : k <= i
    BY <1>2, <1>4 DEF IsLast
  <2>2. \A j \in Said(o, kinds) : (\A k \in Said(o, kinds) : k <= j) => j = i
    <3>1. Said(o, kinds) \subseteq Nat
      BY <1>1, <1>2
    <3> QED BY <2>1, <3>1
  <2> QED BY <2>1, <2>2 DEF LastSaid
<1> QED BY <1>2, <1>3, <1>4 DEF s

-----------------------------------------------------------------------------
(* codex.                                                                  *)

\* What codex and opencode may have made of the lines so far.
Told == [kind : {"raw", "text"}, text : Seq(Words)]

\* CodexResult, as FoldLeft unfolds.
CodexFold(g, s) ==
    g = [t \in SUBSET DOMAIN s |->
            IF t = {} THEN Raw
            ELSE LET x == Max(t) IN
                 IF s[x].kind = "message" THEN Newest(g[t \ {x}], s[x].text) ELSE g[t \ {x}]]

\* There is such a function, so FoldLeft takes one.
LEMMA CodexFolds == ASSUME NEW s \in Seq(AllLines) PROVE \E g : CodexFold(g, s)
<1> DEFINE step == [al \in Told \X AllLines |->
                       IF al[2].kind = "message" THEN Newest(al[1], al[2].text) ELSE al[1]]
<1>1. step \in [Told \X AllLines -> Told]
  BY LinesAre DEF Newest, Text, Told
<1>2. Raw \in Told
  BY DEF Told, Raw
<1>3. ASSUME NEW a \in Told, NEW l \in AllLines
      PROVE  step[<<a, l>>] = IF l.kind = "message" THEN Newest(a, l.text) ELSE a
  OBVIOUS
<1> HIDE DEF step
<1>4. PICK g : Folds(g, Told, AllLines, Raw, step, s)
  BY <1>1, <1>2, FoldExists
<1> DEFINE Folded(t) == IF s[Max(t)].kind = "message"
                        THEN Newest(g[t \ {Max(t)}], s[Max(t)].text) ELSE g[t \ {Max(t)}]
           Body(t) == IF t = {} THEN Raw ELSE Folded(t)
<1>5. \A t \in SUBSET DOMAIN s :
          (IF t = {} THEN Raw ELSE step[<<g[t \ {Max(t)}], s[Max(t)]>>]) = Body(t)
  BY <1>3, <1>4 DEF Folds
<1>6. g = [t \in SUBSET DOMAIN s |-> Body(t)]
  <2> HIDE DEF Body
  <2> QED BY <1>4, <1>5 DEF Folds
<1>7. CodexFold(g, s)
  BY <1>6 DEF CodexFold
<1> QED BY <1>7

\* The adapter's function is one of them.
LEMMA CodexUnfolds ==
    ASSUME NEW o, Scanned(o) \in Seq(AllLines)
    PROVE  \E g : CodexFold(g, Scanned(o)) /\ CodexResult(o) = g[DOMAIN Scanned(o)]
<1> DEFINE s == Scanned(o)
           iter == CHOOSE g : CodexFold(g, s)
<1>1. CodexFold(iter, s)
  BY CodexFolds
<1>2. CodexResult(o) = iter[DOMAIN s]
  BY DEF CodexResult, FoldLeft, MapThenFoldSet, CodexFold
<1> QED BY <1>1, <1>2

\* CodexResult takes the last message the scanner saw.
LEMMA CodexIs ==
    ASSUME NEW o, Scanned(o) \in Seq(AllLines)
    PROVE  LET s == Scanned(o) IN
           \/ NoneOf(s, Len(s), {"message"}) /\ CodexResult(o) = Raw
           \/ \E i \in 1..Len(s) : /\ IsLast(i, s, Len(s), {"message"})
                                   /\ CodexResult(o) = Text(s[i].text)
<1> DEFINE s == Scanned(o)
<1>1. PICK g : CodexFold(g, s) /\ CodexResult(o) = g[DOMAIN s]
  BY CodexUnfolds
<1>0. Len(s) \in Nat /\ DOMAIN s = 1..Len(s)
  OBVIOUS
<1> HIDE DEF s
<1> DEFINE Claim(k) == \/ NoneOf(s, k, {"message"}) /\ g[1..k] = Raw
                       \/ \E i \in 1..k : /\ IsLast(i, s, k, {"message"})
                                          /\ g[1..k] = Text(s[i].text)
           S == {k \in Nat : k <= Len(s) => Claim(k)}
<1>2. 0 \in S
  BY <1>0, <1>1, FoldTrace DEF CodexFold, NoneOf
<1>3. ASSUME NEW k \in S PROVE k + 1 \in S
  <2>1. SUFFICES ASSUME k + 1 <= Len(s) PROVE Claim(k + 1)
    OBVIOUS
  <2> DEFINE n == k + 1
  <2>2. k \in Nat /\ Claim(k) /\ n \in 1..Len(s) /\ n - 1 = k /\ k < n
    BY <2>1, <1>0
  <2>3. g[1..n] = IF s[n].kind = "message" THEN Text(s[n].text) ELSE g[1..k]
    <3> HIDE DEF n, Claim
    <3>1. /\ 1..n # {} /\ 1..n \in SUBSET (1..Len(s)) /\ Max(1..n) = n /\ (1..n) \ {n} = 1..k
      BY <1>0, <2>2, FoldTrace
    <3> QED BY <1>0, <1>1, <3>1 DEF CodexFold, Newest
  <2>4. \A j \in 1..n : j = n \/ j \in 1..k
    BY <2>2
  <2>5. CASE s[n].kind = "message"
    <3>1. IsLast(n, s, n, {"message"})
      BY <2>2, <2>5 DEF IsLast
    <3> HIDE DEF n
    <3> QED BY <2>2, <2>3, <2>5, <3>1 DEF n, IsLast
  <2>6. CASE s[n].kind # "message"
    <3>1. NoneOf(s, k, {"message"}) => NoneOf(s, n, {"message"})
      BY <2>4, <2>6 DEF NoneOf
    <3>2. \A i \in 1..k : IsLast(i, s, k, {"message"}) => i \in 1..n /\ IsLast(i, s, n, {"message"})
      BY <2>2, <2>4, <2>6 DEF IsLast
    <3> HIDE DEF n
    <3>3. Claim(n)
      BY <2>2, <2>3, <2>6, <3>1, <3>2
    <3> QED BY <3>3 DEF n
  <2> QED BY <2>5, <2>6
<1>4. Claim(Len(s))
  <2> HIDE DEF Claim
  <2>1. Len(s) \in S
    <3> HIDE DEF S
    <3> QED BY <1>0, <1>2, <1>3, Counting DEF S
  <2> QED BY <1>0, <2>1
<1> QED BY <1>0, <1>1, <1>4 DEF s

-----------------------------------------------------------------------------
(* opencode.                                                               *)

\* OpenCodeResult, as FoldLeft unfolds.
OpenCodeFold(g, s) ==
    g = [t \in SUBSET DOMAIN s |->
            IF t = {} THEN Raw
            ELSE LET x == Max(t) IN
                 IF s[x].kind = "message" THEN Joined(g[t \ {x}], s[x].text) ELSE g[t \ {x}]]

\* There is such a function, so FoldLeft takes one.
LEMMA OpenCodeFolds == ASSUME NEW s \in Seq(AllLines) PROVE \E g : OpenCodeFold(g, s)
<1> DEFINE step == [al \in Told \X AllLines |->
                       IF al[2].kind = "message" THEN Joined(al[1], al[2].text) ELSE al[1]]
<1>1. step \in [Told \X AllLines -> Told]
  <2>1. ASSUME NEW a \in Told, NEW l \in AllLines PROVE Joined(a, l.text) \in Told
    BY LinesAre DEF Joined, Text, Told
  <2> QED BY <2>1
<1>2. Raw \in Told
  BY DEF Told, Raw
<1>3. ASSUME NEW a \in Told, NEW l \in AllLines
      PROVE  step[<<a, l>>] = IF l.kind = "message" THEN Joined(a, l.text) ELSE a
  OBVIOUS
<1> HIDE DEF step
<1>4. PICK g : Folds(g, Told, AllLines, Raw, step, s)
  BY <1>1, <1>2, FoldExists
<1> DEFINE Folded(t) == IF s[Max(t)].kind = "message"
                        THEN Joined(g[t \ {Max(t)}], s[Max(t)].text) ELSE g[t \ {Max(t)}]
           Body(t) == IF t = {} THEN Raw ELSE Folded(t)
<1>5. \A t \in SUBSET DOMAIN s :
          (IF t = {} THEN Raw ELSE step[<<g[t \ {Max(t)}], s[Max(t)]>>]) = Body(t)
  BY <1>3, <1>4 DEF Folds
<1>6. g = [t \in SUBSET DOMAIN s |-> Body(t)]
  <2> HIDE DEF Body
  <2> QED BY <1>4, <1>5 DEF Folds
<1>7. OpenCodeFold(g, s)
  BY <1>6 DEF OpenCodeFold
<1> QED BY <1>7

\* The adapter's function is one of them.
LEMMA OpenCodeUnfolds ==
    ASSUME NEW o, Scanned(o) \in Seq(AllLines)
    PROVE  \E g : OpenCodeFold(g, Scanned(o)) /\ OpenCodeResult(o) = g[DOMAIN Scanned(o)]
<1> DEFINE s == Scanned(o)
           iter == CHOOSE g : OpenCodeFold(g, s)
<1>1. OpenCodeFold(iter, s)
  BY OpenCodeFolds
<1>2. OpenCodeResult(o) = iter[DOMAIN s]
  BY DEF OpenCodeResult, FoldLeft, MapThenFoldSet, OpenCodeFold
<1> QED BY <1>1, <1>2

\* The texts of AllSaid, joined one after the other.
Joins(texts, o) ==
    texts = [n \in 0..Len(o) |->
                IF n = 0 THEN <<>>
                ELSE texts[n - 1] \o (IF n \in Said(o, {"message"}) THEN o[n].text ELSE <<>>)]

\* There is such a function, and AllSaid takes one.
LEMMA TextsJoin ==
    ASSUME NEW o \in Seq(AllLines)
    PROVE  \E texts : Joins(texts, o) /\ AllSaid(o) = texts[Len(o)]
<1> DEFINE s == [i \in 1..Len(o) |-> IF i \in Said(o, {"message"}) THEN o[i].text ELSE <<>>]
           step == [al \in Seq(Words) \X Seq(Words) |-> al[1] \o al[2]]
<1>1. s \in Seq(Seq(Words)) /\ Len(s) = Len(o) /\ DOMAIN s = 1..Len(o) /\ Len(o) \in Nat
  <2>1. \A i \in 1..Len(o) : o[i] \in AllLines
    OBVIOUS
  <2>2. \A i \in 1..Len(o) : s[i] \in Seq(Words)
    BY <2>1, LinesAre
  <2> QED BY <2>2
<1>2. step \in [Seq(Words) \X Seq(Words) -> Seq(Words)]
  OBVIOUS
<1>3. <<>> \in Seq(Words)
  OBVIOUS
<1>4. \A a, b \in Seq(Words) : step[<<a, b>>] = a \o b
  OBVIOUS
<1>5. \A i \in 1..Len(o) : s[i] = IF i \in Said(o, {"message"}) THEN o[i].text ELSE <<>>
  OBVIOUS
<1> HIDE DEF step, s
<1>6. PICK g : Folds(g, Seq(Words), Seq(Words), <<>>, step, s)
  BY <1>1, <1>2, <1>3, FoldExists
<1> DEFINE texts == [n \in 0..Len(o) |-> g[1..n]]
           next(n) == IF n = 0 THEN <<>>
                      ELSE texts[n - 1] \o (IF n \in Said(o, {"message"}) THEN o[n].text ELSE <<>>)
<1>7. ASSUME NEW n \in 0..Len(o) PROVE g[1..n] = next(n)
  <2>1. CASE n = 0
    BY <1>1, <1>6, <2>1, FoldTrace DEF Folds
  <2>2. CASE n # 0
    <3>1. n \in 1..Len(o) /\ n - 1 \in 0..Len(o)
      BY <1>1, <2>2
    <3>2. /\ 1..n # {} /\ 1..n \in SUBSET (1..Len(o)) /\ Max(1..n) = n
          /\ (1..n) \ {n} = 1..(n - 1)
      BY <1>1, <3>1, FoldTrace
    <3>3. g[1..n] = step[<<g[1..(n - 1)], s[n]>>] /\ s[n] \in Seq(Words) /\ g[1..(n - 1)] \in Seq(Words)
      BY <1>1, <1>6, <3>2 DEF Folds
    <3> QED BY <1>4, <1>5, <2>2, <3>1, <3>3
  <2> QED BY <2>1, <2>2
<1>8. texts = [n \in 0..Len(o) |-> next(n)]
  <2> HIDE DEF next
  <2> QED BY <1>7
<1>9. \E f : Joins(f, o)
  <2>1. Joins(texts, o)
    <3> HIDE DEF texts
    <3> QED BY <1>8 DEF Joins
  <2> QED BY <2>1
<1>10. Joins(CHOOSE f : Joins(f, o), o)
  BY <1>9
<1>11. AllSaid(o) = (CHOOSE f : Joins(f, o))[Len(o)]
  BY DEF AllSaid, Joins
<1> QED BY <1>10, <1>11

\* OpenCodeResult joins the messages the scanner saw.
LEMMA OpenCodeIs ==
    ASSUME NEW o \in Seq(AllLines)
    PROVE  /\ OpenCodeResult(o) = IF Said(o, {"message"}) = {} THEN Raw ELSE Text(AllSaid(o))
           /\ AllSaid(o) \in Seq(Words)
<1> DEFINE s == Scanned(o)
<1>0. /\ s \in Seq(AllLines) /\ Len(s) \in Nat /\ Len(o) \in Nat /\ DOMAIN s = 1..Len(s)
      /\ Len(s) <= Len(o) /\ \A i \in 1..Len(s) : s[i] = o[i]
  BY ScannedIs
<1>1. PICK g : OpenCodeFold(g, s) /\ OpenCodeResult(o) = g[DOMAIN s]
  BY <1>0, OpenCodeUnfolds
<1>2. PICK texts : Joins(texts, o) /\ AllSaid(o) = texts[Len(o)]
  BY TextsJoin
<1>3. \A i \in 1..Len(o) : i \in Said(o, {"message"}) <=> i <= Len(s) /\ s[i].kind = "message"
  BY <1>0, SaidIs
<1> HIDE DEF s
<1> DEFINE Claim(k) == /\ g[1..k].text = texts[k] /\ texts[k] \in Seq(Words)
                       /\ NoneOf(s, k, {"message"}) => g[1..k] = Raw
                       /\ ~NoneOf(s, k, {"message"}) => g[1..k] = Text(texts[k])
           S == {k \in Nat : k <= Len(s) => Claim(k)}
<1>4. 0 \in S
  <2>1. texts[0] = <<>>
    BY <1>0, <1>2 DEF Joins
  <2>2. g[1..0] = Raw /\ NoneOf(s, 0, {"message"})
    BY <1>0, <1>1, FoldTrace DEF OpenCodeFold, NoneOf
  <2>3. Raw.text = <<>> /\ <<>> \in Seq(Words)
    BY DEF Raw
  <2> QED BY <2>1, <2>2, <2>3
<1>5. ASSUME NEW k \in S PROVE k + 1 \in S
  <2>1. SUFFICES ASSUME k + 1 <= Len(s) PROVE Claim(k + 1)
    OBVIOUS
  <2> DEFINE n == k + 1
  <2>2. /\ k \in Nat /\ Claim(k) /\ n \in 1..Len(s) /\ n \in 1..Len(o) /\ n \in 0..Len(o)
        /\ n - 1 = k /\ n # 0
    BY <2>1, <1>0
  <2>3. g[1..n] = IF s[n].kind = "message" THEN Joined(g[1..k], s[n].text) ELSE g[1..k]
    <3> HIDE DEF n, Claim
    <3>1. /\ 1..n # {} /\ 1..n \in SUBSET (1..Len(s)) /\ Max(1..n) = n /\ (1..n) \ {n} = 1..k
      BY <1>0, <2>2, FoldTrace
    <3>2. 1..n \in SUBSET DOMAIN s
      BY <1>0, <3>1
    <3>3. g[1..n] = IF s[Max(1..n)].kind = "message"
                    THEN Joined(g[(1..n) \ {Max(1..n)}], s[Max(1..n)].text)
                    ELSE g[(1..n) \ {Max(1..n)}]
      BY <1>1, <3>1, <3>2 DEF OpenCodeFold
    <3> QED BY <3>1, <3>3
  <2>4. texts[n] = texts[k] \o (IF s[n].kind = "message" THEN s[n].text ELSE <<>>)
    <3> HIDE DEF n, Claim
    <3>1. texts[n] = texts[k] \o (IF n \in Said(o, {"message"}) THEN o[n].text ELSE <<>>)
      BY <1>2, <2>2 DEF Joins
    <3>2. n \in Said(o, {"message"}) <=> s[n].kind = "message"
      BY <1>0, <1>3, <2>2
    <3>3. s[n] = o[n]
      BY <1>0, <2>2
    <3> QED BY <3>1, <3>2, <3>3
  <2>5. s[n].text \in Seq(Words)
    BY <1>0, <2>2, LinesAre
  <2>6. \A j \in 1..n : j = n \/ j \in 1..k
    BY <2>2
  <2>7. CASE s[n].kind = "message"
    <3>1. ~NoneOf(s, n, {"message"})
      BY <2>2, <2>7 DEF NoneOf
    <3> HIDE DEF n
    <3>2. texts[n] \in Seq(Words) /\ g[1..n] = Text(texts[n])
      BY <2>2, <2>3, <2>4, <2>5, <2>7 DEF Joined
    <3>3. Claim(n)
      BY <3>1, <3>2 DEF Text
    <3> QED BY <3>3 DEF n
  <2>8. CASE s[n].kind # "message"
    <3>1. NoneOf(s, n, {"message"}) <=> NoneOf(s, k, {"message"})
      BY <2>2, <2>6, <2>8 DEF NoneOf
    <3> HIDE DEF n
    <3>2. texts[n] = texts[k] /\ g[1..n] = g[1..k]
      BY <2>2, <2>3, <2>4, <2>8
    <3>3. Claim(n)
      BY <2>2, <3>1, <3>2
    <3> QED BY <3>3 DEF n
  <2> QED BY <2>7, <2>8
<1>6. Claim(Len(s))
  <2> HIDE DEF Claim
  <2>1. Len(s) \in S
    <3> HIDE DEF S
    <3> QED BY <1>0, <1>4, <1>5, Counting DEF S
  <2> QED BY <1>0, <2>1
<1> DEFINE R == {k \in Nat : Len(s) <= k /\ k <= Len(o) => texts[k] = texts[Len(s)]}
<1>7. 0 \in R
  BY <1>0
<1>8. ASSUME NEW k \in R PROVE k + 1 \in R
  <2>1. SUFFICES ASSUME Len(s) <= k + 1, k + 1 <= Len(o), Len(s) # k + 1
                 PROVE  texts[k + 1] = texts[Len(s)]
    OBVIOUS
  <2> DEFINE n == k + 1
  <2> HIDE DEF Claim
  <2>2. k \in Nat /\ Len(s) <= k /\ k <= Len(o)
    <3>1. k \in Nat
      OBVIOUS
    <3>2. Len(s) \in Nat /\ Len(o) \in Nat
      BY <1>0
    <3> QED BY <2>1, <3>1, <3>2
  <2>3. /\ k \in Nat /\ texts[k] = texts[Len(s)]
        /\ n \in 1..Len(o) /\ n \in 0..Len(o) /\ n # 0 /\ n - 1 = k /\ ~(n <= Len(s))
    <3>1. texts[k] = texts[Len(s)]
      BY <2>2
    <3>2. n \in 1..Len(o) /\ n \in 0..Len(o) /\ n # 0 /\ n - 1 = k /\ ~(n <= Len(s))
      <4>1. \A a, b, c \in Nat :
                a <= c /\ c + 1 <= b => /\ c + 1 \in 1..b /\ c + 1 \in 0..b /\ c + 1 # 0
                                        /\ (c + 1) - 1 = c /\ ~(c + 1 <= a)
        OBVIOUS
      <4>2. Len(s) \in Nat /\ Len(o) \in Nat
        BY <1>0
      <4> QED BY <2>1, <2>2, <4>1, <4>2
    <3> QED BY <2>2, <3>1, <3>2
  <2> HIDE DEF n
  <2>4. texts[n] = texts[k] \o <<>>
    BY <1>2, <1>3, <2>3 DEF Joins
  <2>5. texts[k] \in Seq(Words)
    BY <1>6, <2>3 DEF Claim
  <2> QED BY <2>3, <2>4, <2>5 DEF n
<1>9. texts[Len(o)] = texts[Len(s)]
  <2> HIDE DEF Claim
  <2>1. Len(o) \in R
    <3> HIDE DEF R
    <3> QED BY <1>0, <1>7, <1>8, Counting DEF R
  <2> QED BY <1>0, <2>1
<1>10. NoneOf(s, Len(s), {"message"}) <=> Said(o, {"message"}) = {}
  BY SaidIs DEF s
<1> QED BY <1>0, <1>1, <1>2, <1>6, <1>9, <1>10

-----------------------------------------------------------------------------
(* agy.                                                                    *)

\* The kinds of agy's last word.
Results == {"message", "error", "null"}

\* AgyScan, as FoldLeft unfolds.
AgyBase == [final |-> Line("null", <<>>), denied |-> FALSE]
AgyStep(acc, l) == CASE l.kind \in {"message", "error", "null"} -> [acc EXCEPT !.final = l]
                     [] l.kind = "denied" -> [acc EXCEPT !.denied = TRUE]
                     [] OTHER -> acc
AgyFold(g, s) ==
    g = [t \in SUBSET DOMAIN s |->
            IF t = {} THEN AgyBase ELSE LET x == Max(t) IN AgyStep(g[t \ {x}], s[x])]

Scans == [final : AllLines, denied : BOOLEAN]

\* There is such a function, so FoldLeft takes one.
LEMMA AgyFolds == ASSUME NEW s \in Seq(AllLines) PROVE \E g : AgyFold(g, s)
<1> DEFINE step == [al \in Scans \X AllLines |-> AgyStep(al[1], al[2])]
<1>1. step \in [Scans \X AllLines -> Scans]
  <2>1. ASSUME NEW a \in Scans, NEW l \in AllLines PROVE AgyStep(a, l) \in Scans
    BY DEF AgyStep, Scans
  <2> QED BY <2>1
<1>2. AgyBase \in Scans
  BY LinesAre DEF Scans, AgyBase
<1>3. ASSUME NEW a \in Scans, NEW l \in AllLines PROVE step[<<a, l>>] = AgyStep(a, l)
  OBVIOUS
<1> HIDE DEF step
<1>4. PICK g : Folds(g, Scans, AllLines, AgyBase, step, s)
  BY <1>1, <1>2, FoldExists
<1> DEFINE Folded(t) == AgyStep(g[t \ {Max(t)}], s[Max(t)])
           Body(t) == IF t = {} THEN AgyBase ELSE Folded(t)
<1>5. \A t \in SUBSET DOMAIN s :
          (IF t = {} THEN AgyBase ELSE step[<<g[t \ {Max(t)}], s[Max(t)]>>]) = Body(t)
  BY <1>3, <1>4 DEF Folds
<1>6. g = [t \in SUBSET DOMAIN s |-> Body(t)]
  <2> HIDE DEF Body
  <2> QED BY <1>4, <1>5 DEF Folds
<1>7. AgyFold(g, s)
  BY <1>6 DEF AgyFold
<1> QED BY <1>7

\* The adapter's function is one of them.
LEMMA AgyUnfolds ==
    ASSUME NEW o, Scanned(o) \in Seq(AllLines)
    PROVE  \E g : AgyFold(g, Scanned(o)) /\ AgyScan(o) = g[DOMAIN Scanned(o)]
<1> DEFINE s == Scanned(o)
           iter == CHOOSE g : AgyFold(g, s)
<1>1. AgyFold(iter, s)
  BY AgyFolds
<1>2. AgyScan(o) = iter[DOMAIN s]
  BY DEF AgyScan, FoldLeft, MapThenFoldSet, AgyFold, AgyBase, AgyStep
<1> QED BY <1>1, <1>2

\* AgyScan takes the last result the scanner saw, and knows of every denied tool.
LEMMA AgyIs ==
    ASSUME NEW o \in Seq(AllLines)
    PROVE  LET s == Scanned(o) IN
           /\ AgyScan(o).denied <=> Said(o, {"denied"}) # {}
           /\ \/ NoneOf(s, Len(s), Results) /\ AgyScan(o).final = Line("null", <<>>)
              \/ \E i \in 1..Len(s) : IsLast(i, s, Len(s), Results) /\ AgyScan(o).final = s[i]
<1> DEFINE s == Scanned(o)
<1>0. s \in Seq(AllLines) /\ Len(s) \in Nat /\ DOMAIN s = 1..Len(s)
  BY ScannedIs
<1>1. PICK g : AgyFold(g, s) /\ AgyScan(o) = g[DOMAIN s]
  BY <1>0, AgyUnfolds
<1> HIDE DEF s
<1> DEFINE Claim(k) == /\ g[1..k] \in Scans
                       /\ g[1..k].denied <=> ~NoneOf(s, k, {"denied"})
                       /\ \/ NoneOf(s, k, Results) /\ g[1..k].final = Line("null", <<>>)
                          \/ \E i \in 1..k : IsLast(i, s, k, Results) /\ g[1..k].final = s[i]
           S == {k \in Nat : k <= Len(s) => Claim(k)}
<1>2. 0 \in S
  <2>1. g[1..0] = AgyBase /\ NoneOf(s, 0, Results) /\ NoneOf(s, 0, {"denied"})
    BY <1>0, <1>1, FoldTrace DEF AgyFold, NoneOf
  <2>2. AgyBase \in Scans /\ AgyBase.final = Line("null", <<>>) /\ ~AgyBase.denied
    BY LinesAre DEF Scans, AgyBase
  <2> QED BY <2>1, <2>2
<1>3. ASSUME NEW k \in S PROVE k + 1 \in S
  <2>1. SUFFICES ASSUME k + 1 <= Len(s) PROVE Claim(k + 1)
    OBVIOUS
  <2> DEFINE n == k + 1
  <2>2. k \in Nat /\ Claim(k) /\ n \in 1..Len(s) /\ n - 1 = k /\ k < n
    BY <2>1, <1>0
  <2>3. g[1..n] = AgyStep(g[1..k], s[n])
    <3> HIDE DEF n, Claim
    <3>1. /\ 1..n # {} /\ 1..n \in SUBSET (1..Len(s)) /\ Max(1..n) = n /\ (1..n) \ {n} = 1..k
      BY <1>0, <2>2, FoldTrace
    <3> QED BY <1>0, <1>1, <3>1 DEF AgyFold
  <2>4. s[n] \in AllLines
    BY <1>0, <2>2
  <2>5. \A j \in 1..n : j = n \/ j \in 1..k
    BY <2>2
  <2>6. \A kinds : NoneOf(s, n, kinds) <=> NoneOf(s, k, kinds) /\ s[n].kind \notin kinds
    BY <2>2, <2>5 DEF NoneOf
  <2>7. CASE s[n].kind \in Results
    <3>1. IsLast(n, s, n, Results) /\ n \in 1..n
      BY <2>2, <2>7 DEF IsLast
    <3> HIDE DEF n
    <3>2. /\ g[1..n] \in Scans /\ g[1..n].final = s[n]
          /\ g[1..n].denied = g[1..k].denied
      BY <2>2, <2>3, <2>4, <2>7 DEF AgyStep, Results, Scans
    <3>3. s[n].kind \notin {"denied"}
      BY <2>7 DEF Results
    <3> QED BY <2>2, <2>6, <3>1, <3>2, <3>3 DEF n
  <2>8. CASE s[n].kind \notin Results
    <3>1. \A i \in 1..k : IsLast(i, s, k, Results) => i \in 1..n /\ IsLast(i, s, n, Results)
      BY <2>2, <2>5, <2>8 DEF IsLast
    <3> HIDE DEF n
    <3>2. /\ g[1..n] \in Scans /\ g[1..n].final = g[1..k].final
          /\ g[1..n].denied <=> g[1..k].denied \/ s[n].kind = "denied"
      BY <2>2, <2>3, <2>4, <2>8 DEF AgyStep, Results, Scans
    <3>3. Claim(n)
      BY <2>2, <2>6, <2>8, <3>1, <3>2
    <3> QED BY <3>3 DEF n
  <2> QED BY <2>7, <2>8
<1>4. Claim(Len(s))
  <2> HIDE DEF Claim
  <2>1. Len(s) \in S
    <3> HIDE DEF S
    <3> QED BY <1>0, <1>2, <1>3, Counting DEF S
  <2> QED BY <1>0, <2>1
<1>5. NoneOf(s, Len(s), {"denied"}) <=> Said(o, {"denied"}) = {}
  BY SaidIs DEF s
<1> QED BY <1>0, <1>1, <1>4, <1>5 DEF s

-----------------------------------------------------------------------------
(* All of them.                                                            *)

\* What Result may return.
Responses == {Raw, Error} \cup {Text(t) : t \in Seq(Words)}

\* A response is known by its kind.
LEMMA ResponseIs ==
    ASSUME NEW r \in Responses
    PROVE  /\ r.kind \in {"text", "raw", "error"} /\ r.text \in Seq(Words)
           /\ r.kind = "error" <=> r = Error
           /\ r.kind # "text" => r \in {Raw, Error}
<1>1. /\ Raw.kind = "raw" /\ Raw.text \in Seq(Words)
      /\ Error.kind = "error" /\ Error.text \in Seq(Words)
  BY DEF Raw, Error
<1>2. ASSUME NEW t \in Seq(Words), r = Text(t)
      PROVE  r.kind = "text" /\ r.text \in Seq(Words) /\ r # Error
  BY <1>2 DEF Text, Error
<1> QED BY <1>1, <1>2 DEF Responses

\* Each adapter's Result, unless it is an error, is what its agent said.
LEMMA ResultIs ==
    ASSUME NEW a \in Adapters, NEW o \in Seq(AllLines)
    PROVE  /\ Result(a, o) \in Responses
           /\ Result(a, o) # Error =>
                 /\ Result(a, o) = Answers(a, o)
                 /\ a = "agy" /\ Said(o, {"denied"}) # {} => Result(a, o).text # <<>>
<1> DEFINE s == Scanned(o)
           r == Result(a, o)
<1>1. s \in Seq(AllLines) /\ \A i \in 1..Len(s) : s[i] = o[i] /\ s[i] \in AllLines
  BY ScannedIs
<1>2. CASE a = "codex"
  <2>1. r = CodexResult(o)
    BY <1>2 DEF Result
  <2>2. CASE NoneOf(s, Len(s), {"message"}) /\ CodexResult(o) = Raw
    <3>1. Said(o, {"message"}) = {}
      BY <2>2, SaidIs
    <3> QED BY <1>2, <2>1, <2>2, <3>1 DEF Answers, Responses
  <2>3. ASSUME NEW i \in 1..Len(s), IsLast(i, s, Len(s), {"message"}), CodexResult(o) = Text(s[i].text)
        PROVE  r = Answers(a, o) /\ r \in Responses
    <3>1. /\ Said(o, {"message"}) # {} /\ LastSaid(o, {"message"}) = i
          /\ o[i] = s[i] /\ s[i].kind = "message" /\ s[i] \in AllLines
      BY <1>1, <2>3, SaidIs DEF IsLast
    <3>2. s[i].text \in Seq(Words)
      BY <3>1, LinesAre
    <3> QED BY <1>2, <2>1, <2>3, <3>1, <3>2 DEF Answers, Responses
  <2>4. \/ NoneOf(s, Len(s), {"message"}) /\ CodexResult(o) = Raw
        \/ \E i \in 1..Len(s) : IsLast(i, s, Len(s), {"message"}) /\ CodexResult(o) = Text(s[i].text)
    BY <1>1, CodexIs
  <2> QED BY <1>2, <2>2, <2>3, <2>4
<1>3. CASE a = "opencode"
  <2>1. r = OpenCodeResult(o)
    BY <1>3 DEF Result
  <2> QED BY <1>3, <2>1, OpenCodeIs DEF Answers, Responses
<1>4. CASE a = "agy"
  <2> DEFINE final == AgyScan(o).final
             denied == AgyScan(o).denied
             Fine(x) == /\ x \in Responses
                        /\ x # Error => x = Answers(a, o) /\ (denied => x.text # <<>>)
  <2>1. r = IF final.kind = "error" \/ (final.text = <<>> /\ denied) THEN Error
            ELSE IF final.kind = "message" THEN Text(final.text) ELSE Raw
    BY <1>4 DEF Result, AgyResult
  <2>2. denied <=> Said(o, {"denied"}) # {}
    BY AgyIs
  <2>3. Error \in Responses /\ Raw \in Responses
    BY DEF Responses
  <2> HIDE DEF r, denied
  <2>4. CASE NoneOf(s, Len(s), Results) /\ final = Line("null", <<>>)
    <3>1. Said(o, Results) = {}
      BY <2>4, SaidIs
    <3>2. Answers(a, o) = Raw
      BY <1>4, <3>1 DEF Answers, Results
    <3>3. r = IF denied THEN Error ELSE Raw
      BY <2>1, <2>4 DEF Line
    <3>4. Fine(r)
      BY <2>3, <3>2, <3>3
    <3> QED BY <2>2, <3>4 DEF r
  <2>5. ASSUME NEW i \in 1..Len(s), IsLast(i, s, Len(s), Results), final = s[i]
        PROVE  Fine(r)
    <3>1. /\ Said(o, Results) # {} /\ LastSaid(o, Results) = i
          /\ o[i] = s[i] /\ s[i] \in AllLines /\ s[i].kind \in Results
      BY <1>1, <2>5, SaidIs DEF IsLast
    <3>2. Answers(a, o) = IF s[i].kind = "message" THEN Text(s[i].text)
                          ELSE IF s[i].kind = "null" THEN Raw ELSE Error
      BY <1>4, <3>1 DEF Answers, Results
    <3> HIDE DEF s, final
    <3>3. CASE r = Error
      BY <2>3, <3>3
    <3>4. CASE s[i].kind = "null" /\ r # Error
      <4>1. s[i].text = <<>>
        BY <3>1, <3>4, LinesAre
      <4> QED BY <2>1, <2>3, <2>5, <3>2, <3>4, <4>1
    <3>5. CASE s[i].kind = "message" /\ r # Error
      <4>1. s[i].text \in Seq(Words)
        BY <3>1, LinesAre
      <4>2. r = Text(s[i].text) /\ (denied => s[i].text # <<>>)
        BY <2>1, <2>5, <3>5
      <4>3. r \in Responses /\ r.text = s[i].text
        BY <4>1, <4>2 DEF Responses, Text
      <4> QED BY <3>2, <3>5, <4>2, <4>3
    <3>6. s[i].kind = "error" => r = Error
      BY <2>1, <2>5
    <3> QED BY <3>1, <3>3, <3>4, <3>5, <3>6 DEF Results
  <2>6. \/ NoneOf(s, Len(s), Results) /\ final = Line("null", <<>>)
        \/ \E i \in 1..Len(s) : IsLast(i, s, Len(s), Results) /\ final = s[i]
    BY AgyIs
  <2>7. CASE Fine(r)
    BY <2>2, <2>7 DEF r
  <2> QED BY <2>4, <2>5, <2>6, <2>7
<1>5. CASE a \notin {"codex", "opencode", "agy"}
  BY <1>5 DEF Result, Answers, Responses
<1> QED BY <1>2, <1>3, <1>4, <1>5

\* The size of an answer is a number.
LEMMA SizeIs ==
    ASSUME NEW r, NEW o \in Seq(AllLines), r.text \in Seq(Words)
    PROVE  Size(r, o) \in Nat
<1>1. IsFiniteSet({i \in DOMAIN o : o[i].kind = "long"})
  <2>1. IsFiniteSet(1..Len(o)) /\ DOMAIN o = 1..Len(o)
    BY FS_Interval
  <2> QED BY <2>1, FS_Subset
<1>2. Cardinality({i \in DOMAIN o : o[i].kind = "long"}) \in Nat
  BY <1>1, FS_CardinalityType
<1> QED BY <1>2 DEF Size, LongLine

\* Raw output within the limit has no line the scanner could not take.
LEMMA RawFits ==
    ASSUME NEW o \in Seq(AllLines), Size(Raw, o) <= MaxResult
    PROVE  \A i \in DOMAIN o : o[i].kind # "long"
<1> DEFINE longs == {i \in DOMAIN o : o[i].kind = "long"}
<1>1. Len(o) \in Nat /\ DOMAIN o = 1..Len(o) /\ MaxResult \in Nat /\ MaxResult < 100
  BY ExecutionAssumption DEF LongLine
<1>2. IsFiniteSet(longs)
  <2>1. IsFiniteSet(1..Len(o))
    BY <1>1, FS_Interval
  <2> QED BY <1>1, <2>1, FS_Subset
<1>3. Cardinality(longs) \in Nat /\ (Cardinality(longs) = 0 <=> longs = {})
  BY <1>2, FS_CardinalityType, FS_EmptySet
<1>4. Len(o) + Cardinality(longs) * 100 <= MaxResult
  BY DEF Size, Raw, LongLine
<1> HIDE DEF longs
<1>5. Cardinality(longs) = 0
  BY <1>1, <1>3, <1>4
<1> QED BY <1>3, <1>5 DEF longs
=============================================================================

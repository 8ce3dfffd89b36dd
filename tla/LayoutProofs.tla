------------------------------ MODULE LayoutProofs ------------------------------
(***************************************************************************)
(* Proofs about Layout: a tree stays a tree when panes are split and       *)
(* closed, whatever its size, and what navigation answers is one of its    *)
(* panes. Induction over paths is by the least counterexample.             *)
(***************************************************************************)
EXTENDS Layout, SequenceTheorems, FiniteSetTheorems, TLAPS

Turns == 1..2
Paths == Seq(Turns)

-----------------------------------------------------------------------------
(* Least elements. *)

\* A set of natural numbers has a least element: what is below its elements are
\* finite sets, and those have a least one under strict inclusion.
LEMMA LeastNumber ==
  ASSUME NEW S \in SUBSET Nat, S # {}
  PROVE  \E n \in S : \A m \in S : n <= m
<1> DEFINE Up(n) == {m \in S : m <= n}
           T == {Up(n) : n \in S}
<1>1. T \subseteq FiniteSubsetsOf(S)
  <2> SUFFICES ASSUME NEW n \in S
               PROVE  Up(n) \in SUBSET S /\ IsFiniteSet(Up(n))
    BY DEF FiniteSubsetsOf
  <2>1. Up(n) \in SUBSET Nat /\ \A m \in Up(n) : m <= n
    OBVIOUS
  <2> HIDE DEF Up
  <2> QED
    BY <2>1, FS_BoundedSetOfNaturals DEF Up
<1>2. T # {}
  OBVIOUS
<1>3. IsWellFoundedOn(StrictSubsetOrdering(S), FiniteSubsetsOf(S))
  BY FS_StrictSubsetOrderingWellFounded
<1> HIDE DEF T
<1>4. PICK X \in T : \A Y \in T : ~(<<Y, X>> \in StrictSubsetOrdering(S))
  BY <1>1, <1>2, <1>3, WFMin
<1> USE DEF T
<1>5. PICK n \in S : X = Up(n)
  OBVIOUS
<1>6. ASSUME NEW m \in S, m < n
      PROVE  FALSE
  <2>1. m \in Nat /\ n \in Nat /\ \A k \in S : k \in Nat
    OBVIOUS
  <2>2. \A k \in S : k <= m => k <= n
    BY <2>1, <1>6
  <2>3. n \in Up(n) /\ n \notin Up(m)
    BY <2>1, <1>6
  <2>4. Up(m) \in SUBSET Up(n)
    BY <2>2
  <2>5. <<Up(m), X>> \in StrictSubsetOrdering(S)
    BY <2>2, <2>3, <2>4, <1>5 DEF StrictSubsetOrdering
  <2> QED
    BY <1>4, <2>5
<1> QED
  BY <1>6

\* A finite set has a least element under a strict total order of its elements.
LEMMA LeastElement ==
  ASSUME NEW S, IsFiniteSet(S), S # {}, NEW R,
         \A a \in S : <<a, a>> \notin R,
         \A a, b, c \in S : <<a, b>> \in R /\ <<b, c>> \in R => <<a, c>> \in R,
         \A a, b \in S : a # b => <<a, b>> \in R \/ <<b, a>> \in R
  PROVE  \E a \in S : \A b \in S \ {a} : <<a, b>> \in R
<1> DEFINE Down(a) == {b \in S : <<b, a>> \in R}
           T == {Down(a) : a \in S}
<1>1. T \subseteq FiniteSubsetsOf(S)
  <2> SUFFICES ASSUME NEW X \in T
               PROVE  X \in SUBSET S /\ IsFiniteSet(X)
    BY DEF FiniteSubsetsOf
  <2>1. X \in SUBSET S
    OBVIOUS
  <2> QED
    BY <2>1, FS_Subset
<1>2. T # {}
  <2>1. PICK a : a \in S
    OBVIOUS
  <2>2. Down(a) \in T
    BY <2>1
  <2> QED
    BY <2>2
<1>3. IsWellFoundedOn(StrictSubsetOrdering(S), FiniteSubsetsOf(S))
  BY FS_StrictSubsetOrderingWellFounded
<1> HIDE DEF T
<1>4. PICK X \in T : \A Y \in T : ~(<<Y, X>> \in StrictSubsetOrdering(S))
  BY <1>1, <1>2, <1>3, WFMin
<1> USE DEF T
<1>5. PICK a \in S : X = Down(a)
  OBVIOUS
<1>6. ASSUME NEW b \in S, <<b, a>> \in R
      PROVE  FALSE
  <2>1. Down(b) \in SUBSET Down(a) /\ b \in Down(a) /\ b \notin Down(b) /\ Down(a) \in SUBSET S
    BY <1>6
  <2>2. <<Down(b), X>> \in StrictSubsetOrdering(S)
    BY <2>1, <1>5 DEF StrictSubsetOrdering
  <2> QED
    BY <1>4, <2>2
<1> QED
  BY <1>6

-----------------------------------------------------------------------------
(* Paths. *)

\* A path that is not the root's is its parent's with one more turn.
LEMMA Step ==
  ASSUME NEW s \in Paths, NEW e \in Turns
  PROVE  /\ Append(s, e) \in Paths /\ Append(s, e) # <<>> /\ Append(s, e) # s
         /\ Len(Append(s, e)) = Len(s) + 1
         /\ Front(Append(s, e)) = s /\ Last(Append(s, e)) = e
<1>1. /\ Append(s, e) \in Paths /\ Append(s, e) # <<>> /\ Len(Append(s, e)) = Len(s) + 1
      /\ Append(s, e)[Len(s) + 1] = e
  BY AppendProperties DEF Paths
<1>2. Len(s) \in Nat
  BY LenProperties DEF Paths
<1>3. Append(s, e) = s \o <<e>> /\ <<e>> \in Seq(Turns)
  BY AppendIsConcat DEF Paths
<1>4. SubSeq(Append(s, e), 1, Len(s)) = s
  <2>1. CASE Len(s) = 0
    <3>1. s = <<>>
      BY <2>1, EmptySeq DEF Paths
    <3> QED
      BY <2>1, <3>1, SubSeqEmpty
  <2>2. CASE Len(s) > 0
    <3>1. SubSeq(s \o <<e>>, 1, Len(s)) = SubSeq(s, 1, Len(s))
      BY <1>2, <1>3, <2>2, SubSeqOfConcat1 DEF Paths
    <3> QED
      BY <1>3, <3>1, SubSeqFull DEF Paths
  <2> QED
    BY <1>2, <2>1, <2>2
<1>5. Len(Append(s, e)) - 1 = Len(s)
  BY <1>1, <1>2
<1>6. Append(s, e) # s
  BY <1>1, <1>2
<1> QED
  BY <1>1, <1>4, <1>5, <1>6 DEF Front, Last

\* A path that is not the root's is its front and its last turn.
LEMMA Unstep ==
  ASSUME NEW p \in Paths, p # <<>>
  PROVE  Front(p) \in Paths /\ Last(p) \in Turns /\ p = Append(Front(p), Last(p))
<1>1. PICK s \in Paths, e \in Turns : p = Append(s, e)
  BY SequenceEmptyOrAppend DEF Paths
<1> QED
  BY <1>1, Step

\* What holds of the root's path and is passed on to longer ones holds of all paths.
LEMMA PathInduction ==
  ASSUME NEW S, <<>> \in S, \A s \in Paths, e \in Turns : s \in S => Append(s, e) \in S
  PROVE  Paths \subseteq S
<1> SUFFICES ASSUME NEW b \in Paths, b \notin S
             PROVE  FALSE
  OBVIOUS
<1>1. \A p \in Paths : Len(p) \in Nat
  BY LenProperties DEF Paths
<1> DEFINE B == {p \in Paths : p \notin S}
           L == {Len(p) : p \in B}
<1>2. L \in SUBSET Nat /\ L # {}
  BY <1>1
<1> HIDE DEF L
<1>3. PICK n \in L : \A m \in L : n <= m
  BY <1>2, LeastNumber
<1> USE DEF L
<1>4. PICK p \in B : n = Len(p)
  OBVIOUS
<1>5. PICK s \in Paths, e \in Turns : p = Append(s, e)
  BY <1>4, Unstep
<1>6. Len(p) = Len(s) + 1
  BY <1>5, Step
<1>7. s \in B
  BY <1>4, <1>5
<1>8. Len(s) \in L
  BY <1>7
<1>9. n <= Len(s)
  BY <1>3, <1>8
<1> QED
  BY <1>1, <1>4, <1>6, <1>9

\* What hangs below a path, by the way that leads there.
LEMMA Way ==
  ASSUME NEW a \in Paths, NEW w \in Paths
  PROVE  /\ a \o w \in Paths
         /\ Len(a \o w) = Len(a) + Len(w)
         /\ IsPrefix(a, a \o w)
         /\ SubSeq(a \o w, Len(a) + 1, Len(a \o w)) = w
<1>1. a \o w \in Paths /\ Len(a \o w) = Len(a) + Len(w) /\ Len(a) \in Nat /\ Len(w) \in Nat
  BY ConcatProperties, LenProperties DEF Paths
<1>2. SubSeq(a \o w, 1, Len(a)) = SubSeq(a, 1, Len(a))
  <2>1. CASE Len(a) = 0
    BY <2>1, SubSeqEmpty
  <2>2. CASE Len(a) > 0
    BY <1>1, <2>2, SubSeqOfConcat1 DEF Paths
  <2> QED
    BY <1>1, <2>1, <2>2
<1>3. SubSeq(a \o w, Len(a) + 1, Len(a) + Len(w)) = w
  <2>1. CASE Len(w) = 0
    <3>1. w = <<>>
      BY <2>1, EmptySeq DEF Paths
    <3> QED
      BY <1>1, <2>1, <3>1, SubSeqEmpty
  <2>2. CASE Len(w) > 0
    <3>1. SubSeq(a \o w, Len(a) + 1, Len(a) + Len(w)) = SubSeq(w, 1, Len(w))
      <4> DEFINE m == Len(a) + 1
                 n == Len(a) + Len(w)
      <4>1. m \in (Len(a) + 1)..(Len(a) + Len(w)) /\ n \in (Len(a) + 1)..(Len(a) + Len(w))
        BY <1>1, <2>2
      <4>2. m - Len(a) = 1 /\ n - Len(a) = Len(w)
        BY <1>1
      <4> HIDE DEF m, n
      <4>3. SubSeq(a \o w, m, n) = SubSeq(w, m - Len(a), n - Len(a))
        BY <4>1, SubSeqOfConcat2 DEF Paths
      <4> QED
        BY <4>2, <4>3 DEF m, n
    <3> QED
      BY <3>1, SubSeqFull DEF Paths
  <2> QED
    BY <1>1, <2>1, <2>2
<1> QED
  BY <1>1, <1>2, <1>3 DEF IsPrefix

\* A path below another is that path and a way down from it.
LEMMA WayBelow ==
  ASSUME NEW a \in Paths, NEW p \in Paths, IsPrefix(a, p)
  PROVE  \E w \in Paths : p = a \o w /\ Len(p) = Len(a) + Len(w)
<1> DEFINE w == SubSeq(p, Len(a) + 1, Len(p))
<1>1. Len(a) \in Nat /\ Len(p) \in Nat /\ Len(a) <= Len(p) /\ SubSeq(a, 1, Len(a)) = a
  BY LenProperties, SubSeqFull DEF Paths, IsPrefix
<1>2. \A i \in (Len(a) + 1)..Len(p) : p[i] \in Turns
  BY <1>1, LenProperties DEF Paths
<1>3. w \in Paths
  BY <1>1, <1>2, SubSeqProperties DEF Paths
<1>4. SubSeq(p, 1, Len(a)) \o w = SubSeq(p, 1, Len(p))
  <2> DEFINE k == Len(a)
  <2>1. 1 \in 1..(Len(p) + 1) /\ k \in (1 - 1)..Len(p) /\ Len(p) \in k..Len(p)
    BY <1>1
  <2> HIDE DEF k
  <2>2. SubSeq(p, 1, k) \o SubSeq(p, k + 1, Len(p)) = SubSeq(p, 1, Len(p))
    BY <2>1, ConcatAdjacentSubSeq DEF Paths
  <2> QED
    BY <2>2 DEF k
<1>5. p = a \o w
  BY <1>1, <1>4, SubSeqFull DEF Paths, IsPrefix
<1> HIDE DEF w
<1> QED
  BY <1>3, <1>5, Way

\* One more turn, at the end of the way.
LEMMA WayStep ==
  ASSUME NEW a \in Paths, NEW w \in Paths, NEW e \in Turns
  PROVE  a \o Append(w, e) = Append(a \o w, e)
<1>1. Append(w, e) = w \o <<e>> /\ <<e>> \in Seq(Turns)
  BY AppendIsConcat DEF Paths
<1>2. a \o w \in Paths
  BY Way
<1>3. Append(a \o w, e) = (a \o w) \o <<e>>
  BY <1>2, AppendIsConcat DEF Paths
<1>4. (a \o w) \o <<e>> = a \o (w \o <<e>>)
  BY <1>1, ConcatAssociative DEF Paths
<1> QED
  BY <1>1, <1>3, <1>4

\* A prefix of a path is the path or a prefix of its parent.
LEMMA PrefixStep ==
  ASSUME NEW a \in Paths, NEW s \in Paths, NEW e \in Turns
  PROVE  IsPrefix(a, Append(s, e)) <=> a = Append(s, e) \/ IsPrefix(a, s)
<1> DEFINE p == Append(s, e)
<1>1. p \in Paths /\ Front(p) = s
  BY Step
<1> HIDE DEF p
<1>2. ASSUME IsPrefix(a, p), a # p
      PROVE  IsPrefix(a, s)
  <2>1. PICK w \in Paths : p = a \o w
    BY <1>1, <1>2, WayBelow
  <2>2. w # <<>>
    BY <1>2, <2>1, ConcatEmptySeq DEF Paths
  <2>3. PICK v \in Paths, f \in Turns : w = Append(v, f)
    BY <2>2, Unstep
  <2>4. a \o Append(v, f) = Append(a \o v, f) /\ a \o v \in Paths
    BY ONLY a \in Paths, <2>3, WayStep, Way
  <2>5. s = a \o v
    BY <1>1, <2>1, <2>3, <2>4, Step
  <2> QED
    BY <2>3, <2>5, Way
<1>3. ASSUME IsPrefix(a, s)
      PROVE  IsPrefix(a, p)
  <2>1. PICK w \in Paths : s = a \o w
    BY <1>3, WayBelow
  <2>2. a \o Append(w, e) = Append(a \o w, e) /\ Append(w, e) \in Paths
    BY ONLY a \in Paths, e \in Turns, <2>1, WayStep, Step
  <2>3. p = a \o Append(w, e)
    BY <2>1, <2>2 DEF p
  <2> QED
    BY <2>2, <2>3, Way
<1>4. IsPrefix(a, a)
  BY DEF IsPrefix
<1> QED
  BY <1>2, <1>3, <1>4 DEF p

\* What is below a child is below its parent.
LEMMA AboveStep ==
  ASSUME NEW s \in Paths, NEW e \in Turns, NEW p \in Paths, IsPrefix(Append(s, e), p)
  PROVE  IsPrefix(s, p) /\ s # p
<1>1. PICK w \in Paths : p = Append(s, e) \o w /\ Len(p) = Len(Append(s, e)) + Len(w)
  BY Step, WayBelow
<1>2. Append(s, e) = s \o <<e>> /\ <<e>> \in Seq(Turns)
  BY AppendIsConcat DEF Paths
<1>3. p = s \o (<<e>> \o w) /\ <<e>> \o w \in Paths
  BY <1>1, <1>2, ConcatAssociative, ConcatProperties DEF Paths
<1>4. Len(Append(s, e)) = Len(s) + 1 /\ Len(s) \in Nat /\ Len(w) \in Nat
  BY Step, LenProperties DEF Paths
<1>5. s # p
  BY <1>1, <1>4
<1> QED
  BY <1>3, <1>5, Way

\* Prefixes of prefixes.
LEMMA AboveAbove ==
  ASSUME NEW a \in Paths, NEW s \in Paths, NEW p \in Paths, IsPrefix(a, s), IsPrefix(s, p)
  PROVE  IsPrefix(a, p)
<1>1. PICK v \in Paths : s = a \o v
  BY WayBelow
<1>2. PICK w \in Paths : p = s \o w
  BY WayBelow
<1>3. p = a \o (v \o w) /\ v \o w \in Paths
  BY <1>1, <1>2, ConcatAssociative, ConcatProperties DEF Paths
<1> QED
  BY <1>3, Way

-----------------------------------------------------------------------------
(* Trees. *)

SplitNodes == [kind : {"split"}, direction : Directions, ratio : 0..Unit]

\* IsTree, with what the code has by its types: paths are sequences of turns, splits
\* have a direction and a ratio, and a tree ends somewhere and has finitely many panes.
Proper(t) ==
  /\ t = [p \in DOMAIN t |-> t[p]]
  /\ DOMAIN t \subseteq Paths
  /\ IsTree(t)
  /\ IsFiniteSet(Ids(t))
  /\ \E n \in Nat : \A p \in DOMAIN t : Len(p) <= n
  /\ \A p \in Splits(t) : t[p] \in SplitNodes

\* The same shape, said from the parent's side.
Branching(t) ==
  /\ <<>> \in DOMAIN t
  /\ \A s \in Paths, e \in Turns : Append(s, e) \in DOMAIN t <=> s \in Splits(t)
  /\ \A p, q \in Leaves(t) : t[p].id = t[q].id => p = q

\* IsTree in other words: the paths of a tree are the root's and those one turn below a split.
LEMMA Branches ==
  ASSUME NEW t, DOMAIN t \subseteq Paths
  PROVE  IsTree(t) <=> Branching(t)
<1>1. ASSUME IsTree(t), NEW s \in Paths, NEW e \in Turns
      PROVE  Append(s, e) \in DOMAIN t <=> s \in Splits(t)
  <2>1. Append(s, e) # <<>> /\ Front(Append(s, e)) = s
    BY Step
  <2>2. Append(s, e) \in DOMAIN t => s \in Splits(t)
    BY <1>1, <2>1 DEF IsTree
  <2>3. s \in Splits(t) => Append(s, 1) \in DOMAIN t /\ Append(s, 2) \in DOMAIN t
    BY <1>1 DEF IsTree
  <2>4. e = 1 \/ e = 2
    BY DEF Turns
  <2> QED
    BY <2>2, <2>3, <2>4
<1>2. ASSUME Branching(t)
      PROVE  IsTree(t)
  <2>1. ASSUME NEW p \in DOMAIN t \ {<<>>}
        PROVE  Front(p) \in Splits(t)
    <3>1. Front(p) \in Paths /\ Last(p) \in Turns /\ p = Append(Front(p), Last(p))
      BY Unstep
    <3> QED
      BY <1>2, <3>1 DEF Branching
  <2>2. ASSUME NEW p \in Splits(t)
        PROVE  {Append(p, 1), Append(p, 2)} \subseteq DOMAIN t
    <3>1. p \in Paths /\ 1 \in Turns /\ 2 \in Turns
      BY DEF Splits, Turns
    <3> QED
      BY <1>2, <3>1 DEF Branching
  <2> QED
    BY <1>2, <2>1, <2>2 DEF IsTree, Branching
<1> QED
  BY <1>1, <1>2 DEF IsTree, Branching

\* The path of a pane.
LEMMA Leaf ==
  ASSUME NEW t, IsTree(t)
  PROVE  /\ \A id \in Ids(t) : LeafOf(t, id) \in Leaves(t) /\ t[LeafOf(t, id)].id = id
         /\ \A p \in Leaves(t) : t[p].id \in Ids(t) /\ LeafOf(t, t[p].id) = p
<1>1. ASSUME NEW id \in Ids(t)
      PROVE  LeafOf(t, id) \in Leaves(t) /\ t[LeafOf(t, id)].id = id
  BY DEF LeafOf, Ids
<1>2. ASSUME NEW p \in Leaves(t)
      PROVE  t[p].id \in Ids(t) /\ LeafOf(t, t[p].id) = p
  <2>1. t[p].id \in Ids(t)
    BY DEF Ids
  <2> QED
    BY <1>1, <2>1 DEF IsTree
<1> QED
  BY <1>1, <1>2

\* Every path above a node of a tree is a split.
LEMMA AboveIsSplit ==
  ASSUME NEW t, DOMAIN t \subseteq Paths, IsTree(t),
         NEW a \in Paths, NEW p \in DOMAIN t, IsPrefix(a, p), a # p
  PROVE  a \in Splits(t)
<1> SUFFICES ASSUME a \notin Splits(t)
             PROVE  FALSE
  OBVIOUS
<1> DEFINE B == {q \in DOMAIN t : IsPrefix(a, q) /\ a # q}
           S == {Len(q) : q \in B}
<1>1. S \in SUBSET Nat /\ S # {}
  <2>1. \A q \in DOMAIN t : Len(q) \in Nat
    BY LenProperties DEF Paths
  <2>2. p \in B
    OBVIOUS
  <2> QED
    BY <2>1, <2>2
<1> HIDE DEF S
<1>2. PICK n \in S : \A m \in S : n <= m
  BY <1>1, LeastNumber
<1> USE DEF S
<1>3. PICK q \in B : n = Len(q)
  OBVIOUS
<1>4. q \in Paths /\ Len(a) \in Nat /\ Len(q) \in Nat
  BY LenProperties DEF Paths
<1>5. q # <<>>
  <2> SUFFICES ASSUME q = <<>>
               PROVE  FALSE
    OBVIOUS
  <2>1. Len(a) <= 0
    BY EmptySeq DEF IsPrefix
  <2> QED
    BY <1>4, <2>1, EmptySeq DEF Paths
<1>6. PICK s \in Paths, e \in Turns : q = Append(s, e)
  BY <1>4, <1>5, Unstep
<1>7. s \in Splits(t) /\ IsPrefix(a, s) /\ a # s
  <2>1. s \in Splits(t)
    BY <1>6, Branches DEF Branching
  <2> QED
    BY <1>6, <2>1, PrefixStep
<1>8. Len(s) \in S /\ Len(s) \in Nat /\ Len(q) = Len(s) + 1
  BY <1>6, <1>7, Step, LenProperties DEF Splits, Paths
<1> QED
  BY <1>2, <1>3, <1>4, <1>8

\* A set of nodes that holds a child of each of its splits holds a pane: the longest of its
\* paths cannot end in a split.
LEMMA Descend ==
  ASSUME NEW t, Proper(t), NEW B \in SUBSET DOMAIN t, B # {},
         \A p \in B \cap Splits(t) : \E e \in Turns : Append(p, e) \in B
  PROVE  \E p \in Leaves(t) : p \in B
<1> SUFFICES ASSUME \A p \in Leaves(t) : p \notin B
             PROVE  FALSE
  OBVIOUS
<1>1. PICK n \in Nat : \A p \in DOMAIN t : Len(p) <= n
  BY DEF Proper
<1>2. \A p \in DOMAIN t : p \in Paths /\ Len(p) \in Nat
  BY LenProperties DEF Paths, Proper
<1> DEFINE S == {n - Len(p) : p \in B}
<1>3. S \in SUBSET Nat /\ S # {}
  BY <1>1, <1>2
<1> HIDE DEF S
<1>4. PICK k \in S : \A m \in S : k <= m
  BY <1>3, LeastNumber
<1> USE DEF S
<1>5. PICK p \in B : k = n - Len(p)
  OBVIOUS
<1>6. p \in Splits(t) /\ p \in Paths
  BY <1>2 DEF Splits
<1>7. PICK e \in Turns : Append(p, e) \in B
  BY <1>6
<1>8. Len(Append(p, e)) = Len(p) + 1
  BY <1>6, Step
<1>9. n - (Len(p) + 1) \in S
  BY <1>7, <1>8
<1>10. n - Len(p) <= n - (Len(p) + 1)
  BY <1>4, <1>5, <1>9
<1>11. Len(p) \in Nat
  BY <1>2
<1> QED
  BY <1>10, <1>11

\* Below every node there is a pane.
LEMMA PaneBelow ==
  ASSUME NEW t, Proper(t), NEW a \in DOMAIN t
  PROVE  \E p \in Leaves(t) : IsPrefix(a, p)
<1> DEFINE B == {p \in DOMAIN t : IsPrefix(a, p)}
<1>1. a \in B /\ B \in SUBSET DOMAIN t
  BY DEF IsPrefix
<1>2. ASSUME NEW p \in B \cap Splits(t)
      PROVE  Append(p, 1) \in B /\ 1 \in Turns
  <2>1. a \in Paths /\ p \in Paths /\ Branching(t) /\ 1 \in Turns
    BY Branches DEF Proper, Turns
  <2>2. Append(p, 1) \in DOMAIN t /\ IsPrefix(a, Append(p, 1))
    BY <2>1, PrefixStep DEF Branching
  <2> QED
    BY <2>1, <2>2
<1> HIDE DEF B
<1>3. PICK p \in Leaves(t) : p \in B
  BY <1>1, <1>2, Descend
<1> QED
  BY <1>3 DEF B

-----------------------------------------------------------------------------
(* A split. *)

\* Splitting a pane gives a tree that has the new pane too.
LEMMA SplitTree ==
  ASSUME NEW t, Proper(t), NEW id \in Ids(t), NEW new, new \notin Ids(t),
         NEW dir \in Directions, NEW ratio \in 0..Unit
  PROVE  /\ Proper(ReplaceLeafWithSplit(t, id, dir, ratio, new))
         /\ Ids(ReplaceLeafWithSplit(t, id, dir, ratio, new)) = Ids(t) \cup {new}
<1> DEFINE p == LeafOf(t, id)
           a == Append(p, 1)
           b == Append(p, 2)
           u == ReplaceLeafWithSplit(t, id, dir, ratio, new)
<1>1. p \in Leaves(t) /\ t[p].id = id /\ t[p].kind = "pane" /\ p \in DOMAIN t /\ p \in Paths
  BY Leaf DEF Proper, Leaves
<1>2. Branching(t)
  BY Branches DEF Proper
<1>3. /\ a \in Paths /\ b \in Paths /\ a # p /\ b # p /\ a # b
      /\ a \notin DOMAIN t /\ b \notin DOMAIN t
      /\ Len(a) = Len(p) + 1 /\ Len(b) = Len(p) + 1
  <2>1. 1 \in Turns /\ 2 \in Turns /\ p \notin Splits(t)
    BY <1>1 DEF Turns, Splits
  <2> QED
    BY <1>1, <1>2, <2>1, Step DEF Branching
<1>4. u = [q \in DOMAIN t \cup {a, b} |->
             CASE q = p -> SplitNode(dir, ratio)
               [] q = a -> t[p]
               [] q = b -> PaneNode(new)
               [] OTHER -> t[q]]
  BY DEF ReplaceLeafWithSplit
<1> HIDE DEF u, p, a, b
<1>5. /\ DOMAIN u = DOMAIN t \cup {a, b} /\ u = [q \in DOMAIN u |-> u[q]]
      /\ u[p] = SplitNode(dir, ratio) /\ u[a] = t[p] /\ u[b] = PaneNode(new)
      /\ \A q \in DOMAIN t \ {p} : u[q] = t[q]
  BY <1>1, <1>3, <1>4
<1>6. /\ u[p].kind = "split" /\ u[p] \in SplitNodes
      /\ u[a].kind = "pane" /\ u[a].id = id /\ u[b].kind = "pane" /\ u[b].id = new
  BY <1>1, <1>5 DEF SplitNode, PaneNode, SplitNodes
<1>7. Leaves(u) = (Leaves(t) \ {p}) \cup {a, b} /\ Splits(u) = Splits(t) \cup {p}
  BY <1>1, <1>3, <1>5, <1>6 DEF Leaves, Splits
<1>8. \A q \in Leaves(t) \ {p} : u[q] = t[q] /\ u[q].id \in Ids(t) /\ u[q].id # id
  BY <1>1, <1>2, <1>5 DEF Leaves, Ids, Branching
<1>9. Ids(u) = Ids(t) \cup {new}
  <2>1. ASSUME NEW i \in Ids(t)
        PROVE  i \in Ids(u)
    <3>1. PICK q \in Leaves(t) : t[q].id = i
      BY DEF Ids
    <3>2. CASE q = p
      BY <1>1, <1>6, <1>7, <3>1, <3>2 DEF Ids
    <3>3. CASE q # p
      BY <1>7, <1>8, <3>1, <3>3 DEF Ids
    <3> QED
      BY <3>2, <3>3
  <2>2. new \in Ids(u)
    BY <1>6, <1>7 DEF Ids
  <2>3. ASSUME NEW i \in Ids(u)
        PROVE  i \in Ids(t) \cup {new}
    <3>1. PICK q \in Leaves(u) : u[q].id = i
      BY DEF Ids
    <3> QED
      BY <1>6, <1>7, <1>8, <3>1
  <2> QED
    BY <2>1, <2>2, <2>3
<1>10. Branching(u)
  <2>1. ASSUME NEW s \in Paths, NEW e \in Turns
        PROVE  Append(s, e) \in DOMAIN u <=> s \in Splits(u)
    <3>1. Append(s, e) \in DOMAIN t <=> s \in Splits(t)
      BY <1>2 DEF Branching
    <3>2. Append(s, e) \in {a, b} <=> s = p
      <4>1. (e = 1 \/ e = 2) /\ 1 \in Turns /\ 2 \in Turns
        BY DEF Turns
      <4>2. s = p => Append(s, e) \in {a, b}
        BY <4>1 DEF a, b
      <4>3. Front(Append(s, e)) = s /\ Front(a) = p /\ Front(b) = p
        BY <1>1, <4>1, Step DEF a, b
      <4> QED
        BY <4>2, <4>3
    <3> QED
      BY <1>5, <1>7, <3>1, <3>2
  <2>2. \A q, r \in Leaves(u) : u[q].id = u[r].id => q = r
    BY <1>2, <1>6, <1>7, <1>8 DEF Branching
  <2> QED
    BY <1>2, <1>5, <2>1, <2>2 DEF Branching
<1>11. DOMAIN u \subseteq Paths
  BY <1>3, <1>5 DEF Proper
<1>12. IsFiniteSet(Ids(u))
  BY <1>9, FS_AddElement DEF Proper
<1>13. \E n \in Nat : \A q \in DOMAIN u : Len(q) <= n
  <2>1. PICK n \in Nat : \A q \in DOMAIN t : Len(q) <= n
    BY DEF Proper
  <2>2. \A q \in DOMAIN t : Len(q) \in Nat
    BY LenProperties DEF Paths, Proper
  <2>3. n + 1 \in Nat /\ \A q \in DOMAIN u : Len(q) <= n + 1
    BY <1>1, <1>3, <1>5, <2>1, <2>2
  <2> QED
    BY <2>3
<1>14. \A q \in Splits(u) : u[q] \in SplitNodes
  <2>1. \A q \in Splits(t) : q \in DOMAIN t \ {p} /\ t[q] \in SplitNodes
    BY <1>1 DEF Proper, Splits
  <2> QED
    BY <1>5, <1>6, <1>7, <2>1
<1> QED
  BY <1>5, <1>9, <1>10, <1>11, <1>12, <1>13, <1>14, Branches DEF Proper, u

-----------------------------------------------------------------------------
(* A close. *)

\* Below a path is one of its two children.
LEMMA NextTurn ==
  ASSUME NEW a \in Paths, NEW p \in Paths, IsPrefix(a, p), a # p
  PROVE  \E e \in Turns : IsPrefix(Append(a, e), p)
<1>1. PICK v \in Paths : p = a \o v
  BY WayBelow
<1>2. v # <<>>
  BY <1>1, ConcatEmptySeq DEF Paths
<1>3. Len(v) \in Nat /\ Len(v) > 0
  BY <1>2, EmptySeq, LenProperties DEF Paths
<1> DEFINE e == v[1]
           w == SubSeq(v, 2, Len(v))
<1>4. e \in Turns /\ w \in Paths
  <2>1. \A i \in 1..Len(v) : v[i] \in Turns
    BY LenProperties DEF Paths
  <2>2. \A i \in 2..Len(v) : v[i] \in Turns
    BY <1>3, <2>1
  <2> QED
    BY <1>3, <2>1, <2>2, SubSeqProperties DEF Paths
<1>5. v = <<e>> \o w
  <2>1. SubSeq(v, 1, Len(v)) = <<v[1]>> \o SubSeq(v, 1 + 1, Len(v))
    BY <1>3, SubSeqRecursiveFirst DEF Paths
  <2> QED
    BY <2>1, SubSeqFull DEF Paths
<1> HIDE DEF e, w
<1>6. Append(a, e) = a \o <<e>> /\ <<e>> \in Seq(Turns)
  BY <1>4, AppendIsConcat DEF Paths
<1>7. p = Append(a, e) \o w
  BY <1>1, <1>4, <1>5, <1>6, ConcatAssociative DEF Paths
<1> QED
  BY <1>4, <1>7, Step, Way

\* What a close leaves: the nodes that are not below the closed pane's parent stay, and
\* the sibling's subtree moves up to the parent.
LEMMA CloseShape ==
  ASSUME NEW t, Proper(t), NEW id \in Ids(t), NEW parent \in Paths, NEW x \in Turns,
         LeafOf(t, id) = Append(parent, x)
  PROVE  LET u == CloseLeaf(t, id)
             sibling == Append(parent, 3 - x)
             kept == {p \in DOMAIN t : ~IsPrefix(parent, p)}
             W == {w \in Paths : sibling \o w \in DOMAIN t}
         IN  /\ DOMAIN u = kept \cup {parent \o w : w \in W}
             /\ \A p \in kept : u[p] = t[p]
             /\ \A w \in W : u[parent \o w] = t[sibling \o w]
<1> DEFINE leaf == LeafOf(t, id)
           u == CloseLeaf(t, id)
           y == 3 - x
           sibling == Append(parent, y)
           kept == {p \in DOMAIN t : ~IsPrefix(parent, p)}
           W == {w \in Paths : sibling \o w \in DOMAIN t}
           From(p) == sibling \o SubSeq(p, Len(parent) + 1, Len(p))
           To(p) == parent \o SubSeq(p, Len(sibling) + 1, Len(p))
           under == {r \in DOMAIN t : IsPrefix(sibling, r)}
<1>1. Front(leaf) = parent /\ Last(leaf) = x /\ y \in Turns /\ sibling \in Paths
  BY Step DEF Turns
<1>2. DOMAIN t \subseteq Paths
  BY DEF Proper
<1> HIDE DEF leaf, y
<1>3. u = [p \in kept \cup {To(q) : q \in under} |-> IF p \in kept THEN t[p] ELSE t[From(p)]]
  BY <1>1 DEF CloseLeaf, leaf, y
<1> HIDE DEF sibling, u
<1>4. ASSUME NEW w \in W
      PROVE  /\ sibling \o w \in under /\ To(sibling \o w) = parent \o w
             /\ From(parent \o w) = sibling \o w /\ parent \o w \notin kept
  <2>1. w \in Paths
    OBVIOUS
  <2>2. /\ SubSeq(parent \o w, Len(parent) + 1, Len(parent \o w)) = w
        /\ SubSeq(sibling \o w, Len(sibling) + 1, Len(sibling \o w)) = w
        /\ IsPrefix(parent, parent \o w) /\ IsPrefix(sibling, sibling \o w)
    BY <1>1, <2>1, Way
  <2> QED
    BY <2>2
<1>5. ASSUME NEW q \in under
      PROVE  \E w \in W : q = sibling \o w
  <2>1. q \in Paths /\ IsPrefix(sibling, q)
    BY <1>2
  <2>2. PICK w \in Paths : q = sibling \o w
    BY <1>1, <2>1, WayBelow
  <2> QED
    BY <2>2
<1> HIDE DEF From, To, under, kept, W
<1>6. {To(q) : q \in under} = {parent \o w : w \in W}
  <2>1. ASSUME NEW q \in under
        PROVE  To(q) \in {parent \o w : w \in W}
    <3>1. PICK w \in W : q = sibling \o w
      BY <1>5
    <3> QED
      BY <1>4, <3>1
  <2>2. ASSUME NEW w \in W
        PROVE  parent \o w \in {To(q) : q \in under}
    BY <1>4
  <2> QED
    BY <2>1, <2>2
<1>7. /\ DOMAIN u = kept \cup {parent \o w : w \in W}
      /\ \A p \in kept : u[p] = t[p]
      /\ \A w \in W : u[parent \o w] = t[sibling \o w]
  BY <1>3, <1>4, <1>6
<1> QED
  BY <1>7 DEF u, sibling, y, kept, W

\* Closing a pane beside others gives a tree of the others.
LEMMA CloseTree ==
  ASSUME NEW t, Proper(t), NEW id \in Ids(t), LeafOf(t, id) # <<>>
  PROVE  /\ Proper(CloseLeaf(t, id))
         /\ Ids(CloseLeaf(t, id)) = Ids(t) \ {id}
         /\ Ids(CloseLeaf(t, id)) # {}
<1> DEFINE leaf == LeafOf(t, id)
           u == CloseLeaf(t, id)
<1>1. leaf \in Leaves(t) /\ leaf \notin Splits(t) /\ t[leaf].id = id /\ leaf \in DOMAIN t /\ leaf \in Paths
  BY Leaf DEF Proper, Leaves, Splits
<1>2. PICK parent \in Paths, x \in Turns : leaf = Append(parent, x)
  BY <1>1, Unstep
<1> DEFINE y == 3 - x
           sibling == Append(parent, y)
           kept == {p \in DOMAIN t : ~IsPrefix(parent, p)}
           W == {w \in Paths : sibling \o w \in DOMAIN t}
<1>3. Front(leaf) = parent /\ Last(leaf) = x /\ y \in Turns /\ y # x
  BY <1>2, Step DEF Turns
<1>4. Branching(t) /\ DOMAIN t \subseteq Paths
  BY Branches DEF Proper
<1>5. parent \in Splits(t) /\ parent \in DOMAIN t /\ sibling \in DOMAIN t /\ sibling \in Paths
  BY <1>1, <1>2, <1>3, <1>4, Step DEF Branching, Splits
<1>6. Len(parent) \in Nat /\ Len(sibling) = Len(parent) + 1 /\ sibling # leaf /\ ~IsPrefix(sibling, leaf)
  <2>1. Len(parent) \in Nat /\ Len(sibling) = Len(parent) + 1
    BY <1>3, Step, LenProperties DEF Paths
  <2>2. sibling # leaf
    BY <1>2, <1>3, Step
  <2>3. ~IsPrefix(sibling, parent)
    BY <2>1 DEF IsPrefix
  <2>4. ~IsPrefix(sibling, Append(parent, x))
    <3> HIDE DEF leaf, sibling
    <3> QED
      BY <1>2, <1>5, <2>2, <2>3, PrefixStep
  <2> QED
    BY <1>2, <2>1, <2>2, <2>4
<1>7. /\ DOMAIN u = kept \cup {parent \o w : w \in W}
      /\ \A p \in kept : u[p] = t[p]
      /\ \A w \in W : u[parent \o w] = t[sibling \o w]
  BY <1>2, CloseShape
<1> HIDE DEF leaf, y, sibling, u
<1>8. ASSUME NEW w \in W
      PROVE  /\ IsPrefix(sibling, sibling \o w) /\ IsPrefix(parent, parent \o w)
             /\ parent \o w \in Paths /\ parent \o w \notin kept
             /\ Len(sibling \o w) = Len(parent \o w) + 1 /\ Len(parent \o w) \in Nat
  <2>1. w \in Paths /\ Len(w) \in Nat
    BY LenProperties DEF Paths
  <2>2. /\ IsPrefix(parent, parent \o w) /\ IsPrefix(sibling, sibling \o w)
        /\ parent \o w \in Paths
        /\ Len(sibling \o w) = Len(sibling) + Len(w) /\ Len(parent \o w) = Len(parent) + Len(w)
    BY <1>5, <2>1, Way
  <2>3. parent \o w \notin kept
    BY <2>2
  <2>4. Len(sibling \o w) = Len(parent \o w) + 1 /\ Len(parent \o w) \in Nat
    BY <1>6, <2>1, <2>2
  <2> QED
    BY <2>2, <2>3, <2>4
<1> HIDE DEF kept, W
<1>12. \A p \in DOMAIN u : p \in kept \/ \E w \in W : p = parent \o w
  BY <1>7
<1>13. /\ \A p \in kept : /\ p \in DOMAIN t /\ p \in Paths /\ p \in DOMAIN u
                          /\ p \in Splits(u) <=> p \in Splits(t)
                          /\ p \in Leaves(u) <=> p \in Leaves(t)
       /\ \A w \in W : /\ w \in Paths /\ sibling \o w \in DOMAIN t /\ parent \o w \in DOMAIN u
                       /\ parent \o w \in Splits(u) <=> sibling \o w \in Splits(t)
                       /\ parent \o w \in Leaves(u) <=> sibling \o w \in Leaves(t)
  BY <1>4, <1>7 DEF Splits, Leaves, kept, W
<1>14. Ids(u) = Ids(t) \ {id}
  <2>1. ASSUME NEW i \in Ids(u)
        PROVE  i \in Ids(t) \ {id}
    <3>1. PICK p \in Leaves(u) : u[p].id = i
      BY DEF Ids
    <3>2. CASE p \in kept
      <4>1. p \in Leaves(t) /\ t[p].id = i
        BY <1>7, <1>13, <3>1, <3>2
      <4>2. IsPrefix(parent, leaf)
        <5>1. IsPrefix(parent, parent)
          BY DEF IsPrefix
        <5> QED
          BY <1>2, <5>1, PrefixStep
      <4>3. p # leaf
        BY <3>2, <4>2 DEF kept
      <4> QED
        BY <1>1, <1>4, <4>1, <4>3 DEF Ids, Branching
    <3>3. CASE p \notin kept
      <4>1. PICK w \in W : p = parent \o w
        BY <1>12, <3>1, <3>3 DEF Leaves
      <4>2. sibling \o w \in Leaves(t) /\ t[sibling \o w].id = i
        BY <1>7, <1>13, <3>1, <4>1
      <4>3. sibling \o w # leaf
        BY <1>6, <1>8
      <4> QED
        BY <1>1, <1>4, <4>2, <4>3 DEF Ids, Branching
    <3> QED
      BY <3>2, <3>3
  <2>2. ASSUME NEW i \in Ids(t), i # id
        PROVE  i \in Ids(u)
    <3>1. PICK q \in Leaves(t) : t[q].id = i
      BY DEF Ids
    <3>2. q # leaf /\ q \in DOMAIN t /\ q \in Paths
      BY <1>1, <1>4, <2>2, <3>1 DEF Leaves
    <3>3. CASE q \in kept
      BY <1>7, <1>13, <3>1, <3>3 DEF Ids
    <3>4. CASE q \notin kept
      <4>1. IsPrefix(parent, q) /\ parent # q
        BY <1>5, <3>1, <3>2, <3>4 DEF kept, Splits
      <4>2. PICK e \in Turns : IsPrefix(Append(parent, e), q)
        BY <3>2, <4>1, NextTurn
      <4>3. e # x
        BY <1>1, <1>2, <1>4, <3>2, <4>2, AboveIsSplit DEF Proper
      <4>4. e = y
        BY <4>3 DEF y, Turns
      <4>5. IsPrefix(sibling, q)
        BY <4>2, <4>4 DEF sibling
      <4>6. PICK w \in Paths : q = sibling \o w
        BY <1>5, <3>2, <4>5, WayBelow
      <4>7. w \in W
        BY <3>2, <4>6 DEF W
      <4> QED
        BY <1>7, <1>13, <3>1, <4>6, <4>7 DEF Ids
    <3> QED
      BY <3>3, <3>4
  <2> QED
    BY <2>1, <2>2
<1>15. Ids(u) # {}
  <2>1. PICK p \in Leaves(t) : IsPrefix(sibling, p)
    BY <1>5, PaneBelow
  <2>2. p # leaf
    BY <1>6, <2>1
  <2>3. t[p].id \in Ids(t) /\ t[p].id # id
    BY <1>1, <1>4, <2>2 DEF Ids, Branching
  <2> QED
    BY <1>14, <2>3
<1>16. Branching(u)
  <2>1. <<>> \in DOMAIN u
    <3>1. CASE parent = <<>>
      <4>1. sibling \o <<>> = sibling /\ parent \o <<>> = parent /\ <<>> \in Paths
        BY <1>5, ConcatEmptySeq, EmptySeq DEF Paths
      <4> QED
        BY <1>5, <1>13, <3>1, <4>1 DEF W
    <3>2. CASE parent # <<>>
      <4>1. Len(parent) > 0 /\ Len(<<>>) = 0
        BY <1>6, <3>2, EmptySeq DEF Paths
      <4>2. ~IsPrefix(parent, <<>>)
        BY <1>6, <4>1 DEF IsPrefix
      <4> QED
        BY <1>4, <1>13, <4>2 DEF kept, Branching
    <3> QED
      BY <3>1, <3>2
  <2>2. ASSUME NEW s \in Paths, NEW e \in Turns
        PROVE  Append(s, e) \in DOMAIN u <=> s \in Splits(u)
    <3>1. Append(s, e) \in Paths /\ (Append(s, e) \in DOMAIN t <=> s \in Splits(t))
      BY <1>4, Step DEF Branching
    <3>2. CASE ~IsPrefix(parent, Append(s, e))
      <4>1. ~IsPrefix(parent, s)
        BY <3>2, PrefixStep
      <4>2. Append(s, e) \in DOMAIN u <=> Append(s, e) \in DOMAIN t
        <5>1. \A w \in W : Append(s, e) # parent \o w
          BY <1>13, <3>2, Way
        <5> QED
          BY <1>7, <3>2, <5>1 DEF kept
      <4>3. s \in Splits(u) <=> s \in Splits(t)
        <5>1. \A w \in W : s # parent \o w
          BY <1>13, <4>1, Way
        <5>2. s \in DOMAIN u <=> s \in DOMAIN t
          BY <1>7, <4>1, <5>1 DEF kept
        <5> QED
          BY <1>13, <4>1, <5>2 DEF kept, Splits
      <4> QED
        BY <3>1, <4>2, <4>3
    <3>3. CASE Append(s, e) = parent
      <4>1. s \in kept
        <5>1. Len(parent) = Len(s) + 1 /\ Len(s) \in Nat
          BY <3>3, Step, LenProperties DEF Paths
        <5>2. ~IsPrefix(parent, s)
          BY <5>1 DEF IsPrefix
        <5> QED
          BY <1>5, <3>1, <3>3, <5>2 DEF kept, Splits
      <4>2. parent \in DOMAIN u
        <5>1. sibling \o <<>> = sibling /\ parent \o <<>> = parent /\ <<>> \in Paths
          BY <1>5, ConcatEmptySeq, EmptySeq DEF Paths
        <5>2. <<>> \in W
          BY <1>5, <5>1 DEF W
        <5> QED
          BY <1>13, <5>1, <5>2
      <4> QED
        BY <1>5, <1>13, <3>1, <3>3, <4>1, <4>2
    <3>4. CASE IsPrefix(parent, s)
      <4>1. PICK w \in Paths : s = parent \o w
        BY <3>4, WayBelow
      <4>2. /\ Append(s, e) = parent \o Append(w, e) /\ Append(w, e) \in Paths
            /\ sibling \o Append(w, e) = Append(sibling \o w, e) /\ sibling \o w \in Paths
        <5>1. Append(w, e) \in Paths /\ sibling \o w \in Paths
          BY <1>5, Step, Way
        <5>2. sibling \o Append(w, e) = Append(sibling \o w, e)
          BY <1>5, WayStep
        <5>3. parent \o Append(w, e) = Append(parent \o w, e)
          BY WayStep
        <5> QED
          BY <4>1, <5>1, <5>2, <5>3
      <4>3. ASSUME NEW v \in Paths
            PROVE  parent \o v \in DOMAIN u <=> v \in W
        <5>1. parent \o v \notin kept
          BY Way DEF kept
        <5>2. ASSUME NEW w1 \in W, parent \o v = parent \o w1
              PROVE  v = w1
          <6>1. w1 \in Paths
            BY <1>13
          <6>2. SubSeq(parent \o v, Len(parent) + 1, Len(parent \o v)) = v
            BY Way
          <6>3. SubSeq(parent \o w1, Len(parent) + 1, Len(parent \o w1)) = w1
            BY <6>1, Way
          <6> QED
            BY <5>2, <6>2, <6>3
        <5> QED
          BY <1>7, <5>1, <5>2
      <4>4. Append(s, e) \in DOMAIN u <=> Append(sibling \o w, e) \in DOMAIN t
        BY <4>2, <4>3 DEF W
      <4>5. s \in Splits(u) <=> sibling \o w \in Splits(t)
        BY <1>13, <4>1, <4>3 DEF Splits, W
      <4>6. Append(sibling \o w, e) \in DOMAIN t <=> sibling \o w \in Splits(t)
        BY <1>4, <4>2 DEF Branching
      <4> QED
        BY <4>4, <4>5, <4>6
    <3> QED
      BY <3>2, <3>3, <3>4, PrefixStep
  <2>3. ASSUME NEW p \in Leaves(u), NEW q \in Leaves(u), u[p].id = u[q].id
        PROVE  p = q
    <3>1. (p \in kept \/ \E w \in W : p = parent \o w) /\ (q \in kept \/ \E w \in W : q = parent \o w)
      BY <1>12 DEF Leaves
    <3>2. CASE p \in kept /\ q \in kept
      BY <1>4, <1>7, <1>13, <2>3, <3>2 DEF Branching
    <3>3. ASSUME NEW r \in kept, NEW w \in W, r \in Leaves(u), parent \o w \in Leaves(u), u[r].id = u[parent \o w].id
          PROVE  FALSE
      <4>1. r = sibling \o w
        BY <1>4, <1>7, <1>13, <3>3 DEF Branching
      <4>2. IsPrefix(parent, sibling)
        <5>1. IsPrefix(parent, parent)
          BY DEF IsPrefix
        <5> QED
          BY <1>3, <5>1, PrefixStep DEF sibling
      <4>3. IsPrefix(parent, sibling \o w)
        <5>1. PICK v \in Paths : sibling = parent \o v
          BY <1>5, <4>2, WayBelow
        <5>2. parent \in Paths /\ v \in Paths /\ w \in Paths
          BY <1>13, <5>1
        <5>3. v \o w \in Paths
          BY ONLY <5>2, Way
        <5>4. (parent \o v) \o w = parent \o (v \o w)
          BY ONLY <5>2, ConcatAssociative DEF Paths
        <5>5. IsPrefix(parent, parent \o (v \o w))
          BY ONLY <5>2, <5>3, Way
        <5> QED
          BY <5>1, <5>4, <5>5
      <4> QED
        BY <4>1, <4>3 DEF kept
    <3>4. ASSUME NEW v \in W, NEW w \in W, p = parent \o v, q = parent \o w
          PROVE  p = q
      <4>1. sibling \o v = sibling \o w
        <5>1. /\ sibling \o v \in Leaves(t) /\ u[p] = t[sibling \o v]
              /\ sibling \o w \in Leaves(t) /\ u[q] = t[sibling \o w]
          BY <1>7, <1>13, <3>4
        <5> QED
          BY <1>4, <2>3, <5>1 DEF Branching
      <4>2. v = w
        BY <1>5, <1>13, <4>1, Way
      <4> QED
        BY <3>4, <4>2
    <3> QED
      BY <2>3, <3>1, <3>2, <3>3, <3>4
  <2> QED
    BY <2>1, <2>2, <2>3 DEF Branching
<1>17. DOMAIN u \subseteq Paths
  BY <1>8, <1>12, <1>13
<1>18. IsFiniteSet(Ids(u))
  BY <1>14, FS_RemoveElement DEF Proper
<1>19. \E n \in Nat : \A p \in DOMAIN u : Len(p) <= n
  <2>1. PICK n \in Nat : \A p \in DOMAIN t : Len(p) <= n
    BY DEF Proper
  <2>2. ASSUME NEW p \in DOMAIN u
        PROVE  Len(p) <= n
    <3>1. CASE p \in kept
      BY <1>13, <2>1, <3>1
    <3>2. CASE p \notin kept
      <4>1. PICK w \in W : p = parent \o w
        BY <1>12, <3>2
      <4>2. Len(sibling \o w) <= n /\ Len(sibling \o w) = Len(p) + 1 /\ Len(p) \in Nat
        BY <1>8, <1>13, <2>1, <4>1
      <4> QED
        BY <4>2
    <3> QED
      BY <3>1, <3>2
  <2> QED
    BY <2>2
<1>20. ASSUME NEW p \in Splits(u)
       PROVE  u[p] \in SplitNodes
  <2>1. p \in DOMAIN u
    BY DEF Splits
  <2> QED
    BY <1>7, <1>12, <1>13, <2>1 DEF Proper
<1>21. u = [p \in DOMAIN u |-> u[p]]
  BY DEF u, CloseLeaf
<1> QED
  BY <1>14, <1>15, <1>16, <1>17, <1>18, <1>19, <1>20, <1>21, Branches DEF Proper, u

\* Closing the pane a split made gives the tree there was.
LEMMA CloseAfterSplit ==
  ASSUME NEW t, Proper(t), NEW id \in Ids(t), NEW new, new \notin Ids(t),
         NEW dir \in Directions, NEW ratio \in 0..Unit
  PROVE  CloseLeaf(ReplaceLeafWithSplit(t, id, dir, ratio, new), new) = t
<1> DEFINE p == LeafOf(t, id)
           a == Append(p, 1)
           b == Append(p, 2)
           u == ReplaceLeafWithSplit(t, id, dir, ratio, new)
<1>1. /\ p \in Leaves(t) /\ p \notin Splits(t) /\ p \in DOMAIN t /\ p \in Paths
      /\ DOMAIN t \subseteq Paths /\ IsTree(t) /\ Branching(t) /\ t = [q \in DOMAIN t |-> t[q]]
  BY Leaf, Branches DEF Proper, Leaves, Splits
<1>2. 1 \in Turns /\ 2 \in Turns
  BY DEF Turns
<1>3. /\ a \in Paths /\ b \in Paths /\ a # p /\ b # p /\ a # b
      /\ a \notin DOMAIN t /\ b \notin DOMAIN t
      /\ Front(b) = p /\ Last(b) = 2 /\ Len(a) = Len(p) + 1
  <2>1. a \notin DOMAIN t /\ b \notin DOMAIN t
    BY <1>1, <1>2 DEF Branching
  <2> QED
    BY <1>1, <1>2, <2>1, Step
<1>4. u = [q \in DOMAIN t \cup {a, b} |->
             CASE q = p -> SplitNode(dir, ratio)
               [] q = a -> t[p]
               [] q = b -> PaneNode(new)
               [] OTHER -> t[q]]
  BY DEF ReplaceLeafWithSplit
<1>5. Proper(u)
  BY SplitTree
<1> HIDE DEF u, p
<1>6. /\ DOMAIN u = DOMAIN t \cup {a, b} /\ u[a] = t[p] /\ u[b] = PaneNode(new)
      /\ \A q \in DOMAIN t \ {p} : u[q] = t[q]
  <2> HIDE DEF a, b
  <2> QED
    BY <1>1, <1>3, <1>4
<1>7. LeafOf(u, new) = b
  <2>1. b \in Leaves(u) /\ u[b].id = new
    BY <1>6 DEF Leaves, PaneNode
  <2> HIDE DEF b
  <2> QED
    BY <1>5, <2>1, Leaf DEF Proper
\* Below the pane that was split is what the split has made, and nothing else.
<1>8. \A q \in DOMAIN u : IsPrefix(p, q) <=> q \in {p, a, b}
  <2>1. ASSUME NEW q \in DOMAIN t, IsPrefix(p, q)
        PROVE  q = p
    BY <1>1, <2>1, AboveIsSplit
  <2>2. IsPrefix(p, p)
    BY DEF IsPrefix
  <2>3. IsPrefix(p, a) /\ IsPrefix(p, b)
    BY <1>1, <1>2, <2>2, PrefixStep
  <2> QED
    BY <1>6, <2>1, <2>2, <2>3
<1>9. \A q \in DOMAIN u : IsPrefix(a, q) <=> q = a
  <2>1. ~IsPrefix(a, p)
    BY <1>1, <1>3, LenProperties DEF Paths, IsPrefix
  <2>2. ~IsPrefix(a, b)
    BY <1>1, <1>2, <1>3, <2>1, PrefixStep
  <2>3. IsPrefix(a, a)
    BY DEF IsPrefix
  <2>4. ASSUME NEW q \in DOMAIN u, IsPrefix(a, q)
        PROVE  IsPrefix(p, q)
    <3>1. q \in Paths
      BY <1>5 DEF Proper
    <3> QED
      BY <1>1, <1>2, <2>4, <3>1, AboveStep
  <2> QED
    BY <1>8, <2>1, <2>2, <2>3, <2>4
<1> DEFINE kept == {q \in DOMAIN u : ~IsPrefix(p, q)}
           under == {q \in DOMAIN u : IsPrefix(a, q)}
           From(q) == a \o SubSeq(q, Len(p) + 1, Len(q))
           To(q) == p \o SubSeq(q, Len(a) + 1, Len(q))
           v == CloseLeaf(u, new)
<1>10. Append(p, 3 - 2) = a
  OBVIOUS
<1>11. v = [q \in kept \cup {To(r) : r \in under} |-> IF q \in kept THEN u[q] ELSE u[From(q)]]
  BY <1>3, <1>7, <1>10 DEF CloseLeaf
<1> HIDE DEF a, b, v
<1>12. kept = DOMAIN t \ {p} /\ under = {a}
  BY <1>1, <1>3, <1>6, <1>8, <1>9
<1>13. To(a) = p /\ From(p) = a
  <2>1. Len(p) \in Nat /\ Len(a) \in Nat
    BY <1>1, <1>3, LenProperties DEF Paths
  <2>2. SubSeq(a, Len(a) + 1, Len(a)) = <<>> /\ SubSeq(p, Len(p) + 1, Len(p)) = <<>>
    BY <2>1, SubSeqEmpty
  <2> QED
    BY <1>1, <1>3, <2>2, ConcatEmptySeq DEF Paths
<1> HIDE DEF kept, under, From, To
<1>14. DOMAIN v = DOMAIN t /\ v = [q \in DOMAIN v |-> v[q]]
  BY <1>1, <1>11, <1>12, <1>13
<1>15. \A q \in DOMAIN t : v[q] = t[q]
  BY <1>1, <1>6, <1>11, <1>12, <1>13
<1> QED
  BY <1>1, <1>14, <1>15 DEF v, u

-----------------------------------------------------------------------------
(* The order of the leaves. *)

\* The order of leaves from left to right is transitive.
LEMMA BeforeIsTransitive ==
  ASSUME NEW p \in Paths, NEW q \in Paths, NEW r \in Paths, Before(p, q), Before(q, r)
  PROVE  Before(p, r)
<1>1. /\ Len(p) \in Nat /\ Len(q) \in Nat /\ Len(r) \in Nat
      /\ DOMAIN p = 1..Len(p) /\ DOMAIN q = 1..Len(q) /\ DOMAIN r = 1..Len(r)
      /\ \A k \in 1..Len(p) : p[k] \in Int
      /\ \A k \in 1..Len(q) : q[k] \in Int
      /\ \A k \in 1..Len(r) : r[k] \in Int
  <2>1. /\ Len(p) \in Nat /\ p \in [1..Len(p) -> Turns]
        /\ Len(q) \in Nat /\ q \in [1..Len(q) -> Turns]
        /\ Len(r) \in Nat /\ r \in [1..Len(r) -> Turns]
    BY LenProperties DEF Paths
  <2>2. Turns \subseteq Int
    BY DEF Turns
  <2> QED
    BY ONLY <2>1, <2>2
<1>2. PICK i \in DOMAIN p \cap DOMAIN q : p[i] < q[i] /\ \A k \in 1..(i - 1) : p[k] = q[k]
  BY DEF Before
<1>3. PICK j \in DOMAIN q \cap DOMAIN r : q[j] < r[j] /\ \A k \in 1..(j - 1) : q[k] = r[k]
  BY DEF Before
<1>4. i \in Nat /\ j \in Nat /\ i \in 1..Len(p) /\ i \in 1..Len(q) /\ j \in 1..Len(q) /\ j \in 1..Len(r)
  BY <1>1
<1>5. CASE i <= j
  <2>1. i \in DOMAIN p \cap DOMAIN r
    BY <1>1, <1>4, <1>5
  <2>2. p[i] < r[i]
    <3>1. CASE i = j
      BY <1>1, <1>2, <1>3, <1>4, <3>1
    <3>2. CASE i < j
      <4>1. q[i] = r[i]
        BY <1>3, <1>4, <3>2
      <4> QED
        BY <1>2, <4>1
    <3> QED
      BY <1>4, <1>5, <3>1, <3>2
  <2>3. \A k \in 1..(i - 1) : p[k] = r[k]
    BY <1>2, <1>3, <1>4, <1>5
  <2> QED
    BY <2>1, <2>2, <2>3 DEF Before
<1>6. CASE j < i
  <2>1. j \in DOMAIN p \cap DOMAIN r
    BY <1>1, <1>4, <1>6
  <2>2. p[j] = q[j]
    BY <1>2, <1>4, <1>6
  <2>3. \A k \in 1..(j - 1) : p[k] = r[k]
    BY <1>2, <1>3, <1>4, <1>6
  <2> QED
    BY <1>3, <2>1, <2>2, <2>3 DEF Before
<1> QED
  BY <1>4, <1>5, <1>6

\* Two panes of a tree are one before the other: neither path leads to the other.
LEMMA BeforeIsTotal ==
  ASSUME NEW t, Proper(t), NEW p \in Leaves(t), NEW q \in Leaves(t), p # q
  PROVE  Before(p, q) \/ Before(q, p)
<1>1. p \in DOMAIN t /\ q \in DOMAIN t /\ p \in Paths /\ q \in Paths /\ p \notin Splits(t) /\ q \notin Splits(t)
  BY DEF Proper, Leaves, Splits
<1>2. /\ Len(p) \in Nat /\ Len(q) \in Nat
      /\ DOMAIN p = 1..Len(p) /\ DOMAIN q = 1..Len(q)
      /\ \A k \in 1..Len(p) : p[k] \in Int
      /\ \A k \in 1..Len(q) : q[k] \in Int
  <2>1. /\ Len(p) \in Nat /\ p \in [1..Len(p) -> Turns]
        /\ Len(q) \in Nat /\ q \in [1..Len(q) -> Turns]
    BY <1>1, LenProperties DEF Paths
  <2> QED
    BY <2>1 DEF Turns
<1>3. ASSUME NEW a \in Paths, NEW b \in Paths, Len(a) <= Len(b), \A k \in 1..Len(a) : a[k] = b[k]
      PROVE  IsPrefix(a, b)
  <2>1. /\ Len(a) \in Nat /\ Len(b) \in Nat
        /\ \A k \in 1..Len(a) : a[k] \in Turns
    BY LenProperties DEF Paths
  <2>2. \A k \in 1..Len(a) : b[k] \in Turns
    BY <1>3, <2>1
  <2>3. /\ SubSeq(a, 1, Len(a)) \in Seq(Turns) /\ SubSeq(b, 1, Len(a)) \in Seq(Turns)
        /\ Len(SubSeq(a, 1, Len(a))) = Len(SubSeq(b, 1, Len(a)))
    BY <2>1, <2>2, SubSeqProperties
  <2>4. /\ Len(SubSeq(a, 1, Len(a))) = Len(a)
        /\ \A k \in 1..Len(a) : SubSeq(a, 1, Len(a))[k] = a[k] /\ SubSeq(b, 1, Len(a))[k] = b[k]
    <3>1. \A k \in 1..(Len(a) - 1 + 1) : SubSeq(a, 1, Len(a))[k] = a[1 + k - 1]
      BY <2>1, SubSeqProperties
    <3>2. \A k \in 1..(Len(a) - 1 + 1) : SubSeq(b, 1, Len(a))[k] = b[1 + k - 1]
      BY <2>1, <2>2, SubSeqProperties
    <3>3. SubSeq(a, 1, Len(a)) = a
      BY SubSeqFull DEF Paths
    <3> QED
      BY <2>1, <3>1, <3>2, <3>3
  <2>5. SubSeq(a, 1, Len(a)) = SubSeq(b, 1, Len(a))
    BY <1>3, <2>3, <2>4, SeqEqual
  <2> QED
    BY <1>3, <2>5 DEF IsPrefix
<1> DEFINE D == {i \in DOMAIN p \cap DOMAIN q : p[i] # q[i]}
<1>4. D # {}
  <2> SUFFICES ASSUME D = {}
               PROVE  FALSE
    OBVIOUS
  <2>1. CASE Len(p) <= Len(q)
    <3>1. \A k \in 1..Len(p) : p[k] = q[k]
      BY <1>2, <2>1
    <3>2. IsPrefix(p, q)
      BY <1>1, <1>3, <2>1, <3>1
    <3> QED
      BY <1>1, <3>2, AboveIsSplit DEF Proper
  <2>2. CASE Len(q) <= Len(p)
    <3>1. \A k \in 1..Len(q) : q[k] = p[k]
      BY <1>2, <2>2
    <3>2. IsPrefix(q, p)
      BY <1>1, <1>3, <2>2, <3>1
    <3> QED
      BY <1>1, <3>2, AboveIsSplit DEF Proper
  <2> QED
    BY <1>2, <2>1, <2>2
<1>5. D \in SUBSET Nat
  BY <1>2
<1> HIDE DEF D
<1>6. PICK i \in D : \A j \in D : i <= j
  BY <1>4, <1>5, LeastNumber
<1>7. i \in DOMAIN p \cap DOMAIN q /\ p[i] # q[i] /\ i \in Nat
  BY <1>5, <1>6 DEF D
<1>8. \A k \in 1..(i - 1) : p[k] = q[k]
  <2> SUFFICES ASSUME NEW k \in 1..(i - 1), p[k] # q[k]
               PROVE  FALSE
    OBVIOUS
  <2>1. k \in DOMAIN p \cap DOMAIN q
    BY <1>2, <1>7
  <2>2. i <= k
    BY <1>6, <2>1 DEF D
  <2> QED
    BY <1>7, <2>2
<1>9. p[i] < q[i] \/ q[i] < p[i]
  BY <1>2, <1>7
<1> QED
  BY <1>7, <1>8, <1>9 DEF Before

\* A tree with a pane has a first one (fixup_active_pane).
LEMMA FirstLeafExists ==
  ASSUME NEW t, Proper(t), Ids(t) # {}
  PROVE  FirstLeaf(t) \in Leaves(t)
<1> DEFINE S == Ids(t)
           R == {r \in S \X S : Before(LeafOf(t, r[1]), LeafOf(t, r[2]))}
<1>1. /\ \A a \in S : LeafOf(t, a) \in Leaves(t) /\ t[LeafOf(t, a)].id = a /\ LeafOf(t, a) \in Paths
      /\ \A p \in Leaves(t) : t[p].id \in S /\ LeafOf(t, t[p].id) = p
  BY Leaf DEF Proper, Leaves
<1>2. \A a, b \in S : <<a, b>> \in R <=> Before(LeafOf(t, a), LeafOf(t, b))
  OBVIOUS
<1>3. \A a \in S : ~Before(LeafOf(t, a), LeafOf(t, a))
  <2> SUFFICES ASSUME NEW p \in Paths, Before(p, p)
               PROVE  FALSE
    BY <1>1
  <2>1. PICK i \in DOMAIN p : p[i] < p[i]
    BY DEF Before
  <2>2. p[i] \in Turns
    BY LenProperties DEF Paths
  <2> QED
    BY <2>1, <2>2 DEF Turns
<1>4. \A a, b, c \in S : <<a, b>> \in R /\ <<b, c>> \in R => <<a, c>> \in R
  BY <1>1, <1>2, BeforeIsTransitive
<1>5. \A a, b \in S : a # b => <<a, b>> \in R \/ <<b, a>> \in R
  BY <1>1, <1>2, BeforeIsTotal
<1>6. \A a \in S : <<a, a>> \notin R
  BY <1>2, <1>3
<1> HIDE DEF R
<1>7. IsFiniteSet(S)
  BY DEF Proper
<1> HIDE DEF S
<1>8. PICK a \in S : \A b \in S \ {a} : <<a, b>> \in R
  BY <1>4, <1>5, <1>6, <1>7, LeastElement DEF S
<1>9. LeafOf(t, a) \in Leaves(t) /\ \A q \in Leaves(t) \ {LeafOf(t, a)} : Before(LeafOf(t, a), q)
  BY <1>1, <1>2, <1>8
<1> QED
  BY <1>9 DEF FirstLeaf

\* The nearest of some panes is one of them: equal distances are told apart by the
\* order of the leaves (min_by_key and max_by_key).
LEMMA NearestExists ==
  ASSUME NEW t, Proper(t), NEW ids \in SUBSET Ids(t), ids # {},
         NEW key, \A a \in ids : key[a] \in Int
  PROVE  /\ MinBy(t, ids, key) \in ids /\ \A b \in ids : key[MinBy(t, ids, key)] <= key[b]
         /\ MaxBy(t, ids, key) \in ids /\ \A b \in ids : key[MaxBy(t, ids, key)] >= key[b]
<1> DEFINE O(a, b) == Before(LeafOf(t, a), LeafOf(t, b))
<1>1. \A a \in ids : LeafOf(t, a) \in Leaves(t) /\ LeafOf(t, a) \in Paths /\ t[LeafOf(t, a)].id = a
  BY Leaf DEF Proper, Leaves
<1>2. IsFiniteSet(ids)
  BY FS_Subset DEF Proper
<1>3. \A a \in ids : ~O(a, a)
  <2> SUFFICES ASSUME NEW p \in Paths, Before(p, p)
               PROVE  FALSE
    BY <1>1
  <2>1. PICK i \in DOMAIN p : p[i] < p[i]
    BY DEF Before
  <2>2. p[i] \in Turns
    BY LenProperties DEF Paths
  <2> QED
    BY <2>1, <2>2 DEF Turns
<1>4. \A a, b, c \in ids : O(a, b) /\ O(b, c) => O(a, c)
  BY <1>1, BeforeIsTransitive
<1>5. \A a, b \in ids : a # b => O(a, b) \/ O(b, a)
  BY <1>1, BeforeIsTotal
<1> HIDE DEF O
<1>6. \E a \in ids : \A b \in ids \ {a} : key[a] < key[b] \/ (key[a] = key[b] /\ O(a, b))
  <2> DEFINE R == {r \in ids \X ids : key[r[1]] < key[r[2]] \/ (key[r[1]] = key[r[2]] /\ O(r[1], r[2]))}
  <2>1. \A a, b \in ids : <<a, b>> \in R <=> key[a] < key[b] \/ (key[a] = key[b] /\ O(a, b))
    OBVIOUS
  <2> HIDE DEF R
  <2>2. \A a \in ids : <<a, a>> \notin R
    BY <1>3, <2>1
  <2>3. \A a, b, c \in ids : <<a, b>> \in R /\ <<b, c>> \in R => <<a, c>> \in R
    BY <1>4, <2>1
  <2>4. \A a, b \in ids : a # b => <<a, b>> \in R \/ <<b, a>> \in R
    BY <1>5, <2>1
  <2>5. \E a \in ids : \A b \in ids \ {a} : <<a, b>> \in R
    BY <1>2, <2>2, <2>3, <2>4, LeastElement
  <2> QED
    BY <2>1, <2>5
<1>7. \E a \in ids : \A b \in ids \ {a} : key[a] > key[b] \/ (key[a] = key[b] /\ O(b, a))
  <2> DEFINE R == {r \in ids \X ids : key[r[1]] > key[r[2]] \/ (key[r[1]] = key[r[2]] /\ O(r[2], r[1]))}
  <2>1. \A a, b \in ids : <<a, b>> \in R <=> key[a] > key[b] \/ (key[a] = key[b] /\ O(b, a))
    OBVIOUS
  <2> HIDE DEF R
  <2>2. \A a \in ids : <<a, a>> \notin R
    BY <1>3, <2>1
  <2>3. \A a, b, c \in ids : <<a, b>> \in R /\ <<b, c>> \in R => <<a, c>> \in R
    BY <1>4, <2>1
  <2>4. \A a, b \in ids : a # b => <<a, b>> \in R \/ <<b, a>> \in R
    BY <1>5, <2>1
  <2>5. \E a \in ids : \A b \in ids \ {a} : <<a, b>> \in R
    BY <1>2, <2>2, <2>3, <2>4, LeastElement
  <2> QED
    BY <2>1, <2>5
<1> DEFINE least == MinBy(t, ids, key)
           most == MaxBy(t, ids, key)
<1>8. least \in ids /\ \A b \in ids \ {least} : key[least] < key[b] \/ (key[least] = key[b] /\ O(least, b))
  BY <1>6 DEF MinBy, O
<1>9. most \in ids /\ \A b \in ids \ {most} : key[most] > key[b] \/ (key[most] = key[b] /\ O(b, most))
  BY <1>7 DEF MaxBy, O
<1> HIDE DEF least, most
<1>10. /\ \A b \in ids : key[least] <= key[b]
       /\ \A b \in ids : key[most] >= key[b]
  BY <1>8, <1>9
<1> QED
  BY <1>8, <1>9, <1>10 DEF least, most

-----------------------------------------------------------------------------
(* Rectangles are made of natural numbers. *)

Rects == [x : Nat, y : Nat, width : Nat, height : Nat]

\* The rectangle of a child has natural numbers for corners and sizes.
LEMMA ChildRectType ==
  ASSUME NEW split \in SplitNodes, NEW r \in Rects, NEW side
  PROVE  ChildRect(split, r, side) \in Rects
<1>1. split.direction \in Directions /\ split.ratio \in Nat
  BY LayoutAssumption DEF SplitNodes
<1>2. Minimum(split.direction) \in Nat
  BY LayoutAssumption DEF Minimum
<1>3. Extent(r, split.direction) \in Nat
  BY DEF Extent, Rects
<1> DEFINE usable == Usable(Extent(r, split.direction))
           min == Minimum(split.direction)
           share == Share(usable, split.ratio)
           first == FirstSize(usable, split.ratio, min)
           second == SecondSize(usable, split.ratio, min)
<1>4. usable \in Nat
  BY <1>3 DEF Usable, Monus
<1>5. share \in Nat
  <2> DEFINE n == usable * split.ratio
  <2>1. n \in Nat
    BY <1>1, <1>4
  <2> HIDE DEF n
  <2>2. n \div Unit \in Nat
    BY <2>1, LayoutAssumption
  <2> QED
    BY <2>2 DEF Share, n
<1> HIDE DEF share, usable, min
<1>6. first \in Nat
  BY <1>2, <1>4, <1>5 DEF FirstSize, Smaller, Larger, Monus, share, min
<1> HIDE DEF first
<1>7. second \in Nat
  BY <1>2, <1>4, <1>6 DEF SecondSize, Larger, Monus, first, min
<1> HIDE DEF second
<1> DEFINE size == IF side = 1 THEN first ELSE second
           offset == IF side = 1 THEN 0 ELSE first + 1
<1>8. size \in Nat /\ offset \in Nat
  BY <1>6, <1>7
<1> HIDE DEF size, offset
<1>9. r.x + offset \in Nat /\ r.y + offset \in Nat
  BY <1>8 DEF Rects
<1>10. /\ [r EXCEPT !.x = r.x + offset, !.width = size] \in Rects
       /\ [r EXCEPT !.y = r.y + offset, !.height = size] \in Rects
  BY <1>8, <1>9 DEF Rects
<1> QED
  BY <1>10 DEF ChildRect, usable, min, first, second, size, offset

\* resolve_node goes down one turn at a time: a child's rectangle is ChildRect of its
\* parent's.
LEMMA RectStep ==
  ASSUME NEW t, NEW s \in Paths, NEW e \in Turns, NEW width, NEW height
  PROVE  Rect(t, Append(s, e), width, height) = ChildRect(t[s], Rect(t, s, width, height), e)
<1> DEFINE window == [x |-> 0, y |-> 0, width |-> width, height |-> height]
           Next(p, g, i) == IF i = 0 THEN window
                            ELSE ChildRect(t[SubSeq(p, 1, i - 1)], g[i - 1], p[i])
           IsWay(p, g, n) == g = [i \in 0..n |-> Next(p, g, i)]
           way(p) == CHOOSE g : IsWay(p, g, Len(p))
<1>1. \A p : Rect(t, p, width, height) = way(p)[Len(p)]
  BY DEF Rect
<1>2. \A p \in Paths : Len(p) \in Nat
  BY LenProperties DEF Paths
<1> HIDE DEF window
<1>3. ASSUME NEW p
      PROVE  \A n \in Nat : \E g : IsWay(p, g, n)
  <2> DEFINE S == {n \in Nat : ~\E g : IsWay(p, g, n)}
  <2>1. \E g : IsWay(p, g, 0)
    <3> DEFINE g == [i \in 0..0 |-> window]
    <3>1. \A i \in 0..0 : i = 0 /\ Next(p, g, i) = window
      OBVIOUS
    <3>2. IsWay(p, g, 0)
      BY <3>1
    <3> HIDE DEF g
    <3> QED
      BY <3>2
  <2>2. ASSUME NEW n \in Nat, NEW g, IsWay(p, g, n)
        PROVE  \E h : IsWay(p, h, n + 1)
    <3> DEFINE last == Next(p, g, n + 1)
               h == [i \in 0..(n + 1) |-> IF i = n + 1 THEN last ELSE g[i]]
    <3>1. \A i \in 0..n : g[i] = Next(p, g, i)
      BY <2>2
    <3> HIDE DEF last
    <3>2. h[n + 1] = last /\ \A i \in 0..n : h[i] = g[i]
      OBVIOUS
    <3>3. h = [i \in 0..(n + 1) |-> h[i]]
      OBVIOUS
    <3> HIDE DEF h
    <3>4. ASSUME NEW i \in 0..(n + 1)
          PROVE  h[i] = Next(p, h, i)
      <4>1. CASE i = n + 1
        <5>1. h[n] = g[n] /\ i # 0 /\ i - 1 = n
          BY <3>2, <4>1
        <5>2. Next(p, h, i) = last
          BY <4>1, <5>1 DEF last
        <5> QED
          BY <3>2, <4>1, <5>2
      <4>2. CASE i # n + 1 /\ i = 0
        BY <3>1, <3>2, <4>2
      <4>3. CASE i # n + 1 /\ i # 0
        <5>1. i \in 0..n /\ i - 1 \in 0..n
          BY <4>3
        <5>2. h[i] = g[i] /\ h[i - 1] = g[i - 1] /\ g[i] = Next(p, g, i)
          BY <3>1, <3>2, <5>1
        <5> QED
          BY <4>3, <5>2
      <4> QED
        BY <4>1, <4>2, <4>3
    <3>5. IsWay(p, h, n + 1)
      BY <3>3, <3>4
    <3> QED
      BY <3>5
  <2> HIDE DEF IsWay
  <2>3. S = {}
    <3> SUFFICES ASSUME S # {}
                 PROVE  FALSE
      OBVIOUS
    <3>1. S \in SUBSET Nat
      OBVIOUS
    <3> HIDE DEF S
    <3>2. PICK n \in S : \A m \in S : n <= m
      BY <3>1, LeastNumber
    <3> USE DEF S
    <3>3. n \in Nat /\ n # 0
      BY <2>1, <3>2
    <3>4. n - 1 \in Nat /\ n - 1 \notin S /\ (n - 1) + 1 = n
      BY <3>2, <3>3
    <3>5. \E h : IsWay(p, h, (n - 1) + 1)
      BY <2>2, <3>4
    <3> QED
      BY <3>2, <3>4, <3>5
  <2> QED
    BY <2>3
<1>4. ASSUME NEW p \in Paths
      PROVE  \A i \in 0..Len(p) : way(p)[i] = Next(p, way(p), i)
  <2>1. IsWay(p, way(p), Len(p))
    BY <1>2, <1>3
  <2> HIDE DEF way
  <2> QED
    BY <2>1
<1> HIDE DEF way, IsWay
<1> DEFINE p == Append(s, e)
           N == Len(s)
           f == way(p)
           g == way(s)
<1>5. /\ p \in Paths /\ Len(p) = N + 1 /\ N \in Nat
      /\ p[N + 1] = e /\ \A i \in 1..N : p[i] = s[i]
      /\ Front(p) = s
  BY <1>2, Step, AppendProperties DEF Paths
<1>6. SubSeq(p, 1, N) = s
  BY <1>5 DEF Front
<1>7. \A i \in 1..N : SubSeq(p, 1, i - 1) = SubSeq(s, 1, i - 1)
  <2> SUFFICES ASSUME NEW i \in 1..N
               PROVE  SubSeq(p, 1, i - 1) = SubSeq(s, 1, i - 1)
    OBVIOUS
  <2>1. i - 1 \in Nat /\ i - 1 <= N
    BY <1>5
  <2>2. CASE i - 1 = 0
    BY <2>2, SubSeqEmpty
  <2>3. CASE i - 1 > 0
    <3>1. p = s \o <<e>> /\ <<e>> \in Seq(Turns)
      BY AppendIsConcat DEF Paths
    <3>2. SubSeq(s \o <<e>>, 1, i - 1) = SubSeq(s, 1, i - 1)
      <4> DEFINE n == i - 1
      <4>1. 1 \in 1..Len(s) /\ n \in 1..Len(s)
        BY <1>5, <2>1, <2>3
      <4> HIDE DEF n
      <4>2. SubSeq(s \o <<e>>, 1, n) = SubSeq(s, 1, n)
        BY <3>1, <4>1, SubSeqOfConcat1 DEF Paths
      <4> QED
        BY <4>2 DEF n
    <3> QED
      BY <3>1, <3>2
  <2> QED
    BY <2>1, <2>2, <2>3
<1>8. /\ \A i \in 0..(N + 1) : f[i] = Next(p, f, i)
      /\ \A i \in 0..N : g[i] = Next(s, g, i)
  BY <1>4, <1>5
<1> HIDE DEF p, N, f, g
<1> DEFINE B == {i \in 0..N : f[i] # g[i]}
<1>9. B = {}
  <2> SUFFICES ASSUME B # {}
               PROVE  FALSE
    OBVIOUS
  <2>1. B \in SUBSET Nat
    BY <1>5
  <2> HIDE DEF B
  <2>2. PICK i \in B : \A m \in B : i <= m
    BY <2>1, LeastNumber
  <2> USE DEF B
  <2>3. i \in 0..N /\ f[i] # g[i]
    BY <2>2
  <2>4. CASE i = 0
    BY <1>5, <1>8, <2>3, <2>4
  <2>5. CASE i # 0
    <3>1. i \in 1..N /\ i \in 0..(N + 1) /\ i - 1 \in 0..N /\ i - 1 \notin B
      BY <1>5, <2>2, <2>3, <2>5
    <3>2. f[i - 1] = g[i - 1] /\ p[i] = s[i] /\ SubSeq(p, 1, i - 1) = SubSeq(s, 1, i - 1)
      BY <1>5, <1>7, <3>1
    <3>3. Next(p, f, i) = Next(s, g, i)
      BY <2>5, <3>2
    <3> QED
      BY <1>8, <2>3, <3>1, <3>3
  <2> QED
    BY <2>4, <2>5
<1>10. f[N] = g[N]
  BY <1>5, <1>9
<1>11. N + 1 # 0 /\ (N + 1) - 1 = N /\ N + 1 \in 0..(N + 1)
  BY <1>5
<1>12. f[N + 1] = ChildRect(t[s], g[N], e)
  BY <1>5, <1>6, <1>8, <1>10, <1>11
<1>13. Rect(t, p, width, height) = f[N + 1] /\ Rect(t, s, width, height) = g[N]
  BY <1>1, <1>5 DEF f, g, N
<1> QED
  BY <1>12, <1>13 DEF p

\* It starts with the window.
LEMMA RectRoot ==
  ASSUME NEW t, NEW width, NEW height
  PROVE  Rect(t, <<>>, width, height) = [x |-> 0, y |-> 0, width |-> width, height |-> height]
<1> DEFINE window == [x |-> 0, y |-> 0, width |-> width, height |-> height]
           Next(g, i) == IF i = 0 THEN window ELSE ChildRect(t[SubSeq(<<>>, 1, i - 1)], g[i - 1], <<>>[i])
           way == CHOOSE g : g = [i \in 0..0 |-> Next(g, i)]
<1>1. Len(<<>>) = 0
  BY EmptySeq
<1>2. Rect(t, <<>>, width, height) = way[0]
  BY <1>1 DEF Rect
<1>3. \E g : g = [i \in 0..0 |-> Next(g, i)]
  <2> DEFINE g == [i \in 0..0 |-> window]
  <2>1. \A i \in 0..0 : Next(g, i) = window
    OBVIOUS
  <2>2. g = [i \in 0..0 |-> Next(g, i)]
    BY <2>1
  <2> HIDE DEF g
  <2> QED
    BY <2>2
<1>4. way = [i \in 0..0 |-> Next(way, i)]
  BY <1>3
<1> HIDE DEF way
<1>5. way[0] = window
  BY <1>4
<1> QED
  BY <1>2, <1>5

\* The rectangles of a tree's nodes are made of natural numbers.
LEMMA RectType ==
  ASSUME NEW t, Proper(t), NEW p \in DOMAIN t, NEW width \in Nat, NEW height \in Nat
  PROVE  Rect(t, p, width, height) \in Rects
<1> DEFINE S == {q \in Paths : q \in DOMAIN t => Rect(t, q, width, height) \in Rects}
<1>1. Branching(t) /\ DOMAIN t \subseteq Paths /\ <<>> \in Paths
  BY Branches, EmptySeq DEF Proper, Paths
<1>2. <<>> \in S
  <2>1. Rect(t, <<>>, width, height) = [x |-> 0, y |-> 0, width |-> width, height |-> height]
    BY RectRoot
  <2>2. Rect(t, <<>>, width, height) \in Rects
    BY <2>1 DEF Rects
  <2> QED
    BY <1>1, <2>2
<1>3. ASSUME NEW s \in Paths, NEW e \in Turns, s \in S
      PROVE  Append(s, e) \in S
  <2>1. Append(s, e) \in Paths
    BY Step
  <2>2. ASSUME Append(s, e) \in DOMAIN t
        PROVE  Rect(t, Append(s, e), width, height) \in Rects
    <3>1. s \in Splits(t) /\ s \in DOMAIN t
      BY <1>1, <2>2 DEF Branching, Splits
    <3>2. t[s] \in SplitNodes /\ Rect(t, s, width, height) \in Rects
      BY <1>3, <3>1 DEF Proper
    <3>3. ChildRect(t[s], Rect(t, s, width, height), e) \in Rects
      BY <3>2, ChildRectType
    <3>4. Rect(t, Append(s, e), width, height) = ChildRect(t[s], Rect(t, s, width, height), e)
      BY RectStep
    <3> QED
      BY <3>3, <3>4
  <2> QED
    BY <2>1, <2>2
<1> HIDE DEF S
<1>4. Paths \subseteq S
  BY <1>2, <1>3, PathInduction
<1> QED
  BY <1>1, <1>4 DEF S

-----------------------------------------------------------------------------
(* A LayoutTree. *)

\* A proper tree, with the pane that takes the keys and the pane that is zoomed
\* among its panes.
ProperLayout(l) ==
  /\ l = LayoutTree(l.root, l.active, l.zoomed, l.width, l.height)
  /\ Proper(l.root)
  /\ l.active \in Ids(l.root)
  /\ l.zoomed \in Ids(l.root) \cup {NoPane}
  /\ l.width \in Nat /\ l.height \in Nat

\* LayoutTree::with_dimensions gives a tree of one pane.
LEMMA OnePane ==
  ASSUME NEW id, NEW width \in Nat, NEW height \in Nat
  PROVE  /\ ProperLayout(WithDimensions(id, width, height))
         /\ Ids(WithDimensions(id, width, height).root) = {id}
<1> DEFINE t == [p \in {<<>>} |-> PaneNode(id)]
           l == WithDimensions(id, width, height)
<1>1. l = LayoutTree(t, id, NoPane, width, height)
  BY DEF WithDimensions
<1>2. l.root = t /\ l.active = id /\ l.zoomed = NoPane /\ l.width = width /\ l.height = height
  BY <1>1 DEF LayoutTree
<1>3. DOMAIN t = {<<>>} /\ t[<<>>].kind = "pane" /\ t[<<>>].id = id /\ t = [p \in DOMAIN t |-> t[p]]
  BY DEF PaneNode
<1> HIDE DEF t, l
<1>4. Leaves(t) = {<<>>} /\ Splits(t) = {}
  BY <1>3 DEF Leaves, Splits
<1>5. Ids(t) = {id}
  BY <1>3, <1>4 DEF Ids
<1>6. <<>> \in Paths /\ Len(<<>>) = 0
  BY EmptySeq DEF Paths
<1>7. \A s \in Paths, e \in Turns : Append(s, e) \notin DOMAIN t
  BY <1>3, Step
<1>8. Branching(t)
  BY <1>3, <1>4, <1>7 DEF Branching
<1>9. IsFiniteSet(Ids(t))
  BY <1>5, FS_Singleton
<1>10. 0 \in Nat /\ \A p \in DOMAIN t : Len(p) <= 0
  BY <1>3, <1>6
<1>11. DOMAIN t \subseteq Paths
  BY <1>3, <1>6
<1>12. IsTree(t)
  BY <1>8, <1>11, Branches
<1>13. Proper(t)
  BY <1>3, <1>4, <1>9, <1>10, <1>11, <1>12 DEF Proper
<1> QED
  BY <1>1, <1>2, <1>5, <1>13 DEF ProperLayout, l

\* A LayoutTree is its five parts.
LEMMA Parts ==
  ASSUME NEW r, NEW i, NEW z, NEW w, NEW h,
         NEW l \in [root : {r}, active : {i}, zoomed : {z}, width : {w}, height : {h}]
  PROVE  l = LayoutTree(r, i, z, w, h)
<1>1. l.root = r /\ l.active = i /\ l.zoomed = z /\ l.width = w /\ l.height = h
  OBVIOUS
<1>2. l = [root |-> l.root, active |-> l.active, zoomed |-> l.zoomed, width |-> l.width, height |-> l.height]
  OBVIOUS
<1> QED
  BY <1>1, <1>2 DEF LayoutTree

\* What a LayoutTree is when some of its parts are changed.
LEMMA Rebuilt ==
  ASSUME NEW l, ProperLayout(l), NEW t, NEW id, NEW z
  PROVE  /\ [l EXCEPT !.root = t] = LayoutTree(t, l.active, l.zoomed, l.width, l.height)
         /\ [l EXCEPT !.active = id] = LayoutTree(l.root, id, l.zoomed, l.width, l.height)
         /\ [l EXCEPT !.zoomed = z] = LayoutTree(l.root, l.active, z, l.width, l.height)
<1> DEFINE a == l.root
           b == l.active
           c == l.zoomed
           d == l.width
           e == l.height
<1>1. l = [root |-> a, active |-> b, zoomed |-> c, width |-> d, height |-> e]
  BY DEF ProperLayout, LayoutTree
<1> HIDE DEF a, b, c, d, e
<1>2. [l EXCEPT !.root = t] = [root |-> t, active |-> b, zoomed |-> c, width |-> d, height |-> e]
  BY <1>1
<1>3. [l EXCEPT !.active = id] = [root |-> a, active |-> id, zoomed |-> c, width |-> d, height |-> e]
  BY <1>1
<1>4. [l EXCEPT !.zoomed = z] = [root |-> a, active |-> b, zoomed |-> z, width |-> d, height |-> e]
  BY <1>1
<1> QED
  BY <1>2, <1>3, <1>4 DEF LayoutTree, a, b, c, d, e

\* LayoutTree::split keeps a layout proper.
LEMMA SplitLayout ==
  ASSUME NEW l, ProperLayout(l), NEW id \in Ids(l.root), NEW new, new \notin Ids(l.root),
         NEW dir \in Directions, NEW ratio \in 0..Unit
  PROVE  ProperLayout(SplitPane(l, id, dir, ratio, new))
<1> DEFINE t == ReplaceLeafWithSplit(l.root, id, dir, ratio, new)
<1>1. Proper(t) /\ Ids(t) = Ids(l.root) \cup {new}
  BY SplitTree DEF ProperLayout
<1>2. SplitPane(l, id, dir, ratio, new) = LayoutTree(t, l.active, l.zoomed, l.width, l.height)
  BY Rebuilt DEF SplitPane
<1> HIDE DEF t
<1> QED
  BY <1>1, <1>2 DEF ProperLayout, LayoutTree

\* LayoutTree::split adds the new pane, and no other.
LEMMA SplitPanes ==
  ASSUME NEW l, ProperLayout(l), NEW id \in Ids(l.root), NEW new, new \notin Ids(l.root),
         NEW dir \in Directions, NEW ratio \in 0..Unit
  PROVE  \A x : x \in Ids(SplitPane(l, id, dir, ratio, new).root) <=> x \in Ids(l.root) \/ x = new
<1> DEFINE t == ReplaceLeafWithSplit(l.root, id, dir, ratio, new)
<1>1. Proper(t) /\ Ids(t) = Ids(l.root) \cup {new}
  BY SplitTree DEF ProperLayout
<1>2. SplitPane(l, id, dir, ratio, new) = LayoutTree(t, l.active, l.zoomed, l.width, l.height)
  BY Rebuilt DEF SplitPane
<1> HIDE DEF t
<1> QED
  BY <1>1, <1>2 DEF LayoutTree

\* LayoutTree::close with fixup_active_pane
LEMMA CloseLayout ==
  ASSUME NEW l, ProperLayout(l), NEW id, CanClose(l, id)
  PROVE  /\ ProperLayout(ClosePane(l, id))
         /\ Ids(ClosePane(l, id).root) = Ids(l.root) \ {id}
<1> DEFINE t == CloseLeaf(l.root, id)
           active == IF l.active = id THEN t[FirstLeaf(t)].id ELSE l.active
           zoomed == IF l.zoomed = id THEN NoPane ELSE l.zoomed
<1>1. Proper(t) /\ Ids(t) = Ids(l.root) \ {id} /\ Ids(t) # {}
  BY CloseTree DEF ProperLayout, CanClose
<1>2. ClosePane(l, id) = LayoutTree(t, active, zoomed, l.width, l.height)
  <2> DEFINE w == l.width
             h == l.height
  <2>1. ClosePane(l, id) = [l EXCEPT !.root = t, !.zoomed = zoomed, !.active = active]
    BY DEF ClosePane
  <2>2. l \in [root : {l.root}, active : {l.active}, zoomed : {l.zoomed}, width : {w}, height : {h}]
    BY DEF ProperLayout, LayoutTree
  <2> HIDE DEF t, active, zoomed, w, h
  <2>3. [l EXCEPT !.root = t, !.zoomed = zoomed, !.active = active]
          \in [root : {t}, active : {active}, zoomed : {zoomed}, width : {w}, height : {h}]
    BY <2>2
  <2>4. ClosePane(l, id) \in [root : {t}, active : {active}, zoomed : {zoomed}, width : {w}, height : {h}]
    BY <2>1, <2>3
  <2>5. ClosePane(l, id) = LayoutTree(t, active, zoomed, w, h)
    BY <2>4, Parts
  <2> QED
    BY <2>5 DEF w, h
<1>3. t[FirstLeaf(t)].id \in Ids(t)
  BY <1>1, FirstLeafExists DEF Ids
<1> HIDE DEF t
<1>4. active \in Ids(t) /\ zoomed \in Ids(t) \cup {NoPane}
  BY <1>1, <1>3 DEF ProperLayout
<1> HIDE DEF active, zoomed
<1> QED
  BY <1>1, <1>2, <1>4 DEF ProperLayout, LayoutTree

\* navigate answers a pane of the tree.
LEMMA NeighbourIsPane ==
  ASSUME NEW l, ProperLayout(l), NEW from \in Ids(l.root), NEW dir
  PROVE  Neighbour(l, from, dir) \in Ids(l.root)
<1> DEFINE geoms == Resolve(l)
           others == DOMAIN geoms \ {from}
           Start(id) == IF dir = "vertical" THEN geoms[id].x ELSE geoms[id].y
           End(id) == Start(id) + Extent(geoms[id], dir)
           end == [id \in others |-> End(id)]
           gap == [id \in others |-> Monus(Start(id), End(from))]
           Beside(id) == IF dir = "vertical" THEN OverlapsVertically(geoms[from], geoms[id])
                         ELSE OverlapsHorizontally(geoms[from], geoms[id])
           after == {id \in others : Start(id) > Start(from) /\ Beside(id)}
           before == {id \in others : End(id) < End(from) /\ Start(id) < Start(from) /\ Beside(id)}
<1>1. Neighbour(l, from, dir)
        = IF from \notin DOMAIN geoms THEN from
          ELSE IF after # {} THEN MinBy(l.root, after, gap)
          ELSE IF before # {} THEN MaxBy(l.root, before, end)
          ELSE from
  BY DEF Neighbour
<1>2. CASE l.zoomed # NoPane
  <2>1. DOMAIN geoms = {l.zoomed}
    BY <1>2 DEF Resolve
  <2>2. from \in DOMAIN geoms => others = {}
    BY <2>1
  <2>3. from \in DOMAIN geoms => after = {} /\ before = {}
    BY <2>2
  <2> HIDE DEF after, before, geoms, gap, end
  <2> QED
    BY <1>1, <2>3
<1>3. CASE l.zoomed = NoPane
  <2>1. geoms = [id \in Ids(l.root) |-> AtLeastMinimum(Rect(l.root, LeafOf(l.root, id), l.width, l.height))]
    BY <1>3 DEF Resolve
  <2>2. ASSUME NEW id \in Ids(l.root)
        PROVE  geoms[id] \in Rects
    <3> DEFINE r == Rect(l.root, LeafOf(l.root, id), l.width, l.height)
    <3>1. LeafOf(l.root, id) \in DOMAIN l.root
      BY Leaf DEF ProperLayout, Proper, Leaves
    <3>2. r \in Rects
      BY <3>1, RectType DEF ProperLayout
    <3>3. geoms[id] = AtLeastMinimum(r)
      BY <2>1
    <3> HIDE DEF r
    <3>4. Larger(r.width, MinCols) \in Nat /\ Larger(r.height, MinRows) \in Nat
      BY <3>2, LayoutAssumption DEF Larger, Rects
    <3>5. AtLeastMinimum(r) = [r EXCEPT !.width = Larger(r.width, MinCols), !.height = Larger(r.height, MinRows)]
      BY DEF AtLeastMinimum
    <3>6. [r EXCEPT !.width = Larger(r.width, MinCols), !.height = Larger(r.height, MinRows)] \in Rects
      BY <3>2, <3>4 DEF Rects
    <3> QED
      BY <3>3, <3>5, <3>6
  <2>3. DOMAIN geoms = Ids(l.root)
    BY <2>1
  <2> HIDE DEF geoms
  <2>4. \A id \in Ids(l.root) : Start(id) \in Nat /\ End(id) \in Nat
    BY <2>2 DEF Extent, Rects
  <2>5. after \in SUBSET Ids(l.root) /\ before \in SUBSET Ids(l.root) /\ after \subseteq others /\ before \subseteq others
    BY <2>3
  <2>6. \A id \in others : Monus(Start(id), End(from)) \in Int /\ End(id) \in Int
    BY <2>3, <2>4 DEF Monus
  <2> HIDE DEF Start, End, after, before
  <2>7. \A id \in others : gap[id] \in Int /\ end[id] \in Int
    BY <2>6
  <2> HIDE DEF others, gap, end
  <2>8. after # {} => MinBy(l.root, after, gap) \in Ids(l.root)
    BY <2>5, <2>7, NearestExists DEF ProperLayout
  <2>9. before # {} => MaxBy(l.root, before, end) \in Ids(l.root)
    BY <2>5, <2>7, NearestExists DEF ProperLayout
  <2> QED
    BY <1>1, <2>8, <2>9
<1> QED
  BY <1>2, <1>3
===============================================================================

------------------------- MODULE SessionActorProofs -------------------------
(***************************************************************************)
(* Theorems about the session actor and the screens of its clients, for    *)
(* any clients, panes, capacities and chunks of output.                    *)
(***************************************************************************)
EXTENDS ClientMirrors, FiniteSetTheorems, SequenceTheorems, TLAPS

(***************************************************************************)
(* What the operators of Frames return.                                    *)
(***************************************************************************)
\* Feeding a chunk to an emulator leaves a frame on its screen (Pane::feed).
LEMMA FeedType ==
  ASSUME NEW f \in Frame, NEW chunk \in Chunk
  PROVE  Feed(f, chunk) \in Frame
BY DEF Feed, Frame, Chunk

\* A blank frame is a frame.
LEMMA BlankFrameType == BlankFrame \in Frame
BY FramesAssumption DEF BlankFrame, Frame, Cells

\* A diff is a message, whatever the frame before it was
\* (Pane::compute_diff).
LEMMA ComputeDiffType ==
  ASSUME NEW last \in Frame \cup {NoFrame}, NEW current \in Frame
  PROVE  ComputeDiff(last, current) \in ServerMessage
<1> DEFINE resent == IF last = NoFrame THEN Cells ELSE Resent(last, current)
           d == [i \in resent |-> current.cells[i]]
<1>1. resent \in SUBSET Cells
  BY DEF Resent, Changed
<1>2. d \in [resent -> Values]
  BY <1>1 DEF Frame
<1>3. FrameDiff(d) \in ServerMessage
  BY <1>1, <1>2 DEF ServerMessage
<1>4. CursorUpdate(current.cursor) \in ServerMessage
  BY DEF ServerMessage, Frame
<1> QED
  BY <1>3, <1>4 DEF ComputeDiff

\* A non-empty set of columns has a last one.
LEMMA LastColumn ==
  ASSUME NEW S \in SUBSET Cells, S # {}
  PROVE  Max(S) \in S
<1> DEFINE Right(i) == {k \in Cells : k > i}
           T == {Right(i) : i \in S}
           R == StrictSubsetOrdering(Cells)
<1>0. IsFiniteSet(Cells)
  BY FS_Interval, FramesAssumption DEF Cells
<1>1. \A A \in SUBSET Cells : IsFiniteSet(A)
  BY <1>0, FS_Subset
<1>2. T \subseteq FiniteSubsetsOf(Cells) /\ T # {}
  BY <1>1 DEF FiniteSubsetsOf
<1>3. IsWellFoundedOn(R, FiniteSubsetsOf(Cells))
  BY FS_StrictSubsetOrderingWellFounded
<1>4. PICK t \in T : \A u \in T : <<u, t>> \notin R
  BY <1>2, <1>3, WFMin
<1>5. PICK j \in S : t = Right(j)
  OBVIOUS
<1>6. \A i \in S : j >= i
  <2> SUFFICES ASSUME NEW i \in S, i > j PROVE FALSE
    BY FramesAssumption DEF Cells
  <2>1. Right(i) \subseteq Right(j) /\ i \in Right(j) /\ i \notin Right(i)
    BY FramesAssumption DEF Cells
  <2> QED
    <3>1. <<Right(i), Right(j)>> \in (SUBSET Cells) \X (SUBSET Cells)
      OBVIOUS
    <3>2. Right(i) # Right(j)
      BY <2>1
    <3>3. <<Right(i), Right(j)>> \in R
      BY <2>1, <3>1, <3>2, Zenon DEF StrictSubsetOrdering
    <3> QED
      BY <1>4, <1>5, <3>3
<1> QED
  BY <1>6 DEF Max

\* Rendering a message leaves a frame on the host terminal
\* (render_server_message).
LEMMA RenderType ==
  ASSUME NEW s \in Frame, NEW msg \in ServerMessage
  PROVE  Render(s, msg) \in Frame
<1>1. CASE msg = Handshake
  BY <1>1 DEF Render, Handshake
<1>2. CASE \E f \in Frame : msg = FullFrame(f)
  BY <1>2, FramesAssumption DEF Render, FullFrame, Frame, Cells
<1>3. CASE \E S \in SUBSET Cells : \E d \in [S -> Values] : msg = FrameDiff(d)
  <2>1. PICK S \in SUBSET Cells : \E e \in [S -> Values] : msg = FrameDiff(e)
    BY <1>3
  <2>0. PICK d \in [S -> Values] : msg = FrameDiff(d)
    BY <2>1
  <2>2. CASE S = {}
    BY <2>0, <2>2 DEF Render, FrameDiff
  <2>3. CASE S # {}
    <3>1. Max(S) \in Cells
      BY <2>3, LastColumn
    <3>2. After(Max(S)) \in Cells
      BY <3>1, FramesAssumption DEF After, Cells
    <3>3. [i \in Cells |-> IF i \in S THEN d[i] ELSE s.cells[i]]
            \in [Cells -> Values]
      BY DEF Frame
    <3>4. msg.type = "FrameDiff" /\ msg.cells = d /\ DOMAIN d = S
      BY <2>0 DEF FrameDiff
    <3> QED
      BY <2>3, <3>2, <3>3, <3>4 DEF Render, Frame
  <2> QED
    BY <2>2, <2>3
<1>4. CASE \E i \in Cells : msg = CursorUpdate(i)
  BY <1>4 DEF Render, CursorUpdate, Frame
<1> QED
  BY <1>1, <1>2, <1>3, <1>4 DEF ServerMessage

(***************************************************************************)
(* Induction, and the fold of Render over a channel.                       *)
(***************************************************************************)

\* A set that has zero and, with a number, its successor, has all numbers: the
\* numbers outside it would have a least one, since what lies below a number is
\* finite and finite sets are well founded.
LEMMA Numbers ==
  ASSUME NEW S, 0 \in S, \A n \in Nat : n \in S => n + 1 \in S
  PROVE  \A n \in Nat : n \in S
<1> DEFINE B == {n \in Nat : n \notin S}
           Up(n) == {m \in B : m <= n}
           T == {Up(n) : n \in B}
<1> SUFFICES ASSUME B # {} PROVE FALSE
  OBVIOUS
<1>1. T \subseteq FiniteSubsetsOf(B)
  <2> SUFFICES ASSUME NEW n \in B
               PROVE  Up(n) \in SUBSET B /\ IsFiniteSet(Up(n))
    BY DEF FiniteSubsetsOf
  <2>1. n \in Nat /\ Up(n) \in SUBSET Nat /\ Up(n) \in SUBSET B /\ \A m \in Up(n) : m <= n
    OBVIOUS
  <2> HIDE DEF Up
  <2> QED
    BY <2>1, FS_BoundedSetOfNaturals
<1>2. T # {}
  OBVIOUS
<1>3. IsWellFoundedOn(StrictSubsetOrdering(B), FiniteSubsetsOf(B))
  BY FS_StrictSubsetOrderingWellFounded
<1> HIDE DEF T
<1>4. PICK X \in T : \A Y \in T : ~(<<Y, X>> \in StrictSubsetOrdering(B))
  BY <1>1, <1>2, <1>3, WFMin
<1> USE DEF T
<1>5. PICK n \in B : X = Up(n)
  OBVIOUS
<1>6. n - 1 \in Nat /\ n - 1 \notin S
  OBVIOUS
<1> DEFINE m == n - 1
<1>7. m \in B /\ m < n
  BY <1>6
<1> HIDE DEF m
<1>8. n \in Up(n) /\ n \notin Up(m) /\ Up(m) \in SUBSET Up(n)
  BY <1>7
<1>9. <<Up(m), X>> \in StrictSubsetOrdering(B)
  BY <1>5, <1>8 DEF StrictSubsetOrdering
<1> QED
  BY <1>4, <1>7, <1>9

\* A set of some of the numbers up to n has a greatest.
LEMMA Greatest ==
  ASSUME NEW n \in Nat
  PROVE  \A S \in SUBSET (1..n) : S # {} => Max(S) \in S
<1> DEFINE P == {k \in Nat : \A S \in SUBSET (1..k) : S # {} => \E x \in S : \A y \in S : x >= y}
<1>1. 0 \in P
  <2>1. \A S \in SUBSET (1..0) : S = {}
    OBVIOUS
  <2> QED
    BY <2>1
<1>2. ASSUME NEW k \in Nat, k \in P
      PROVE  k + 1 \in P
  <2> SUFFICES ASSUME NEW S \in SUBSET (1..(k + 1)), S # {}
               PROVE  \E x \in S : \A y \in S : x >= y
    OBVIOUS
  <2>1. CASE k + 1 \in S
    BY <2>1
  <2>2. CASE k + 1 \notin S
    <3>1. S \in SUBSET (1..k)
      BY <2>2
    <3> QED
      BY <1>2, <3>1
  <2> QED
    BY <2>1, <2>2
<1> HIDE DEF P
<1>3. n \in P
  BY <1>1, <1>2, Numbers
<1> USE DEF P
<1> QED
  BY <1>3 DEF Max

\* The greatest of some of the numbers up to k is k, if k is one of them.
LEMMA LastOne ==
  ASSUME NEW k \in Nat, NEW S \in SUBSET (1..k), k \in S
  PROVE  Max(S) = k
<1>1. Max(S) = CHOOSE x \in S : \A y \in S : x >= y
  BY DEF Max
<1>2. \A y \in S : k >= y
  OBVIOUS
<1>3. \A x \in S : (\A y \in S : x >= y) => x = k
  <2> TAKE x \in S
  <2>1. x \in Nat /\ x <= k
    OBVIOUS
  <2> QED
    BY <2>1
<1> QED
  BY <1>1, <1>2, <1>3

\* What the screen shows after each message of a channel.
Painted(start, queue, r) ==
  /\ r[0] = start
  /\ \A k \in 1..Len(queue) : r[k] = Render(r[k - 1], queue[k])

\* The fold of the library, as a function of sets of positions.
Folded(start, queue, n, f) ==
  f = [S \in SUBSET (1..n) |-> IF S = {} THEN start
                               ELSE Render(f[S \ {Max(S)}], queue[Max(S)])]

\* There is one, by induction over the positions.
LEMMA FoldExists ==
  ASSUME NEW start, NEW queue, NEW n \in Nat
  PROVE  \E f : Folded(start, queue, n, f)
<1> DEFINE P == {k \in Nat : \E f : Folded(start, queue, k, f)}
<1>1. 0 \in P
  <2> DEFINE f == [S \in SUBSET (1..0) |-> start]
  <2>1. \A S \in SUBSET (1..0) : S = {}
    OBVIOUS
  <2>2. f = [S \in SUBSET (1..0) |-> IF S = {} THEN start
                                      ELSE Render(f[S \ {Max(S)}], queue[Max(S)])]
    BY <2>1
  <2> HIDE DEF f
  <2>3. Folded(start, queue, 0, f)
    BY <2>2 DEF Folded
  <2> QED
    BY <2>3
<1>2. ASSUME NEW k \in Nat, k \in P
      PROVE  k + 1 \in P
  <2>1. PICK f : Folded(start, queue, k, f)
    BY <1>2
  <2> DEFINE m == k + 1
             g == [S \in SUBSET (1..m) |-> IF m \in S THEN Render(f[S \ {m}], queue[m]) ELSE f[S]]
             h == [S \in SUBSET (1..m) |-> IF S = {} THEN start
                                           ELSE Render(g[S \ {Max(S)}], queue[Max(S)])]
  <2>2. ASSUME NEW S \in SUBSET (1..m)
        PROVE  g[S] = h[S]
    <3>1. CASE m \in S
      <4>1. S \ {m} \in SUBSET (1..k) /\ S \ {m} \in SUBSET (1..m) /\ m \notin S \ {m}
        OBVIOUS
      <4>2. Max(S) = m
        BY <3>1, LastOne
      <4> QED
        BY <3>1, <4>1, <4>2
    <3>2. CASE m \notin S
      <4>1. S \in SUBSET (1..k)
        BY <3>2
      <4>2. CASE S = {}
        BY <2>1, <3>2, <4>1, <4>2 DEF Folded
      <4>3. CASE S # {}
        <5>1. S \ {Max(S)} \in SUBSET (1..k) /\ S \ {Max(S)} \in SUBSET (1..m) /\ m \notin S \ {Max(S)}
          BY <3>2, <4>1
        <5>2. f[S] = Render(f[S \ {Max(S)}], queue[Max(S)])
          BY <2>1, <4>1, <4>3 DEF Folded
        <5> QED
          BY <3>2, <4>3, <5>1, <5>2
      <4> QED
        BY <4>2, <4>3
    <3> QED
      BY <3>1, <3>2
  <2>3. g = h
    BY <2>2
  <2> HIDE DEF g
  <2>4. Folded(start, queue, m, g)
    BY <2>3 DEF Folded
  <2> QED
    BY <2>4
<1> HIDE DEF P
<1>3. n \in P
  BY <1>1, <1>2, Numbers
<1> QED
  BY <1>3 DEF P

\* What RenderAll returns is the last of the screens in between.
LEMMA PaintedExists ==
  ASSUME NEW start, NEW queue, Len(queue) \in Nat, DOMAIN queue = 1..Len(queue)
  PROVE  \E r : Painted(start, queue, r) /\ r[Len(queue)] = RenderAll(start, queue)
<1> DEFINE n == Len(queue)
           f == CHOOSE g : Folded(start, queue, n, g)
           r == [k \in 0..n |-> f[1..k]]
<1>1. Folded(start, queue, n, f)
  BY FoldExists
<1>2. RenderAll(start, queue) = f[1..n]
  BY DEF RenderAll, FoldLeft, MapThenFoldSet, Folded
<1> HIDE DEF f
<1>3. r[0] = start
  <2>1. 1..0 = {} /\ 1..0 \in SUBSET (1..n)
    OBVIOUS
  <2> QED
    BY <1>1, <2>1 DEF Folded
<1>4. ASSUME NEW k \in 1..n
      PROVE  r[k] = Render(r[k - 1], queue[k])
  <2>1. 1..k \in SUBSET (1..n) /\ k \in 1..k /\ (1..k) \ {k} = 1..(k - 1) /\ k - 1 \in 0..n
    OBVIOUS
  <2>2. Max(1..k) = k
    BY <2>1, LastOne
  <2>3. f[1..k] = Render(f[1..(k - 1)], queue[k])
    BY <1>1, <2>1, <2>2 DEF Folded
  <2> QED
    BY <2>1, <2>3
<1>5. r[n] = f[1..n]
  OBVIOUS
<1> HIDE DEF r
<1> QED
  BY <1>2, <1>3, <1>4, <1>5 DEF Painted

\* There is but one way to paint a channel.
LEMMA PaintedOnce ==
  ASSUME NEW start, NEW queue, Len(queue) \in Nat, NEW r, NEW t,
         Painted(start, queue, r), Painted(start, queue, t)
  PROVE  \A k \in 0..Len(queue) : r[k] = t[k]
<1> DEFINE P == {k \in Nat : k <= Len(queue) => r[k] = t[k]}
<1>1. 0 \in P
  BY DEF Painted
<1>2. ASSUME NEW k \in Nat, k \in P
      PROVE  k + 1 \in P
  <2> SUFFICES ASSUME k + 1 <= Len(queue)
               PROVE  r[k + 1] = t[k + 1]
    OBVIOUS
  <2>1. r[k] = t[k] /\ k + 1 \in 1..Len(queue) /\ (k + 1) - 1 = k
    BY <1>2
  <2> QED
    BY <2>1 DEF Painted
<1> HIDE DEF P
<1>3. \A k \in Nat : k \in P
  BY <1>1, <1>2, Numbers
<1> QED
  BY <1>3 DEF P

\* Whoever paints message by message ends with RenderAll.
LEMMA PaintedIsRenderAll ==
  ASSUME NEW start, NEW S, NEW queue \in Seq(S), NEW r, Painted(start, queue, r)
  PROVE  r[Len(queue)] = RenderAll(start, queue)
<1>1. Len(queue) \in Nat /\ DOMAIN queue = 1..Len(queue) /\ Len(queue) \in 0..Len(queue)
  BY LenProperties
<1>2. PICK t : Painted(start, queue, t) /\ t[Len(queue)] = RenderAll(start, queue)
  BY <1>1, PaintedExists
<1> QED
  BY <1>1, <1>2, PaintedOnce

\* An empty channel paints nothing.
LEMMA RenderNone ==
  ASSUME NEW start
  PROVE  RenderAll(start, <<>>) = start
<1> DEFINE queue == <<>>
<1>1. queue \in Seq({}) /\ Len(queue) = 0
  OBVIOUS
<1>2. PICK r : Painted(start, queue, r) /\ r[Len(queue)] = RenderAll(start, queue)
  <2>1. DOMAIN queue = 1..Len(queue)
    BY <1>1, LenProperties
  <2> HIDE DEF queue
  <2> QED
    BY <1>1, <2>1, PaintedExists
<1> QED
  BY <1>1, <1>2 DEF Painted

\* A message that is sent is painted last.
LEMMA RenderAppend ==
  ASSUME NEW start, NEW S, NEW queue \in Seq(S), NEW msg \in S
  PROVE  RenderAll(start, Append(queue, msg)) = Render(RenderAll(start, queue), msg)
<1> DEFINE n == Len(queue)
           longer == Append(queue, msg)
<1>1. n \in Nat /\ DOMAIN queue = 1..n
  BY LenProperties
<1>2. /\ longer \in Seq(S) /\ Len(longer) = n + 1
      /\ \A k \in 1..n : longer[k] = queue[k]
      /\ longer[n + 1] = msg
  BY AppendProperties
<1>3. PICK r : Painted(start, queue, r) /\ r[n] = RenderAll(start, queue)
  BY <1>1, PaintedExists
<1> HIDE DEF longer, n
<1> DEFINE t == [k \in 0..(n + 1) |-> IF k = n + 1 THEN Render(r[n], msg) ELSE r[k]]
<1>4. t[0] = start
  BY <1>1, <1>3 DEF Painted
<1>5. ASSUME NEW k \in 1..(n + 1)
      PROVE  t[k] = Render(t[k - 1], longer[k])
  <2>1. k - 1 \in 0..n /\ k - 1 # n + 1 /\ t[k - 1] = r[k - 1]
    BY <1>1
  <2>2. CASE k = n + 1
    BY <1>1, <1>2, <2>1, <2>2
  <2>3. CASE k # n + 1
    <3>1. k \in 1..n
      BY <1>1, <2>3
    <3>2. r[k] = Render(r[k - 1], queue[k])
      BY <1>3, <3>1 DEF Painted, n
    <3>3. t[k] = r[k] /\ longer[k] = queue[k]
      BY <1>1, <1>2, <2>3, <3>1
    <3> QED
      BY <2>1, <3>2, <3>3
  <2> QED
    BY <2>2, <2>3
<1>6. t[n + 1] = Render(r[n], msg)
  BY <1>1
<1> HIDE DEF t
<1>7. Painted(start, longer, t)
  BY <1>2, <1>4, <1>5 DEF Painted
<1>8. t[n + 1] = RenderAll(start, longer)
  BY <1>2, <1>7, PaintedIsRenderAll
<1> QED
  BY <1>3, <1>6, <1>8 DEF longer

\* The message taken out of a channel is painted first.
LEMMA RenderHead ==
  ASSUME NEW start, NEW S, NEW queue \in Seq(S), queue # <<>>
  PROVE  RenderAll(Render(start, Head(queue)), Tail(queue)) = RenderAll(start, queue)
<1> DEFINE n == Len(queue)
           rest == Tail(queue)
           first == Render(start, Head(queue))
<1>1. n \in Nat /\ n > 0 /\ DOMAIN queue = 1..n
  BY LenProperties, EmptySeq
<1>2. /\ rest \in Seq(S) /\ Len(rest) = n - 1 /\ Head(queue) = queue[1]
      /\ \A k \in 1..(n - 1) : rest[k] = queue[k + 1]
  BY HeadTailProperties
<1>3. PICK r : Painted(start, queue, r) /\ r[n] = RenderAll(start, queue)
  BY <1>1, PaintedExists
<1>4. r[1] = first
  BY <1>1, <1>2, <1>3 DEF Painted
<1> HIDE DEF rest, n, first
<1> DEFINE t == [k \in 0..(n - 1) |-> r[k + 1]]
<1>5. t[0] = first
  BY <1>1, <1>4
<1>6. ASSUME NEW k \in 1..(n - 1)
      PROVE  t[k] = Render(t[k - 1], rest[k])
  <2>1. k + 1 \in 1..n /\ (k + 1) - 1 = k /\ t[k] = r[k + 1] /\ t[k - 1] = r[k] /\ rest[k] = queue[k + 1]
    BY <1>1, <1>2
  <2>2. r[k + 1] = Render(r[k], queue[k + 1])
    BY <1>3, <2>1 DEF Painted, n
  <2> QED
    BY <2>1, <2>2
<1>7. t[n - 1] = r[n]
  BY <1>1
<1> HIDE DEF t
<1>8. Painted(first, rest, t)
  BY <1>2, <1>5, <1>6 DEF Painted
<1>9. t[n - 1] = RenderAll(first, rest)
  BY <1>2, <1>8, PaintedIsRenderAll
<1> QED
  BY <1>3, <1>7, <1>9 DEF rest, first

\* The screen after all messages of a channel is a frame.
LEMMA RenderAllType ==
  ASSUME NEW start \in Frame, NEW queue \in Seq(ServerMessage)
  PROVE  RenderAll(start, queue) \in Frame
<1>1. Len(queue) \in Nat /\ DOMAIN queue = 1..Len(queue) /\ \A k \in 1..Len(queue) : queue[k] \in ServerMessage
  BY LenProperties, ElementOfSeq
<1>2. PICK r : Painted(start, queue, r) /\ r[Len(queue)] = RenderAll(start, queue)
  BY <1>1, PaintedExists
<1> DEFINE P == {k \in Nat : k <= Len(queue) => r[k] \in Frame}
<1>3. 0 \in P
  BY <1>2 DEF Painted
<1>4. ASSUME NEW k \in Nat, k \in P
      PROVE  k + 1 \in P
  <2> SUFFICES ASSUME k + 1 <= Len(queue)
               PROVE  r[k + 1] \in Frame
    OBVIOUS
  <2>1. r[k] \in Frame /\ k + 1 \in 1..Len(queue) /\ (k + 1) - 1 = k
    BY <1>1, <1>4
  <2>2. r[k + 1] = Render(r[k], queue[k + 1]) /\ queue[k + 1] \in ServerMessage
    BY <1>1, <1>2, <2>1 DEF Painted
  <2> QED
    BY <2>1, <2>2, RenderType
<1> HIDE DEF P
<1>5. Len(queue) \in P
  BY <1>1, <1>3, <1>4, Numbers
<1> QED
  BY <1>1, <1>2, <1>5 DEF P

\* A diff takes the screen from the frame before to the frame it was computed of
\* (render::diff::compute_diff, render_diff), whatever the two have in common.
LEMMA DiffsCompose ==
  ASSUME NEW s \in Frame, NEW last \in Frame, NEW current \in Frame, s.cells = last.cells
  PROVE  Render(s, ComputeDiff(last, current)).cells = current.cells
<1> DEFINE resent == Resent(last, current)
           d == [i \in resent |-> current.cells[i]]
<1>1. last # NoFrame
  BY NoFrameAssumption
<1>2. resent \in SUBSET Cells /\ Changed(last, current) \subseteq resent
  BY DEF Resent, Changed
<1>3. /\ current.cells \in [Cells -> Values] /\ last.cells \in [Cells -> Values]
      /\ \A i \in Cells \ resent : current.cells[i] = s.cells[i]
  BY <1>2 DEF Frame, Changed
<1>4. CASE resent = {} /\ last.cursor # current.cursor
  <2>1. ComputeDiff(last, current) = CursorUpdate(current.cursor)
    BY <1>1, <1>4 DEF ComputeDiff
  <2>2. Render(s, CursorUpdate(current.cursor)).cells = s.cells
    BY DEF Render, CursorUpdate, Frame
  <2>3. s.cells = current.cells
    BY <1>3, <1>4
  <2> QED
    BY <2>1, <2>2, <2>3
<1>5. CASE ~(resent = {} /\ last.cursor # current.cursor)
  <2>1. ComputeDiff(last, current) = FrameDiff(d)
    BY <1>1, <1>5 DEF ComputeDiff
  <2>2. DOMAIN d = resent /\ FrameDiff(d).type = "FrameDiff" /\ FrameDiff(d).cells = d
    BY DEF FrameDiff
  <2>3. CASE resent = {}
    <3>1. Render(s, FrameDiff(d)) = s
      BY <2>2, <2>3 DEF Render
    <3> QED
      BY <1>3, <2>1, <2>3, <3>1
  <2>4. CASE resent # {}
    <3> DEFINE new == [i \in Cells |-> IF i \in resent THEN d[i] ELSE s.cells[i]]
    <3>1. Render(s, FrameDiff(d)).cells = new
      BY <2>2, <2>4 DEF Render
    <3>2. new = current.cells
      BY <1>3
    <3> QED
      BY <2>1, <3>1, <3>2
  <2> QED
    BY <2>3, <2>4
<1> QED
  BY <1>4, <1>5

(***************************************************************************)
(* Types of the operators the actions are built from.                      *)
(***************************************************************************)
\* The channels hold something.
LEMMA Capacities ==
  /\ InboxCapacity \in Nat /\ InboxCapacity > 0
  /\ ClientCapacity \in Nat /\ ClientCapacity > 0
BY ActorAssumption

\* What try_send leaves in a client's channel is a sequence of messages that
\* fits the channel (tokio::sync::mpsc::Sender::try_send).
LEMMA TrySendType ==
  ASSUME TypeOK, NEW c \in Clients, NEW msgs \in Seq(ServerMessage)
  PROVE  /\ TrySend(c, msgs) \in Seq(ServerMessage)
         /\ Len(TrySend(c, msgs)) <= ClientCapacity
<1> DEFINE n == Sent(c, Len(msgs))
<1>1. outbox[c] \in Seq(ServerMessage) /\ Len(outbox[c]) <= ClientCapacity
  BY DEF TypeOK
<1>2. Len(outbox[c]) \in Nat /\ Len(msgs) \in Nat
  BY <1>1, LenProperties
<1>0. Room(c) \in Nat /\ (Room(c) > 0 => Len(outbox[c]) + Room(c) = ClientCapacity)
  <2> DEFINE len == Len(outbox[c])
  <2>1. len \in Nat /\ len <= ClientCapacity
    BY <1>1, <1>2
  <2>2. Room(c) = IF writer[c] = "running" THEN ClientCapacity - len ELSE 0
    BY DEF Room
  <2> HIDE DEF len
  <2>3. Room(c) \in Nat /\ (Room(c) > 0 => len + Room(c) = ClientCapacity)
    BY <2>1, <2>2, Capacities
  <2> QED
    BY <2>3 DEF len
<1>3. n \in 0..Len(msgs) /\ (n > 0 => Len(outbox[c]) + n <= ClientCapacity)
  BY <1>0, <1>2, ActorAssumption DEF Sent
<1> HIDE DEF n
<1>4. \A i \in 1..n : msgs[i] \in ServerMessage
  BY <1>2, <1>3, ElementOfSeq
<1>5. SubSeq(msgs, 1, n) \in Seq(ServerMessage) /\ Len(SubSeq(msgs, 1, n)) = n
  BY <1>3, <1>4, SubSeqProperties
<1> QED
  BY <1>1, <1>2, <1>3, <1>5, ConcatProperties, ActorAssumption
     DEF TrySend, n

\* The greeting of a joining client is a sequence of messages
\* (handle_new_client).
LEMMA GreetingType ==
  ASSUME TypeOK
  PROVE  Greeting \in Seq(ServerMessage)
<1>1. Visible \in Seq(Panes) /\ Len(Visible) \in Nat
  BY ActorAssumption, LenProperties
<1>2. \A i \in 1..Len(Visible) : Visible[i] \in Panes
  BY <1>1, ElementOfSeq
<1>3. \A i \in 1..Len(Visible) : FullFrame(terminal[Visible[i]]) \in ServerMessage
  BY <1>2 DEF TypeOK, ServerMessage
<1> DEFINE frames == [i \in 1..Len(Visible) |-> FullFrame(terminal[Visible[i]])]
<1>4. frames \in Seq(ServerMessage)
  BY <1>1, <1>3, IsASeq
<1>5. Handshake \in ServerMessage
  BY DEF ServerMessage
<1>6. <<Handshake>> \in Seq(ServerMessage)
  BY <1>5
<1> QED
  BY <1>4, <1>6, ConcatProperties DEF Greeting

\* The order in which a tick drains the dirty set lists panes of it
\* (handle_render_tick).
LEMMA OrderType ==
  ASSUME TypeOK, NEW order \in SetToSeqs(dirty)
  PROVE  /\ order \in Seq(Panes)
         /\ Diffs(order) \in Seq(ServerMessage)
         /\ Len(Diffs(order)) = Len(order)
<1>1. dirty \subseteq Panes /\ IsFiniteSet(dirty)
  BY ActorAssumption, FS_Subset DEF TypeOK
<1>2. Cardinality(dirty) \in Nat
  BY <1>1, FS_CardinalityType
<1>3. order \in [1..Cardinality(dirty) -> dirty]
  BY DEF SetToSeqs
<1>4. order \in Seq(Panes) /\ Len(order) \in Nat
  BY <1>1, <1>2, <1>3
<1>5. \A i \in 1..Len(order) : order[i] \in Panes
  BY <1>4, ElementOfSeq
<1>6. \A i \in 1..Len(order) :
        ComputeDiff(lastFrame[order[i]], terminal[order[i]]) \in ServerMessage
  BY <1>5, ComputeDiffType DEF TypeOK
<1>7. Diffs(order) \in Seq(ServerMessage)
  BY <1>4, <1>6, IsASeq DEF Diffs
<1> QED
  BY <1>4, <1>7 DEF Diffs


\* The initial state is well typed (SessionActor::new and main.rs).
LEMMA InitType == Init => TypeOK
<1> SUFFICES ASSUME Init PROVE TypeOK
  OBVIOUS
<1>1. inbox \in Seq(SessionMsg) /\ Len(inbox) = 0 /\ typists \in Seq(Clients)
  BY DEF Init
<1>2. outbox \in [Clients -> Seq(ServerMessage)]
  BY DEF Init
<1>3. \A c \in Clients : Len(outbox[c]) = 0
  BY DEF Init
<1>4. Len(inbox) <= InboxCapacity /\ \A c \in Clients : Len(outbox[c]) <= ClientCapacity
  BY <1>1, <1>3, Capacities
<1>5. /\ terminal \in [Panes -> Frame] /\ screen \in [Clients -> Frame]
      /\ lastFrame \in [Panes -> Frame \cup {NoFrame}]
  BY BlankFrameType DEF Init
<1>6. /\ source \in [Clients \cup PaneIds -> {"new", "open", "closed"}]
      /\ writer \in [Clients -> {"running", "exited"}]
  BY DEF Init
<1> QED
  BY <1>1, <1>2, <1>4, <1>5, <1>6 DEF Init, TypeOK

\* A sender leaves the state well typed (Sender::send).
LEMMA SendType ==
  ASSUME TypeOK, NEW msg \in SessionMsg, Send(msg),
         source' \in [Clients \cup PaneIds -> {"new", "open", "closed"}]
  PROVE  TypeOK'
<1>1. inbox' \in Seq(SessionMsg) /\ Len(inbox') = Len(inbox) + 1
  BY AppendProperties DEF TypeOK, Send
<1>2. Len(inbox') <= InboxCapacity
  BY <1>1, ActorAssumption DEF TypeOK, Send
<1> QED
  BY <1>1, <1>2 DEF TypeOK, Send, actorVars, clientVars, auxVars

\* A handler leaves what it may change well typed (dispatch).
LEMMA DispatchType ==
  ASSUME TypeOK, NEW msg \in SessionMsg, Dispatch(msg)
  PROVE  /\ clients' \subseteq Clients
         /\ focused' \in Clients \cup {NoClient}
         /\ terminal' \in [Panes -> Frame]
         /\ lastFrame' \in [Panes -> Frame \cup {NoFrame}]
         /\ dirty' \subseteq Panes
         /\ layoutDirty' \in BOOLEAN
         /\ outbox' \in [Clients -> Seq(ServerMessage)]
         /\ \A c \in Clients : Len(outbox'[c]) <= ClientCapacity
         /\ dropped' \subseteq Clients
         /\ bypassed' \subseteq Clients
         /\ typists' \in Seq(Clients)
<1>1. CASE \E c \in Clients : msg = NewClient(c)
  <2>1. PICK c \in Clients : msg = NewClient(c)
    BY <1>1
  <2>2. HandleNewClient(c)
    BY <2>1 DEF Dispatch, NewClient
  <2>3. /\ TrySend(c, Greeting) \in Seq(ServerMessage)
        /\ Len(TrySend(c, Greeting)) <= ClientCapacity
    BY GreetingType, TrySendType
  <2> QED
    BY <2>2, <2>3 DEF HandleNewClient, TypeOK
<1>2. CASE \E c \in Clients, k \in InputKinds : msg = ClientInput(c, k)
  <2>1. PICK c \in Clients, k \in InputKinds : msg = ClientInput(c, k)
    BY <1>2
  <2>2. HandleClientInput(c, k)
    BY <2>1 DEF Dispatch, ClientInput
  <2>3. Append(typists, c) \in Seq(Clients)
    BY AppendProperties DEF TypeOK
  <2> QED
    BY <2>2, <2>3 DEF HandleClientInput, TypeOK
<1>3. CASE \E c \in Clients : msg = ClientDisconnected(c)
  <2>1. PICK c \in Clients : msg = ClientDisconnected(c)
    BY <1>3
  <2>2. HandleClientDisconnected(c)
    BY <2>1 DEF Dispatch, ClientDisconnected
  <2> QED
    BY <2>2 DEF HandleClientDisconnected, TypeOK, auxVars
<1>4. CASE \E p \in PaneIds, d \in Chunks : msg = PtyOutput(p, d)
  <2>1. PICK p \in PaneIds, d \in Chunks : msg = PtyOutput(p, d)
    BY <1>4
  <2>2. HandlePtyOutput(p, d)
    BY <2>1 DEF Dispatch, PtyOutput
  <2>3. p \in Panes => Feed(terminal[p], d) \in Frame
    BY FeedType, ChunksAssumption DEF TypeOK
  <2> QED
    BY <2>2, <2>3 DEF HandlePtyOutput, TypeOK, auxVars
<1>5. CASE \E p \in PaneIds : msg = PaneDied(p)
  <2>1. HandlePaneDied
    BY <1>5 DEF Dispatch, PaneDied
  <2> QED
    BY <2>1 DEF HandlePaneDied, TypeOK, auxVars
<1>6. CASE \E s \in Signals : msg = Signal(s)
  <2>1. HandleHostResize \/ HandleShutdown
    BY <1>6, ActorAssumption DEF Dispatch, Signal
  <2> QED
    BY <2>1 DEF HandleHostResize, HandleShutdown, TypeOK, auxVars
<1> QED
  BY <1>1, <1>2, <1>3, <1>4, <1>5, <1>6 DEF SessionMsg

\* No step leaves the types (run, the writers and the senders).
LEMMA NextType == TypeOK /\ [Next]_vars => TypeOK'
<1> SUFFICES ASSUME TypeOK, [Next]_vars PROVE TypeOK'
  OBVIOUS
<1>1. CASE Receive
  <2> USE <1>1 DEF Receive
  <2>1. /\ Head(inbox) \in SessionMsg
        /\ Tail(inbox) \in Seq(SessionMsg)
        /\ Len(Tail(inbox)) = Len(inbox) - 1
    BY HeadTailProperties DEF TypeOK
  <2>2. inbox' \in Seq(SessionMsg) /\ Len(inbox') <= InboxCapacity
    <3>1. CASE Head(inbox).type = "Shutdown"
      <4>1. inbox' = <<>>
        BY <3>1
      <4>2. <<>> \in Seq(SessionMsg) /\ Len(<<>>) = 0
        OBVIOUS
      <4> QED
        BY <4>1, <4>2, Capacities
    <3>2. CASE Head(inbox).type # "Shutdown"
      <4>1. inbox' = Tail(inbox)
        BY <3>2
      <4>2. Len(inbox) \in Nat /\ Len(inbox) <= InboxCapacity
        BY LenProperties DEF TypeOK
      <4> QED
        BY <2>1, <4>1, <4>2, Capacities
    <3> QED
      BY <3>1, <3>2
  <2> QED
    BY <2>1, <2>2, DispatchType DEF TypeOK
<1>2. CASE Drained
  BY <1>2 DEF Drained, TypeOK, clientVars, auxVars
<1>3. CASE TimerFires
  BY <1>3 DEF TimerFires, TypeOK, clientVars, auxVars
<1>4. CASE RenderTick
  <2> USE <1>4 DEF RenderTick
  <2>1. PICK order \in SetToSeqs(dirty) :
          /\ outbox' = [c \in Clients |-> IF c \in clients
                                          THEN TrySend(c, Diffs(order))
                                          ELSE outbox[c]]
          /\ dropped' = dropped
                          \cup {c \in clients : Sent(c, Len(order)) < Len(order)}
    OBVIOUS
  <2>2. \A c \in Clients : /\ outbox'[c] \in Seq(ServerMessage)
                           /\ Len(outbox'[c]) <= ClientCapacity
    BY <2>1, OrderType, TrySendType DEF TypeOK
  <2>3. outbox' \in [Clients -> Seq(ServerMessage)]
    BY <2>1, <2>2
  <2>4. dropped' \subseteq Clients
    BY <2>1 DEF TypeOK
  <2> QED
    BY <2>2, <2>3, <2>4 DEF TypeOK
<1>5. CASE Senders
  <2>0. ASSUME NEW c \in Clients \cup PaneIds, NEW from, NEW to, Move(c, from, to),
               to \in {"open", "closed"}
        PROVE  source' \in [Clients \cup PaneIds -> {"new", "open", "closed"}]
    BY <2>0 DEF Move, TypeOK
  <2>1. ASSUME NEW c \in Clients, Connect(c) PROVE TypeOK'
    <3>1. NewClient(c) \in SessionMsg
      BY DEF SessionMsg
    <3> QED
      BY <2>1, <2>0, <3>1, SendType DEF Connect
  <2>2. ASSUME NEW c \in Clients, EndInput(c) PROVE TypeOK'
    <3>1. source' \in [Clients \cup PaneIds -> {"new", "open", "closed"}]
      BY <2>2, <2>0 DEF EndInput
    <3>2. UNCHANGED <<actorVars, inbox, clientVars, auxVars>>
      BY <2>2 DEF EndInput
    <3> QED
      BY <3>1, <3>2 DEF TypeOK, actorVars, clientVars, auxVars
  <2>3. ASSUME NEW c \in Clients, NEW k \in InputKinds, SendInput(c, k) PROVE TypeOK'
    <3>1. ClientInput(c, k) \in SessionMsg
      BY DEF SessionMsg
    <3> QED
      BY <2>3, <3>1, SendType DEF SendInput, TypeOK
  <2>4. ASSUME NEW p \in PaneIds, NEW d \in Chunks, ReadPty(p, d) PROVE TypeOK'
    <3>1. PtyOutput(p, d) \in SessionMsg
      BY DEF SessionMsg
    <3> QED
      BY <2>4, <3>1, SendType DEF ReadPty, TypeOK
  <2>5. ASSUME NEW p \in PaneIds, EndPty(p) PROVE TypeOK'
    <3>1. PaneDied(p) \in SessionMsg
      BY DEF SessionMsg
    <3> QED
      BY <2>5, <2>0, <3>1, SendType DEF EndPty
  <2> QED
    BY <1>5, <2>1, <2>2, <2>3, <2>4, <2>5 DEF Senders
<1>6. CASE Writers
  <2>1. ASSUME NEW c \in Clients, WriterPaints(c) PROVE TypeOK'
    <3>1. /\ Head(outbox[c]) \in ServerMessage
          /\ Tail(outbox[c]) \in Seq(ServerMessage)
          /\ Len(Tail(outbox[c])) = Len(outbox[c]) - 1
      BY <2>1, HeadTailProperties DEF WriterPaints, TypeOK
    <3>2. Render(screen[c], Head(outbox[c])) \in Frame
      BY <3>1, RenderType DEF TypeOK
    <3>3. Len(outbox[c]) \in Nat
      BY LenProperties DEF TypeOK
    <3> QED
      BY <2>1, <3>1, <3>2, <3>3, ActorAssumption
         DEF WriterPaints, TypeOK, actorVars, auxVars
  <2>2. ASSUME NEW c \in Clients, WriterEnds(c) PROVE TypeOK'
    BY <2>2 DEF WriterEnds, TypeOK, actorVars, auxVars
  <2>3. ASSUME NEW c \in Clients, WriterFails(c) PROVE TypeOK'
    <3>1. <<>> \in Seq(ServerMessage) /\ Len(<<>>) = 0
      OBVIOUS
    <3> QED
      BY <2>3, <3>1, ActorAssumption DEF WriterFails, TypeOK, actorVars
  <2> QED
    BY <1>6, <2>1, <2>2, <2>3 DEF Writers
<1>7. CASE Callers
  <2>1. ASSUME NEW c \in Clients, Announce(c) PROVE TypeOK'
    <3>1. ClientDisconnected(c) \in SessionMsg
      BY DEF SessionMsg
    <3> QED
      BY <2>1, <3>1, SendType DEF Announce, TypeOK
  <2>2. ASSUME NEW s \in Signals, Raise(s) PROVE TypeOK'
    <3>1. Signal(s) \in SessionMsg
      BY DEF SessionMsg
    <3> QED
      BY <2>2, <3>1, SendType DEF Raise, TypeOK
  <2> QED
    BY <1>7, <2>1, <2>2 DEF Callers
<1>8. CASE UNCHANGED vars
  BY <1>8 DEF vars, actorVars, clientVars, auxVars, TypeOK
<1> QED
  BY <1>1, <1>2, <1>3, <1>4, <1>5, <1>6, <1>7, <1>8 DEF Next

\* The type invariant holds for any clients, panes and capacities: among the
\* rest, no channel ever holds more than its capacity and dirty_panes only
\* names panes of the map, which handle_render_tick relies on.
THEOREM TypeCorrect == Spec => []TypeOK
BY InitType, NextType, PTL DEF Spec

(***************************************************************************)
(* The registry of clients.                                                *)
(***************************************************************************)
\* A message is handled by the handler of its variant (dispatch).
LEMMA DispatchCases ==
  ASSUME NEW msg \in SessionMsg, Dispatch(msg)
  PROVE  \/ \E c \in Clients : msg = NewClient(c) /\ HandleNewClient(c)
         \/ \E c \in Clients, k \in InputKinds :
              msg = ClientInput(c, k) /\ HandleClientInput(c, k)
         \/ \E c \in Clients :
              msg = ClientDisconnected(c) /\ HandleClientDisconnected(c)
         \/ \E p \in PaneIds, d \in Chunks :
              msg = PtyOutput(p, d) /\ HandlePtyOutput(p, d)
         \/ \E p \in PaneIds : msg = PaneDied(p) /\ HandlePaneDied
         \/ \E s \in Signals :
              msg = Signal(s) /\ (HandleHostResize \/ HandleShutdown)
<1>1. CASE \E c \in Clients : msg = NewClient(c)
  BY <1>1 DEF Dispatch, NewClient
<1>2. CASE \E c \in Clients, k \in InputKinds : msg = ClientInput(c, k)
  BY <1>2 DEF Dispatch, ClientInput
<1>3. CASE \E c \in Clients : msg = ClientDisconnected(c)
  BY <1>3 DEF Dispatch, ClientDisconnected
<1>4. CASE \E p \in PaneIds, d \in Chunks : msg = PtyOutput(p, d)
  BY <1>4 DEF Dispatch, PtyOutput
<1>5. CASE \E p \in PaneIds : msg = PaneDied(p)
  BY <1>5 DEF Dispatch, PaneDied
<1>6. CASE \E s \in Signals : msg = Signal(s)
  BY <1>6, ActorAssumption DEF Dispatch, Signal
<1> QED
  BY <1>1, <1>2, <1>3, <1>4, <1>5, <1>6 DEF SessionMsg

\* Only the handlers change the registry, the focus, the terminals and what was
\* typed.
LEMMA OnlyHandlersChange ==
  ASSUME [Next]_vars, ~Receive
  PROVE  UNCHANGED <<clients, focused, terminal, typists>>
BY DEF Next, vars, actorVars, clientVars, auxVars, Drained, TimerFires,
       RenderTick, Senders, Connect, EndInput, SendInput, ReadPty, EndPty,
       Callers, Announce, Raise, Move, Send, Writers, WriterPaints, WriterEnds, WriterFails

\* The message that is handled is one of those in the inbox.
LEMMA HeadType ==
  ASSUME TypeOK, Receive
  PROVE  Head(inbox) \in SessionMsg /\ Dispatch(Head(inbox))
BY HeadTailProperties DEF TypeOK, Receive

\* The registry and the focus change together, in the handlers
\* (handle_new_client, handle_client_disconnected).
LEMMA FocusStep == TypeOK /\ FocusIsRegistered /\ [Next]_vars => FocusIsRegistered'
<1> SUFFICES ASSUME TypeOK, FocusIsRegistered, [Next]_vars
             PROVE  FocusIsRegistered'
  OBVIOUS
<1>1. NoClient \notin clients
  BY ActorAssumption DEF TypeOK
<1>2. CASE Receive
  <2>1. ASSUME NEW c \in Clients, HandleNewClient(c) PROVE FocusIsRegistered'
    BY <2>1, <1>1, ActorAssumption DEF HandleNewClient, FocusIsRegistered
  <2>2. ASSUME NEW c \in Clients, HandleClientDisconnected(c)
        PROVE  FocusIsRegistered'
    BY <2>2, <1>1 DEF HandleClientDisconnected, FocusIsRegistered
  <2>3. ASSUME UNCHANGED <<clients, focused>> PROVE FocusIsRegistered'
    BY <2>3 DEF FocusIsRegistered
  <2> QED
    BY <1>2, <2>1, <2>2, <2>3, HeadType, DispatchCases
       DEF HandleClientInput, HandlePtyOutput, HandlePaneDied,
           HandleHostResize, HandleShutdown
<1>3. CASE ~Receive
  BY <1>3, OnlyHandlersChange DEF FocusIsRegistered
<1> QED
  BY <1>2, <1>3

\* Whoever has the focus is registered, and somebody has it while anybody is
\* registered: handle_client_disconnected and handle_new_client keep the two
\* fields in step in whatever order clients come and go.
THEOREM FocusAlwaysRegistered == Spec => []FocusIsRegistered
<1>1. Init => FocusIsRegistered
  BY DEF Init, FocusIsRegistered
<1> QED
  BY <1>1, FocusStep, TypeCorrect, PTL DEF Spec

(***************************************************************************)
(* The frames that were sent.                                              *)
(***************************************************************************)
\* Output makes a pane dirty; a tick or a full frame takes its present frame
\* (handle_pty_output, handle_render_tick, Pane::full_frame).
LEMMA CleanStep ==
  TypeOK /\ CleanPanesAreSent /\ [Next]_vars => CleanPanesAreSent'
<1> SUFFICES ASSUME TypeOK, CleanPanesAreSent, [Next]_vars
             PROVE  CleanPanesAreSent'
  OBVIOUS
<1>1. CASE Receive
  <2>1. ASSUME NEW c \in Clients, HandleNewClient(c) PROVE CleanPanesAreSent'
    BY <2>1 DEF HandleNewClient, CleanPanesAreSent
  <2>2. ASSUME NEW p \in PaneIds, NEW d \in Chunks, HandlePtyOutput(p, d)
        PROVE  CleanPanesAreSent'
    <3>1. ASSUME NEW q \in Panes \ dirty'
          PROVE  q \notin dirty /\ terminal'[q] = terminal[q]
      BY <2>2, <3>1 DEF HandlePtyOutput, TypeOK
    <3>2. lastFrame' = lastFrame
      BY <2>2 DEF HandlePtyOutput
    <3> QED
      BY <3>1, <3>2 DEF CleanPanesAreSent
  <2>3. ASSUME UNCHANGED <<dirty, terminal, lastFrame>>
        PROVE  CleanPanesAreSent'
    BY <2>3 DEF CleanPanesAreSent
  <2> QED
    BY <1>1, <2>1, <2>2, <2>3, HeadType, DispatchCases
       DEF HandleClientInput, HandleClientDisconnected, HandlePaneDied,
           HandleHostResize, HandleShutdown
<1>2. CASE RenderTick
  BY <1>2 DEF RenderTick, CleanPanesAreSent
<1>3. CASE UNCHANGED <<dirty, terminal, lastFrame>>
  BY <1>3 DEF CleanPanesAreSent
<1> QED
  BY <1>1, <1>2, <1>3
     DEF Next, vars, actorVars, clientVars, auxVars, Drained, TimerFires,
         Senders, Connect, EndInput, SendInput, ReadPty, EndPty, Callers,
         Announce, Raise, Move, Send, Writers, WriterPaints, WriterEnds, WriterFails

\* No output of a child is forgotten: a pane outside dirty_panes shows the frame
\* that compute_diff or full_frame saw last, so the next diff starts from it.
THEOREM CleanPanesAlwaysSent == Spec => []CleanPanesAreSent
<1>1. Init => CleanPanesAreSent
  BY DEF Init, CleanPanesAreSent
<1> QED
  BY <1>1, CleanStep, TypeCorrect, PTL DEF Spec

(***************************************************************************)
(* A client is announced once.                                             *)
(***************************************************************************)
\* The elements of a queue that something was added to.
LEMMA AppendRange ==
  ASSUME NEW S, NEW s \in Seq(S), NEW e \in S
  PROVE  Range(Append(s, e)) = Range(s) \cup {e}
<1>1. /\ Len(Append(s, e)) = Len(s) + 1 /\ Len(s) \in Nat
      /\ Append(s, e) \in Seq(S)
      /\ \A i \in 1..Len(s) : Append(s, e)[i] = s[i]
      /\ Append(s, e)[Len(s) + 1] = e
  BY AppendProperties, LenProperties
<1>2. DOMAIN s = 1..Len(s) /\ DOMAIN Append(s, e) = 1..(Len(s) + 1)
  BY <1>1, LenProperties
<1>3. 1..(Len(s) + 1) = (1..Len(s)) \cup {Len(s) + 1}
  BY <1>1
<1> QED
  BY <1>1, <1>2, <1>3 DEF Range

\* The elements of a queue are its head and those of its tail.
LEMMA TailRange ==
  ASSUME NEW S, NEW s \in Seq(S), s # <<>>
  PROVE  Range(s) = Range(Tail(s)) \cup {Head(s)}
<1>1. /\ Len(Tail(s)) = Len(s) - 1 /\ Len(s) \in Nat /\ Len(s) > 0
      /\ Tail(s) \in Seq(S)
      /\ \A i \in 1..(Len(s) - 1) : Tail(s)[i] = s[i + 1]
      /\ Head(s) = s[1]
  BY HeadTailProperties, LenProperties, EmptySeq
<1>2. DOMAIN s = 1..Len(s) /\ DOMAIN Tail(s) = 1..(Len(s) - 1)
  BY <1>1, LenProperties
<1>3. ASSUME NEW i \in 1..Len(s), i # 1
      PROVE  i - 1 \in 1..(Len(s) - 1) /\ s[i] = Tail(s)[i - 1]
  BY <1>1, <1>3
<1>4. \A i \in 1..(Len(s) - 1) : i + 1 \in 1..Len(s) /\ Tail(s)[i] = s[i + 1]
  BY <1>1
<1>5. ASSUME NEW i \in 1..Len(s) PROVE s[i] \in Range(Tail(s)) \cup {Head(s)}
  <2>1. CASE i = 1
    BY <1>1, <2>1
  <2>2. CASE i # 1
    BY <1>2, <1>3, <2>2 DEF Range
  <2> QED
    BY <2>1, <2>2
<1>6. Range(s) \subseteq Range(Tail(s)) \cup {Head(s)}
  BY <1>2, <1>5 DEF Range
<1>7. Range(Tail(s)) \subseteq Range(s)
  BY <1>2, <1>4 DEF Range
<1>8. Head(s) \in Range(s)
  BY <1>1, <1>2 DEF Range
<1> QED
  BY <1>6, <1>7, <1>8

\* Messages of different variants, or about different clients, are different.
LEMMA DistinctMessages ==
  ASSUME NEW c, NEW d
  PROVE  /\ NewClient(c) # ClientDisconnected(d)
         /\ NewClient(c) = NewClient(d) => c = d
         /\ ClientDisconnected(c) = ClientDisconnected(d) => c = d
         /\ \A k : ClientInput(c, k) # NewClient(d)
                   /\ ClientInput(c, k) # ClientDisconnected(d)
         /\ \A p, x : PtyOutput(p, x) # NewClient(d)
                      /\ PtyOutput(p, x) # ClientDisconnected(d)
         /\ \A p : PaneDied(p) # NewClient(d) /\ PaneDied(p) # ClientDisconnected(d)
         /\ \A s \in Signals : /\ Signal(s) # NewClient(d)
                               /\ Signal(s) # ClientDisconnected(d)
<1>1. NewClient(c).type = "NewClient" /\ NewClient(c).id = c
      /\ NewClient(d).id = d /\ NewClient(d).type = "NewClient"
      /\ ClientDisconnected(d).type = "ClientDisconnected"
      /\ ClientDisconnected(d).id = d
      /\ ClientDisconnected(c).id = c
  BY DEF NewClient, ClientDisconnected
<1>2. \A k : ClientInput(c, k).type = "ClientInput"
  BY DEF ClientInput
<1>3. \A p, x : PtyOutput(p, x).type = "PtyOutput"
  BY DEF PtyOutput
<1>4. \A p : PaneDied(p).type = "PaneDied"
  BY DEF PaneDied
<1>5. \A s \in Signals : Signal(s).type \in {"HostResize", "Shutdown"}
  BY ActorAssumption DEF Signal
<1>6. NewClient(c) # ClientDisconnected(d)
  BY <1>1
<1>7. NewClient(c) = NewClient(d) => c = d
  BY <1>1
<1>8. ClientDisconnected(c) = ClientDisconnected(d) => c = d
  BY <1>1
<1>9. \A s \in Signals : Signal(s) # NewClient(d) /\ Signal(s) # ClientDisconnected(d)
  BY <1>1, <1>5
<1> QED
  BY <1>1, <1>2, <1>3, <1>4, <1>6, <1>7, <1>8, <1>9

\* What is added to the inbox, seen from client c: its announcement, or nothing
\* that announces it.
LEMMA RegistrationSend ==
  ASSUME TypeOK, Registration, NEW msg \in SessionMsg, Send(msg),
         \A c \in Clients :
           \/ /\ msg = NewClient(c) /\ source[c] = "new" /\ source'[c] = "open"
           \/ msg # NewClient(c) /\ source'[c] = source[c]
  PROVE  Registration'
<1> SUFFICES ASSUME NEW c \in Clients PROVE Registered(c)'
  BY DEF Registration
<1> DEFINE n == Len(inbox)
<1>1. /\ inbox' \in Seq(SessionMsg) /\ n \in Nat /\ Len(inbox') = n + 1
      /\ \A i \in 1..n : inbox'[i] = inbox[i]
      /\ inbox'[n + 1] = msg
  BY AppendProperties, LenProperties DEF TypeOK, Send
<1>2. \A i \in 1..n : inbox[i] \in Range(inbox)
  BY DEF TypeOK, Range
<1>3. Range(inbox') = Range(inbox) \cup {msg}
  BY AppendRange DEF TypeOK, Send
<1>4. UNCHANGED <<clients, typists>>
  BY DEF Send, actorVars, auxVars
<1>5. Registered(c)
  BY DEF Registration
<1> HIDE DEF n
<1>6. \A i \in 1..(n + 1) : i \in 1..n \/ i = n + 1
  BY <1>1
<1>7. ASSUME NEW i \in 1..(n + 1), NEW j \in 1..(n + 1),
             inbox'[i] = NewClient(c), inbox'[j] = NewClient(c)
      PROVE  i = j
  BY <1>1, <1>2, <1>5, <1>6, <1>7 DEF Registered, n
<1>8. NewClient(c) \in Range(inbox') => c \notin clients' \cup Range(typists')
  BY <1>3, <1>4, <1>5 DEF Registered
<1>9. source'[c] = "new" => /\ c \notin clients' \cup Range(typists')
                            /\ NewClient(c) \notin Range(inbox')
  BY <1>3, <1>4, <1>5 DEF Registered
<1> QED
  BY <1>1, <1>7, <1>8, <1>9 DEF Registered

\* What the actor takes from the inbox, seen from client c.
LEMMA RegistrationReceive ==
  ASSUME TypeOK, Registration, FocusIsRegistered, Receive
  PROVE  Registration'
<1> SUFFICES ASSUME NEW c \in Clients PROVE Registered(c)'
  BY DEF Registration
<1>1. Registered(c) /\ inbox # <<>> /\ source' = source /\ phase # "stopped"
  BY DEF Registration, Receive
<1>2. Head(inbox) \in SessionMsg /\ Dispatch(Head(inbox))
  BY HeadType
<1>3. CASE Head(inbox).type = "Shutdown"
  <2>1. inbox' = <<>> /\ phase' = "stopped"
    BY <1>3 DEF Receive
  <2>2. Len(inbox') = 0 /\ Range(inbox') = {}
    BY <2>1 DEF Range
  <2>3. HandleShutdown
    BY <1>2, <1>3 DEF Dispatch
  <2>4. UNCHANGED <<clients, typists>>
    BY <2>3 DEF HandleShutdown, auxVars
  <2> QED
    BY <1>1, <2>1, <2>2, <2>4 DEF Registered
<1>4. CASE Head(inbox).type # "Shutdown"
  <2> DEFINE n == Len(inbox)
  <2>1. inbox' = Tail(inbox)
    BY <1>4 DEF Receive
  <2>2. /\ n \in Nat /\ n > 0 /\ Len(inbox') = n - 1
        /\ \A i \in 1..(n - 1) : inbox'[i] = inbox[i + 1]
        /\ Head(inbox) = inbox[1]
    BY <1>1, <2>1, HeadTailProperties, LenProperties, EmptySeq DEF TypeOK
  <2>3. Range(inbox) = Range(inbox') \cup {Head(inbox)}
    BY <1>1, <2>1, TailRange DEF TypeOK
  <2> HIDE DEF n
  <2>5. \A i \in 1..(n - 1) : i + 1 \in 1..n /\ i + 1 # 1
    BY <2>2
  <2>6. 1 \in 1..n
    BY <2>2
  <2>7. \A i, j \in 1..(n - 1) :
          inbox'[i] = NewClient(c) /\ inbox'[j] = NewClient(c) => i = j
    BY <1>1, <2>2, <2>5 DEF Registered, n
  <2>8. Head(inbox) = NewClient(c) => NewClient(c) \notin Range(inbox')
    <3> SUFFICES ASSUME Head(inbox) = NewClient(c), NewClient(c) \in Range(inbox')
                 PROVE  FALSE
      OBVIOUS
    <3>1. PICK i \in 1..(n - 1) : inbox'[i] = NewClient(c)
      BY <2>2, <2>1, HeadTailProperties, <1>1 DEF TypeOK, Range, n
    <3>2. inbox[i + 1] = NewClient(c) /\ inbox[1] = NewClient(c)
      BY <2>2, <3>1
    <3> QED
      BY <1>1, <2>5, <2>6, <3>2 DEF Registered, n
  <2>9. CASE Head(inbox) = NewClient(c)
    <3>1. HandleNewClient(c)
      BY <1>2, <2>9 DEF Dispatch, NewClient
    <3>2. clients' = clients \cup {c} /\ typists' = typists
      BY <3>1 DEF HandleNewClient
    <3>3. source[c] # "new"
      BY <1>1, <2>3, <2>9 DEF Registered
    <3> QED
      BY <1>1, <2>2, <2>3, <2>7, <2>8, <2>9, <3>2, <3>3 DEF Registered
  <2>10. CASE Head(inbox) = ClientDisconnected(c)
    <3>1. HandleClientDisconnected(c)
      BY <1>2, <2>10 DEF Dispatch, ClientDisconnected
    <3>2. clients' = clients \ {c} /\ typists' = typists
      BY <3>1 DEF HandleClientDisconnected, auxVars
    <3> QED
      BY <1>1, <2>2, <2>3, <2>7, <3>2 DEF Registered
  <2>11. CASE Head(inbox) # NewClient(c) /\ Head(inbox) # ClientDisconnected(c)
    <3>1. c \in clients' <=> c \in clients
      BY <1>2, <2>11, DispatchCases
         DEF HandleNewClient, HandleClientInput, HandleClientDisconnected,
             HandlePtyOutput, HandlePaneDied, HandleHostResize, HandleShutdown
    <3>2. c \in Range(typists') => c \in Range(typists) \cup clients
      <4>1. CASE typists' = typists
        BY <4>1
      <4>2. CASE \E d \in Clients : focused = d /\ typists' = Append(typists, d)
        <5>1. PICK d \in Clients : focused = d /\ typists' = Append(typists, d)
          BY <4>2
        <5>2. Range(typists') = Range(typists) \cup {d}
          BY <5>1, AppendRange DEF TypeOK
        <5>3. d \in clients
          BY <5>1, ActorAssumption DEF FocusIsRegistered
        <5> QED
          BY <5>2, <5>3
      <4> QED
        BY <1>2, <4>1, <4>2, DispatchCases
           DEF HandleNewClient, HandleClientInput, HandleClientDisconnected,
               HandlePtyOutput, HandlePaneDied, HandleHostResize,
               HandleShutdown, auxVars
    <3> QED
      BY <1>1, <2>2, <2>3, <2>7, <2>11, <3>1, <3>2 DEF Registered
  <2> QED
    BY <2>9, <2>10, <2>11
<1> QED
  BY <1>3, <1>4

\* Nobody has connected at first (SessionActor::new).
LEMMA RegistrationInit == Init => Registration
<1> SUFFICES ASSUME Init PROVE Registration
  OBVIOUS
<1>1. Len(inbox) = 0 /\ Range(inbox) = {} /\ Range(typists) = {}
  BY DEF Init, Range
<1> QED
  BY <1>1, ActorAssumption DEF Init, Registration, Registered

\* Every step keeps a client's registration in order (run, and the senders).
LEMMA RegistrationStep ==
  TypeOK /\ FocusIsRegistered /\ Registration /\ [Next]_vars => Registration'
<1> SUFFICES ASSUME TypeOK, FocusIsRegistered, Registration, [Next]_vars
             PROVE  Registration'
  OBVIOUS
<1>1. CASE Receive
  BY <1>1, RegistrationReceive
<1>2. ASSUME NEW c \in Clients, Connect(c) PROVE Registration'
  <2>1. NewClient(c) \in SessionMsg
    BY DEF SessionMsg
  <2> QED
    BY <1>2, <2>1, RegistrationSend, DistinctMessages
       DEF Connect, Move, TypeOK
<1>3. ASSUME NEW c \in Clients, EndInput(c) PROVE Registration'
  <2>1. \A d \in Clients : source'[d] = "new" => source[d] = "new"
    BY <1>3 DEF EndInput, Move, TypeOK
  <2>2. UNCHANGED <<inbox, clients, typists>>
    BY <1>3 DEF EndInput, actorVars, auxVars
  <2> QED
    BY <2>1, <2>2 DEF Registration, Registered
<1>4. ASSUME NEW c \in Clients, NEW k \in InputKinds, SendInput(c, k)
      PROVE  Registration'
  <2>1. ClientInput(c, k) \in SessionMsg
    BY DEF SessionMsg
  <2> QED
    BY <1>4, <2>1, RegistrationSend, DistinctMessages DEF SendInput
<1>5. ASSUME NEW p \in PaneIds, NEW d \in Chunks, ReadPty(p, d)
      PROVE  Registration'
  <2>1. PtyOutput(p, d) \in SessionMsg
    BY DEF SessionMsg
  <2> QED
    BY <1>5, <2>1, RegistrationSend, DistinctMessages DEF ReadPty
<1>6. ASSUME NEW p \in PaneIds, EndPty(p) PROVE Registration'
  <2>1. PaneDied(p) \in SessionMsg
    BY DEF SessionMsg
  <2>2. \A c \in Clients : source'[c] = source[c]
    BY <1>6, ActorAssumption DEF EndPty, Move, TypeOK
  <2> QED
    BY <1>6, <2>1, <2>2, RegistrationSend, DistinctMessages DEF EndPty
<1>7. ASSUME NEW s \in Signals, Raise(s) PROVE Registration'
  <2>1. Signal(s) \in SessionMsg
    BY DEF SessionMsg
  <2> QED
    BY <1>7, <2>1, RegistrationSend, DistinctMessages DEF Raise
<1>8. ASSUME NEW c \in Clients, Announce(c) PROVE Registration'
  <2>1. ClientDisconnected(c) \in SessionMsg
    BY DEF SessionMsg
  <2> QED
    BY <1>8, <2>1, RegistrationSend, DistinctMessages DEF Announce
<1>9. ASSUME UNCHANGED <<inbox, source, clients, typists>>
      PROVE  Registration'
  BY <1>9 DEF Registration, Registered
<1>10. CASE UNCHANGED vars
  BY <1>9, <1>10 DEF vars, actorVars, auxVars
<1>11. CASE Drained \/ TimerFires \/ RenderTick
  BY <1>9, <1>11 DEF Drained, TimerFires, RenderTick, auxVars
<1>12. CASE Writers
  BY <1>9, <1>12 DEF Writers, WriterPaints, WriterEnds, WriterFails, actorVars,
                     auxVars
<1> QED
  BY <1>1, <1>2, <1>3, <1>4, <1>5, <1>6, <1>7, <1>8, <1>10, <1>11, <1>12
     DEF Next, Senders, Callers

(***************************************************************************)
(* The keyboard.                                                           *)
(***************************************************************************)
\* The keys that reach a pane come from whoever has the focus
\* (handle_client_input).
LEMMA TypistStep ==
  /\ TypeOK /\ FocusIsRegistered /\ Registration /\ LastTypistHasFocus
  /\ [Next]_vars
  => LastTypistHasFocus'
<1> SUFFICES ASSUME TypeOK, FocusIsRegistered, Registration,
                    LastTypistHasFocus, [Next]_vars
             PROVE  LastTypistHasFocus'
  OBVIOUS
<1> DEFINE n == Len(typists)
<1>1. typists \in Seq(Clients) /\ n \in Nat
      /\ \A i \in 1..n : typists[i] \in Range(typists) /\ typists[i] \in Clients
  BY LenProperties, ElementOfSeq DEF TypeOK, Range
<1>2. CASE Receive
  <2>1. ASSUME NEW c \in Clients, Head(inbox) = NewClient(c), HandleNewClient(c)
        PROVE  LastTypistHasFocus'
    <3>1. NewClient(c) \in Range(inbox)
      BY <1>2, <2>1, TailRange DEF Receive, TypeOK
    <3>2. c \notin Range(typists)
      BY <3>1 DEF Registration, Registered
    <3>3. \A i \in 1..n : typists[i] \in clients' => typists[i] \in clients
      BY <1>1, <2>1, <3>2 DEF HandleNewClient
    <3>4. clients # {} => focused' = focused
      BY <2>1 DEF HandleNewClient, FocusIsRegistered
    <3> QED
      BY <2>1, <3>3, <3>4 DEF HandleNewClient, LastTypistHasFocus
  <2>2. ASSUME NEW c \in Clients, HandleClientDisconnected(c)
        PROVE  LastTypistHasFocus'
    BY <2>2 DEF HandleClientDisconnected, LastTypistHasFocus, auxVars
  <2>3. ASSUME NEW c \in Clients, NEW k \in InputKinds, HandleClientInput(c, k)
        PROVE  LastTypistHasFocus'
    <3>1. CASE typists' = typists
      BY <2>3, <3>1 DEF HandleClientInput, LastTypistHasFocus
    <3>2. CASE typists' # typists
      <4>1. /\ focused = c /\ typists' = Append(typists, c)
            /\ typists = <<>> \/ Last(typists) # c
            /\ clients' = clients /\ focused' = focused
        BY <2>3, <3>2 DEF HandleClientInput
      <4>2. /\ Len(typists') = n + 1 /\ typists'[n + 1] = c
            /\ \A i \in 1..n : typists'[i] = typists[i]
        BY <4>1, AppendProperties, <1>1
      <4>3. ASSUME NEW i \in 1..n PROVE typists[i] \notin clients
        <5> SUFFICES ASSUME typists[i] \in clients PROVE FALSE
          OBVIOUS
        <5>1. i = n /\ typists[i] = c
          BY <4>1 DEF LastTypistHasFocus
        <5>2. Last(typists) = c
          BY <5>1 DEF Last
        <5>3. typists # <<>>
          BY <1>1
        <5> QED
          BY <4>1, <5>2, <5>3
      <4> HIDE DEF n
      <4>4. ASSUME NEW i \in 1..(n + 1), typists'[i] \in clients'
            PROVE  i = n + 1 /\ focused' = typists'[i]
        <5>1. i \in 1..n \/ i = n + 1
          BY <1>1
        <5> QED
          BY <4>1, <4>2, <4>3, <4>4, <5>1
      <4> QED
        BY <4>2, <4>4 DEF LastTypistHasFocus
    <3> QED
      BY <3>1, <3>2
  <2>4. ASSUME UNCHANGED <<clients, focused, typists>>
        PROVE  LastTypistHasFocus'
    BY <2>4 DEF LastTypistHasFocus
  <2> QED
    BY <1>2, <2>1, <2>2, <2>3, <2>4, HeadType, DispatchCases
       DEF HandlePtyOutput, HandlePaneDied, HandleHostResize, HandleShutdown,
           auxVars
<1>3. CASE ~Receive
  BY <1>3, OnlyHandlersChange DEF LastTypistHasFocus
<1> QED
  BY <1>2, <1>3

\* The keys of two registered clients never mix: the active pane gets another
\* client's keys only once the disconnect of the one before has been handled.
THEOREM OneTypist == Spec => []OneTypistAtATime
<1>1. Init => LastTypistHasFocus
  <2> SUFFICES ASSUME Init PROVE LastTypistHasFocus
    OBVIOUS
  <2>1. Len(typists) = 0
    BY DEF Init
  <2> QED
    BY <2>1 DEF LastTypistHasFocus
<1>2. TypeOK /\ LastTypistHasFocus => OneTypistAtATime
  <2> SUFFICES ASSUME TypeOK, LastTypistHasFocus,
                      NEW i \in 1..Len(typists) - 1
               PROVE  typists[i] \notin clients
    BY DEF OneTypistAtATime
  <2>1. Len(typists) \in Nat
    BY LenProperties DEF TypeOK
  <2>2. i \in 1..Len(typists) /\ i # Len(typists)
    BY <2>1
  <2> QED
    BY <2>2 DEF LastTypistHasFocus
<1> QED
  BY <1>1, <1>2, TypistStep, RegistrationInit, RegistrationStep,
     FocusAlwaysRegistered, TypeCorrect, PTL DEF Spec

(***************************************************************************)
(* What the clients' screens show.                                         *)
(***************************************************************************)
\* The session main.rs sets up: one pane, which fills the window.
SinglePane == Panes = {ThePane} /\ Visible = <<ThePane>>

\* What its channel will make of a client's screen.
Awaited(c) == RenderAll(screen[c], outbox[c])

\* Sent never exceeds what there is to send.
LEMMA SentBound ==
  ASSUME TypeOK, NEW c \in Clients, NEW n \in Nat
  PROVE  Sent(c, n) \in 0..n
<1>1. outbox[c] \in Seq(ServerMessage) /\ Len(outbox[c]) <= ClientCapacity
  BY DEF TypeOK
<1>2. Len(outbox[c]) \in Nat
  BY <1>1, LenProperties
<1> DEFINE len == Len(outbox[c])
<1>3. len \in Nat /\ len <= ClientCapacity
  BY <1>1, <1>2
<1>4. Room(c) = IF writer[c] = "running" THEN ClientCapacity - len ELSE 0
  BY DEF Room
<1> HIDE DEF len
<1> QED
  BY <1>3, <1>4, Capacities DEF Sent

\* A client whose channel had room for all messages has them all
\* (try_send succeeded for each).
LEMMA SentWhole ==
  ASSUME TypeOK, NEW c \in Clients, NEW msgs \in Seq(ServerMessage),
         ~(Sent(c, Len(msgs)) < Len(msgs))
  PROVE  TrySend(c, msgs) = outbox[c] \o msgs
<1>1. Len(msgs) \in Nat
  BY LenProperties
<1>2. Sent(c, Len(msgs)) = Len(msgs)
  BY <1>1, SentBound
<1>3. SubSeq(msgs, 1, Len(msgs)) = msgs
  BY SubSeqFull
<1> QED
  BY <1>2, <1>3 DEF TrySend


\* Sending one message makes the queue longer by it.
LEMMA SendOne ==
  ASSUME NEW S, NEW queue \in Seq(S), NEW a \in S
  PROVE  queue \o <<a>> = Append(queue, a)
BY AppendIsConcat

\* Two messages are one and one.
LEMMA PairOfOnes ==
  ASSUME NEW S, NEW a \in S, NEW b \in S
  PROVE  <<a, b>> = <<a>> \o <<b>> /\ <<a>> \in Seq(S) /\ <<b>> \in Seq(S)
<1>1. <<a>> \in Seq(S) /\ <<b>> \in Seq(S)
  OBVIOUS
<1>2. <<a>> \o <<b>> = Append(<<a>>, b)
  BY <1>1, SendOne
<1>3. /\ Len(Append(<<a>>, b)) = 2 /\ Append(<<a>>, b) \in Seq(S)
      /\ Append(<<a>>, b)[1] = a /\ Append(<<a>>, b)[2] = b
  OBVIOUS
<1>4. <<a, b>> \in Seq(S) /\ Len(<<a, b>>) = 2 /\ <<a, b>>[1] = a /\ <<a, b>>[2] = b
  OBVIOUS
<1>5. Append(<<a>>, b) = <<a, b>>
  <2> DEFINE s == Append(<<a>>, b)
             t == <<a, b>>
  <2>1. /\ s \in Seq(S) /\ t \in Seq(S) /\ Len(s) = 2 /\ Len(t) = 2
        /\ s[1] = t[1] /\ s[2] = t[2]
    BY <1>3, <1>4
  <2> HIDE DEF s, t
  <2>2. \A i \in 1..2 : i = 1 \/ i = 2
    OBVIOUS
  <2>3. s = t
    BY <2>1, <2>2, SeqEqual
  <2> QED
    BY <2>3 DEF s, t
<1> QED
  BY <1>1, <1>2, <1>5

\* Two messages one after the other are the queue longer by two.
LEMMA SendTwo ==
  ASSUME NEW S, NEW queue \in Seq(S), NEW a \in S, NEW b \in S
  PROVE  queue \o <<a, b>> = Append(Append(queue, a), b)
<1>1. <<a, b>> = <<a>> \o <<b>> /\ <<a>> \in Seq(S) /\ <<b>> \in Seq(S)
  BY PairOfOnes
<1>2. queue \o <<a, b>> = (queue \o <<a>>) \o <<b>>
  BY <1>1, ConcatAssociative
<1>3. queue \o <<a>> = Append(queue, a) /\ Append(queue, a) \in Seq(S)
  BY SendOne, AppendProperties
<1> QED
  BY <1>2, <1>3, SendOne

\* With one pane the greeting is two messages (handle_new_client).
LEMMA GreetingOfOne ==
  ASSUME TypeOK, SinglePane
  PROVE  /\ Greeting = <<Handshake, FullFrame(terminal[ThePane])>>
         /\ Handshake \in ServerMessage
         /\ FullFrame(terminal[ThePane]) \in ServerMessage
<1>1. Visible = <<ThePane>> /\ Len(Visible) = 1 /\ Visible[1] = ThePane
  BY DEF SinglePane
<1>2. [i \in 1..Len(Visible) |-> FullFrame(terminal[Visible[i]])] = <<FullFrame(terminal[ThePane])>>
  BY <1>1
<1>3. Greeting = <<Handshake>> \o <<FullFrame(terminal[ThePane])>>
  BY <1>2 DEF Greeting
<1>4. terminal[ThePane] \in Frame
  BY DEF TypeOK, SinglePane
<1>5. Handshake \in ServerMessage /\ FullFrame(terminal[ThePane]) \in ServerMessage
  BY <1>4 DEF ServerMessage
<1> QED
  BY <1>3, <1>5, PairOfOnes

\* A client that got its greeting will show what the pane shows.
LEMMA GreetingShows ==
  ASSUME TypeOK, SinglePane, NEW c \in Clients,
         ~(Sent(c, Len(Greeting)) < Len(Greeting))
  PROVE  /\ TrySend(c, Greeting)
              = Append(Append(outbox[c], Handshake), FullFrame(terminal[ThePane]))
         /\ RenderAll(screen[c], Append(outbox[c], Handshake)) = Awaited(c)
         /\ RenderAll(screen[c], TrySend(c, Greeting)).cells = terminal[ThePane].cells
<1> DEFINE queue == outbox[c]
           hello == Handshake
           full == FullFrame(terminal[ThePane])
<1>1. TrySend(c, Greeting) = queue \o <<hello, full>>
  BY GreetingType, SentWhole, GreetingOfOne
<1>2. queue \in Seq(ServerMessage) /\ hello \in ServerMessage /\ full \in ServerMessage
  BY GreetingOfOne DEF TypeOK
<1>3. hello.type = "HandshakeResponse" /\ full.type = "FullFrame" /\ full.cells = terminal[ThePane].cells
  BY DEF Handshake, FullFrame
<1>4. Awaited(c) = RenderAll(screen[c], queue)
  BY DEF Awaited
<1> HIDE DEF queue, hello, full
<1>5. /\ queue \o <<hello, full>> = Append(Append(queue, hello), full)
      /\ Append(queue, hello) \in Seq(ServerMessage)
  BY <1>2, SendTwo, AppendProperties
<1>6. RenderAll(screen[c], Append(queue, hello)) = RenderAll(screen[c], queue)
  <2>1. RenderAll(screen[c], Append(queue, hello)) = Render(RenderAll(screen[c], queue), hello)
    BY <1>2, RenderAppend
  <2> QED
    BY <2>1, <1>3 DEF Render
<1>7. RenderAll(screen[c], Append(Append(queue, hello), full)).cells = terminal[ThePane].cells
  <2>1. RenderAll(screen[c], Append(Append(queue, hello), full))
          = Render(RenderAll(screen[c], Append(queue, hello)), full)
    BY <1>2, <1>5, RenderAppend
  <2> QED
    BY <2>1, <1>3 DEF Render
<1> QED
  BY <1>1, <1>4, <1>5, <1>6, <1>7 DEF queue, hello, full

\* A tick with one pane sends its diff, or nothing (handle_render_tick).
LEMMA OrderOfOne ==
  ASSUME TypeOK, SinglePane, NEW order \in SetToSeqs(dirty)
  PROVE  \/ dirty = {} /\ Len(order) = 0 /\ Diffs(order) = <<>>
         \/ /\ dirty = {ThePane} /\ Len(order) = 1
            /\ Diffs(order) = <<ComputeDiff(lastFrame[ThePane], terminal[ThePane])>>
<1>1. dirty = {} \/ dirty = {ThePane}
  BY DEF TypeOK, SinglePane
<1>2. order \in [1..Cardinality(dirty) -> dirty]
  BY DEF SetToSeqs
<1>3. CASE dirty = {}
  <2>1. Cardinality(dirty) = 0
    BY <1>3, FS_EmptySet
  <2>2. order \in [1..0 -> {}]
    BY <1>2, <1>3, <2>1
  <2>3. order = <<>> /\ Len(order) = 0
    BY <2>2
  <2>4. Diffs(order) = <<>>
    BY <2>3 DEF Diffs
  <2> QED
    BY <1>3, <2>3, <2>4
<1>4. CASE dirty = {ThePane}
  <2>1. Cardinality(dirty) = 1
    BY <1>4, FS_Singleton
  <2>2. order \in [1..1 -> {ThePane}]
    BY <1>2, <1>4, <2>1
  <2>3. order = <<ThePane>> /\ Len(order) = 1 /\ order[1] = ThePane
    BY <2>2
  <2>4. Diffs(order) = <<ComputeDiff(lastFrame[ThePane], terminal[ThePane])>>
    BY <2>3 DEF Diffs
  <2> QED
    BY <1>4, <2>3, <2>4
<1> QED
  BY <1>1, <1>3, <1>4

\* A client that was in step and got the diff will show what the pane shows.
LEMMA DiffShows ==
  ASSUME TypeOK, SinglePane, NEW c \in Clients,
         lastFrame[ThePane] # NoFrame,
         Awaited(c).cells = lastFrame[ThePane].cells,
         NEW order \in SetToSeqs(dirty), dirty # {},
         ~(Sent(c, Len(order)) < Len(order))
  PROVE  /\ TrySend(c, Diffs(order))
              = Append(outbox[c], ComputeDiff(lastFrame[ThePane], terminal[ThePane]))
         /\ ComputeDiff(lastFrame[ThePane], terminal[ThePane]) \in ServerMessage
         /\ RenderAll(screen[c], TrySend(c, Diffs(order))).cells = terminal[ThePane].cells
<1> DEFINE diff == ComputeDiff(lastFrame[ThePane], terminal[ThePane])
<1>1. Diffs(order) = <<diff>> /\ Diffs(order) \in Seq(ServerMessage) /\ Len(order) = Len(Diffs(order))
  BY OrderOfOne, OrderType
<1>2. lastFrame[ThePane] \in Frame /\ terminal[ThePane] \in Frame
  BY DEF TypeOK, SinglePane
<1>3. diff \in ServerMessage
  BY <1>2, ComputeDiffType
<1>4. outbox[c] \in Seq(ServerMessage) /\ screen[c] \in Frame
  BY DEF TypeOK
<1>5. TrySend(c, Diffs(order)) = outbox[c] \o <<diff>>
  BY <1>1, SentWhole
<1>6. Awaited(c) \in Frame
  BY <1>4, RenderAllType DEF Awaited
<1>7. Render(Awaited(c), diff).cells = terminal[ThePane].cells
  BY <1>2, <1>6, DiffsCompose
<1> HIDE DEF diff
<1>8. outbox[c] \o <<diff>> = Append(outbox[c], diff)
  BY <1>3, <1>4, SendOne
<1>9. RenderAll(screen[c], Append(outbox[c], diff)) = Render(Awaited(c), diff)
  BY <1>3, <1>4, RenderAppend DEF Awaited
<1> QED
  BY <1>3, <1>5, <1>7, <1>8, <1>9 DEF diff

\* Why InStep holds: from the first greeting on there is a last frame, so every
\* diff is a diff of something the clients have.
Mirror ==
  /\ clients # {} => lastFrame[ThePane] # NoFrame
  /\ InStep

\* Steps that send nothing to a client in step leave it in step.
LEMMA StaysInStep ==
  ASSUME SinglePane, Mirror, clients' \subseteq clients, lastFrame' = lastFrame,
         dropped \subseteq dropped', bypassed \subseteq bypassed',
         \A c \in clients' \ dropped' : Awaited(c)' = Awaited(c)
  PROVE  Mirror'
BY DEF Mirror, InStep, Awaited

\* A client joins (handle_new_client).
LEMMA JoinStaysInStep ==
  ASSUME TypeOK, SinglePane, Mirror, NEW c \in Clients, HandleNewClient(c),
         screen' = screen
  PROVE  Mirror'
<1>1. ThePane \in Greeted /\ ThePane \in Panes
  <2>1. Visible = <<ThePane>> /\ 1 \in DOMAIN Visible /\ Visible[1] = ThePane
    BY DEF SinglePane
  <2> QED
    BY <2>1 DEF Greeted, Range, SinglePane
<1>2. lastFrame'[ThePane] = terminal[ThePane] /\ terminal[ThePane] \in Frame
  BY <1>1 DEF HandleNewClient, TypeOK
<1>3. lastFrame'[ThePane] # NoFrame
  BY <1>2, NoFrameAssumption
<1>4. ASSUME NEW d \in clients' \ (dropped' \cup bypassed')
      PROVE  RenderAll(screen'[d], outbox'[d]).cells = lastFrame'[ThePane].cells
  <2>1. CASE d = c
    <3>1. ~(Sent(c, Len(Greeting)) < Len(Greeting))
      BY <1>4, <2>1 DEF HandleNewClient
    <3>2. outbox'[c] = TrySend(c, Greeting)
      BY DEF HandleNewClient, TypeOK
    <3> QED
      BY <1>2, <2>1, <3>1, <3>2, GreetingShows
  <2>2. CASE d # c
    <3>1. d \in clients \ (dropped \cup bypassed) /\ ~Absorbed
      BY <1>4, <2>2 DEF HandleNewClient
    <3>2. lastFrame[ThePane].cells = terminal[ThePane].cells
      BY <1>1, <3>1 DEF Absorbed, Mirror
    <3>3. outbox'[d] = outbox[d]
      BY <2>2 DEF HandleNewClient
    <3>4. RenderAll(screen[d], outbox[d]).cells = lastFrame[ThePane].cells
      BY <1>1, <3>1 DEF Mirror, InStep
    <3> QED
      BY <1>2, <3>2, <3>3, <3>4
  <2> QED
    BY <2>1, <2>2
<1> QED
  BY <1>3, <1>4 DEF Mirror, InStep, SinglePane

\* The registered clients are sent the diff (handle_render_tick).
LEMMA TickStaysInStep ==
  ASSUME TypeOK, SinglePane, Mirror, RenderTick
  PROVE  Mirror'
<1>1. PICK order \in SetToSeqs(dirty) :
        /\ outbox' = [c \in Clients |-> IF c \in clients
                                        THEN TrySend(c, Diffs(order))
                                        ELSE outbox[c]]
        /\ dropped' = dropped
                        \cup {c \in clients : Sent(c, Len(order)) < Len(order)}
  BY DEF RenderTick
<1>2. clients' = clients /\ bypassed' = bypassed /\ screen' = screen
  BY DEF RenderTick
<1>3. ThePane \in Panes /\ terminal[ThePane] \in Frame
  BY DEF SinglePane, TypeOK
<1>4. lastFrame'[ThePane] = IF ThePane \in dirty THEN terminal[ThePane] ELSE lastFrame[ThePane]
  BY <1>3 DEF RenderTick
<1>5. clients' # {} => lastFrame'[ThePane] # NoFrame
  BY <1>2, <1>3, <1>4, NoFrameAssumption DEF Mirror
<1>6. ASSUME NEW d \in clients' \ (dropped' \cup bypassed')
      PROVE  RenderAll(screen'[d], outbox'[d]).cells = lastFrame'[ThePane].cells
  <2>1. d \in clients /\ d \in Clients /\ d \notin dropped \cup bypassed
        /\ ~(Sent(d, Len(order)) < Len(order))
    BY <1>1, <1>2, <1>6 DEF TypeOK
  <2>2. Awaited(d).cells = lastFrame[ThePane].cells /\ lastFrame[ThePane] # NoFrame
    BY <1>3, <2>1 DEF Mirror, InStep, Awaited
  <2>3. outbox'[d] = TrySend(d, Diffs(order))
    BY <1>1, <2>1
  <2>4. CASE dirty = {}
    <3>1. Diffs(order) = <<>>
      BY <2>4, OrderOfOne
    <3>2. outbox[d] \in Seq(ServerMessage) /\ <<>> \in Seq(ServerMessage) /\ Len(<<>>) = 0
      BY <2>1 DEF TypeOK
    <3>3. ~(Sent(d, Len(Diffs(order))) < Len(Diffs(order)))
      BY <2>1, OrderType
    <3>4. TrySend(d, Diffs(order)) = outbox[d]
      BY <2>1, <3>1, <3>2, <3>3, SentWhole, ConcatEmptySeq
    <3> QED
      BY <1>2, <1>4, <2>2, <2>3, <2>4, <3>4 DEF Awaited
  <2>5. CASE dirty # {}
    <3>1. dirty = {ThePane}
      BY <2>5, OrderOfOne
    <3>2. RenderAll(screen[d], TrySend(d, Diffs(order))).cells = terminal[ThePane].cells
      BY <2>1, <2>2, <2>5, DiffShows
    <3> QED
      BY <1>2, <1>4, <2>3, <3>1, <3>2
  <2> QED
    BY <2>4, <2>5
<1> QED
  BY <1>5, <1>6 DEF Mirror, InStep, SinglePane

\* No step puts a client that missed nothing out of step.
LEMMA MirrorStep == SinglePane /\ TypeOK /\ Mirror /\ [Next]_vars => Mirror'
<1> SUFFICES ASSUME SinglePane, TypeOK, Mirror, [Next]_vars PROVE Mirror'
  OBVIOUS
<1>1. CASE Receive
  <2>1. screen' = screen
    BY <1>1 DEF Receive
  <2>2. ASSUME NEW c \in Clients, HandleNewClient(c) PROVE Mirror'
    BY <2>1, <2>2, JoinStaysInStep
  <2>3. ASSUME clients' \subseteq clients,
               UNCHANGED <<lastFrame, outbox, dropped, bypassed>>
        PROVE  Mirror'
    BY <2>1, <2>3, StaysInStep DEF Awaited
  <2>4. ASSUME NEW c \in Clients, HandleClientDisconnected(c) PROVE Mirror'
    BY <2>3, <2>4 DEF HandleClientDisconnected, auxVars
  <2>5. ASSUME NEW c \in Clients, NEW k \in InputKinds, HandleClientInput(c, k) PROVE Mirror'
    BY <2>3, <2>5 DEF HandleClientInput
  <2>6. ASSUME NEW p \in PaneIds, NEW d \in Chunks, HandlePtyOutput(p, d) PROVE Mirror'
    BY <2>3, <2>6 DEF HandlePtyOutput, auxVars
  <2>7. CASE HandlePaneDied \/ HandleHostResize \/ HandleShutdown
    BY <2>3, <2>7 DEF HandlePaneDied, HandleHostResize, HandleShutdown, auxVars
  <2> QED
    BY <1>1, <2>2, <2>4, <2>5, <2>6, <2>7, HeadType, DispatchCases
<1>2. CASE RenderTick
  BY <1>2, TickStaysInStep
<1>3. ASSUME UNCHANGED <<clients, lastFrame, outbox, screen, dropped, bypassed>>
      PROVE  Mirror'
  BY <1>3, StaysInStep DEF Awaited
<1>4. CASE Drained \/ TimerFires \/ Senders \/ Callers \/ UNCHANGED vars
  BY <1>3, <1>4
     DEF Drained, TimerFires, Senders, Connect, EndInput, SendInput, ReadPty,
         EndPty, Callers, Announce, Raise, Move, Send, vars, actorVars, clientVars, auxVars
<1>5. ASSUME NEW c \in Clients, WriterPaints(c) PROVE Mirror'
  <2>1. outbox[c] \in Seq(ServerMessage) /\ outbox[c] # <<>>
    BY <1>5 DEF WriterPaints, TypeOK
  <2>2. RenderAll(Render(screen[c], Head(outbox[c])), Tail(outbox[c]))
          = RenderAll(screen[c], outbox[c])
    BY <2>1, RenderHead
  <2>3. ASSUME NEW d \in clients' \ dropped' PROVE Awaited(d)' = Awaited(d)
    <3>0. d \in Clients
      BY <1>5, <2>3 DEF WriterPaints, actorVars, TypeOK
    <3>1. CASE d = c
      <4>1. screen'[c] = Render(screen[c], Head(outbox[c])) /\ outbox'[c] = Tail(outbox[c])
        BY <1>5 DEF WriterPaints, TypeOK
      <4> QED
        BY <2>2, <3>1, <4>1 DEF Awaited
    <3>2. CASE d # c
      <4>1. screen'[d] = screen[d] /\ outbox'[d] = outbox[d]
        BY <1>5, <3>0, <3>2 DEF WriterPaints, TypeOK
      <4> QED
        BY <4>1 DEF Awaited
    <3> QED
      BY <3>1, <3>2
  <2> QED
    BY <1>5, <2>3, StaysInStep DEF WriterPaints, actorVars, auxVars
<1>6. ASSUME NEW c \in Clients, WriterEnds(c) PROVE Mirror'
  BY <1>3, <1>6 DEF WriterEnds, actorVars, auxVars
<1>7. ASSUME NEW c \in Clients, WriterFails(c) PROVE Mirror'
  <2>1. \A d \in clients' \ dropped' : Awaited(d)' = Awaited(d)
    BY <1>7 DEF WriterFails, actorVars, TypeOK, Awaited
  <2> QED
    BY <1>7, <2>1, StaysInStep DEF WriterFails, actorVars
<1> QED
  BY <1>1, <1>2, <1>4, <1>5, <1>6, <1>7 DEF Next, Writers

\* A client whose channel and writer took everything it was sent shows, once
\* its channel has run dry, exactly the cells of the last frame.
THEOREM ClientsAreInStep ==
  ASSUME SinglePane
  PROVE  Spec => []InStep
<1>1. Init => Mirror
  BY DEF Init, Mirror, InStep
<1>2. TypeOK /\ Mirror /\ [Next]_vars => Mirror'
  BY SinglePane, MirrorStep
<1>3. Mirror => InStep
  BY DEF Mirror
<1> QED
  BY <1>1, <1>2, <1>3, TypeCorrect, PTL DEF Spec

(***************************************************************************)
(* The abstract pipe.                                                      *)
(***************************************************************************)
\* What the screen goes through as the messages of a channel are painted.
Views(s, queue) == [i \in 1..Len(queue) |-> RenderAll(s, SubSeq(queue, 1, i)).cells]

\* The beginnings of a channel that got another message.
LEMMA PrefixOfAppend ==
  ASSUME NEW S, NEW queue \in Seq(S), NEW msg \in S, NEW i \in 1..Len(queue)
  PROVE  SubSeq(Append(queue, msg), 1, i) = SubSeq(queue, 1, i)
<1> DEFINE longer == Append(queue, msg)
<1>1. Len(queue) \in Nat /\ \A j \in 1..Len(queue) : queue[j] \in S
  BY LenProperties, ElementOfSeq
<1>2. \A j \in 1..Len(queue) : longer[j] = queue[j]
  BY AppendProperties
<1> HIDE DEF longer
<1>3. /\ SubSeq(longer, 1, i) \in Seq(S) /\ Len(SubSeq(longer, 1, i)) = i
      /\ \A j \in 1..i : SubSeq(longer, 1, i)[j] = longer[j]
  <2>1. \A j \in 1..i : longer[j] \in S
    BY <1>1, <1>2
  <2>2. /\ SubSeq(longer, 1, i) \in Seq(S)
        /\ Len(SubSeq(longer, 1, i)) = IF 1 <= i THEN i - 1 + 1 ELSE 0
        /\ \A j \in 1..(i - 1 + 1) : SubSeq(longer, 1, i)[j] = longer[1 + j - 1]
    BY <1>1, <2>1, SubSeqProperties
  <2> QED
    BY <1>1, <2>2
<1>4. /\ SubSeq(queue, 1, i) \in Seq(S) /\ Len(SubSeq(queue, 1, i)) = i
      /\ \A j \in 1..i : SubSeq(queue, 1, i)[j] = queue[j]
  <2>1. \A j \in 1..i : queue[j] \in S
    BY <1>1
  <2>2. /\ SubSeq(queue, 1, i) \in Seq(S)
        /\ Len(SubSeq(queue, 1, i)) = IF 1 <= i THEN i - 1 + 1 ELSE 0
        /\ \A j \in 1..(i - 1 + 1) : SubSeq(queue, 1, i)[j] = queue[1 + j - 1]
    BY <1>1, <2>1, SubSeqProperties
  <2> QED
    BY <1>1, <2>2
<1>5. \A j \in 1..i : SubSeq(longer, 1, i)[j] = SubSeq(queue, 1, i)[j]
  BY <1>1, <1>2, <1>3, <1>4
<1>6. SubSeq(longer, 1, i) = SubSeq(queue, 1, i)
  BY <1>3, <1>4, <1>5, SeqEqual
<1> QED
  BY <1>6 DEF longer

\* A message sent adds the view it will lead to.
LEMMA ViewsAppend ==
  ASSUME NEW s, NEW S, NEW queue \in Seq(S), NEW msg \in S
  PROVE  Views(s, Append(queue, msg))
           = Append(Views(s, queue), RenderAll(s, Append(queue, msg)).cells)
<1> DEFINE longer == Append(queue, msg)
           n == Len(queue)
<1>1. n \in Nat /\ longer \in Seq(S) /\ Len(longer) = n + 1
  BY LenProperties, AppendProperties
<1>2. SubSeq(longer, 1, n + 1) = longer
  BY <1>1, SubSeqFull
<1>3. \A i \in 1..n : SubSeq(longer, 1, i) = SubSeq(queue, 1, i)
  BY PrefixOfAppend
<1> HIDE DEF longer, n
<1> DEFINE v == Views(s, queue)
           w == Views(s, longer)
           last == RenderAll(s, longer).cells
<1>4. w = [i \in 1..(n + 1) |-> RenderAll(s, SubSeq(longer, 1, i)).cells]
  BY <1>1 DEF Views
<1>5. v = [i \in 1..n |-> RenderAll(s, SubSeq(queue, 1, i)).cells]
  BY DEF Views, n
<1>6. w[n + 1] = last
  <2>1. n + 1 \in 1..(n + 1)
    BY <1>1
  <2>2. w[n + 1] = RenderAll(s, SubSeq(longer, 1, n + 1)).cells
    BY ONLY <1>4, <2>1
  <2> QED
    BY ONLY <1>2, <2>2
<1>7. \A i \in 1..n : w[i] = v[i]
  <2> SUFFICES ASSUME NEW i \in 1..n PROVE w[i] = v[i]
    OBVIOUS
  <2>1. SubSeq(longer, 1, i) = SubSeq(queue, 1, i) /\ i \in 1..(n + 1)
    BY <1>1, <1>3
  <2> QED
    BY <1>4, <1>5, <2>1
<1> HIDE DEF v, w, last
<1>8. w = [i \in 1..(n + 1) |-> IF i = n + 1 THEN last ELSE v[i]]
  <2>1. DOMAIN w = 1..(n + 1) /\ w = [i \in 1..(n + 1) |-> w[i]]
    BY <1>4
  <2>2. \A i \in 1..(n + 1) : w[i] = IF i = n + 1 THEN last ELSE v[i]
    BY <1>1, <1>6, <1>7
  <2> QED
    BY <2>1, <2>2
<1>9. v = [i \in 1..n |-> v[i]] /\ Len(v) = n
  BY <1>1, <1>5
<1>10. Append(v, last) = [i \in 1..(n + 1) |-> IF i = n + 1 THEN last ELSE v[i]]
  BY <1>1, <1>9
<1> QED
  BY <1>8, <1>10 DEF v, w, last, longer, n

\* A message painted takes the first view away.
LEMMA ViewsTail ==
  ASSUME NEW s, NEW S, NEW queue \in Seq(S), queue # <<>>
  PROVE  /\ Views(s, queue) # <<>>
         /\ Head(Views(s, queue)) = Render(s, Head(queue)).cells
         /\ Views(Render(s, Head(queue)), Tail(queue)) = Tail(Views(s, queue))
<1> DEFINE n == Len(queue)
           rest == Tail(queue)
           next == Render(s, Head(queue))
           v == Views(s, queue)
           w == Views(next, rest)
<1>1. n \in Nat /\ n > 0 /\ \A j \in 1..n : queue[j] \in S
  BY LenProperties, EmptySeq, ElementOfSeq
<1>2. rest \in Seq(S) /\ Len(rest) = n - 1
  BY HeadTailProperties
<1>3. ASSUME NEW i \in 1..n
      PROVE  /\ SubSeq(queue, 1, i) \in Seq(S) /\ SubSeq(queue, 1, i) # <<>>
             /\ Head(SubSeq(queue, 1, i)) = Head(queue)
             /\ Tail(SubSeq(queue, 1, i)) = SubSeq(rest, 1, i - 1)
  <2>1. \A j \in 1..i : queue[j] \in S
    BY <1>1
  <2>2. SubSeq(queue, 1, i) \in Seq(S) /\ Len(SubSeq(queue, 1, i)) = i
    BY <1>1, <2>1, SubSeqProperties
  <2>3. 1 \in 1..Len(queue) /\ i \in 1..Len(queue)
    BY <1>1
  <2>4. Head(SubSeq(queue, 1, i)) = queue[1] /\ Tail(SubSeq(queue, 1, i)) = SubSeq(queue, 2, i)
    BY <2>3, HeadTailOfSubSeq
  <2>5. Head(queue) = queue[1]
    OBVIOUS
  <2>6. SubSeq(rest, 1, i - 1) = SubSeq(queue, 2, i)
    <3>1. \A j \in 1..(n - 1) : rest[j] = queue[j + 1]
      BY <1>2, HeadTailProperties
    <3> DEFINE a == SubSeq(rest, 1, i - 1)
               b == SubSeq(queue, 2, i)
    <3>2. a \in Seq(S) /\ Len(a) = i - 1 /\ \A j \in 1..(i - 1) : a[j] = rest[j]
      <4>1. \A j \in 1..(i - 1) : rest[j] \in S
        BY <1>1, <3>1
      <4>2. /\ a \in Seq(S) /\ Len(a) = IF 1 <= i - 1 THEN (i - 1) - 1 + 1 ELSE 0
            /\ \A j \in 1..((i - 1) - 1 + 1) : a[j] = rest[1 + j - 1]
        BY <1>1, <4>1, SubSeqProperties
      <4> QED
        BY <1>1, <4>2
    <3>3. b \in Seq(S) /\ Len(b) = i - 1 /\ \A j \in 1..(i - 1) : b[j] = queue[j + 1]
      <4>1. \A j \in 2..i : queue[j] \in S
        BY <1>1
      <4>2. /\ b \in Seq(S) /\ Len(b) = IF 2 <= i THEN i - 2 + 1 ELSE 0
            /\ \A j \in 1..(i - 2 + 1) : b[j] = queue[2 + j - 1]
        BY <1>1, <4>1, SubSeqProperties
      <4> QED
        BY <1>1, <4>2
    <3> HIDE DEF a, b
    <3>4. \A j \in 1..(i - 1) : a[j] = b[j]
      BY <1>1, <3>1, <3>2, <3>3
    <3>5. a = b
      BY <3>2, <3>3, <3>4, SeqEqual
    <3> QED
      BY <3>5 DEF a, b
  <2> QED
    BY <1>1, <2>2, <2>4, <2>5, <2>6
<1>4. v = [i \in 1..n |-> RenderAll(s, SubSeq(queue, 1, i)).cells]
  BY DEF Views
<1>5. ASSUME NEW i \in 1..n
      PROVE  v[i] = RenderAll(next, SubSeq(rest, 1, i - 1)).cells
  <2>1. RenderAll(s, SubSeq(queue, 1, i))
          = RenderAll(Render(s, Head(SubSeq(queue, 1, i))), Tail(SubSeq(queue, 1, i)))
    BY <1>3, RenderHead
  <2> QED
    BY <1>3, <1>4, <2>1
<1>6. w = [i \in 1..(n - 1) |-> RenderAll(next, SubSeq(rest, 1, i)).cells]
  BY <1>2 DEF Views
<1>7. v[1] = next.cells
  <2>1. SubSeq(rest, 1, 0) = <<>>
    BY SubSeqEmpty
  <2>2. RenderAll(next, <<>>) = next
    BY RenderNone
  <2>3. 1 \in 1..n /\ 1 - 1 = 0
    BY <1>1
  <2> QED
    BY <1>5, <2>1, <2>2, <2>3
<1> HIDE DEF n, rest, next
<1>8. \A i \in 1..(n - 1) : w[i] = v[i + 1]
  <2> SUFFICES ASSUME NEW i \in 1..(n - 1) PROVE w[i] = v[i + 1]
    OBVIOUS
  <2>1. i + 1 \in 1..n /\ (i + 1) - 1 = i
    BY <1>1
  <2> QED
    BY <1>5, <1>6, <2>1
<1> HIDE DEF v, w
<1>9. v = [i \in 1..n |-> v[i]] /\ Len(v) = n /\ v # <<>> /\ Head(v) = v[1]
  BY <1>1, <1>4
<1>10. Tail(v) = [i \in 1..(n - 1) |-> v[i + 1]]
  BY <1>1, <1>9
<1>11. w = [i \in 1..(n - 1) |-> v[i + 1]]
  <2>1. w = [i \in 1..(n - 1) |-> w[i]]
    BY <1>6
  <2> QED
    BY <1>8, <2>1
<1> QED
  BY <1>7, <1>9, <1>10, <1>11 DEF v, w, n, next, rest

\* The last view is what the screen will show.
LEMMA ViewsLast ==
  ASSUME NEW s, NEW S, NEW queue \in Seq(S)
  PROVE  (IF Views(s, queue) = <<>> THEN s.cells ELSE Last(Views(s, queue)))
           = RenderAll(s, queue).cells
<1> DEFINE n == Len(queue)
           v == Views(s, queue)
<1>1. n \in Nat /\ SubSeq(queue, 1, n) = queue
  BY LenProperties, SubSeqFull
<1>2. v = [i \in 1..n |-> RenderAll(s, SubSeq(queue, 1, i)).cells] /\ Len(v) = n
  BY <1>1 DEF Views
<1>3. CASE n = 0
  <2>1. queue = <<>> /\ v = <<>>
    BY <1>2, <1>3, EmptySeq
  <2>2. RenderAll(s, queue) = s
    BY <2>1, RenderNone
  <2> QED
    BY <2>1, <2>2
<1>4. CASE n # 0
  <2>1. n \in 1..n /\ Len(v) # 0
    BY <1>1, <1>2, <1>4
  <2>2. v[n] = RenderAll(s, queue).cells
    BY <1>1, <1>2, <2>1
  <2>3. Last(v) = v[n]
    BY <1>2 DEF Last
  <2>4. v # <<>>
    <3>1. Len(<<>>) = 0
      OBVIOUS
    <3> QED
      BY <2>1, <3>1
  <2> QED
    BY <2>2, <2>3, <2>4
<1> QED
  BY <1>3, <1>4

\* The viewer was not sent a message, or found that it was not.
Missed == Viewer \in dropped \cup bypassed

\* What a client has missed it has missed for good.
LEMMA MissedForGood ==
  ASSUME TypeOK, [Next]_vars
  PROVE  dropped \subseteq dropped' /\ bypassed \subseteq bypassed'
<1>1. CASE Receive
  BY <1>1, HeadType, DispatchCases
     DEF HandleNewClient, HandleClientInput, HandleClientDisconnected,
         HandlePtyOutput, HandlePaneDied, HandleHostResize, HandleShutdown,
         auxVars
<1>2. CASE RenderTick
  BY <1>2 DEF RenderTick
<1>3. CASE Writers
  BY <1>3 DEF Writers, WriterPaints, WriterEnds, WriterFails, auxVars
<1>4. CASE Drained \/ TimerFires \/ Senders \/ Callers \/ UNCHANGED vars
  BY <1>4
     DEF Drained, TimerFires, Senders, Connect, EndInput, SendInput, ReadPty,
         EndPty, Callers, Announce, Raise, Send, vars, auxVars
<1> QED
  BY <1>1, <1>2, <1>3, <1>4 DEF Next

\* A step that the viewer sees nothing of.
LEMMA NothingShown ==
  ASSUME ~Missed, ~Missed', terminal' = terminal,
         outbox'[Viewer] = outbox[Viewer], screen'[Viewer] = screen[Viewer]
  PROVE  [Stream!Next]_(Stream!vars)
<1>1. Whole' = Whole
  BY DEF Whole
<1> QED
  BY <1>1 DEF Stream!vars, Missed

\* The viewer's own greeting (handle_new_client).
LEMMA ViewerAttaches ==
  ASSUME TypeOK, SinglePane, HandleNewClient(Viewer), screen' = screen,
         ~Missed, ~Missed'
  PROVE  Stream!Next
<1> DEFINE s == screen[Viewer]
           queue == outbox[Viewer]
           full == FullFrame(terminal[ThePane])
<1>1. ~(Sent(Viewer, Len(Greeting)) < Len(Greeting)) /\ Viewer \in Clients
  BY ViewerAssumption DEF HandleNewClient, Missed
<1>2. /\ TrySend(Viewer, Greeting) = Append(Append(queue, Handshake), full)
      /\ RenderAll(s, Append(queue, Handshake)) = RenderAll(s, queue)
      /\ RenderAll(s, Append(Append(queue, Handshake), full)).cells = terminal[ThePane].cells
  BY <1>1, GreetingShows DEF Awaited
<1>3. outbox'[Viewer] = Append(Append(queue, Handshake), full) /\ terminal' = terminal
  BY <1>1, <1>2 DEF HandleNewClient, TypeOK
<1>4. queue \in Seq(ServerMessage) /\ Handshake \in ServerMessage /\ full \in ServerMessage
  BY <1>1, GreetingOfOne DEF TypeOK
<1>5. Whole = Views(s, queue)
  BY DEF Whole, Views
<1>6. Whole' = Views(s, Append(Append(queue, Handshake), full))
  <2>1. screen'[Viewer] = s
    OBVIOUS
  <2>2. Whole' = Views(screen'[Viewer], outbox'[Viewer])
    BY DEF Whole, Views
  <2> QED
    BY <1>3, <2>1, <2>2
<1>7. Stream!Newest = RenderAll(s, queue).cells
  <2> DEFINE v == Views(s, queue)
  <2>1. (IF v = <<>> THEN s.cells ELSE Last(v)) = RenderAll(s, queue).cells
    BY <1>4, ViewsLast
  <2>2. Stream!Newest = IF v = <<>> THEN s.cells ELSE Last(v)
    BY <1>5 DEF Stream!Newest, Stream!Last, Last
  <2> QED
    BY <2>1, <2>2
<1> HIDE DEF full, queue, s
<1>8. Whole' = Append(Append(Whole, Stream!Newest), terminal[ThePane].cells)
  <2>1. Append(queue, Handshake) \in Seq(ServerMessage)
    BY <1>4, AppendProperties
  <2>2. Views(s, Append(queue, Handshake)) = Append(Views(s, queue), RenderAll(s, Append(queue, Handshake)).cells)
    BY <1>4, ViewsAppend
  <2>3. Views(s, Append(Append(queue, Handshake), full))
          = Append(Views(s, Append(queue, Handshake)), RenderAll(s, Append(Append(queue, Handshake), full)).cells)
    <3> DEFINE greeted == Append(queue, Handshake)
    <3>1. greeted \in Seq(ServerMessage) /\ full \in ServerMessage
      BY <1>4, <2>1
    <3> HIDE DEF greeted
    <3>2. Views(s, Append(greeted, full))
            = Append(Views(s, greeted), RenderAll(s, Append(greeted, full)).cells)
      BY <3>1, ViewsAppend
    <3> QED
      BY <3>2 DEF greeted
  <2> QED
    BY <1>2, <1>5, <1>6, <1>7, <2>2, <2>3
<1>9. Whole' = Whole \o <<Stream!Newest, terminal[ThePane].cells>>
  <2> DEFINE S == {Whole[i] : i \in 1..Len(queue)} \cup {Stream!Newest, terminal[ThePane].cells}
             a == Stream!Newest
             b == terminal[ThePane].cells
  <2>1. Whole \in Seq(S)
    <3>1. Len(queue) \in Nat
      BY <1>4, LenProperties
    <3>2. Whole = [i \in 1..Len(queue) |-> Whole[i]]
      BY DEF Whole, queue
    <3>3. \A i \in 1..Len(queue) : Whole[i] \in S
      OBVIOUS
    <3> HIDE DEF S
    <3>4. [i \in 1..Len(queue) |-> Whole[i]] \in Seq(S)
      BY <3>1, <3>3, IsASeq
    <3> QED
      BY <3>2, <3>4
  <2>2. a \in S /\ b \in S
    OBVIOUS
  <2> HIDE DEF S, a, b
  <2>3. Whole \o <<a, b>> = Append(Append(Whole, a), b)
    BY <2>1, <2>2, SendTwo
  <2> QED
    BY <1>8, <2>3 DEF a, b
<1>10. Stream!Attach
  BY <1>3, <1>9 DEF Stream!Attach, HandleNewClient, Missed
<1> QED
  BY <1>10 DEF Stream!Next, Missed

\* The viewer is sent a diff (handle_render_tick).
LEMMA ViewerTakes ==
  ASSUME TypeOK, SinglePane, Mirror, RenderTick, ~Missed, ~Missed'
  PROVE  [Stream!Next]_(Stream!vars)
<1>1. PICK order \in SetToSeqs(dirty) :
        /\ outbox' = [c \in Clients |-> IF c \in clients
                                        THEN TrySend(c, Diffs(order))
                                        ELSE outbox[c]]
        /\ dropped' = dropped
                        \cup {c \in clients : Sent(c, Len(order)) < Len(order)}
  BY DEF RenderTick
<1>2. UNCHANGED <<terminal, screen>> /\ Viewer \in Clients
  BY ViewerAssumption DEF RenderTick
<1>3. CASE Viewer \notin clients
  <2>1. outbox'[Viewer] = outbox[Viewer]
    BY <1>1, <1>2, <1>3
  <2> QED
    BY <1>2, <2>1, NothingShown
<1>4. CASE Viewer \in clients
  <2>1. ~(Sent(Viewer, Len(order)) < Len(order)) /\ Viewer \notin dropped \cup bypassed
    BY <1>1, <1>4 DEF Missed
  <2>2. outbox'[Viewer] = TrySend(Viewer, Diffs(order))
    BY <1>1, <1>2, <1>4
  <2>3. CASE dirty = {}
    <3>1. Diffs(order) = <<>>
      BY <2>3, OrderOfOne
    <3>2. outbox[Viewer] \in Seq(ServerMessage) /\ <<>> \in Seq(ServerMessage) /\ Len(<<>>) = 0
      BY <1>2 DEF TypeOK
    <3>3. ~(Sent(Viewer, Len(Diffs(order))) < Len(Diffs(order)))
      BY <2>1, OrderType
    <3>4. TrySend(Viewer, Diffs(order)) = outbox[Viewer]
      BY <1>2, <3>1, <3>2, <3>3, SentWhole, ConcatEmptySeq
    <3> QED
      BY <1>2, <2>2, <3>4, NothingShown
  <2>4. CASE dirty # {}
    <3> DEFINE s == screen[Viewer]
               queue == outbox[Viewer]
               diff == ComputeDiff(lastFrame[ThePane], terminal[ThePane])
    <3>1. lastFrame[ThePane] # NoFrame /\ Awaited(Viewer).cells = lastFrame[ThePane].cells
      BY <1>4, <2>1 DEF Mirror, InStep, Awaited, SinglePane
    <3>2. /\ TrySend(Viewer, Diffs(order)) = Append(queue, diff)
          /\ diff \in ServerMessage
          /\ RenderAll(s, Append(queue, diff)).cells = terminal[ThePane].cells
      <4>1. /\ TrySend(Viewer, Diffs(order)) = Append(queue, diff)
            /\ diff \in ServerMessage
            /\ RenderAll(s, TrySend(Viewer, Diffs(order))).cells = terminal[ThePane].cells
        BY <1>2, <2>1, <2>4, <3>1, DiffShows
      <4> QED
        BY <4>1
    <3>3. queue \in Seq(ServerMessage)
      BY <1>2 DEF TypeOK
    <3>4. screen'[Viewer] = s /\ outbox'[Viewer] = Append(queue, diff) /\ terminal' = terminal
      BY <1>2, <2>2, <3>2
    <3>5. Whole = Views(s, queue) /\ Whole' = Views(screen'[Viewer], outbox'[Viewer])
      BY DEF Whole, Views
    <3> HIDE DEF s, queue, diff
    <3>6. Views(s, Append(queue, diff))
            = Append(Views(s, queue), RenderAll(s, Append(queue, diff)).cells)
      BY <3>2, <3>3, ViewsAppend
    <3>7. Whole' = Append(Whole, terminal[ThePane].cells)
      BY <3>2, <3>4, <3>5, <3>6
    <3>8. Stream!Take
      BY <3>4, <3>7 DEF Stream!Take, s, Missed
    <3> QED
      BY <3>8 DEF Stream!Next, Missed
  <2> QED
    BY <2>3, <2>4
<1> QED
  BY <1>3, <1>4

\* The viewer's writer paints a message (in_process_output_writer).
LEMMA ViewerIsShown ==
  ASSUME TypeOK, WriterPaints(Viewer), ~Missed, ~Missed'
  PROVE  Stream!Next
<1> DEFINE s == screen[Viewer]
           queue == outbox[Viewer]
<1>1. queue \in Seq(ServerMessage) /\ queue # <<>>
  BY ViewerAssumption DEF WriterPaints, TypeOK
<1>2. /\ screen'[Viewer] = Render(s, Head(queue)) /\ outbox'[Viewer] = Tail(queue)
      /\ terminal' = terminal
  BY ViewerAssumption DEF WriterPaints, TypeOK, actorVars
<1>3. Whole = Views(s, queue) /\ Whole' = Views(screen'[Viewer], outbox'[Viewer])
  BY DEF Whole, Views
<1> HIDE DEF queue
<1>4. /\ Views(s, queue) # <<>>
      /\ Head(Views(s, queue)) = Render(s, Head(queue)).cells
      /\ Views(Render(s, Head(queue)), Tail(queue)) = Tail(Views(s, queue))
  BY <1>1, ViewsTail
<1>5. Whole # <<>> /\ screen'[Viewer].cells = Head(Whole) /\ Whole' = Tail(Whole)
  BY <1>2, <1>3, <1>4
<1>6. Stream!Show
  BY <1>2, <1>5 DEF Stream!Show, Missed
<1> QED
  BY <1>6 DEF Stream!Next, Missed

\* Every step of the session is one of the stream, or none (run, the writers
\* and the senders).
LEMMA StreamStep ==
  SinglePane /\ TypeOK /\ Mirror /\ [Next]_vars => [Stream!Next]_(Stream!vars)
<1> SUFFICES ASSUME SinglePane, TypeOK, Mirror, [Next]_vars
             PROVE  [Stream!Next]_(Stream!vars)
  OBVIOUS
<1>0. TypeOK' /\ Viewer \in Clients /\ ThePane \in Panes
  BY NextType, ViewerAssumption DEF SinglePane
<1>1. CASE Missed'
  BY <1>1 DEF Stream!Next, Stream!Lose, Missed
<1>2. CASE ~Missed'
  <2>1. ~Missed
    BY <1>2, MissedForGood DEF Missed
  <2>2. ASSUME UNCHANGED <<terminal, outbox, screen>> PROVE [Stream!Next]_(Stream!vars)
    BY <1>2, <2>1, <2>2, NothingShown
  <2>3. CASE Receive
    <3>1. screen' = screen
      BY <2>3 DEF Receive
    <3>2. ASSUME NEW c \in Clients, HandleNewClient(c) PROVE [Stream!Next]_(Stream!vars)
      <4>1. CASE c = Viewer
        BY <1>2, <2>1, <3>1, <3>2, <4>1, ViewerAttaches
      <4>2. CASE c # Viewer
        <5>1. terminal' = terminal /\ outbox'[Viewer] = outbox[Viewer]
          BY <3>2, <4>2 DEF HandleNewClient
        <5> QED
          BY <1>2, <2>1, <3>1, <5>1, NothingShown
      <4> QED
        BY <4>1, <4>2
    <3>3. ASSUME NEW p \in PaneIds, NEW d \in Chunks, HandlePtyOutput(p, d)
          PROVE  [Stream!Next]_(Stream!vars)
      <4>1. outbox' = outbox
        BY <3>3 DEF HandlePtyOutput
      <4>2. Whole' = Whole
        BY <3>1, <4>1 DEF Whole
      <4>3. terminal'[ThePane].cells \in [Cells -> Values]
        BY <1>0 DEF TypeOK, Frame
      <4>4. Stream!Change
        BY <1>2, <2>1, <3>1, <4>2, <4>3 DEF Stream!Change, Missed
      <4> QED
        BY <2>1, <4>4 DEF Stream!Next, Missed
    <3>4. ASSUME NEW c \in Clients, HandleClientDisconnected(c) PROVE [Stream!Next]_(Stream!vars)
      BY <2>2, <3>1, <3>4 DEF HandleClientDisconnected
    <3>5. ASSUME NEW c \in Clients, NEW k \in InputKinds, HandleClientInput(c, k)
          PROVE  [Stream!Next]_(Stream!vars)
      BY <2>2, <3>1, <3>5 DEF HandleClientInput
    <3>6. CASE HandlePaneDied \/ HandleHostResize \/ HandleShutdown
      BY <2>2, <3>1, <3>6 DEF HandlePaneDied, HandleHostResize, HandleShutdown
    <3> QED
      BY <2>3, <3>2, <3>3, <3>4, <3>5, <3>6, HeadType, DispatchCases
  <2>4. CASE RenderTick
    BY <1>2, <2>1, <2>4, ViewerTakes
  <2>5. CASE Drained \/ TimerFires \/ Senders \/ Callers \/ UNCHANGED vars
    BY <2>2, <2>5
       DEF Drained, TimerFires, Senders, Connect, EndInput, SendInput,
           ReadPty, EndPty, Callers, Announce, Raise, Send, vars, actorVars,
           clientVars
  <2>6. ASSUME NEW c \in Clients, WriterPaints(c) PROVE [Stream!Next]_(Stream!vars)
    <3>1. CASE c = Viewer
      BY <1>2, <2>1, <2>6, <3>1, ViewerIsShown
    <3>2. CASE c # Viewer
      <4>1. /\ terminal' = terminal /\ outbox'[Viewer] = outbox[Viewer]
            /\ screen'[Viewer] = screen[Viewer]
        BY <1>0, <2>6, <3>2 DEF WriterPaints, actorVars, TypeOK
      <4> QED
        BY <1>2, <2>1, <4>1, NothingShown
    <3> QED
      BY <3>1, <3>2
  <2>7. ASSUME NEW c \in Clients, WriterEnds(c) PROVE [Stream!Next]_(Stream!vars)
    BY <2>2, <2>7 DEF WriterEnds, actorVars
  <2>8. ASSUME NEW c \in Clients, WriterFails(c) PROVE [Stream!Next]_(Stream!vars)
    <3>1. c # Viewer
      BY <1>2, <2>8 DEF WriterFails, Missed
    <3>2. terminal' = terminal /\ outbox'[Viewer] = outbox[Viewer] /\ screen' = screen
      BY <1>0, <2>8, <3>1 DEF WriterFails, actorVars, TypeOK
    <3> QED
      BY <1>2, <2>1, <3>2, NothingShown
  <2> QED
    BY <2>3, <2>4, <2>5, <2>6, <2>7, <2>8 DEF Next, Writers
<1> QED
  BY <1>1, <1>2

\* The actor, its channel and the writer implement the stream of whole frames.
THEOREM ViewerMirrors ==
  ASSUME SinglePane
  PROVE  Spec => ViewerMirrorsThePane
<1>1. Init => Mirror /\ Stream!Init
  <2> SUFFICES ASSUME Init PROVE Mirror /\ Stream!Init
    OBVIOUS
  <2>1. Mirror
    BY DEF Init, Mirror, InStep
  <2>2. ThePane \in Panes /\ Viewer \in Clients
    BY SinglePane, ViewerAssumption DEF SinglePane
  <2>3. /\ terminal[ThePane] = BlankFrame /\ screen[Viewer] = BlankFrame
        /\ outbox[Viewer] = <<>> /\ Viewer \notin dropped \cup bypassed
    BY <2>2 DEF Init
  <2>4. Whole = <<>>
    BY <2>3 DEF Whole
  <2>5. Stream!Init
    BY <2>3, <2>4 DEF Stream!Init
  <2> QED
    BY <2>1, <2>5
<1>2. TypeOK /\ Mirror /\ [Next]_vars => Mirror' /\ [Stream!Next]_(Stream!vars)
  BY SinglePane, MirrorStep, StreamStep
<1> QED
  BY <1>1, <1>2, TypeCorrect, PTL DEF Spec, ViewerMirrorsThePane, Stream!Spec
=============================================================================

----------------------------- MODULE WireProofs -----------------------------
(***************************************************************************)
(* Theorems about the framed streams, for any number of clients, any       *)
(* messages and sizes of a byte, a header and a socket.                    *)
(***************************************************************************)
EXTENDS Wire, SequenceTheorems, FiniteSetTheorems, TLAPS

(***************************************************************************)
(* Numbers.                                                                *)
(***************************************************************************)
\* A set that has zero and, with a number, its successor, has all numbers: the
\* numbers outside it would have a least one, since what lies below a number is
\* finite and finite sets are well founded.
LEMMA Numbers ==
  ASSUME NEW S, 0 \in S, \A n \in Nat : n \in S => n + 1 \in S
  PROVE  \A n \in Nat : n \in S
<1> DEFINE B == {n \in Nat : n \notin S}
           Up(n) == {m \in B : m <= n}
           T == {Up(n) : n \in B}
<1> SUFFICES ASSUME B # {} PROVE FALSE
  OBVIOUS
<1>1. T \subseteq FiniteSubsetsOf(B)
  <2> SUFFICES ASSUME NEW n \in B
               PROVE  Up(n) \in SUBSET B /\ IsFiniteSet(Up(n))
    BY DEF FiniteSubsetsOf
  <2>1. n \in Nat /\ Up(n) \in SUBSET Nat /\ Up(n) \in SUBSET B /\ \A m \in Up(n) : m <= n
    OBVIOUS
  <2> HIDE DEF Up
  <2> QED
    BY <2>1, FS_BoundedSetOfNaturals
<1>2. T # {}
  OBVIOUS
<1>3. IsWellFoundedOn(StrictSubsetOrdering(B), FiniteSubsetsOf(B))
  BY FS_StrictSubsetOrderingWellFounded
<1> HIDE DEF T
<1>4. PICK X \in T : \A Y \in T : ~(<<Y, X>> \in StrictSubsetOrdering(B))
  BY <1>1, <1>2, <1>3, WFMin
<1> USE DEF T
<1>5. PICK n \in B : X = Up(n)
  OBVIOUS
<1>6. n - 1 \in Nat /\ n - 1 \notin S
  OBVIOUS
<1> DEFINE m == n - 1
<1>7. m \in B /\ m < n
  BY <1>6
<1> HIDE DEF m
<1>8. n \in Up(n) /\ n \notin Up(m) /\ Up(m) \in SUBSET Up(n)
  BY <1>7
<1>9. <<Up(m), X>> \in StrictSubsetOrdering(B)
  BY <1>5, <1>8 DEF StrictSubsetOrdering
<1> QED
  BY <1>4, <1>7, <1>9

\* Division by the values of a byte.
LEMMA Division ==
  ASSUME NEW n \in Nat
  PROVE  /\ n \div Base \in Nat /\ n % Base \in Byte
         /\ n = (n % Base) + Base * (n \div Base)
<1>1. Base \in Nat /\ Base > 1
  BY WireAssumption
<1> QED
  BY <1>1 DEF Byte

\* A smaller number leaves no more.
LEMMA DivisionMonotone ==
  ASSUME NEW m \in Nat, NEW n \in Nat, m <= n
  PROVE  m \div Base <= n \div Base
<1>1. Base \in Nat /\ Base > 1
  BY WireAssumption
<1> DEFINE a == m \div Base
           b == n \div Base
<1>2. a \in Nat /\ b \in Nat /\ Base * a <= m /\ n < Base * b + Base
  BY <1>1
<1> HIDE DEF a, b
<1>3. CASE a > b
  <2>1. a >= b + 1 /\ Base * a >= Base * (b + 1) /\ Base * (b + 1) = Base * b + Base
    BY <1>1, <1>2, <1>3
  <2>2. Base * a \in Nat /\ Base * b \in Nat
    BY <1>1, <1>2
  <2> QED
    BY <1>1, <1>2, <2>1, <2>2
<1> QED
  BY <1>2, <1>3 DEF a, b

\* What shifting a number by 0, 1, ... i bytes leaves.
Shifting(n, i, f) ==
  f = [k \in 0..i |-> IF k = 0 THEN n ELSE f[k - 1] \div Base]

\* There is such a function, by induction over the bytes.
LEMMA ShiftingExists ==
  ASSUME NEW n, NEW i \in Nat
  PROVE  \E f : Shifting(n, i, f)
<1> DEFINE P == {k \in Nat : \E f : Shifting(n, k, f)}
<1>1. 0 \in P
  <2> DEFINE f == [k \in 0..0 |-> n]
  <2>1. f = [k \in 0..0 |-> IF k = 0 THEN n ELSE f[k - 1] \div Base]
    OBVIOUS
  <2> HIDE DEF f
  <2>2. Shifting(n, 0, f)
    BY <2>1 DEF Shifting
  <2> QED
    BY <2>2
<1>2. ASSUME NEW j \in Nat, j \in P
      PROVE  j + 1 \in P
  <2>1. PICK f : Shifting(n, j, f)
    BY <1>2
  <2>2. f = [k \in 0..j |-> IF k = 0 THEN n ELSE f[k - 1] \div Base]
    BY <2>1 DEF Shifting
  <2> DEFINE g == [k \in 0..(j + 1) |-> IF k = j + 1 THEN f[j] \div Base ELSE f[k]]
  <2>3. ASSUME NEW k \in 0..(j + 1)
        PROVE  g[k] = IF k = 0 THEN n ELSE g[k - 1] \div Base
    <3>1. CASE k = j + 1
      <4>1. k - 1 = j /\ j \in 0..(j + 1) /\ j # j + 1 /\ k # 0
        BY <3>1
      <4> QED
        BY <3>1, <4>1
    <3>2. CASE k # j + 1
      <4>1. k \in 0..j /\ (k # 0 => k - 1 \in 0..(j + 1) /\ k - 1 # j + 1)
        BY <3>2
      <4>2. f[k] = IF k = 0 THEN n ELSE f[k - 1] \div Base
        BY <2>2, <4>1
      <4> QED
        BY <3>2, <4>1, <4>2
    <3> QED
      BY <3>1, <3>2
  <2>4. g = [k \in 0..(j + 1) |-> g[k]]
    OBVIOUS
  <2> HIDE DEF g
  <2>5. g = [k \in 0..(j + 1) |-> IF k = 0 THEN n ELSE g[k - 1] \div Base]
    BY <2>3, <2>4
  <2>6. Shifting(n, j + 1, g)
    BY <2>5 DEF Shifting
  <2> QED
    BY <2>6
<1> HIDE DEF P
<1>3. i \in P
  BY <1>1, <1>2, Numbers
<1> QED
  BY <1>3 DEF P

\* Shifted looks its last value up.
LEMMA ShiftedIsLast ==
  ASSUME NEW n, NEW i \in Nat
  PROVE  \E f : Shifting(n, i, f) /\ Shifted(n, i) = f[i]
<1> DEFINE f == CHOOSE g : Shifting(n, i, g)
<1>1. Shifting(n, i, f)
  BY ShiftingExists
<1>2. Shifted(n, i) = f[i]
  BY DEF Shifted, Shifting
<1> QED
  BY <1>1, <1>2

\* Shifting by one byte more is dividing once more.
LEMMA ShiftedStep ==
  ASSUME NEW n, NEW i \in Nat
  PROVE  Shifted(n, 0) = n /\ Shifted(n, i + 1) = Shifted(n, i) \div Base
<1>1. PICK a : Shifting(n, 0, a) /\ Shifted(n, 0) = a[0]
  BY ShiftedIsLast
<1>2. PICK f : Shifting(n, i, f) /\ Shifted(n, i) = f[i]
  BY ShiftedIsLast
<1>3. PICK g : Shifting(n, i + 1, g) /\ Shifted(n, i + 1) = g[i + 1]
  BY ShiftedIsLast
<1> DEFINE P == {k \in Nat : k <= i => f[k] = g[k]}
<1>4. 0 \in P
  BY <1>2, <1>3 DEF Shifting
<1>5. ASSUME NEW k \in Nat, k \in P
      PROVE  k + 1 \in P
  <2> SUFFICES ASSUME k + 1 <= i PROVE f[k + 1] = g[k + 1]
    OBVIOUS
  <2>1. k + 1 \in 0..i /\ k + 1 \in 0..(i + 1) /\ k + 1 # 0 /\ (k + 1) - 1 = k /\ f[k] = g[k]
    BY <1>5
  <2>2. f[k + 1] = f[k] \div Base
    BY <1>2, <2>1 DEF Shifting
  <2>3. g[k + 1] = g[k] \div Base
    BY <1>3, <2>1 DEF Shifting
  <2> QED
    BY <2>1, <2>2, <2>3
<1> HIDE DEF P
<1>6. i \in P
  BY <1>4, <1>5, Numbers
<1>7. f[i] = g[i]
  BY <1>6 DEF P
<1>8. g[i + 1] = g[i] \div Base
  <2>1. i + 1 \in 0..(i + 1) /\ i + 1 # 0 /\ (i + 1) - 1 = i
    OBVIOUS
  <2> QED
    BY <1>3, <2>1 DEF Shifting
<1>9. a[0] = n
  BY <1>1 DEF Shifting
<1> QED
  BY <1>1, <1>2, <1>3, <1>7, <1>8, <1>9

\* What is left is a number, and no more of a smaller one.
LEMMA ShiftedType ==
  ASSUME NEW n \in Nat, NEW m \in Nat, m <= n, NEW i \in Nat
  PROVE  Shifted(n, i) \in Nat /\ Shifted(m, i) \in Nat /\ Shifted(m, i) <= Shifted(n, i)
<1> DEFINE P == {k \in Nat : /\ Shifted(n, k) \in Nat /\ Shifted(m, k) \in Nat
                             /\ Shifted(m, k) <= Shifted(n, k)}
<1>1. 0 \in P
  <2>1. Shifted(n, 0) = n /\ Shifted(m, 0) = m
    BY ShiftedStep
  <2> QED
    BY <2>1
<1>2. ASSUME NEW k \in Nat, k \in P
      PROVE  k + 1 \in P
  <2>1. Shifted(n, k + 1) = Shifted(n, k) \div Base /\ Shifted(m, k + 1) = Shifted(m, k) \div Base
    BY ShiftedStep
  <2>2. Shifted(n, k) \in Nat /\ Shifted(m, k) \in Nat /\ Shifted(m, k) <= Shifted(n, k)
    BY <1>2
  <2>3. /\ Shifted(n, k) \div Base \in Nat /\ Shifted(m, k) \div Base \in Nat
        /\ Shifted(m, k) \div Base <= Shifted(n, k) \div Base
    BY <2>2, Division, DivisionMonotone
  <2> QED
    BY <2>1, <2>3
<1> HIDE DEF P
<1>3. i \in P
  BY <1>1, <1>2, Numbers
<1> QED
  BY <1>3 DEF P

\* How FromLeBytes adds the bytes of a header up, the highest first.
Adding(b, f) ==
  f = [i \in 0..HeaderBytes |-> IF i = HeaderBytes THEN 0 ELSE b[i + 1] + Base * f[i + 1]]

\* There is a way to do it, by induction from the highest byte down.
LEMMA AddingExists ==
  ASSUME NEW b
  PROVE  \E f : Adding(b, f)
<1>0. HeaderBytes \in Nat
  BY WireAssumption
<1> DEFINE From(k, f) ==
             f = [i \in (HeaderBytes - k)..HeaderBytes |->
                    IF i = HeaderBytes THEN 0 ELSE b[i + 1] + Base * f[i + 1]]
           P == {k \in Nat : k <= HeaderBytes => \E f : From(k, f)}
<1>1. 0 \in P
  <2> DEFINE f == [i \in (HeaderBytes - 0)..HeaderBytes |-> 0]
  <2>1. \A i \in (HeaderBytes - 0)..HeaderBytes : i = HeaderBytes
    BY <1>0
  <2>2. f = [i \in (HeaderBytes - 0)..HeaderBytes |->
               IF i = HeaderBytes THEN 0 ELSE b[i + 1] + Base * f[i + 1]]
    BY <2>1
  <2> HIDE DEF f
  <2> QED
    BY <2>2
<1>2. ASSUME NEW k \in Nat, k \in P
      PROVE  k + 1 \in P
  <2> SUFFICES ASSUME k + 1 <= HeaderBytes PROVE \E g : From(k + 1, g)
    OBVIOUS
  <2>1. PICK f : From(k, f)
    BY <1>0, <1>2
  <2> DEFINE low == HeaderBytes - (k + 1)
             g == [i \in low..HeaderBytes |->
                     IF i = low THEN b[i + 1] + Base * f[i + 1] ELSE f[i]]
  <2>2. low \in Nat /\ low < HeaderBytes /\ low + 1 = HeaderBytes - k
    BY <1>0
  <2> HIDE DEF low
  <2>3. ASSUME NEW i \in low..HeaderBytes
        PROVE  g[i] = IF i = HeaderBytes THEN 0 ELSE b[i + 1] + Base * g[i + 1]
    <3>1. CASE i = low
      <4>1. i # HeaderBytes /\ i + 1 \in low..HeaderBytes /\ i + 1 # low
        BY <1>0, <2>2, <3>1
      <4> QED
        BY <3>1, <4>1
    <3>2. CASE i # low
      <4>1. i \in (HeaderBytes - k)..HeaderBytes
            /\ (i # HeaderBytes => i + 1 \in low..HeaderBytes /\ i + 1 # low)
        BY <1>0, <2>2, <3>2
      <4>2. f[i] = IF i = HeaderBytes THEN 0 ELSE b[i + 1] + Base * f[i + 1]
        BY <2>1, <4>1
      <4>3. g[i] = f[i] /\ (i # HeaderBytes => g[i + 1] = f[i + 1])
        BY <3>2, <4>1
      <4> QED
        BY <4>2, <4>3
    <3> QED
      BY <3>1, <3>2
  <2>4. g = [i \in low..HeaderBytes |-> g[i]]
    OBVIOUS
  <2> HIDE DEF g
  <2>5. g = [i \in low..HeaderBytes |-> IF i = HeaderBytes THEN 0 ELSE b[i + 1] + Base * g[i + 1]]
    BY <2>3, <2>4
  <2>6. From(k + 1, g)
    BY <2>5 DEF low
  <2> QED
    BY <2>6
<1> HIDE DEF P
<1>3. HeaderBytes \in P
  BY <1>0, <1>1, <1>2, Numbers
<1>4. PICK f : From(HeaderBytes, f)
  BY <1>0, <1>3 DEF P
<1>5. HeaderBytes - HeaderBytes = 0
  BY <1>0
<1> QED
  BY <1>4, <1>5 DEF Adding

\* There is but one way to do it.
LEMMA AddingOnce ==
  ASSUME NEW b, NEW f, NEW g, Adding(b, f), Adding(b, g)
  PROVE  f[0] = g[0]
<1>0. HeaderBytes \in Nat
  BY WireAssumption
<1> DEFINE P == {k \in Nat : k <= HeaderBytes => f[HeaderBytes - k] = g[HeaderBytes - k]}
<1>1. 0 \in P
  <2>1. HeaderBytes \in 0..HeaderBytes /\ HeaderBytes - 0 = HeaderBytes
    BY <1>0
  <2>2. f[HeaderBytes] = 0 /\ g[HeaderBytes] = 0
    BY <2>1 DEF Adding
  <2> QED
    BY <2>1, <2>2
<1>2. ASSUME NEW k \in Nat, k \in P
      PROVE  k + 1 \in P
  <2> SUFFICES ASSUME k + 1 <= HeaderBytes
               PROVE  f[HeaderBytes - (k + 1)] = g[HeaderBytes - (k + 1)]
    OBVIOUS
  <2> DEFINE i == HeaderBytes - (k + 1)
  <2>1. i \in 0..HeaderBytes /\ i # HeaderBytes /\ i + 1 = HeaderBytes - k
    BY <1>0
  <2>2. f[HeaderBytes - k] = g[HeaderBytes - k]
    BY <1>0, <1>2
  <2> HIDE DEF i
  <2>3. f[i] = b[i + 1] + Base * f[i + 1] /\ g[i] = b[i + 1] + Base * g[i + 1]
    BY <2>1 DEF Adding
  <2>4. f[i] = g[i]
    BY <2>1, <2>2, <2>3
  <2> QED
    BY <2>4 DEF i
<1> HIDE DEF P
<1>3. HeaderBytes \in P
  BY <1>0, <1>1, <1>2, Numbers
<1>4. HeaderBytes <= HeaderBytes /\ HeaderBytes - HeaderBytes = 0
  BY <1>0
<1> QED
  BY <1>3, <1>4 DEF P

\* The length is read back as it was written, wherever the header lies at the
\* front of a buffer (u32::to_le_bytes, u32::from_le_bytes).
LEMMA LengthRoundTrip ==
  ASSUME NEW n \in 0..MaxMessageSize, NEW b,
         \A i \in 1..HeaderBytes : b[i] = LeBytes(n)[i]
  PROVE  FromLeBytes(b) = n
<1> DEFINE f == [i \in 0..HeaderBytes |-> Shifted(n, i)]
           g == CHOOSE h : Adding(b, h)
<1>0. HeaderBytes \in Nat /\ HeaderBytes > 0 /\ MaxMessageSize \in Nat /\ n \in Nat /\ n <= MaxMessageSize
  BY WireAssumption
<1>1. Shifted(n, HeaderBytes) = 0
  <2>1. Shifted(MaxMessageSize, HeaderBytes) = 0
    BY WireAssumption
  <2>2. Shifted(n, HeaderBytes) \in Nat /\ Shifted(n, HeaderBytes) <= Shifted(MaxMessageSize, HeaderBytes)
    BY <1>0, ShiftedType
  <2> QED
    BY <2>1, <2>2
<1>2. ASSUME NEW i \in 0..HeaderBytes
      PROVE  f[i] = IF i = HeaderBytes THEN 0 ELSE b[i + 1] + Base * f[i + 1]
  <2>1. CASE i = HeaderBytes
    BY <1>1, <2>1
  <2>2. CASE i # HeaderBytes
    <3>1. i \in Nat /\ i + 1 \in 1..HeaderBytes /\ i + 1 \in 0..HeaderBytes /\ (i + 1) - 1 = i
      BY <1>0, <2>2
    <3>2. b[i + 1] = Shifted(n, i) % Base
      BY <3>1 DEF LeBytes
    <3>3. Shifted(n, i) \in Nat
      BY <1>0, <3>1, ShiftedType
    <3>4. Shifted(n, i) = (Shifted(n, i) % Base) + Base * (Shifted(n, i) \div Base)
      BY <3>3, Division
    <3>5. Shifted(n, i + 1) = Shifted(n, i) \div Base
      BY <3>1, ShiftedStep
    <3> QED
      BY <2>2, <3>1, <3>2, <3>4, <3>5
  <2> QED
    BY <2>1, <2>2
<1>3. f = [i \in 0..HeaderBytes |-> f[i]]
  OBVIOUS
<1>4. f[0] = n
  <2>1. 0 \in 0..HeaderBytes /\ Shifted(n, 0) = n
    BY <1>0, ShiftedStep
  <2> QED
    BY <2>1
<1> HIDE DEF f
<1>5. f = [i \in 0..HeaderBytes |-> IF i = HeaderBytes THEN 0 ELSE b[i + 1] + Base * f[i + 1]]
  BY <1>2, <1>3
<1>6. Adding(b, f)
  BY <1>5 DEF Adding
<1>7. Adding(b, g)
  BY <1>6
<1>8. FromLeBytes(b) = g[0]
  BY DEF FromLeBytes, Adding
<1> QED
  BY <1>4, <1>6, <1>7, <1>8, AddingOnce

\* Whatever bytes a header has, they are the length of something.
LEMMA FromLeBytesType ==
  ASSUME NEW b \in Seq(Byte), Len(b) >= HeaderBytes
  PROVE  FromLeBytes(b) \in Nat
<1>0. HeaderBytes \in Nat /\ Len(b) \in Nat /\ Base \in Nat /\ Base > 1
  BY WireAssumption, LenProperties
<1>1. \A i \in 1..HeaderBytes : b[i] \in Nat
  <2>1. \A i \in 1..Len(b) : b[i] \in Byte
    BY ElementOfSeq
  <2> QED
    BY <1>0, <2>1 DEF Byte
<1>2. PICK f : Adding(b, f)
  BY <1>0, AddingExists
<1> DEFINE g == CHOOSE h : Adding(b, h)
           P == {k \in Nat : k <= HeaderBytes => g[HeaderBytes - k] \in Nat}
<1>3. Adding(b, g)
  BY <1>2
<1>4. FromLeBytes(b) = g[0]
  BY DEF FromLeBytes, Adding
<1> HIDE DEF g
<1>5. 0 \in P
  <2>1. HeaderBytes \in 0..HeaderBytes /\ HeaderBytes - 0 = HeaderBytes
    BY <1>0
  <2>2. g[HeaderBytes] = 0
    BY <1>3, <2>1 DEF Adding
  <2> QED
    BY <2>1, <2>2
<1>6. ASSUME NEW k \in Nat, k \in P
      PROVE  k + 1 \in P
  <2> SUFFICES ASSUME k + 1 <= HeaderBytes
               PROVE  g[HeaderBytes - (k + 1)] \in Nat
    OBVIOUS
  <2> DEFINE i == HeaderBytes - (k + 1)
  <2>1. i \in 0..HeaderBytes /\ i # HeaderBytes /\ i + 1 = HeaderBytes - k /\ i + 1 \in 1..HeaderBytes
    BY <1>0
  <2>2. g[HeaderBytes - k] \in Nat
    BY <1>0, <1>6
  <2> HIDE DEF i
  <2>3. g[i] = b[i + 1] + Base * g[i + 1]
    BY <1>3, <2>1 DEF Adding
  <2>4. b[i + 1] \in Nat /\ g[i + 1] \in Nat
    BY <1>1, <2>1, <2>2
  <2>5. Base * g[i + 1] \in Nat
    BY <1>0, <2>4
  <2>6. g[i] \in Nat
    BY <2>3, <2>4, <2>5
  <2> QED
    BY <2>6 DEF i
<1> HIDE DEF P
<1>7. HeaderBytes \in P
  BY <1>0, <1>5, <1>6, Numbers
<1>8. HeaderBytes <= HeaderBytes /\ HeaderBytes - HeaderBytes = 0
  BY <1>0
<1> QED
  BY <1>4, <1>7, <1>8 DEF P

(***************************************************************************)
(* Frames in a row.                                                        *)
(***************************************************************************)
\* The header and a frame are bytes.
LEMMA FrameType ==
  ASSUME NEW m \in Messages
  PROVE  /\ m \in Seq(Byte) /\ Len(m) \in 0..MaxMessageSize /\ m # <<>>
         /\ LeBytes(Len(m)) \in Seq(Byte) /\ Len(LeBytes(Len(m))) = HeaderBytes
         /\ Frame(m) \in Seq(Byte)
<1>1. m \in Seq(Byte) /\ m # <<>> /\ Len(m) <= MaxMessageSize /\ HeaderBytes \in Nat /\ MaxMessageSize \in Nat
  BY WireAssumption
<1>2. Len(m) \in Nat
  BY <1>1, LenProperties
<1>3. \A i \in 1..HeaderBytes : Shifted(Len(m), i - 1) % Base \in Byte
  <2> SUFFICES ASSUME NEW i \in 1..HeaderBytes
               PROVE  Shifted(Len(m), i - 1) % Base \in Byte
    OBVIOUS
  <2> DEFINE n == Len(m)
  <2>1. i - 1 \in Nat /\ n \in Nat /\ n <= n
    BY <1>1, <1>2
  <2> HIDE DEF n
  <2>2. Shifted(n, i - 1) \in Nat
    BY <2>1, ShiftedType
  <2> USE DEF n
  <2> QED
    BY <2>2, Division
<1>4. LeBytes(Len(m)) \in Seq(Byte) /\ Len(LeBytes(Len(m))) = HeaderBytes
  <2>1. [i \in 1..HeaderBytes |-> Shifted(Len(m), i - 1) % Base] \in Seq(Byte)
    BY <1>1, <1>3, IsASeq
  <2> QED
    BY <1>1, <2>1 DEF LeBytes
<1>5. Frame(m) \in Seq(Byte)
  BY <1>1, <1>4, ConcatProperties DEF Frame
<1> QED
  BY <1>1, <1>2, <1>4, <1>5

\* The bytes of the first k messages, for every k.
Flattening(messages, r) ==
  /\ r[0] = <<>>
  /\ \A k \in 1..Len(messages) : r[k] = r[k - 1] \o Frame(messages[k])

\* The library's way to put sequences together.
Flattened(seqs, n, f) ==
  f = [i \in 1..n |-> IF i = 1 THEN seqs[i] ELSE f[i - 1] \o seqs[i]]

\* There is such a function, by induction over the number of sequences.
LEMMA FlattenedExists ==
  ASSUME NEW seqs, NEW n \in Nat
  PROVE  \E f : Flattened(seqs, n, f)
<1> DEFINE P == {k \in Nat : \E f : Flattened(seqs, k, f)}
<1>1. 0 \in P
  <2> DEFINE f == [i \in 1..0 |-> 0]
  <2>1. f = [i \in 1..0 |-> IF i = 1 THEN seqs[i] ELSE f[i - 1] \o seqs[i]]
    OBVIOUS
  <2> HIDE DEF f
  <2>2. Flattened(seqs, 0, f)
    BY <2>1 DEF Flattened
  <2> QED
    BY <2>2
<1>2. ASSUME NEW j \in Nat, j \in P
      PROVE  j + 1 \in P
  <2>1. PICK f : Flattened(seqs, j, f)
    BY <1>2
  <2> DEFINE g == [i \in 1..(j + 1) |->
                     IF i = j + 1 THEN (IF i = 1 THEN seqs[i] ELSE f[j] \o seqs[i]) ELSE f[i]]
  <2>2. ASSUME NEW i \in 1..(j + 1)
        PROVE  g[i] = IF i = 1 THEN seqs[i] ELSE g[i - 1] \o seqs[i]
    <3>1. CASE i = j + 1
      <4>1. CASE i = 1
        BY <3>1, <4>1
      <4>2. CASE i # 1
        <5>1. i - 1 = j /\ j \in 1..(j + 1) /\ j # j + 1
          BY <3>1, <4>2
        <5>2. g[j] = f[j]
          BY <5>1
        <5> QED
          BY <3>1, <4>2, <5>1, <5>2
      <4> QED
        BY <4>1, <4>2
    <3>2. CASE i # j + 1
      <4>1. i \in 1..j /\ (i # 1 => i - 1 \in 1..(j + 1) /\ i - 1 # j + 1)
        BY <3>2
      <4>2. f[i] = IF i = 1 THEN seqs[i] ELSE f[i - 1] \o seqs[i]
        BY <2>1, <4>1 DEF Flattened
      <4>3. g[i] = f[i] /\ (i # 1 => g[i - 1] = f[i - 1])
        BY <3>2, <4>1
      <4> QED
        BY <4>2, <4>3
    <3> QED
      BY <3>1, <3>2
  <2>3. g = [i \in 1..(j + 1) |-> g[i]]
    OBVIOUS
  <2> HIDE DEF g
  <2>4. g = [i \in 1..(j + 1) |-> IF i = 1 THEN seqs[i] ELSE g[i - 1] \o seqs[i]]
    BY <2>2, <2>3
  <2>5. Flattened(seqs, j + 1, g)
    BY <2>4 DEF Flattened
  <2> QED
    BY <2>5
<1> HIDE DEF P
<1>3. n \in P
  BY <1>1, <1>2, Numbers
<1> QED
  BY <1>3 DEF P

\* FramesOf adds one frame after the other.
LEMMA FlatteningExists ==
  ASSUME NEW messages \in Seq(Messages)
  PROVE  \E r : Flattening(messages, r) /\ r[Len(messages)] = FramesOf(messages)
<1> DEFINE n == Len(messages)
           seqs == [i \in DOMAIN messages |-> Frame(messages[i])]
           f == CHOOSE g : Flattened(seqs, n, g)
           r == [k \in 0..n |-> IF k = 0 THEN <<>> ELSE f[k]]
<1>1. n \in Nat /\ DOMAIN messages = 1..n /\ \A i \in 1..n : messages[i] \in Messages
  BY LenProperties, ElementOfSeq
<1>2. Len(seqs) = n /\ \A i \in 1..n : seqs[i] = Frame(messages[i])
  BY <1>1
<1>3. \A i \in 1..n : seqs[i] \in Seq(Byte)
  BY <1>1, <1>2, FrameType
<1>4. FramesOf(messages) = FlattenSeq(seqs)
  BY DEF FramesOf
<1>5. seqs = [i \in 1..n |-> seqs[i]]
  BY <1>1
<1> HIDE DEF seqs, n
<1>6. Flattened(seqs, n, f)
  BY <1>1, FlattenedExists
<1>7. n # 0 => FlattenSeq(seqs) = f[n]
  BY <1>2 DEF FlattenSeq, Flattened
<1>8. n = 0 => FlattenSeq(seqs) = <<>>
  <2> SUFFICES ASSUME n = 0 PROVE FlattenSeq(seqs) = <<>>
    OBVIOUS
  <2>1. seqs = <<>>
    BY <1>5
  <2> QED
    BY <1>2, <2>1 DEF FlattenSeq
<1> HIDE DEF f
<1>9. r[0] = <<>> /\ r[n] = FramesOf(messages)
  BY <1>1, <1>4, <1>7, <1>8
<1>10. ASSUME NEW k \in 1..n
       PROVE  r[k] = r[k - 1] \o Frame(messages[k])
  <2>0. r[k] = f[k]
    <3>1. k \in 0..n /\ k # 0
      BY <1>1
    <3> QED
      BY <3>1
  <2>1. r[k] = f[k] /\ f[k] = IF k = 1 THEN seqs[k] ELSE f[k - 1] \o seqs[k]
    <3>1. f[k] = IF k = 1 THEN seqs[k] ELSE f[k - 1] \o seqs[k]
      BY <1>6 DEF Flattened
    <3> QED
      BY <2>0, <3>1
  <2>2. CASE k = 1
    <3>1. r[k - 1] = <<>>
      BY <1>1, <2>2
    <3>2. <<>> \o seqs[k] = seqs[k]
      BY <1>3, ConcatEmptySeq
    <3> QED
      BY <1>2, <2>1, <2>2, <3>1, <3>2
  <2>3. CASE k # 1
    <3>1. r[k - 1] = f[k - 1]
      BY <1>1, <2>3
    <3> QED
      BY <1>2, <2>1, <2>3, <3>1
  <2> QED
    BY <2>2, <2>3
<1> HIDE DEF r
<1>11. Flattening(messages, r)
  BY <1>9, <1>10 DEF Flattening, n
<1> QED
  BY <1>9, <1>11 DEF n

\* Bytes put together in either order are the same.
LEMMA BytesAssociate ==
  ASSUME NEW x \in Seq(Byte), NEW y \in Seq(Byte), NEW z \in Seq(Byte)
  PROVE  (x \o y) \o z = x \o (y \o z)
BY ConcatAssociative

\* Messages put together in either order are the same.
LEMMA MessagesAssociate ==
  ASSUME NEW x \in Seq(Messages), NEW y \in Seq(Messages), NEW z \in Seq(Messages)
  PROVE  (x \o y) \o z = x \o (y \o z)
BY ConcatAssociative

\* What follows the same bytes, and with them makes the same bytes, is the same.
LEMMA BytesCancel ==
  ASSUME NEW x \in Seq(Byte), NEW y \in Seq(Byte), NEW z \in Seq(Byte), x \o y = x \o z
  PROVE  y = z
BY ConcatSimplifications

\* The bytes from one place to another.
LEMMA BytesBetween ==
  ASSUME NEW b, NEW i \in Int, NEW j \in Int, \A k \in i..j : b[k] \in Byte
  PROVE  /\ SubSeq(b, i, j) \in Seq(Byte)
         /\ Len(SubSeq(b, i, j)) = IF i <= j THEN j - i + 1 ELSE 0
         /\ \A k \in 1..(j - i + 1) : SubSeq(b, i, j)[k] = b[i + k - 1]
BY SubSeqProperties

\* There is but one way to add the frames up, and it leads through bytes.
LEMMA FlatteningOnce ==
  ASSUME NEW messages \in Seq(Messages), NEW r, Flattening(messages, r),
         NEW k \in 0..Len(messages)
  PROVE  /\ r[k] \in Seq(Byte)
         /\ r[Len(messages)] = FramesOf(messages)
<1> DEFINE n == Len(messages)
<1>1. n \in Nat /\ \A i \in 1..n : messages[i] \in Messages
  BY LenProperties, ElementOfSeq
<1>2. PICK t : Flattening(messages, t) /\ t[n] = FramesOf(messages)
  BY FlatteningExists
<1> DEFINE P == {j \in Nat : j <= n => r[j] \in Seq(Byte) /\ r[j] = t[j]}
<1>3. 0 \in P
  <2>1. r[0] = <<>> /\ t[0] = <<>>
    BY <1>2 DEF Flattening
  <2>2. <<>> \in Seq(Byte)
    OBVIOUS
  <2>3. r[0] \in Seq(Byte) /\ r[0] = t[0]
    BY ONLY <2>1, <2>2
  <2> QED
    BY <2>3
<1>4. ASSUME NEW j \in Nat, j \in P
      PROVE  j + 1 \in P
  <2> SUFFICES ASSUME j + 1 <= n
               PROVE  r[j + 1] \in Seq(Byte) /\ r[j + 1] = t[j + 1]
    OBVIOUS
  <2>1. r[j] \in Seq(Byte) /\ r[j] = t[j] /\ j + 1 \in 1..n /\ (j + 1) - 1 = j
    BY <1>1, <1>4
  <2>2. r[j + 1] = r[j] \o Frame(messages[j + 1])
    BY <2>1 DEF Flattening
  <2>3. t[j + 1] = t[j] \o Frame(messages[j + 1])
    BY <1>2, <2>1 DEF Flattening
  <2>4. Frame(messages[j + 1]) \in Seq(Byte)
    BY <1>1, <2>1, FrameType
  <2>5. r[j] \o Frame(messages[j + 1]) \in Seq(Byte)
    BY <2>1, <2>4, ConcatProperties
  <2> QED
    BY <2>1, <2>2, <2>3, <2>5
<1> HIDE DEF P
<1>5. k \in P /\ n \in P
  BY <1>1, <1>3, <1>4, Numbers
<1> QED
  BY <1>1, <1>2, <1>5 DEF P

\* The frames of messages are bytes; no messages have none, a message has its own.
LEMMA FramesOfType ==
  ASSUME NEW messages \in Seq(Messages)
  PROVE  FramesOf(messages) \in Seq(Byte)
<1>1. Len(messages) \in Nat /\ Len(messages) \in 0..Len(messages)
  BY LenProperties
<1>2. PICK r : Flattening(messages, r)
  BY FlatteningExists
<1> QED
  BY <1>1, <1>2, FlatteningOnce

\* No messages have no frames.
LEMMA FramesOfNone == FramesOf(<<>>) = <<>>
<1> DEFINE none == <<>>
<1>1. none \in Seq(Messages) /\ Len(none) = 0
  OBVIOUS
<1>2. PICK r : Flattening(none, r) /\ r[Len(none)] = FramesOf(none)
  BY <1>1, FlatteningExists
<1>3. r[0] = <<>>
  BY <1>2 DEF Flattening
<1> QED
  BY <1>1, <1>2, <1>3

\* One message has its frame.
LEMMA FramesOfOne ==
  ASSUME NEW m \in Messages
  PROVE  FramesOf(<<m>>) = Frame(m)
<1> DEFINE one == <<m>>
<1>1. one \in Seq(Messages) /\ Len(one) = 1 /\ one[1] = m
  OBVIOUS
<1> HIDE DEF one
<1>2. PICK r : Flattening(one, r) /\ r[Len(one)] = FramesOf(one)
  BY <1>1, FlatteningExists
<1>3. r[0] = <<>> /\ r[1] = r[0] \o Frame(m)
  <2>1. 1 \in 1..Len(one) /\ 1 - 1 = 0
    BY <1>1
  <2> QED
    BY <1>1, <1>2, <2>1 DEF Flattening
<1>4. <<>> \o Frame(m) = Frame(m)
  BY FrameType, ConcatEmptySeq
<1> QED
  BY <1>1, <1>2, <1>3, <1>4 DEF one

\* The frames of messages and more messages are theirs in a row.
LEMMA FramesOfConcat ==
  ASSUME NEW a \in Seq(Messages), NEW b \in Seq(Messages)
  PROVE  FramesOf(a \o b) = FramesOf(a) \o FramesOf(b)
<1> DEFINE n == Len(a)
           l == Len(b)
           ab == a \o b
<1>1. n \in Nat /\ l \in Nat /\ \A i \in 1..l : b[i] \in Messages
  BY LenProperties, ElementOfSeq
<1>2. /\ ab \in Seq(Messages) /\ Len(ab) = n + l
      /\ \A i \in 1..(n + l) : ab[i] = IF i <= n THEN a[i] ELSE b[i - n]
  BY ConcatProperties
<1>3. PICK r : Flattening(a, r) /\ r[n] = FramesOf(a)
  BY FlatteningExists
<1>4. PICK s : Flattening(b, s) /\ s[l] = FramesOf(b)
  BY FlatteningExists
<1>5. FramesOf(a) \in Seq(Byte) /\ FramesOf(b) \in Seq(Byte)
  BY FramesOfType
<1>6. \A k \in 0..l : s[k] \in Seq(Byte)
  BY <1>4, FlatteningOnce
<1> HIDE DEF n, l, ab
<1> DEFINE t == [k \in 0..(n + l) |-> IF k <= n THEN r[k] ELSE r[n] \o s[k - n]]
<1>7. t[0] = <<>>
  BY <1>1, <1>3 DEF Flattening
<1>8. ASSUME NEW k \in 1..(n + l)
      PROVE  t[k] = t[k - 1] \o Frame(ab[k])
  <2>0. k - 1 \in 0..(n + l) /\ k \in 0..(n + l)
    BY <1>1
  <2>1. CASE k <= n
    <3>1. k \in 1..n /\ k - 1 <= n /\ ab[k] = a[k]
      BY <1>1, <1>2, <2>1
    <3>2. r[k] = r[k - 1] \o Frame(a[k])
      BY <1>3, <3>1 DEF Flattening, n
    <3> QED
      BY <2>0, <2>1, <3>1, <3>2
  <2>2. CASE ~(k <= n)
    <3>1. k - n \in 1..l /\ (k - 1) - n = (k - n) - 1 /\ (k - n) - 1 \in 0..l /\ ab[k] = b[k - n]
      BY <1>1, <1>2, <2>2
    <3>2. s[k - n] = s[(k - n) - 1] \o Frame(b[k - n])
      BY <1>4, <3>1 DEF Flattening, l
    <3>3. t[k] = r[n] \o s[k - n]
      BY <2>0, <2>2
    <3>4. t[k - 1] = r[n] \o s[(k - n) - 1]
      <4>1. CASE k - 1 <= n
        <5>1. k - 1 = n /\ (k - n) - 1 = 0
          BY <1>1, <2>2, <4>1
        <5>2. t[k - 1] = r[n]
          BY <2>0, <5>1
        <5>3. s[0] = <<>> /\ r[n] \o <<>> = r[n]
          BY <1>3, <1>4, <1>5, ConcatEmptySeq DEF Flattening
        <5> QED
          BY <5>1, <5>2, <5>3
      <4>2. CASE ~(k - 1 <= n)
        BY <2>0, <3>1, <4>2
      <4> QED
        BY <4>1, <4>2
    <3>5. Frame(b[k - n]) \in Seq(Byte) /\ s[(k - n) - 1] \in Seq(Byte) /\ r[n] \in Seq(Byte)
      BY <1>1, <1>3, <1>5, <1>6, <3>1, FrameType
    <3>6. (r[n] \o s[(k - n) - 1]) \o Frame(b[k - n]) = r[n] \o (s[(k - n) - 1] \o Frame(b[k - n]))
      <4> DEFINE x == r[n]
                 y == s[(k - n) - 1]
                 z == Frame(b[k - n])
      <4>1. x \in Seq(Byte) /\ y \in Seq(Byte) /\ z \in Seq(Byte)
        BY <3>5
      <4> HIDE DEF x, y, z
      <4>2. (x \o y) \o z = x \o (y \o z)
        BY <4>1, BytesAssociate, Zenon
      <4> QED
        BY <4>2 DEF x, y, z
    <3> QED
      BY <3>1, <3>2, <3>3, <3>4, <3>6
  <2> QED
    BY <2>1, <2>2
<1>9. t[n + l] = FramesOf(a) \o FramesOf(b)
  <2>1. CASE l = 0
    <3>1. t[n + l] = r[n] /\ FramesOf(b) = s[0] /\ s[0] = <<>>
      BY <1>1, <1>4, <2>1 DEF Flattening
    <3>2. FramesOf(a) \o <<>> = FramesOf(a)
      BY <1>5, ConcatEmptySeq
    <3> QED
      BY <1>3, <3>1, <3>2
  <2>2. CASE l # 0
    <3>1. ~(n + l <= n) /\ n + l \in 0..(n + l) /\ (n + l) - n = l
      BY <1>1, <2>2
    <3> QED
      BY <1>3, <1>4, <3>1
  <2> QED
    BY <2>1, <2>2
<1> HIDE DEF t
<1>10. Flattening(ab, t)
  BY <1>2, <1>7, <1>8 DEF Flattening
<1>11. 0 \in 0..Len(ab)
  BY <1>1, <1>2
<1>12. t[n + l] = FramesOf(ab)
  BY <1>2, <1>10, <1>11, FlatteningOnce
<1> QED
  BY <1>9, <1>12 DEF ab

(***************************************************************************)
(* Bytes cut in pieces.                                                    *)
(***************************************************************************)
\* A sequence is what is in front of a cut and what is behind it.
LEMMA Cut ==
  ASSUME NEW S, NEW s \in Seq(S), NEW n \in 0..Len(s)
  PROVE  /\ SubSeq(s, 1, n) \in Seq(S) /\ Len(SubSeq(s, 1, n)) = n
         /\ SubSeq(s, n + 1, Len(s)) \in Seq(S)
         /\ SubSeq(s, 1, n) \o SubSeq(s, n + 1, Len(s)) = s
<1>1. Len(s) \in Nat /\ \A i \in 1..Len(s) : s[i] \in S
  BY LenProperties, ElementOfSeq
<1>2. SubSeq(s, 1, n) \in Seq(S) /\ Len(SubSeq(s, 1, n)) = n
  <2>1. \A i \in 1..n : s[i] \in S
    BY <1>1
  <2>2. SubSeq(s, 1, n) \in Seq(S) /\ Len(SubSeq(s, 1, n)) = IF 1 <= n THEN n - 1 + 1 ELSE 0
    BY <1>1, <2>1, SubSeqProperties
  <2> QED
    BY <1>1, <2>2
<1>3. SubSeq(s, n + 1, Len(s)) \in Seq(S)
  <2>1. \A i \in (n + 1)..Len(s) : s[i] \in S
    BY <1>1
  <2> QED
    BY <1>1, <2>1, SubSeqProperties
<1>4. SubSeq(s, 1, n) \o SubSeq(s, n + 1, Len(s)) = SubSeq(s, 1, Len(s))
  <2> DEFINE len == Len(s)
  <2>1. 1 \in 1..len + 1 /\ n \in 1 - 1..len /\ len \in n..len /\ len \in Nat
    BY <1>1
  <2> QED
    BY <2>1, ConcatAdjacentSubSeq
<1> QED
  BY <1>2, <1>3, <1>4, SubSeqFull

\* What the front of a sequence and the front of another have in common.
LEMMA SameFront ==
  ASSUME NEW S, NEW a \in Seq(S), NEW b \in Seq(S), NEW x \in Seq(S), NEW y \in Seq(S),
         a \o x = b \o y, Len(a) <= Len(b)
  PROVE  \A i \in 1..Len(a) : a[i] = b[i]
<1>1. Len(a) \in Nat /\ Len(b) \in Nat /\ Len(x) \in Nat /\ Len(y) \in Nat
  BY LenProperties
<1>2. SUFFICES ASSUME NEW i \in 1..Len(a) PROVE a[i] = b[i]
  OBVIOUS
<1>3. (a \o x)[i] = a[i]
  BY <1>1, ConcatProperties
<1>4. (b \o y)[i] = b[i]
  BY <1>1, ConcatProperties
<1> QED
  BY <1>3, <1>4

\* A message begins with all of itself, and with no other message.
LEMMA Readable ==
  ASSUME NEW m \in Messages
  PROVE  Decodable(m) /\ Decode(m) = m
<1>1. IsPrefix(m, m)
  <2>1. Len(m) \in Nat
    BY FrameType, LenProperties
  <2> QED
    BY <2>1 DEF IsPrefix
<1>2. \A n \in Messages : IsPrefix(n, m) => n = m
  BY MessagesEnd
<1> QED
  BY <1>1, <1>2 DEF Decodable, Decode

\* Messages that have not all come begin with one.
LEMMA FirstMessage ==
  ASSUME NEW rest \in Seq(Messages), rest # <<>>
  PROVE  \E m \in Messages, others \in Seq(Messages) : rest = <<m>> \o others
<1>1. Len(rest) \in Nat /\ Len(rest) > 0 /\ 1 \in 1..Len(rest) /\ Len(rest) \in 1..Len(rest)
  BY LenProperties, EmptySeq
<1>2. SubSeq(rest, 1, Len(rest)) = <<rest[1]>> \o SubSeq(rest, 1 + 1, Len(rest))
  BY <1>1, SubSeqRecursiveFirst
<1>3. SubSeq(rest, 1 + 1, Len(rest)) \in Seq(Messages)
  <2>1. 1 \in 0..Len(rest)
    BY <1>1
  <2> QED
    BY <2>1, Cut
<1>4. rest[1] \in Messages
  BY <1>1, ElementOfSeq
<1> QED
  BY <1>2, <1>3, <1>4, SubSeqFull

\* A buffer that holds a header and is the front of frames in a row begins with
\* the first of them: read_frame finds its length and, once it is there, it.
LEMMA FirstFrame ==
  ASSUME NEW b \in Seq(Byte), NEW coming \in Seq(Byte), NEW rest \in Seq(Messages),
         b \o coming = FramesOf(rest), Len(b) >= HeaderBytes
  PROVE  \E m \in Messages, others \in Seq(Messages) :
           /\ rest = <<m>> \o others
           /\ FromLeBytes(b) = Len(m)
           /\ Len(b) >= HeaderBytes + Len(m) =>
                /\ SubSeq(b, HeaderBytes + 1, HeaderBytes + Len(m)) = m
                /\ SubSeq(b, HeaderBytes + Len(m) + 1, Len(b)) \o coming = FramesOf(others)
<1>1. HeaderBytes \in Nat /\ HeaderBytes > 0 /\ Len(b) \in Nat /\ Len(coming) \in Nat /\ Len(rest) \in Nat
  BY WireAssumption, LenProperties
<1>2. rest # <<>>
  <2> SUFFICES ASSUME rest = <<>> PROVE FALSE
    OBVIOUS
  <2>1. FramesOf(rest) = <<>>
    BY FramesOfNone
  <2>2. Len(b \o coming) = Len(b) + Len(coming)
    BY ConcatProperties
  <2>3. Len(b \o coming) = 0
    BY <2>1
  <2> QED
    BY <1>1, <2>2, <2>3
<1>3. PICK m \in Messages, others \in Seq(Messages) : rest = <<m>> \o others
  BY <1>2, FirstMessage
<1>4. FramesOf(rest) = Frame(m) \o FramesOf(others)
  <2>1. <<m>> \in Seq(Messages)
    OBVIOUS
  <2>2. FramesOf(<<m>> \o others) = FramesOf(<<m>>) \o FramesOf(others)
    BY <2>1, FramesOfConcat
  <2> QED
    BY <1>3, <2>2, FramesOfOne
<1>5. /\ m \in Seq(Byte) /\ Len(m) \in 0..MaxMessageSize /\ Len(m) \in Nat
      /\ LeBytes(Len(m)) \in Seq(Byte) /\ Len(LeBytes(Len(m))) = HeaderBytes
      /\ Frame(m) \in Seq(Byte) /\ FramesOf(others) \in Seq(Byte)
  BY FrameType, FramesOfType, LenProperties
<1> DEFINE header == LeBytes(Len(m))
           more == FramesOf(others)
           frame == Frame(m)
<1>6. frame = header \o m
  BY DEF Frame
<1>7. b \o coming = frame \o more
  BY <1>4
<1>8. header \in Seq(Byte) /\ more \in Seq(Byte) /\ frame \in Seq(Byte) /\ Len(header) = HeaderBytes
  BY <1>5
<1> HIDE DEF header, more, frame
<1>9. Len(frame) = HeaderBytes + Len(m)
  BY <1>5, <1>6, <1>8, ConcatProperties
<1>10. \A i \in 1..HeaderBytes : b[i] = header[i]
  <2>1. frame \o more = header \o (m \o more) /\ m \o more \in Seq(Byte)
    <3>1. (header \o m) \o more = header \o (m \o more)
      <4>1. header \in Seq(Byte) /\ m \in Seq(Byte) /\ more \in Seq(Byte)
        BY <1>5, <1>8
      <4> QED
        BY <4>1, BytesAssociate, Zenon
    <3>2. m \o more \in Seq(Byte)
      BY <1>5, <1>8, ConcatProperties
    <3> QED
      BY <1>6, <3>1, <3>2
  <2>2. header \o (m \o more) = b \o coming /\ Len(header) <= Len(b)
    BY <1>7, <1>8, <2>1
  <2>3. \A i \in 1..Len(header) : header[i] = b[i]
    BY <1>8, <2>1, <2>2, SameFront
  <2> QED
    BY <1>8, <2>3
<1>11. FromLeBytes(b) = Len(m)
  BY <1>5, <1>10, LengthRoundTrip DEF header
<1>12. ASSUME Len(b) >= HeaderBytes + Len(m)
       PROVE  /\ SubSeq(b, HeaderBytes + 1, HeaderBytes + Len(m)) = m
              /\ SubSeq(b, HeaderBytes + Len(m) + 1, Len(b)) \o coming = more
  <2> DEFINE n == HeaderBytes + Len(m)
             front == SubSeq(b, 1, n)
             back == SubSeq(b, n + 1, Len(b))
  <2>1. n \in 0..Len(b) /\ n \in Nat
    BY <1>1, <1>5, <1>12
  <2>2. front \in Seq(Byte) /\ Len(front) = n /\ back \in Seq(Byte) /\ front \o back = b
    BY <2>1, Cut
  <2>3. \A i \in 1..n : b[i] = frame[i]
    <3>1. Len(frame) <= Len(b) /\ frame \o more = b \o coming
      BY <1>7, <1>9, <1>12
    <3>2. \A i \in 1..Len(frame) : frame[i] = b[i]
      BY <1>8, <3>1, SameFront
    <3> QED
      BY <1>9, <3>2
  <2>4. SubSeq(b, HeaderBytes + 1, n) = m
    <3> DEFINE p == SubSeq(b, HeaderBytes + 1, n)
    <3>1. \A i \in 1..Len(m) : b[HeaderBytes + i] = m[i]
      <4> SUFFICES ASSUME NEW i \in 1..Len(m) PROVE b[HeaderBytes + i] = m[i]
        OBVIOUS
      <4>1. HeaderBytes + i \in 1..n /\ (HeaderBytes + i) - HeaderBytes = i /\ ~(HeaderBytes + i <= HeaderBytes)
        BY <1>1, <1>5
      <4>2. frame[HeaderBytes + i] = m[i]
        <5>1. \A j \in 1..Len(header) + Len(m) :
                (header \o m)[j] = IF j <= Len(header) THEN header[j] ELSE m[j - Len(header)]
          BY <1>5, <1>8, ConcatProperties
        <5>2. HeaderBytes + i \in 1..Len(header) + Len(m)
          BY <1>1, <1>5, <1>8
        <5> QED
          BY <1>6, <1>8, <4>1, <5>1, <5>2
      <4> QED
        BY <2>3, <4>1, <4>2
    <3>2. \A i \in (HeaderBytes + 1)..n : b[i] \in Byte
      <4>1. \A i \in 1..Len(b) : b[i] \in Byte
        BY ElementOfSeq
      <4> QED
        BY <1>1, <2>1, <4>1
    <3>3. /\ p \in Seq(Byte)
          /\ Len(p) = IF HeaderBytes + 1 <= n THEN n - (HeaderBytes + 1) + 1 ELSE 0
          /\ \A i \in 1..(n - (HeaderBytes + 1) + 1) : p[i] = b[(HeaderBytes + 1) + i - 1]
      <4>1. HeaderBytes + 1 \in Int /\ n \in Int
        BY <1>1, <2>1
      <4> HIDE DEF n
      <4> QED
        BY <3>2, <4>1, BytesBetween
    <3>4. n - (HeaderBytes + 1) + 1 = Len(m) /\ (HeaderBytes + 1 <= n <=> Len(m) # 0)
      BY <1>1, <1>5
    <3>5. Len(p) = Len(m)
      BY <1>5, <3>3, <3>4
    <3> HIDE DEF p
    <3>6. \A i \in 1..Len(p) : p[i] = m[i]
      <4> SUFFICES ASSUME NEW i \in 1..Len(m) PROVE p[i] = m[i]
        BY <3>5
      <4>1. (HeaderBytes + 1) + i - 1 = HeaderBytes + i
        BY <1>1, <1>5
      <4> QED
        BY <3>1, <3>3, <3>4, <4>1
    <3>7. p = m
      BY <1>5, <3>3, <3>5, <3>6, SeqEqual
    <3> QED
      BY <3>7 DEF p
  <2>5. front = frame
    <3>1. \A i \in 1..Len(front) : front[i] = b[i]
      <4>1. \A i \in 1..n : b[i] \in Byte
        <5>1. \A i \in 1..Len(b) : b[i] \in Byte
          BY ElementOfSeq
        <5> QED
          BY <1>1, <2>1, <5>1
      <4>2. \A i \in 1..(n - 1 + 1) : front[i] = b[1 + i - 1]
        BY <2>1, <4>1, SubSeqProperties
      <4> QED
        BY <2>1, <2>2, <4>2
    <3> HIDE DEF front
    <3>2. Len(front) = Len(frame) /\ \A i \in 1..Len(front) : front[i] = frame[i]
      BY <1>9, <2>2, <2>3, <3>1
    <3> QED
      BY <1>8, <2>2, <3>2, SeqEqual
  <2> HIDE DEF front, back, n
  <2>6. frame \o (back \o coming) = frame \o more
    <3>1. (front \o back) \o coming = front \o (back \o coming)
      BY <2>2, BytesAssociate
    <3> QED
      BY <1>7, <2>2, <2>5, <3>1
  <2>7. back \o coming \in Seq(Byte)
    BY <2>2, ConcatProperties
  <2>8. back \o coming = more
    BY <1>8, <2>6, <2>7, BytesCancel, Zenon
  <2> QED
    BY <2>4, <2>8 DEF back, n
<1> QED
  BY <1>3, <1>11, <1>12 DEF more

(***************************************************************************)
(* The connections.                                                        *)
(***************************************************************************)
\* Pipes and buffers hold bytes, both ends have messages.
Typed ==
  /\ pending \in [Clients -> Seq(Byte)]
  /\ stream \in [Clients -> Seq(Byte)]
  /\ read_buf \in [Clients -> Seq(Byte)]
  /\ sent \in [Clients -> Seq(Messages)]
  /\ received \in [Clients -> Seq(Messages)]
  /\ failure \in [Clients -> {"none", "UnexpectedEof", "Io", "MessageTooLarge", "Undecodable"}]
  /\ registered \subseteq Clients

\* Why FramesSurvive holds: what the reader has read and not understood yet, what
\* the kernel holds and what the client has still to write are, in this order,
\* the frames of the messages that have not been received.
OnTheWay(c) == (read_buf[c] \o stream[c]) \o pending[c]

Lossless(c) ==
  /\ failure[c] \in {"none", "UnexpectedEof", "Io"}
  /\ \E rest \in Seq(Messages) :
       /\ sent[c] = received[c] \o rest
       /\ OnTheWay(c) = FramesOf(rest)

NothingLost == \A c \in Clients \ robbed : Lossless(c)

\* At first nothing is on its way (Server::bind).
LEMMA InitLossless == Init => Typed /\ NothingLost
<1> SUFFICES ASSUME Init PROVE Typed /\ NothingLost
  OBVIOUS
<1>1. <<>> \in Seq(Byte) /\ <<>> \in Seq(Messages)
  OBVIOUS
<1>2. Typed
  BY <1>1 DEF Init, Typed
<1>3. ASSUME NEW c \in Clients PROVE Lossless(c)
  <2>1. /\ failure[c] = "none" /\ sent[c] = <<>> /\ received[c] = <<>>
        /\ read_buf[c] = <<>> /\ stream[c] = <<>> /\ pending[c] = <<>>
    BY <1>3 DEF Init
  <2> DEFINE none == <<>>
  <2>2. none \o none = none
    OBVIOUS
  <2>3. OnTheWay(c) = none /\ sent[c] = received[c] \o none
    BY <2>1, <2>2 DEF OnTheWay
  <2>4. none \in Seq(Messages) /\ FramesOf(none) = none
    BY FramesOfNone
  <2> HIDE DEF none
  <2> QED
    BY <2>1, <2>3, <2>4 DEF Lossless
<1> QED
  BY <1>2, <1>3 DEF NothingLost

\* A client starts to write (write_client_message).
LEMMA WriteLossless ==
  ASSUME Typed, NEW c \in Clients, NEW m \in Messages, Write(c, m)
  PROVE  Typed' /\ (NothingLost => NothingLost')
<1>1. /\ pending[c] = <<>> /\ pending' = [pending EXCEPT ![c] = Frame(m)]
      /\ sent' = [sent EXCEPT ![c] = Append(sent[c], m)]
      /\ UNCHANGED <<stream, read_buf, received, failure, registered, robbed>>
  BY DEF Write, readerVars
<1>2. Frame(m) \in Seq(Byte) /\ sent[c] \in Seq(Messages) /\ Append(sent[c], m) \in Seq(Messages)
  BY FrameType, AppendProperties DEF Typed
<1>3. Typed'
  BY <1>1, <1>2 DEF Typed
<1>4. ASSUME Lossless(c) PROVE Lossless(c)'
  <2>1. PICK rest \in Seq(Messages) : sent[c] = received[c] \o rest /\ OnTheWay(c) = FramesOf(rest)
    BY <1>4 DEF Lossless
  <2> DEFINE more == rest \o <<m>>
             front == read_buf[c] \o stream[c]
  <2>2. <<m>> \in Seq(Messages) /\ received[c] \in Seq(Messages) /\ more \in Seq(Messages)
    <3>1. <<m>> \in Seq(Messages)
      OBVIOUS
    <3> QED
      BY <3>1, ConcatProperties DEF Typed
  <2>3. sent'[c] = received[c] \o more
    <3>1. sent'[c] = Append(sent[c], m)
      BY <1>1 DEF Typed
    <3>2. Append(sent[c], m) = sent[c] \o <<m>>
      BY <1>2, AppendIsConcat
    <3>3. (received[c] \o rest) \o <<m>> = received[c] \o (rest \o <<m>>)
      <4> DEFINE a == received[c]
                 one == <<m>>
      <4>1. a \in Seq(Messages) /\ rest \in Seq(Messages) /\ one \in Seq(Messages)
        BY <2>2
      <4> HIDE DEF a, one
      <4>2. (a \o rest) \o one = a \o (rest \o one)
        BY <4>1, MessagesAssociate, Zenon
      <4> QED
        BY <4>2 DEF a, one
    <3> QED
      BY <2>1, <3>1, <3>2, <3>3
  <2>4. front \in Seq(Byte)
    BY ConcatProperties DEF Typed
  <2>5. OnTheWay(c) = front
    <3>1. front \o <<>> = front
      BY <2>4, ConcatEmptySeq
    <3> QED
      BY <1>1, <3>1 DEF OnTheWay
  <2>6. OnTheWay(c)' = front \o Frame(m)
    BY <1>1 DEF OnTheWay, Typed
  <2>7. FramesOf(more) = FramesOf(rest) \o Frame(m)
    BY <2>2, FramesOfConcat, FramesOfOne
  <2>8. OnTheWay(c)' = FramesOf(more)
    BY <2>1, <2>5, <2>6, <2>7
  <2> HIDE DEF more
  <2> QED
    BY <1>1, <1>4, <2>2, <2>3, <2>8 DEF Lossless
<1>5. ASSUME NEW d \in Clients, d # c, Lossless(d) PROVE Lossless(d)'
  BY <1>1, <1>5 DEF Lossless, OnTheWay, Typed
<1> QED
  BY <1>1, <1>3, <1>4, <1>5 DEF NothingLost

\* The kernel takes some of it (write_all).
LEMMA WriteSomeLossless ==
  ASSUME Typed, NEW c \in Clients, NEW n \in 1..SocketBytes, WriteSome(c, n)
  PROVE  Typed' /\ (NothingLost => NothingLost')
<1> DEFINE front == SubSeq(pending[c], 1, n)
           back == SubSeq(pending[c], n + 1, Len(pending[c]))
<1>1. /\ stream' = [stream EXCEPT ![c] = stream[c] \o front]
      /\ pending' = [pending EXCEPT ![c] = back]
      /\ UNCHANGED <<sent, read_buf, received, failure, registered, robbed>>
  BY DEF WriteSome, readerVars
<1>2. /\ pending[c] \in Seq(Byte) /\ stream[c] \in Seq(Byte) /\ read_buf[c] \in Seq(Byte)
      /\ n \in 0..Len(pending[c])
  <2>1. n \in Nat /\ n <= Len(pending[c]) /\ Len(pending[c]) \in Nat
    BY WireAssumption, LenProperties DEF WriteSome, Typed
  <2> QED
    BY <2>1 DEF Typed
<1>3. front \in Seq(Byte) /\ back \in Seq(Byte) /\ front \o back = pending[c]
  BY <1>2, Cut
<1> HIDE DEF front, back
<1>4. stream[c] \o front \in Seq(Byte)
  BY <1>2, <1>3, ConcatProperties
<1>5. Typed'
  BY <1>1, <1>3, <1>4 DEF Typed
<1>6. OnTheWay(c)' = OnTheWay(c)
  <2> DEFINE s == stream[c]
             b == read_buf[c]
  <2>1. OnTheWay(c)' = (b \o (s \o front)) \o back /\ OnTheWay(c) = (b \o s) \o (front \o back)
    BY <1>1, <1>3 DEF OnTheWay, Typed
  <2>2. b \in Seq(Byte) /\ s \in Seq(Byte) /\ front \in Seq(Byte) /\ back \in Seq(Byte)
    BY <1>2, <1>3
  <2> HIDE DEF s, b
  <2>3. b \o s \in Seq(Byte)
    BY <2>2, ConcatProperties
  <2>4. (b \o s) \o front = b \o (s \o front)
    BY ONLY <2>2, BytesAssociate
  <2>5. ((b \o s) \o front) \o back = (b \o s) \o (front \o back)
    BY ONLY <2>2, <2>3, BytesAssociate
  <2> QED
    BY <2>1, <2>4, <2>5
<1>7. Lossless(c) => Lossless(c)'
  BY <1>1, <1>6 DEF Lossless
<1>8. ASSUME NEW d \in Clients, d # c, Lossless(d) PROVE Lossless(d)'
  BY <1>1, <1>8 DEF Lossless, OnTheWay, Typed
<1> QED
  BY <1>1, <1>5, <1>7, <1>8 DEF NothingLost

\* The reader reads some of it (fill_at_least).
LEMMA FillLossless ==
  ASSUME Typed, NEW c \in Clients, NEW n \in 1..SocketBytes, Fill(c, n)
  PROVE  Typed' /\ (NothingLost => NothingLost')
<1> DEFINE front == SubSeq(stream[c], 1, n)
           back == SubSeq(stream[c], n + 1, Len(stream[c]))
<1>1. /\ read_buf' = [read_buf EXCEPT ![c] = read_buf[c] \o front]
      /\ stream' = [stream EXCEPT ![c] = back]
      /\ UNCHANGED <<sent, pending, received, failure, registered, robbed>>
  BY DEF Fill, clientVars
<1>2. /\ pending[c] \in Seq(Byte) /\ stream[c] \in Seq(Byte) /\ read_buf[c] \in Seq(Byte)
      /\ n \in 0..Len(stream[c])
  <2>1. n \in Nat /\ n <= Len(stream[c]) /\ Len(stream[c]) \in Nat
    BY WireAssumption, LenProperties DEF Fill, Typed
  <2> QED
    BY <2>1 DEF Typed
<1>3. front \in Seq(Byte) /\ back \in Seq(Byte) /\ front \o back = stream[c]
  BY <1>2, Cut
<1> HIDE DEF front, back
<1>4. read_buf[c] \o front \in Seq(Byte)
  BY <1>2, <1>3, ConcatProperties
<1>5. Typed'
  BY <1>1, <1>3, <1>4 DEF Typed
<1>6. OnTheWay(c)' = OnTheWay(c)
  <2> DEFINE b == read_buf[c]
  <2>1. OnTheWay(c)' = ((b \o front) \o back) \o pending[c] /\ OnTheWay(c) = (b \o (front \o back)) \o pending[c]
    BY <1>1, <1>3 DEF OnTheWay, Typed
  <2>2. b \in Seq(Byte) /\ front \in Seq(Byte) /\ back \in Seq(Byte)
    BY <1>2, <1>3
  <2> HIDE DEF b
  <2>3. (b \o front) \o back = b \o (front \o back)
    BY ONLY <2>2, BytesAssociate
  <2> QED
    BY <2>1, <2>3
<1>7. Lossless(c) => Lossless(c)'
  BY <1>1, <1>6 DEF Lossless
<1>8. ASSUME NEW d \in Clients, d # c, Lossless(d) PROVE Lossless(d)'
  BY <1>1, <1>8 DEF Lossless, OnTheWay, Typed
<1> QED
  BY <1>1, <1>5, <1>7, <1>8 DEF NothingLost

\* What the reader of a lossless connection has in its buffer, once it has a
\* header, is the message that comes next (read_frame).
LEMMA NextMessage ==
  ASSUME Typed, NEW c \in Clients, Lossless(c), Len(read_buf[c]) >= HeaderBytes
  PROVE  \E m \in Messages, others \in Seq(Messages) :
           /\ sent[c] = Append(received[c], m) \o others
           /\ FromLeBytes(read_buf[c]) = Len(m)
           /\ Len(read_buf[c]) >= Wanted(read_buf[c]) =>
                /\ Payload(read_buf[c]) = m
                /\ SubSeq(read_buf[c], Wanted(read_buf[c]) + 1, Len(read_buf[c])) \in Seq(Byte)
                /\ (SubSeq(read_buf[c], Wanted(read_buf[c]) + 1, Len(read_buf[c])) \o stream[c])
                     \o pending[c] = FramesOf(others)
<1> DEFINE b == read_buf[c]
           s == stream[c]
           p == pending[c]
           got == received[c]
<1>1. b \in Seq(Byte) /\ s \in Seq(Byte) /\ p \in Seq(Byte) /\ got \in Seq(Messages)
  BY DEF Typed
<1>2. PICK rest \in Seq(Messages) : sent[c] = got \o rest /\ (b \o s) \o p = FramesOf(rest)
  BY DEF Lossless, OnTheWay
<1>3. Len(b) >= HeaderBytes /\ Len(b) \in Nat /\ HeaderBytes \in Nat
  BY <1>1, LenProperties, WireAssumption
<1>4. s \o p \in Seq(Byte) /\ b \o (s \o p) = FramesOf(rest)
  <2> HIDE DEF b, s, p
  <2>1. (b \o s) \o p = b \o (s \o p)
    BY ONLY <1>1, BytesAssociate
  <2> QED
    BY <1>1, <1>2, <2>1, ConcatProperties
<1>w. Wanted(b) = HeaderBytes + FromLeBytes(b)
  BY <1>3 DEF Wanted
<1>p. Payload(b) = SubSeq(b, HeaderBytes + 1, Wanted(b))
  BY DEF Payload
<1> HIDE DEF b, s, p, got
<1>5. PICK m \in Messages, others \in Seq(Messages) :
        /\ rest = <<m>> \o others
        /\ FromLeBytes(b) = Len(m)
        /\ Len(b) >= HeaderBytes + Len(m) =>
             /\ SubSeq(b, HeaderBytes + 1, HeaderBytes + Len(m)) = m
             /\ SubSeq(b, HeaderBytes + Len(m) + 1, Len(b)) \o (s \o p) = FramesOf(others)
  BY <1>1, <1>3, <1>4, FirstFrame
<1>6. sent[c] = Append(got, m) \o others
  <2> DEFINE one == <<m>>
  <2>1. one \in Seq(Messages) /\ got \in Seq(Messages) /\ others \in Seq(Messages)
    BY <1>1
  <2>2. Append(got, m) = got \o one
    BY <1>1, AppendIsConcat
  <2>3. sent[c] = got \o (one \o others)
    BY <1>2, <1>5
  <2> HIDE DEF one
  <2>4. (got \o one) \o others = got \o (one \o others)
    BY <2>1, MessagesAssociate, Zenon
  <2> QED
    BY <2>2, <2>3, <2>4
<1>7. ASSUME Len(b) >= Wanted(b)
      PROVE  /\ Payload(b) = m
             /\ SubSeq(b, Wanted(b) + 1, Len(b)) \in Seq(Byte)
             /\ (SubSeq(b, Wanted(b) + 1, Len(b)) \o s) \o p = FramesOf(others)
  <2> DEFINE back == SubSeq(b, Wanted(b) + 1, Len(b))
  <2>1. Wanted(b) = HeaderBytes + Len(m) /\ Len(m) \in Nat
    BY <1>5, <1>w, FrameType, LenProperties
  <2>2. Payload(b) = m /\ back \o (s \o p) = FramesOf(others)
    BY <1>5, <1>7, <1>p, <2>1
  <2>3. back \in Seq(Byte)
    <3>1. Wanted(b) \in 0..Len(b)
      BY <1>3, <1>7, <2>1
    <3> QED
      BY <1>1, <3>1, Cut
  <2> HIDE DEF back
  <2>4. back \in Seq(Byte) /\ s \in Seq(Byte) /\ p \in Seq(Byte)
    BY <1>1, <2>3
  <2>5. (back \o s) \o p = back \o (s \o p)
    BY ONLY <2>4, BytesAssociate
  <2> QED
    BY <2>2, <2>3, <2>5 DEF back
<1> QED
  BY <1>5, <1>6, <1>7 DEF b, s, p, got

\* A frame is taken out and decoded (read_client_message).
LEMMA ExtractLossless ==
  ASSUME Typed, NEW c \in Clients, Extract(c)
  PROVE  Typed' /\ (NothingLost => NothingLost')
<1> DEFINE b == read_buf[c]
           back == SubSeq(b, Wanted(b) + 1, Len(b))
           got == Decode(Payload(b))
<1>1. /\ read_buf' = [read_buf EXCEPT ![c] = back]
      /\ \/ /\ Decodable(Payload(b)) /\ UNCHANGED failure
            /\ received' = [received EXCEPT ![c] = Append(received[c], got)]
         \/ /\ ~Decodable(Payload(b)) /\ UNCHANGED received
            /\ failure' = [failure EXCEPT ![c] = "Undecodable"]
      /\ UNCHANGED <<sent, pending, stream, registered, robbed>>
      /\ ~TooLarge(b) /\ Len(b) >= Wanted(b)
  BY DEF Extract, Fail, clientVars
<1>2. b \in Seq(Byte) /\ Len(b) \in Nat /\ HeaderBytes \in Nat
  BY LenProperties, WireAssumption DEF Typed
<1>3. Len(b) >= HeaderBytes
  <2> SUFFICES ASSUME Len(b) < HeaderBytes PROVE FALSE
    BY <1>2
  <2>1. Wanted(b) = HeaderBytes
    BY DEF Wanted
  <2> QED
    BY <1>1, <1>2, <2>1
<1>4. back \in Seq(Byte)
  <2>1. Wanted(b) + 1 \in Int /\ \A i \in (Wanted(b) + 1)..Len(b) : b[i] \in Byte
    <3>1. FromLeBytes(b) \in Nat
      BY <1>2, <1>3, FromLeBytesType
    <3>2. Wanted(b) = HeaderBytes + FromLeBytes(b)
      BY <1>2, <1>3 DEF Wanted
    <3>3. Wanted(b) \in Nat
      BY <1>2, <3>1, <3>2
    <3>4. \A i \in 1..Len(b) : b[i] \in Byte
      BY <1>2, ElementOfSeq
    <3> QED
      BY <1>2, <3>3, <3>4
  <2> QED
    BY <1>2, <2>1, SubSeqProperties
<1>5. Decodable(Payload(b)) => got \in Messages
  BY DEF Decodable, Decode
<1>6. Typed'
  <2>1. CASE Decodable(Payload(b))
    <3>1. Append(received[c], got) \in Seq(Messages)
      BY <1>5, <2>1, AppendProperties DEF Typed
    <3> HIDE DEF got, back, b
    <3> QED
      BY <1>1, <1>4, <2>1, <3>1 DEF Typed
  <2>2. CASE ~Decodable(Payload(b))
    <3> HIDE DEF got, back, b
    <3> QED
      BY <1>1, <1>4, <2>2 DEF Typed
  <2> QED
    BY <2>1, <2>2
<1>7. ASSUME Lossless(c) PROVE Lossless(c)'
  <2>1. PICK m \in Messages, others \in Seq(Messages) :
          /\ sent[c] = Append(received[c], m) \o others
          /\ FromLeBytes(b) = Len(m)
          /\ Len(b) >= Wanted(b) =>
               /\ Payload(b) = m /\ back \in Seq(Byte)
               /\ (back \o stream[c]) \o pending[c] = FramesOf(others)
    BY <1>3, <1>7, NextMessage
  <2>2. Payload(b) = m /\ (back \o stream[c]) \o pending[c] = FramesOf(others)
    BY <1>1, <2>1
  <2>3. Decodable(Payload(b)) /\ got = m
    BY <2>2, Readable
  <2>4. received'[c] = Append(received[c], m) /\ read_buf'[c] = back /\ failure' = failure
    BY <1>1, <2>3 DEF Typed
  <2>5. sent'[c] = received'[c] \o others /\ OnTheWay(c)' = FramesOf(others)
    BY <1>1, <2>1, <2>2, <2>4 DEF OnTheWay
  <2> QED
    BY <1>7, <2>4, <2>5 DEF Lossless
<1> HIDE DEF b, back, got
<1>8. ASSUME NEW d \in Clients, d # c, Lossless(d) PROVE Lossless(d)'
  <2>1. /\ read_buf'[d] = read_buf[d] /\ received'[d] = received[d] /\ failure'[d] = failure[d]
        /\ UNCHANGED <<sent, stream, pending>>
    BY <1>1, <1>8 DEF Typed
  <2> QED
    BY <1>8, <2>1 DEF Lossless, OnTheWay
<1> QED
  BY <1>1, <1>6, <1>7, <1>8 DEF NothingLost

\* An honest client's frames are never too large (read_frame).
LEMMA RefuseLossless ==
  ASSUME Typed, NEW c \in Clients, RefuseSize(c)
  PROVE  Typed' /\ (NothingLost => NothingLost')
<1>1. /\ TooLarge(read_buf[c]) /\ failure' = [failure EXCEPT ![c] = "MessageTooLarge"]
      /\ UNCHANGED <<pending, sent, stream, registered, read_buf, received, robbed>>
  BY DEF RefuseSize, Fail, clientVars
<1>2. Typed'
  BY <1>1 DEF Typed
<1>3. ASSUME Lossless(c) PROVE FALSE
  <2>1. Len(read_buf[c]) >= HeaderBytes /\ FromLeBytes(read_buf[c]) > MaxMessageSize
    BY <1>1 DEF TooLarge
  <2>2. PICK m \in Messages : FromLeBytes(read_buf[c]) = Len(m)
    BY <1>3, <2>1, NextMessage
  <2>3. Len(m) \in 0..MaxMessageSize /\ MaxMessageSize \in Nat
    BY FrameType, WireAssumption
  <2> QED
    BY <2>1, <2>2, <2>3
<1>4. ASSUME NEW d \in Clients, d # c, Lossless(d) PROVE Lossless(d)'
  BY <1>1, <1>4 DEF Lossless, OnTheWay, Typed
<1> QED
  BY <1>1, <1>2, <1>3, <1>4 DEF NothingLost

\* The sweep takes bytes only from connections that count as robbed
\* (remove_disconnected_clients).
LEMMA SweepLossless ==
  ASSUME Typed, NEW ready \in SUBSET Clients, NEW failing \in SUBSET Clients,
         Sweep(ready, failing)
  PROVE  Typed' /\ (NothingLost => NothingLost')
<1>1. /\ stream' = [c \in Clients |-> IF c \in Probed(ready, failing) THEN Tail(stream[c])
                                                               ELSE stream[c]]
      /\ robbed' = robbed \cup Probed(ready, failing)
      /\ registered' \subseteq registered
      /\ UNCHANGED <<pending, sent, read_buf, received, failure>>
  BY DEF Sweep, clientVars, readerVars
<1>2. \A c \in Clients : c \in Probed(ready, failing) => Tail(stream[c]) \in Seq(Byte)
  BY HeadTailProperties DEF Typed, Probed
<1>3. stream' \in [Clients -> Seq(Byte)]
  BY <1>1, <1>2 DEF Typed
<1>4. Typed'
  BY <1>1, <1>3 DEF Typed
<1>5. ASSUME NEW c \in Clients \ robbed', Lossless(c) PROVE Lossless(c)'
  <2>1. stream'[c] = stream[c]
    BY <1>1, <1>5
  <2> QED
    BY <1>1, <1>5, <2>1 DEF Lossless, OnTheWay
<1> QED
  BY <1>1, <1>4, <1>5 DEF NothingLost

\* No step loses, makes up or reorders a byte of a connection that the sweep has
\* not read from.
LEMMA LosslessStep == Typed /\ NothingLost /\ [Next]_vars => Typed' /\ NothingLost'
<1> SUFFICES ASSUME Typed, NothingLost, [Next]_vars PROVE Typed' /\ NothingLost'
  OBVIOUS
<1>1. ASSUME UNCHANGED <<pending, sent, stream, read_buf, received, failure, robbed>>,
             registered' \subseteq Clients
      PROVE  Typed' /\ NothingLost'
  BY <1>1 DEF Typed, NothingLost, Lossless, OnTheWay
<1>2. ASSUME NEW c \in Clients, Connect(c) \/ Close(c) \/ Break(c) \/ Accept(c) \/ RemoveClient(c)
      PROVE  Typed' /\ NothingLost'
  BY <1>1, <1>2 DEF Connect, Close, Break, Accept, RemoveClient, clientVars, readerVars, Typed
<1>3. ASSUME NEW c \in Clients, EndOfStream(c) \/ ReadError(c) PROVE Typed' /\ NothingLost'
  <2>1. /\ \/ failure' = [failure EXCEPT ![c] = "UnexpectedEof"]
           \/ failure' = [failure EXCEPT ![c] = "Io"]
        /\ UNCHANGED <<pending, sent, stream, registered, read_buf, received, robbed>>
    BY <1>3 DEF EndOfStream, ReadError, Fail, clientVars
  <2>2. Typed'
    BY <2>1 DEF Typed
  <2>3. ASSUME NEW d \in Clients, Lossless(d) PROVE Lossless(d)'
    BY <2>1, <2>3 DEF Lossless, OnTheWay, Typed
  <2> QED
    BY <2>1, <2>2, <2>3 DEF NothingLost
<1>4. ASSUME NEW c \in Clients, RefuseSize(c) \/ Extract(c) PROVE Typed' /\ NothingLost'
  BY <1>4, RefuseLossless, ExtractLossless
<1>5. ASSUME NEW c \in Clients, NEW m \in Messages, Write(c, m) PROVE Typed' /\ NothingLost'
  BY <1>5, WriteLossless
<1>6. ASSUME NEW c \in Clients, NEW n \in 1..SocketBytes, WriteSome(c, n) \/ Fill(c, n)
      PROVE  Typed' /\ NothingLost'
  BY <1>6, WriteSomeLossless, FillLossless
<1>7. ASSUME NEW ready \in SUBSET Clients, NEW failing \in SUBSET Clients, Sweep(ready, failing)
      PROVE  Typed' /\ NothingLost'
  BY <1>7, SweepLossless
<1>8. CASE ServerShutdown \/ UNCHANGED vars
  BY <1>1, <1>8 DEF ServerShutdown, vars, clientVars, readerVars, Typed
<1> QED
  BY <1>2, <1>3, <1>4, <1>5, <1>6, <1>7, <1>8 DEF Next

\* In whatever pieces the bytes come, a reader gets the messages its client
\* wrote, in their order, none twice and none made up, and never an error for
\* what an honest client wrote, only the end of the stream or an error of the
\* socket, unless the sweep has taken a byte from it (read_frame).
THEOREM MessagesSurvive == Spec => []FramesSurvive
<1>1. Typed /\ NothingLost => FramesSurvive
  <2> SUFFICES ASSUME Typed, NothingLost, NEW c \in Clients \ robbed
               PROVE  /\ IsPrefix(received[c], sent[c])
                      /\ failure[c] \in {"none", "UnexpectedEof", "Io"}
    BY DEF FramesSurvive
  <2>1. Lossless(c)
    BY DEF NothingLost
  <2>2. PICK rest \in Seq(Messages) : sent[c] = received[c] \o rest
    BY <2>1 DEF Lossless
  <2> DEFINE got == received[c]
  <2>3. got \in Seq(Messages) /\ Len(got) \in Nat /\ Len(rest) \in Nat
    BY LenProperties DEF Typed
  <2>4. Len(got \o rest) = Len(got) + Len(rest)
    BY <2>3, ConcatProperties
  <2>5. SubSeq(got \o rest, 1, Len(got)) = SubSeq(got, 1, Len(got))
    <3>1. CASE Len(got) = 0
      <4>1. SubSeq(got \o rest, 1, 0) = <<>> /\ SubSeq(got, 1, 0) = <<>>
        BY SubSeqEmpty
      <4> QED
        BY <3>1, <4>1
    <3>2. CASE Len(got) # 0
      <4>1. 1 \in 1..Len(got) /\ Len(got) \in 1..Len(got)
        BY <2>3, <3>2
      <4> QED
        BY <2>3, <4>1, SubSeqOfConcat1
    <3> QED
      BY <3>1, <3>2
  <2>6. Len(got) <= Len(got \o rest)
    BY <2>3, <2>4
  <2> QED
    BY <2>1, <2>2, <2>5, <2>6 DEF IsPrefix, Lossless
<1> QED
  BY <1>1, InitLossless, LosslessStep, PTL DEF Spec

(***************************************************************************)
(* What a reader has at the end.                                           *)
(***************************************************************************)
\* What a client still has to write belongs to its last message; once it has
\* hung up it writes no more (write_client_message).
Unwritten ==
  \A c \in Clients :
    pending[c] # <<>> => /\ sent[c] # <<>>
                         /\ Len(pending[c]) <= Len(Frame(Last(sent[c])))

\* Why EndedReadersHaveAll lasts: a reader has come to the end of the stream only
\* if its client has gone.
Gone(c) == peer[c] \in {"closed", "broken"}

Complete(c) == received[c] = IF pending[c] = <<>> THEN sent[c] ELSE Front(sent[c])

Ended ==
  /\ Unwritten
  /\ \A c \in Clients : failure[c] = "UnexpectedEof" => Gone(c)
  /\ EndedReadersHaveAll

\* A frame is a header and a payload (write_frame).
LEMMA FrameLength ==
  ASSUME NEW m \in Messages
  PROVE  Len(Frame(m)) = HeaderBytes + Len(m) /\ Len(m) \in Nat /\ HeaderBytes \in Nat
<1> DEFINE header == LeBytes(Len(m))
<1>1. m \in Seq(Byte) /\ header \in Seq(Byte) /\ Len(header) = HeaderBytes
  BY FrameType
<1>2. Frame(m) = header \o m
  BY DEF Frame
<1> HIDE DEF header
<1>3. Len(header \o m) = Len(header) + Len(m)
  BY <1>1, ConcatProperties
<1>4. Len(m) \in Nat
  BY <1>1, LenProperties
<1>5. HeaderBytes \in Nat
  BY WireAssumption
<1>6. Len(Frame(m)) = HeaderBytes + Len(m)
  BY <1>1, <1>2, <1>3
<1> QED
  BY <1>4, <1>5, <1>6

\* A message and the others after it have its frame and theirs.
LEMMA FramesOfFirst ==
  ASSUME NEW m \in Messages, NEW others \in Seq(Messages)
  PROVE  /\ FramesOf(<<m>> \o others) = Frame(m) \o FramesOf(others)
         /\ Len(FramesOf(<<m>> \o others)) = HeaderBytes + Len(m) + Len(FramesOf(others))
         /\ Len(FramesOf(others)) \in Nat
<1>1. <<m>> \in Seq(Messages)
  OBVIOUS
<1>2. FramesOf(<<m>> \o others) = FramesOf(<<m>>) \o FramesOf(others)
  BY <1>1, FramesOfConcat
<1>3. FramesOf(<<m>> \o others) = Frame(m) \o FramesOf(others)
  BY <1>2, FramesOfOne
<1>4. Frame(m) \in Seq(Byte) /\ FramesOf(others) \in Seq(Byte)
  BY FrameType, FramesOfType
<1>5. Len(Frame(m) \o FramesOf(others)) = Len(Frame(m)) + Len(FramesOf(others))
  BY <1>4, ConcatProperties
<1>6. Len(FramesOf(others)) \in Nat
  BY <1>4, LenProperties
<1> QED
  BY <1>3, <1>5, <1>6, FrameLength

\* The frames of several messages end with the last one's.
LEMMA LastFrameFits ==
  ASSUME NEW messages \in Seq(Messages), messages # <<>>
  PROVE  Len(Frame(Last(messages))) <= Len(FramesOf(messages))
<1> DEFINE n == Len(messages)
           front == SubSeq(messages, 1, n - 1)
           back == SubSeq(messages, (n - 1) + 1, n)
           last == messages[n]
           f == FramesOf(front)
           g == Frame(last)
<1>1. n \in Nat /\ n > 0 /\ n \in 1..n /\ n - 1 \in 0..n
  BY LenProperties, EmptySeq
<1>2. front \in Seq(Messages) /\ front \o back = messages
  BY <1>1, Cut
<1>3. last \in Messages
  BY <1>1, ElementOfSeq
<1>4. back = <<last>>
  <2>1. (n - 1) + 1 = n
    BY <1>1
  <2>2. \A i \in n..n : messages[i] \in Messages
    BY <1>1, <1>3
  <2>3. /\ SubSeq(messages, n, n) \in Seq(Messages) /\ Len(SubSeq(messages, n, n)) = 1
        /\ SubSeq(messages, n, n)[1] = messages[n]
    BY <1>1, <2>2, SubSeqProperties
  <2>4. SubSeq(messages, n, n) = <<messages[n]>>
    <3> DEFINE one == <<messages[n]>>
               piece == SubSeq(messages, n, n)
    <3>1. one \in Seq(Messages) /\ Len(one) = 1 /\ one[1] = messages[n]
      BY <1>3
    <3>2. piece \in Seq(Messages) /\ Len(piece) = 1 /\ piece[1] = messages[n]
      BY <2>3
    <3> HIDE DEF one, piece
    <3>3. Len(piece) = Len(one) /\ \A i \in 1..Len(piece) : piece[i] = one[i]
      BY <3>1, <3>2
    <3>4. piece = one
      BY <3>1, <3>2, <3>3, SeqEqual
    <3> QED
      BY <3>4 DEF one, piece
  <2> QED
    BY <2>1, <2>4
<1>5. FramesOf(messages) = f \o g
  <2>1. <<last>> \in Seq(Messages)
    BY <1>3
  <2>2. FramesOf(front \o <<last>>) = FramesOf(front) \o FramesOf(<<last>>)
    BY <1>2, <2>1, FramesOfConcat
  <2>3. FramesOf(<<last>>) = Frame(last)
    BY <1>3, FramesOfOne
  <2> QED
    BY <1>2, <1>4, <2>2, <2>3
<1>6. f \in Seq(Byte) /\ g \in Seq(Byte)
  BY <1>2, <1>3, FramesOfType, FrameType
<1>7. Last(messages) = last
  BY DEF Last
<1> HIDE DEF f, g
<1>8. Len(f \o g) = Len(f) + Len(g) /\ Len(f) \in Nat /\ Len(g) \in Nat
  BY <1>6, ConcatProperties, LenProperties
<1>9. Len(g) <= Len(f \o g)
  BY <1>8
<1> QED
  BY <1>5, <1>7, <1>9 DEF g

\* While a reader asks for more, it does not have all of the next frame
\* (read_frame).
LEMMA FrameAwaited ==
  ASSUME NEW b \in Seq(Byte), NEW coming \in Seq(Byte), NEW rest \in Seq(Messages),
         rest # <<>>, b \o coming = FramesOf(rest), Len(b) < Wanted(b)
  PROVE  \E m \in Messages, others \in Seq(Messages) :
           rest = <<m>> \o others /\ Len(b) < HeaderBytes + Len(m)
<1>1. Len(b) \in Nat /\ HeaderBytes \in Nat
  BY LenProperties, WireAssumption
<1>2. CASE Len(b) < HeaderBytes
  <2>1. PICK m \in Messages, others \in Seq(Messages) : rest = <<m>> \o others
    BY FirstMessage
  <2>2. Len(m) \in Nat
    BY FrameLength
  <2>3. Len(b) < HeaderBytes + Len(m)
    BY <1>1, <1>2, <2>2
  <2> QED
    BY <2>1, <2>3
<1>3. CASE Len(b) >= HeaderBytes
  <2>1. PICK m \in Messages, others \in Seq(Messages) :
          /\ rest = <<m>> \o others
          /\ FromLeBytes(b) = Len(m)
          /\ Len(b) >= HeaderBytes + Len(m) =>
               /\ SubSeq(b, HeaderBytes + 1, HeaderBytes + Len(m)) = m
               /\ SubSeq(b, HeaderBytes + Len(m) + 1, Len(b)) \o coming = FramesOf(others)
    BY <1>3, FirstFrame
  <2>2. Wanted(b) = HeaderBytes + FromLeBytes(b)
    BY <1>1, <1>3 DEF Wanted
  <2>3. Len(b) < HeaderBytes + Len(m)
    BY <2>1, <2>2
  <2> QED
    BY <2>1, <2>3
<1>4. Len(b) < HeaderBytes \/ Len(b) >= HeaderBytes
  BY <1>1
<1> QED
  BY <1>2, <1>3, <1>4

\* With the socket empty and the client gone, a reader that asks for more has all
\* that was finished (fill_at_least).
LEMMA EndIsComplete ==
  ASSUME Typed, Unwritten, NEW c \in Clients, Lossless(c), stream[c] = <<>>,
         Len(read_buf[c]) < Wanted(read_buf[c])
  PROVE  Complete(c)
<1> DEFINE b == read_buf[c]
           p == pending[c]
           got == received[c]
<1>1. b \in Seq(Byte) /\ p \in Seq(Byte) /\ got \in Seq(Messages)
  BY DEF Typed
<1>2. PICK rest \in Seq(Messages) : sent[c] = got \o rest /\ b \o p = FramesOf(rest)
  <2>1. b \o <<>> = b
    BY <1>1, ConcatEmptySeq
  <2> QED
    BY <2>1 DEF Lossless, OnTheWay
<1>3. /\ Len(b) \in Nat /\ Len(p) \in Nat /\ Len(b \o p) = Len(b) + Len(p)
      /\ Len(b) < Wanted(b)
  BY <1>1, LenProperties, ConcatProperties
<1>4. p # <<>> => sent[c] # <<>> /\ Len(p) <= Len(Frame(Last(sent[c])))
  BY DEF Unwritten
<1> HIDE DEF b, p, got
<1>5. CASE rest = <<>>
  <2>1. sent[c] = got
    BY <1>1, <1>2, <1>5, ConcatEmptySeq
  <2>2. Len(b \o p) = 0
    BY <1>2, <1>5, FramesOfNone
  <2>3. Len(p) = 0
    BY <1>3, <2>2
  <2>4. p = <<>>
    BY <1>1, <2>3, EmptySeq
  <2> QED
    BY <2>1, <2>4 DEF Complete, p, got
<1>6. CASE rest # <<>>
  <2>1. PICK m \in Messages, others \in Seq(Messages) :
          rest = <<m>> \o others /\ Len(b) < HeaderBytes + Len(m)
    <3>1. /\ b \in Seq(Byte) /\ p \in Seq(Byte) /\ rest \in Seq(Messages) /\ rest # <<>>
          /\ b \o p = FramesOf(rest) /\ Len(b) < Wanted(b)
      BY <1>1, <1>2, <1>3, <1>6
    <3> QED
      BY ONLY <3>1, FrameAwaited
  <2>2. /\ Len(FramesOf(rest)) = HeaderBytes + Len(m) + Len(FramesOf(others))
        /\ Len(FramesOf(others)) \in Nat
    BY <2>1, FramesOfFirst
  <2>3. Len(m) \in Nat /\ HeaderBytes \in Nat
    BY FrameLength
  <2>4. Len(p) > Len(FramesOf(others))
    BY <1>2, <1>3, <2>1, <2>2, <2>3
  <2>5. p # <<>>
    <3>1. Len(p) # 0
      BY <2>2, <2>4
    <3> QED
      BY <3>1
  <2> DEFINE last == Last(sent[c])
  <2>6. Len(p) <= Len(Frame(last))
    BY <1>4, <2>5
  <2>7. others = <<>>
    <3> SUFFICES ASSUME others # <<>> PROVE FALSE
      OBVIOUS
    <3> DEFINE two == <<m>> \o others
    <3>0. <<m>> \in Seq(Messages)
      OBVIOUS
    <3>1. /\ Len(others) \in Nat /\ Len(others) > 0 /\ Len(got) \in Nat
          /\ two \in Seq(Messages) /\ Len(two) = 1 + Len(others)
          /\ two[1 + Len(others)] = others[Len(others)]
      <4>1. Len(others) \in Nat /\ Len(others) > 0 /\ Len(got) \in Nat
        BY <1>1, LenProperties, EmptySeq
      <4>2. /\ two \in Seq(Messages) /\ Len(two) = 1 + Len(others)
            /\ \A i \in 1..1 + Len(others) :
                 two[i] = IF i <= 1 THEN <<m>>[i] ELSE others[i - 1]
        BY <3>0, ConcatProperties
      <4>3. 1 + Len(others) \in 1..1 + Len(others) /\ ~(1 + Len(others) <= 1)
            /\ (1 + Len(others)) - 1 = Len(others)
        BY <4>1
      <4> QED
        BY <4>1, <4>2, <4>3
    <3>2. sent[c] = got \o two
      BY <1>2, <2>1
    <3> HIDE DEF two
    <3>3. Len(got \o two) = Len(got) + Len(two)
          /\ \A i \in 1..Len(got) + Len(two) :
               (got \o two)[i] = IF i <= Len(got) THEN got[i] ELSE two[i - Len(got)]
      <4>1. got \in Seq(Messages) /\ two \in Seq(Messages)
        BY <1>1, <3>1
      <4> QED
        BY ONLY <4>1, ConcatProperties
    <3>4. /\ Len(got) + Len(two) \in 1..Len(got) + Len(two)
          /\ ~(Len(got) + Len(two) <= Len(got))
          /\ (Len(got) + Len(two)) - Len(got) = 1 + Len(others)
      BY <3>1
    <3>5. (got \o two)[Len(got \o two)] = others[Len(others)]
      BY <3>1, <3>3, <3>4
    <3>6. last = Last(others)
      BY <3>2, <3>5 DEF Last
    <3>7. Len(Frame(Last(others))) <= Len(FramesOf(others))
      BY LastFrameFits
    <3>8. Len(p) <= Len(FramesOf(others))
      <4>1. Last(others) \in Messages
        <5>1. Len(others) \in 1..Len(others)
          BY <3>1
        <5> QED
          BY <5>1, ElementOfSeq DEF Last
      <4>2. Len(Frame(Last(others))) \in Nat
        BY <4>1, FrameLength
      <4>3. Len(p) <= Len(Frame(Last(others)))
        BY <2>6, <3>6
      <4> QED
        BY <1>3, <2>2, <3>7, <4>2, <4>3
    <3> QED
      BY <1>3, <2>2, <2>4, <3>8
  <2>8. sent[c] = Append(got, m)
    <3> DEFINE one == <<m>>
    <3>1. one \in Seq(Messages) /\ one \o <<>> = one
      BY ConcatEmptySeq
    <3>2. rest = one
      BY <2>1, <2>7, <3>1
    <3>3. Append(got, m) = got \o one
      BY <1>1, AppendIsConcat
    <3> QED
      BY <1>2, <3>2, <3>3
  <2>9. Front(sent[c]) = got
    <3>1. /\ Len(Append(got, m)) = Len(got) + 1 /\ Len(got) \in Nat
          /\ \A i \in 1..Len(got) : Append(got, m)[i] = got[i]
      BY <1>1, AppendProperties, LenProperties
    <3>2. Len(Append(got, m)) - 1 = Len(got)
      BY <3>1
    <3>3. SubSeq(Append(got, m), 1, Len(got)) = got
      <4> DEFINE app == Append(got, m)
                 pre == SubSeq(app, 1, Len(got))
      <4>1. \A i \in 1..Len(got) : app[i] \in Messages /\ app[i] = got[i]
        <5>1. \A i \in 1..Len(got) : got[i] \in Messages
          BY <1>1, ElementOfSeq
        <5> QED
          BY <3>1, <5>1
      <4> HIDE DEF app
      <4>2. /\ pre \in Seq(Messages)
            /\ Len(pre) = IF 1 <= Len(got) THEN Len(got) - 1 + 1 ELSE 0
            /\ \A i \in 1..(Len(got) - 1 + 1) : pre[i] = app[1 + i - 1]
        BY <3>1, <4>1, SubSeqProperties
      <4>3. Len(pre) = Len(got)
        BY <3>1, <4>2
      <4>4. \A i \in 1..Len(got) : pre[i] = got[i]
        BY <3>1, <4>1, <4>2
      <4> HIDE DEF pre
      <4>5. pre = got
        BY <1>1, <4>2, <4>3, <4>4, SeqEqual
      <4> QED
        BY <4>5 DEF pre, app
    <3> QED
      BY <2>8, <3>2, <3>3 DEF Front
  <2> QED
    BY <2>5, <2>9 DEF Complete, p, got
<1> QED
  BY <1>5, <1>6

\* The client's own end: its unwritten bytes, and that it is gone for good.
LEMMA UnwrittenStep == Typed /\ Unwritten /\ [Next]_vars => Unwritten'
<1> SUFFICES ASSUME Typed, Unwritten, [Next]_vars, NEW c \in Clients, pending'[c] # <<>>
             PROVE  sent'[c] # <<>> /\ Len(pending'[c]) <= Len(Frame(Last(sent'[c])))
  BY DEF Unwritten
<1>1. CASE pending'[c] = pending[c] /\ sent'[c] = sent[c]
  BY <1>1 DEF Unwritten
<1>2. ASSUME NEW m \in Messages, Write(c, m)
      PROVE  sent'[c] # <<>> /\ Len(pending'[c]) <= Len(Frame(Last(sent'[c])))
  <2>1. pending'[c] = Frame(m) /\ sent'[c] = Append(sent[c], m) /\ sent[c] \in Seq(Messages)
    BY <1>2 DEF Write, Typed
  <2>2. /\ Len(Append(sent[c], m)) = Len(sent[c]) + 1 /\ Len(sent[c]) \in Nat
        /\ Append(sent[c], m)[Len(sent[c]) + 1] = m
    BY <2>1, AppendProperties, LenProperties
  <2>3. Append(sent[c], m) # <<>>
    BY <2>2
  <2>4. Last(Append(sent[c], m)) = m
    BY <2>2 DEF Last
  <2>5. Len(Frame(m)) \in Nat
    BY FrameLength
  <2> QED
    BY <2>1, <2>3, <2>4, <2>5
<1>3. ASSUME NEW n \in 1..SocketBytes, WriteSome(c, n)
      PROVE  sent'[c] # <<>> /\ Len(pending'[c]) <= Len(Frame(Last(sent'[c])))
  <2> DEFINE p == pending[c]
             q == SubSeq(p, n + 1, Len(p))
             frame == Frame(Last(sent[c]))
  <2>1. /\ pending'[c] = q /\ sent'[c] = sent[c] /\ n <= Len(p)
        /\ p \in Seq(Byte) /\ sent[c] \in Seq(Messages)
    BY <1>3 DEF WriteSome, Typed
  <2>2. Len(p) \in Nat /\ n \in Nat /\ n > 0
    BY <2>1, LenProperties, WireAssumption
  <2>3. p # <<>>
    BY <2>1, <2>2
  <2>4. sent[c] # <<>> /\ Len(p) <= Len(frame)
    BY <2>3 DEF Unwritten
  <2>5. Len(q) = Len(p) - n
    <3>1. \A i \in (n + 1)..Len(p) : p[i] \in Byte
      <4>1. \A i \in 1..Len(p) : p[i] \in Byte
        BY <2>1, ElementOfSeq
      <4> QED
        BY <2>2, <4>1
    <3>2. n + 1 \in Int /\ Len(p) \in Int
      BY <2>2
    <3> HIDE DEF p
    <3>3. Len(q) = IF n + 1 <= Len(p) THEN Len(p) - (n + 1) + 1 ELSE 0
      BY <3>1, <3>2, BytesBetween
    <3> QED
      BY <2>1, <2>2, <3>3
  <2>6. Len(frame) \in Nat
    <3>1. Last(sent[c]) \in Messages
      <4>1. Len(sent[c]) \in 1..Len(sent[c])
        BY <2>1, <2>4, LenProperties, EmptySeq
      <4> QED
        BY <2>1, <4>1, ElementOfSeq DEF Last
    <3> QED
      BY <3>1, FrameLength
  <2> HIDE DEF p, q, frame
  <2>7. Len(q) <= Len(frame)
    BY <2>2, <2>4, <2>5, <2>6
  <2> QED
    BY <2>1, <2>4, <2>7 DEF frame
<1>4. ASSUME NEW d \in Clients, NEW m \in Messages, Write(d, m), d # c
      PROVE  pending'[c] = pending[c] /\ sent'[c] = sent[c]
  BY <1>4 DEF Write, Typed
<1>5. ASSUME NEW d \in Clients, NEW n \in 1..SocketBytes, WriteSome(d, n), d # c
      PROVE  pending'[c] = pending[c] /\ sent'[c] = sent[c]
  BY <1>5 DEF WriteSome, Typed
<1>6. ASSUME NEW d \in Clients,
             \/ Connect(d) \/ Close(d) \/ Break(d) \/ Accept(d) \/ RemoveClient(d)
             \/ EndOfStream(d) \/ ReadError(d) \/ RefuseSize(d) \/ Extract(d)
      PROVE  pending'[c] = pending[c] /\ sent'[c] = sent[c]
  BY <1>6 DEF Connect, Close, Break, Accept, RemoveClient, EndOfStream, ReadError,
              RefuseSize, Extract, clientVars
<1>7. ASSUME NEW d \in Clients, NEW n \in 1..SocketBytes, Fill(d, n)
      PROVE  pending'[c] = pending[c] /\ sent'[c] = sent[c]
  BY <1>7 DEF Fill, clientVars
<1>8. ASSUME NEW ready \in SUBSET Clients, NEW failing \in SUBSET Clients,
             Sweep(ready, failing)
      PROVE  pending'[c] = pending[c] /\ sent'[c] = sent[c]
  BY <1>8 DEF Sweep, clientVars
<1>9. CASE ServerShutdown \/ UNCHANGED vars
  BY <1>1, <1>9 DEF ServerShutdown, vars, clientVars
<1> QED
  BY <1>1, <1>2, <1>3, <1>4, <1>5, <1>6, <1>7, <1>8, <1>9 DEF Next

\* A client that has gone does nothing any more (write_all fails or is dropped).
LEMMA GoneStays ==
  ASSUME Typed, [Next]_vars, NEW c \in Clients, Gone(c)
  PROVE  Gone(c)' /\ pending'[c] = pending[c] /\ sent'[c] = sent[c]
<1>1. ASSUME NEW d \in Clients,
             Connect(d) \/ Close(d) \/ Break(d) \/ Accept(d) \/ RemoveClient(d)
      PROVE  Gone(c)' /\ pending'[c] = pending[c] /\ sent'[c] = sent[c]
  <2>1. CASE Connect(d)
    BY <2>1 DEF Gone, Connect
  <2>2. CASE Close(d)
    BY <2>2 DEF Gone, Close
  <2>3. CASE Break(d)
    BY <2>3 DEF Gone, Break
  <2>4. CASE Accept(d)
    BY <2>4 DEF Gone, Accept
  <2>5. CASE RemoveClient(d)
    BY <2>5 DEF Gone, RemoveClient, clientVars
  <2> QED
    BY <1>1, <2>1, <2>2, <2>3, <2>4, <2>5
<1>2. ASSUME NEW d \in Clients, NEW m \in Messages, Write(d, m)
      PROVE  Gone(c)' /\ pending'[c] = pending[c] /\ sent'[c] = sent[c]
  BY <1>2 DEF Gone, Write, Connected, Typed
<1>3. ASSUME NEW d \in Clients, NEW n \in 1..SocketBytes, WriteSome(d, n)
      PROVE  Gone(c)' /\ pending'[c] = pending[c] /\ sent'[c] = sent[c]
  BY <1>3 DEF Gone, WriteSome, Connected, Typed
<1>4. ASSUME UNCHANGED clientVars
      PROVE  Gone(c)' /\ pending'[c] = pending[c] /\ sent'[c] = sent[c]
  BY <1>4 DEF Gone, clientVars
<1>5. ASSUME NEW d \in Clients,
             EndOfStream(d) \/ ReadError(d) \/ RefuseSize(d) \/ Extract(d)
      PROVE  UNCHANGED clientVars
  BY <1>5 DEF EndOfStream, ReadError, RefuseSize, Extract
<1>6. ASSUME NEW d \in Clients, NEW n \in 1..SocketBytes, Fill(d, n)
      PROVE  UNCHANGED clientVars
  BY <1>6 DEF Fill
<1>7. ASSUME NEW ready \in SUBSET Clients, NEW failing \in SUBSET Clients,
             Sweep(ready, failing)
      PROVE  UNCHANGED clientVars
  BY <1>7 DEF Sweep
<1>8. CASE ServerShutdown \/ UNCHANGED vars
  BY <1>4, <1>8 DEF ServerShutdown, vars
<1> QED
  BY <1>1, <1>2, <1>3, <1>4, <1>5, <1>6, <1>7, <1>8 DEF Next

\* A reader that has ended does nothing any more, and one ends so only at the end
\* of the stream (read_client_message).
LEMMA ReaderEnds ==
  ASSUME Typed, [Next]_vars, NEW c \in Clients, failure'[c] = "UnexpectedEof"
  PROVE  \/ failure[c] = "UnexpectedEof" /\ received'[c] = received[c]
         \/ EndOfStream(c)
<1>1. ASSUME NEW d \in Clients, EndOfStream(d)
      PROVE  \/ failure[c] = "UnexpectedEof" /\ received'[c] = received[c]
             \/ EndOfStream(c)
  BY <1>1 DEF EndOfStream, Fail, Typed
<1>2. ASSUME NEW d \in Clients, ReadError(d) \/ RefuseSize(d)
      PROVE  failure[c] = "UnexpectedEof" /\ received'[c] = received[c]
  BY <1>2 DEF ReadError, RefuseSize, Fail, Typed
<1>3. ASSUME NEW d \in Clients, Extract(d)
      PROVE  failure[c] = "UnexpectedEof" /\ received'[c] = received[c]
  <2>1. CASE d = c
    <3>1. failure[c] = "none"
      BY <1>3, <2>1 DEF Extract, Reading
    <3>2. failure' = failure \/ failure' = [failure EXCEPT ![c] = "Undecodable"]
      BY <1>3, <2>1 DEF Extract, Fail
    <3> QED
      BY <3>1, <3>2 DEF Typed
  <2>2. CASE d # c
    <3>1. \/ failure' = failure
          \/ failure' = [failure EXCEPT ![d] = "Undecodable"]
      BY <1>3 DEF Extract, Fail
    <3>2. failure'[c] = failure[c]
      BY <2>2, <3>1 DEF Typed
    <3>3. \/ received' = received
          \/ received' = [received EXCEPT ![d] =
                            Append(received[d], Decode(Payload(read_buf[d])))]
      BY <1>3 DEF Extract
    <3>4. received'[c] = received[c]
      BY <2>2, <3>3 DEF Typed
    <3> QED
      BY <3>2, <3>4
  <2> QED
    BY <2>1, <2>2
<1>4. ASSUME UNCHANGED <<received, failure>>
      PROVE  failure[c] = "UnexpectedEof" /\ received'[c] = received[c]
  BY <1>4
<1>5. ASSUME NEW d \in Clients,
             Connect(d) \/ Close(d) \/ Break(d) \/ Accept(d) \/ RemoveClient(d)
      PROVE  UNCHANGED <<received, failure>>
  BY <1>5 DEF Connect, Close, Break, Accept, RemoveClient, readerVars
<1>6. ASSUME NEW d \in Clients, NEW m \in Messages, Write(d, m)
      PROVE  UNCHANGED <<received, failure>>
  BY <1>6 DEF Write, readerVars
<1>7. ASSUME NEW d \in Clients, NEW n \in 1..SocketBytes, WriteSome(d, n) \/ Fill(d, n)
      PROVE  UNCHANGED <<received, failure>>
  BY <1>7 DEF WriteSome, Fill, readerVars
<1>8. ASSUME NEW ready \in SUBSET Clients, NEW failing \in SUBSET Clients,
             Sweep(ready, failing)
      PROVE  UNCHANGED <<received, failure>>
  BY <1>8 DEF Sweep, readerVars
<1>9. CASE ServerShutdown \/ UNCHANGED vars
  BY <1>4, <1>9 DEF ServerShutdown, vars, readerVars
<1> QED
  BY <1>1, <1>2, <1>3, <1>4, <1>5, <1>6, <1>7, <1>8, <1>9 DEF Next

\* The sweep never gives back what it took.
LEMMA RobbedForGood == ASSUME [Next]_vars PROVE robbed \subseteq robbed'
BY DEF Next, Connect, Close, Break, Accept, RemoveClient, EndOfStream, ReadError,
       RefuseSize, Extract, Write, WriteSome, Fill, Sweep, ServerShutdown, vars

\* Once a reader has all that was finished, nothing changes that.
LEMMA EndedStep == Typed /\ NothingLost /\ Ended /\ [Next]_vars => Ended'
<1> SUFFICES ASSUME Typed, NothingLost, Ended, [Next]_vars PROVE Ended'
  OBVIOUS
<1>1. Unwritten'
  BY UnwrittenStep DEF Ended
<1>2. ASSUME NEW c \in Clients, failure'[c] = "UnexpectedEof"
      PROVE  Gone(c)' /\ (c \notin robbed' => Complete(c)')
  <2>1. CASE failure[c] = "UnexpectedEof" /\ received'[c] = received[c]
    <3>1. Gone(c)
      BY <2>1 DEF Ended
    <3>2. Gone(c)' /\ pending'[c] = pending[c] /\ sent'[c] = sent[c]
      BY <3>1, GoneStays
    <3>3. ASSUME c \notin robbed' PROVE Complete(c)
      BY <2>1, <3>3, RobbedForGood DEF Ended, EndedReadersHaveAll, Complete
    <3> QED
      BY <2>1, <3>2, <3>3 DEF Complete
  <2>2. CASE EndOfStream(c)
    <3>1. /\ stream[c] = <<>> /\ peer[c] = "closed"
          /\ Len(read_buf[c]) < Wanted(read_buf[c])
          /\ UNCHANGED <<peer, pending, sent, received, robbed>>
      BY <2>2 DEF EndOfStream, clientVars
    <3>2. ASSUME c \notin robbed PROVE Complete(c)
      <4>1. Lossless(c)
        BY <3>2 DEF NothingLost
      <4> QED
        BY <3>1, <4>1, EndIsComplete DEF Ended
    <3> QED
      BY <3>1, <3>2 DEF Gone, Complete
  <2> QED
    BY <1>2, <2>1, <2>2, ReaderEnds
<1> QED
  BY <1>1, <1>2 DEF Ended, EndedReadersHaveAll, Complete

\* For any connections, messages and pieces: a reader that has come to the end of
\* the stream has every message its client finished writing; the hang-up never
\* overtakes one (fill_at_least, read_frame).
THEOREM EndedHaveAll == Spec => []EndedReadersHaveAll
<1>1. Init => Ended
  <2> SUFFICES ASSUME Init PROVE Ended
    OBVIOUS
  <2>1. \A c \in Clients : pending[c] = <<>> /\ failure[c] = "none"
    BY DEF Init
  <2> QED
    BY <2>1 DEF Ended, Unwritten, EndedReadersHaveAll
<1>2. Ended => EndedReadersHaveAll
  BY DEF Ended
<1> QED
  BY <1>1, <1>2, EndedStep, InitLossless, LosslessStep, PTL DEF Spec

\* Only clients that are gone are swept away, and of one that closed its end in
\* order everything it got into the socket has by then been read: received, or
\* in read_buf, where it stays (remove_disconnected_clients).
THEOREM SweptAreGone == Spec => OnlyBufferedIsSwept
<1>1. ASSUME Typed, NothingLost, NEW ready \in SUBSET Clients,
             NEW failing \in SUBSET Clients, Sweep(ready, failing),
             NEW c \in registered \ registered'
      PROVE  \/ peer[c] = "broken"
             \/ /\ peer[c] = "closed"
                /\ c \notin robbed =>
                     FramesOf(received[c]) \o read_buf[c] \o pending[c] = FramesOf(sent[c])
  <2>1. c \in Dead(ready, failing) /\ \A d \in failing : peer[d] = "broken"
    BY <1>1 DEF Sweep
  <2>2. c \in Clients /\ (peer[c] = "broken" \/ (stream[c] = <<>> /\ peer[c] = "closed"))
    BY <2>1 DEF Dead, Typed
  <2>3. ASSUME c \notin robbed, stream[c] = <<>>
        PROVE  FramesOf(received[c]) \o read_buf[c] \o pending[c] = FramesOf(sent[c])
    <3>1. Lossless(c)
      BY <1>1, <2>2, <2>3 DEF NothingLost
    <3>2. PICK rest \in Seq(Messages) : sent[c] = received[c] \o rest /\ OnTheWay(c) = FramesOf(rest)
      BY <3>1 DEF Lossless
    <3> DEFINE f == FramesOf(received[c])
               b == read_buf[c]
               p == pending[c]
    <3>3. received[c] \in Seq(Messages) /\ b \in Seq(Byte) /\ p \in Seq(Byte)
      BY <1>1, <2>2 DEF Typed
    <3>4. f \in Seq(Byte)
      BY <3>3, FramesOfType
    <3>5. OnTheWay(c) = b \o p
      <4>1. b \o <<>> = b
        BY <3>3, ConcatEmptySeq
      <4> QED
        BY <2>3, <4>1 DEF OnTheWay
    <3>6. FramesOf(sent[c]) = f \o FramesOf(rest)
      BY <3>2, <3>3, FramesOfConcat
    <3> HIDE DEF f, b, p
    <3>7. (f \o b) \o p = f \o (b \o p)
      BY ONLY <3>3, <3>4, BytesAssociate
    <3> QED
      BY <3>2, <3>5, <3>6, <3>7 DEF f, b, p
  <2> QED
    BY <2>2, <2>3
<1>2. Typed /\ NothingLost /\ [Next]_vars =>
        [\A ready, failing \in SUBSET Clients :
           Sweep(ready, failing) => \A c \in registered \ registered' :
             \/ peer[c] = "broken"
             \/ /\ peer[c] = "closed"
                /\ c \notin robbed =>
                     FramesOf(received[c]) \o read_buf[c] \o pending[c] = FramesOf(sent[c])]_vars
  BY <1>1
<1> QED
  BY <1>2, InitLossless, LosslessStep, PTL DEF Spec, OnlyBufferedIsSwept
=============================================================================

------------------------ MODULE SdpNormalizeProofs -------------------------
(***************************************************************************)
(* What TLAPS proves about the SDP rewriting of sip2openai, for            *)
(* descriptions of any length.  A rewriting makes some lines of each line  *)
(* and flattens what it made; so the first half is about FlattenSeq, which *)
(* is recursive: where the pieces are in the whole.                        *)
(***************************************************************************)
EXTENDS SdpNormalize, SequenceTheorems, WellFoundedInduction, FiniteSetTheorems, TLAPS

\* Induction over a set instead of a predicate.
LEMMA Induction ==
  ASSUME NEW T, 0 \in T, \A n \in Nat : n \in T => n + 1 \in T
  PROVE  \A n \in Nat : n \in T
<1> DEFINE bad == {n \in Nat : n \notin T}
<1> SUFFICES ASSUME bad # {}
             PROVE  FALSE
  OBVIOUS
<1>1. PICK x \in bad : \A y \in bad : ~(<<y, x>> \in OpToRel(<, Nat))
  <2>1. bad \subseteq Nat
    OBVIOUS
  <2> QED
    BY <2>1, WFMin, NatLessThanWellFounded, Zenon
<1>2. x \in Nat /\ x \notin T /\ x # 0
  OBVIOUS
<1>3. x - 1 \in Nat /\ (x - 1) + 1 = x
  BY <1>2
<1>4. x - 1 \notin T
  BY <1>2, <1>3
<1>5. <<x - 1, x>> \in OpToRel(<, Nat)
  BY <1>2, <1>3 DEF OpToRel
<1> QED
  BY <1>1, <1>3, <1>4, <1>5

\* The function FlattenSeq is defined by.
Flattens(f, w) == f = [i \in 1 .. Len(w) |-> IF i = 1 THEN w[i] ELSE f[i - 1] \o w[i]]

\* They agree up to m.
Agree(m, v, w) == \A i \in 1 .. m : v[i] = w[i]

\* What FlattenSeq takes the last value of.
LEMMA FlattenIs ==
  ASSUME NEW w, Len(w) # 0, NEW g, Flattens(g, w)
  PROVE  \E f : Flattens(f, w) /\ FlattenSeq(w) = f[Len(w)]
BY DEF FlattenSeq, Flattens

\* The prefixes of two sequences of sequences that agree are flattened alike.
LEMMA FlattensAgree ==
  ASSUME NEW v, NEW w, Len(v) \in Nat, Len(w) \in Nat, NEW f, NEW g,
         Flattens(f, v), Flattens(g, w), NEW m \in Nat, m <= Len(v), m <= Len(w),
         Agree(m, v, w)
  PROVE  Agree(m, f, g)
<1> DEFINE T == {n \in Nat : n \in 1 .. m => f[n] = g[n]}
<1>1. 0 \in T
  OBVIOUS
<1>2. ASSUME NEW n \in Nat, n \in T
      PROVE  n + 1 \in T
  <2> SUFFICES ASSUME n + 1 \in 1 .. m
               PROVE  f[n + 1] = g[n + 1]
    OBVIOUS
  <2>1. /\ f[n + 1] = IF n + 1 = 1 THEN v[n + 1] ELSE f[n] \o v[n + 1]
        /\ g[n + 1] = IF n + 1 = 1 THEN w[n + 1] ELSE g[n] \o w[n + 1]
    <3>1. n + 1 \in 1 .. Len(v) /\ n + 1 \in 1 .. Len(w) /\ (n + 1) - 1 = n
      OBVIOUS
    <3>2. /\ f[n + 1] = IF n + 1 = 1 THEN v[n + 1] ELSE f[(n + 1) - 1] \o v[n + 1]
          /\ g[n + 1] = IF n + 1 = 1 THEN w[n + 1] ELSE g[(n + 1) - 1] \o w[n + 1]
      BY <3>1, Zenon DEF Flattens
    <3> QED
      BY <3>1, <3>2
  <2>2. v[n + 1] = w[n + 1]
    BY DEF Agree
  <2>3. CASE n = 0
    BY <2>1, <2>2, <2>3
  <2>4. CASE n # 0
    <3>1. f[n] = g[n]
      BY <1>2, <2>4
    <3> QED
      BY <2>1, <2>2, <2>4, <3>1
  <2> QED
    BY <2>3, <2>4
<1> HIDE DEF T
<1>3. \A n \in Nat : n \in T
  BY <1>1, <1>2, Induction
<1> QED
  BY <1>3 DEF T, Agree

\* That function exists for every sequence of sequences.
LEMMA FlattensExists ==
  ASSUME NEW S
  PROVE  \A w \in Seq(Seq(S)) : \E f \in [1 .. Len(w) -> Seq(S)] : Flattens(f, w)
<1> DEFINE P(n) == \A w \in Seq(Seq(S)) :
                     Len(w) = n => \E f \in [1 .. n -> Seq(S)] : Flattens(f, w)
           T == {n \in Nat : P(n)}
<1>1. P(0)
  <2> SUFFICES ASSUME NEW w \in Seq(Seq(S)), Len(w) = 0
               PROVE  \E f \in [1 .. 0 -> Seq(S)] : Flattens(f, w)
    OBVIOUS
  <2> DEFINE f == [i \in 1 .. 0 |-> <<>>]
  <2>1. f \in [1 .. 0 -> Seq(S)] /\ Flattens(f, w)
    BY DEF Flattens
  <2> QED
    BY <2>1
<1>2. ASSUME NEW n \in Nat, P(n)
      PROVE  P(n + 1)
  <2> SUFFICES ASSUME NEW w \in Seq(Seq(S)), Len(w) = n + 1
               PROVE  \E f \in [1 .. n + 1 -> Seq(S)] : Flattens(f, w)
    OBVIOUS
  <2> DEFINE v == SubSeq(w, 1, n)
  <2>1. v \in Seq(Seq(S)) /\ Len(v) = n /\ \A i \in 1 .. n : v[i] = w[i]
    OBVIOUS
  <2> HIDE DEF v
  <2>2. PICK f \in [1 .. n -> Seq(S)] : Flattens(f, v)
    BY <1>2, <2>1
  <2> DEFINE g == [i \in 1 .. n + 1 |-> IF i <= n THEN f[i]
                                        ELSE IF n = 0 THEN w[i] ELSE f[n] \o w[i]]
  <2>3. \A i \in 1 .. n + 1 : w[i] \in Seq(S)
    OBVIOUS
  <2>4. g \in [1 .. n + 1 -> Seq(S)]
    <3> SUFFICES ASSUME NEW i \in 1 .. n + 1
                 PROVE  (IF i <= n THEN f[i] ELSE IF n = 0 THEN w[i] ELSE f[n] \o w[i]) \in Seq(S)
      OBVIOUS
    <3>1. CASE i <= n
      BY <3>1
    <3>2. CASE i > n /\ n = 0
      BY <2>3, <3>2
    <3>3. CASE i > n /\ n # 0
      <4>1. f[n] \in Seq(S) /\ w[i] \in Seq(S)
        BY <2>3, <3>3
      <4>2. f[n] \o w[i] \in Seq(S)
        BY <4>1, ConcatProperties
      <4> QED
        BY <3>3, <4>2
    <3> QED
      BY <3>1, <3>2, <3>3
  <2>5. ASSUME NEW i \in 1 .. n + 1
        PROVE  g[i] = IF i = 1 THEN w[i] ELSE g[i - 1] \o w[i]
    <3>1. CASE i <= n
      <4>1. g[i] = f[i] /\ (i # 1 => g[i - 1] = f[i - 1]) /\ v[i] = w[i]
        BY <2>1, <3>1
      <4>2. f[i] = IF i = 1 THEN v[i] ELSE f[i - 1] \o v[i]
        <5>1. i \in 1 .. Len(v)
          BY <2>1, <3>1
        <5> QED
          BY <2>2, <5>1, Zenon DEF Flattens
      <4> QED
        BY <4>1, <4>2
    <3>2. CASE i = n + 1
      BY <3>2
    <3> QED
      BY <3>1, <3>2
  <2>6. Flattens(g, w)
    <3>1. g = [i \in 1 .. n + 1 |-> g[i]]
      OBVIOUS
    <3>2. g = [i \in 1 .. n + 1 |-> IF i = 1 THEN w[i] ELSE g[i - 1] \o w[i]]
      BY <2>5, <3>1
    <3> QED
      BY <3>2 DEF Flattens
  <2> QED
    BY <2>4, <2>6
<1> HIDE DEF P
<1>3. \A n \in Nat : n \in T
  <2>1. 0 \in T /\ \A n \in Nat : n \in T => n + 1 \in T
    BY <1>1, <1>2
  <2> HIDE DEF T
  <2> QED
    BY <2>1, Induction
<1> QED
  BY <1>3 DEF P

\* Flattening goes from one sequence to the next.
LEMMA FlattenNext ==
  ASSUME NEW S, NEW w \in Seq(Seq(S)), NEW x \in Seq(S)
  PROVE  /\ FlattenSeq(w) \in Seq(S)
         /\ FlattenSeq(w \o <<x>>) = FlattenSeq(w) \o x
<1> DEFINE n == Len(w)
           v == w \o <<x>>
<1>1. v \in Seq(Seq(S)) /\ Len(v) = n + 1 /\ v[n + 1] = x /\ \A i \in 1 .. n : v[i] = w[i]
  OBVIOUS
<1>2. n \in Nat
  OBVIOUS
<1> HIDE DEF n, v
<1>3. PICK g : Flattens(g, v) /\ FlattenSeq(v) = g[n + 1]
  <2>1. \E h : Flattens(h, v)
    BY <1>1, FlattensExists
  <2>2. Len(v) # 0
    BY <1>1, <1>2
  <2> QED
    BY <1>1, <2>1, <2>2, FlattenIs
<1>4. g[n + 1] = IF n = 0 THEN x ELSE g[n] \o x
  <2>1. n + 1 \in 1 .. Len(v) /\ (n + 1) - 1 = n /\ (n + 1 = 1 <=> n = 0)
    BY <1>1, <1>2
  <2>2. g[n + 1] = IF n + 1 = 1 THEN v[n + 1] ELSE g[(n + 1) - 1] \o v[n + 1]
    BY <1>3, <2>1, Zenon DEF Flattens
  <2> QED
    BY <1>1, <2>1, <2>2
<1>5. CASE n = 0
  <2>1. w = <<>> /\ FlattenSeq(w) = <<>>
    BY <1>5 DEF FlattenSeq, n
  <2>2. <<>> \o x = x /\ <<>> \in Seq(S)
    OBVIOUS
  <2> QED
    BY <1>3, <1>4, <1>5, <2>1, <2>2 DEF v
<1>6. CASE n # 0
  <2>1. PICK e \in [1 .. n -> Seq(S)] : Flattens(e, w)
    BY FlattensExists DEF n
  <2>2. PICK f : Flattens(f, w) /\ FlattenSeq(w) = f[n]
    BY <1>6, <2>1, FlattenIs DEF n
  <2>3. f[n] = e[n]
    <3>1. Agree(n, f, e)
      <4>1. n <= Len(w) /\ Len(w) \in Nat /\ Agree(n, w, w)
        BY <1>2 DEF n, Agree
      <4> QED
        BY <1>2, <2>1, <2>2, <4>1, FlattensAgree
    <3> QED
      BY <1>2, <1>6, <3>1 DEF Agree
  <2>4. f[n] = g[n]
    <3>1. Agree(n, f, g)
      <4>1. n <= Len(w) /\ n <= Len(v) /\ Agree(n, w, v)
        <5>1. Agree(n, w, v)
          BY <1>1 DEF Agree
        <5>2. n <= Len(v)
          BY <1>1, <1>2
        <5>3. n <= Len(w)
          BY <1>2 DEF n
        <5> QED
          BY <5>1, <5>2, <5>3
      <4>2. Len(v) \in Nat /\ Len(w) \in Nat /\ Flattens(g, v) /\ Flattens(f, w)
        BY <1>1, <1>2, <1>3, <2>2
      <4> QED
        BY <1>2, <4>1, <4>2, FlattensAgree
    <3> QED
      BY <1>2, <1>6, <3>1 DEF Agree
  <2>5. e[n] \in Seq(S)
    BY <1>2, <1>6
  <2> QED
    BY <1>3, <1>4, <1>6, <2>2, <2>3, <2>4, <2>5 DEF v
<1> QED
  BY <1>5, <1>6 DEF v

\* The first n pieces, flattened.
Upto(w, n) == FlattenSeq(SubSeq(w, 1, n))

\* The first pieces of a whole, from none to all.
LEMMA UptoIs ==
  ASSUME NEW S, NEW w \in Seq(Seq(S))
  PROVE  /\ Upto(w, 0) = <<>> /\ Upto(w, Len(w)) = FlattenSeq(w)
         /\ \A n \in 0 .. Len(w) : Upto(w, n) \in Seq(S)
         /\ \A n \in 0 .. Len(w) - 1 : Upto(w, n + 1) = Upto(w, n) \o w[n + 1]
<1>1. Upto(w, 0) = <<>>
  <2>1. SubSeq(w, 1, 0) = <<>>
    OBVIOUS
  <2> QED
    BY <2>1 DEF Upto, FlattenSeq
<1>2. Upto(w, Len(w)) = FlattenSeq(w)
  <2>1. SubSeq(w, 1, Len(w)) = w
    OBVIOUS
  <2> QED
    BY <2>1 DEF Upto
<1>3. \A v \in Seq(Seq(S)) : FlattenSeq(v) \in Seq(S)
  <2>1. <<>> \in Seq(S)
    OBVIOUS
  <2> QED
    BY <2>1, FlattenNext
<1>4. ASSUME NEW n \in 0 .. Len(w)
      PROVE  Upto(w, n) \in Seq(S)
  <2>1. SubSeq(w, 1, n) \in Seq(Seq(S))
    OBVIOUS
  <2> QED
    BY <1>3, <2>1 DEF Upto
<1>5. ASSUME NEW n \in 0 .. Len(w) - 1
      PROVE  Upto(w, n + 1) = Upto(w, n) \o w[n + 1]
  <2> DEFINE v == SubSeq(w, 1, n)
             x == w[n + 1]
  <2>1. v \in Seq(Seq(S)) /\ x \in Seq(S)
    OBVIOUS
  <2>2. SubSeq(w, 1, n + 1) = v \o <<x>>
    OBVIOUS
  <2> HIDE DEF v, x
  <2>3. FlattenSeq(v \o <<x>>) = FlattenSeq(v) \o x
    BY <2>1, FlattenNext
  <2> QED
    BY <2>2, <2>3 DEF Upto, v, x
<1> QED
  BY <1>1, <1>2, <1>4, <1>5

\* Concatenation is associative, for all three at once.
LEMMA InOrder ==
  ASSUME NEW S
  PROVE  \A a, b, c \in Seq(S) : (a \o b) \o c = a \o (b \o c)
BY ConcatAssociative

\* Two wholes make one.
LEMMA FlattenConcat ==
  ASSUME NEW S, NEW a \in Seq(Seq(S)), NEW b \in Seq(Seq(S))
  PROVE  FlattenSeq(a \o b) = FlattenSeq(a) \o FlattenSeq(b)
<1> DEFINE v == a \o b
           m == Len(a)
           P(n) == n <= Len(b) => Upto(v, m + n) = FlattenSeq(a) \o Upto(b, n)
           T == {n \in Nat : P(n)}
<1>1. v \in Seq(Seq(S)) /\ Len(v) = m + Len(b) /\ m \in Nat /\ Len(b) \in Nat
  OBVIOUS
<1>2. \A n \in 1 .. Len(b) : v[m + n] = b[n]
  OBVIOUS
<1>3. SubSeq(v, 1, m) = a
  OBVIOUS
<1>4. FlattenSeq(a) \in Seq(S)
  BY UptoIs
<1> HIDE DEF v, m
<1>5. P(0)
  <2>1. Upto(b, 0) = <<>> /\ FlattenSeq(a) \o <<>> = FlattenSeq(a) /\ m + 0 = m
    BY <1>1, <1>4, UptoIs
  <2>2. Upto(v, m) = FlattenSeq(a)
    BY <1>3 DEF Upto
  <2> QED
    BY <2>1, <2>2
<1>6. ASSUME NEW n \in Nat, P(n)
      PROVE  P(n + 1)
  <2> SUFFICES ASSUME n + 1 <= Len(b)
               PROVE  Upto(v, m + (n + 1)) = FlattenSeq(a) \o Upto(b, n + 1)
    OBVIOUS
  <2>1. n \in 0 .. Len(b) - 1 /\ m + n \in 0 .. Len(v) - 1 /\ m + (n + 1) = (m + n) + 1
        /\ n + 1 \in 1 .. Len(b) /\ n \in 0 .. Len(b)
    BY <1>1
  <2>2. Upto(v, (m + n) + 1) = Upto(v, m + n) \o v[(m + n) + 1]
    BY <1>1, <2>1, UptoIs
  <2>3. Upto(b, n + 1) = Upto(b, n) \o b[n + 1] /\ Upto(b, n) \in Seq(S)
    BY <2>1, UptoIs
  <2>4. v[(m + n) + 1] = b[n + 1] /\ b[n + 1] \in Seq(S)
    <3>1. v[m + (n + 1)] = b[n + 1]
      BY <1>2, <2>1
    <3>2. b[n + 1] \in Seq(S)
      BY <2>1
    <3> QED
      BY <2>1, <3>1, <3>2
  <2>5. Upto(v, m + n) = FlattenSeq(a) \o Upto(b, n)
    <3>1. n <= Len(b)
      BY <1>1, <2>1
    <3> QED
      BY <1>6, <3>1
  <2>6. (FlattenSeq(a) \o Upto(b, n)) \o b[n + 1] = FlattenSeq(a) \o (Upto(b, n) \o b[n + 1])
    <3> DEFINE x == FlattenSeq(a)  y == Upto(b, n)  z == b[n + 1]
    <3>1. x \in Seq(S) /\ y \in Seq(S) /\ z \in Seq(S)
      BY <1>4, <2>3, <2>4
    <3> HIDE DEF x, y, z
    <3>2. \A p, q, r \in Seq(S) : (p \o q) \o r = p \o (q \o r)
      BY InOrder
    <3>3. (x \o y) \o z = x \o (y \o z)
      BY <3>1, <3>2, Zenon
    <3> QED
      BY <3>3 DEF x, y, z
  <2> QED
    BY <2>1, <2>2, <2>3, <2>4, <2>5, <2>6
<1> HIDE DEF P
<1>7. \A n \in Nat : n \in T
  <2>1. 0 \in T /\ \A n \in Nat : n \in T => n + 1 \in T
    BY <1>5, <1>6
  <2> HIDE DEF T
  <2> QED
    BY <2>1, Induction
<1>8. P(Len(b))
  BY <1>1, <1>7
<1>9. Upto(v, Len(v)) = FlattenSeq(a) \o Upto(b, Len(b))
  BY <1>1, <1>8 DEF P
<1> QED
  BY <1>1, <1>9, UptoIs DEF v

\* Where the pieces are in the whole.
Before(w, i) == Len(Upto(w, i - 1))

\* Each piece begins where the one before it ends.
LEMMA PiecesAre ==
  ASSUME NEW S, NEW w \in Seq(Seq(S))
  PROVE  /\ \A i \in 1 .. Len(w) + 1 : Before(w, i) \in Nat
         /\ Before(w, 1) = 0 /\ Before(w, Len(w) + 1) = Len(FlattenSeq(w))
         /\ \A i \in 1 .. Len(w) : Before(w, i + 1) = Before(w, i) + Len(w[i])
<1>1. ASSUME NEW i \in 1 .. Len(w) + 1
      PROVE  i - 1 \in 0 .. Len(w) /\ Before(w, i) \in Nat
  <2>1. i - 1 \in 0 .. Len(w)
    OBVIOUS
  <2>2. Upto(w, i - 1) \in Seq(S)
    BY <2>1, UptoIs
  <2> QED
    BY <2>1, <2>2 DEF Before
<1>2. 1 - 1 = 0 /\ (Len(w) + 1) - 1 = Len(w)
  OBVIOUS
<1>3. Before(w, 1) = 0 /\ Before(w, Len(w) + 1) = Len(FlattenSeq(w))
  BY <1>2, UptoIs DEF Before
<1>4. ASSUME NEW i \in 1 .. Len(w)
      PROVE  Before(w, i + 1) = Before(w, i) + Len(w[i])
  <2> DEFINE n == i - 1
  <2>1. n \in 0 .. Len(w) - 1 /\ n \in 0 .. Len(w) /\ n + 1 = i /\ (i + 1) - 1 = n + 1
    OBVIOUS
  <2> HIDE DEF n
  <2>2. Upto(w, n + 1) = Upto(w, n) \o w[n + 1] /\ Upto(w, n) \in Seq(S)
    BY <2>1, UptoIs
  <2>3. w[i] \in Seq(S)
    OBVIOUS
  <2>4. Len(Upto(w, n + 1)) = Len(Upto(w, n)) + Len(w[i])
    BY <2>1, <2>2, <2>3
  <2> QED
    BY <2>1, <2>4 DEF Before, n
<1> QED
  BY <1>1, <1>3, <1>4

\* The pieces do not overlap.
LEMMA PiecesInOrder ==
  ASSUME NEW S, NEW w \in Seq(Seq(S)), NEW i \in 1 .. Len(w)
  PROVE  \A j \in i + 1 .. Len(w) + 1 : Before(w, i) + Len(w[i]) <= Before(w, j)
<1> DEFINE P(n) == n \in i + 1 .. Len(w) + 1 => Before(w, i) + Len(w[i]) <= Before(w, n)
           T == {n \in Nat : P(n)}
<1>0. Len(w) \in Nat /\ Len(w[i]) \in Nat
  OBVIOUS
<1>1. P(0)
  OBVIOUS
<1>2. ASSUME NEW n \in Nat, P(n)
      PROVE  P(n + 1)
  <2> SUFFICES ASSUME n + 1 \in i + 1 .. Len(w) + 1
               PROVE  Before(w, i) + Len(w[i]) <= Before(w, n + 1)
    OBVIOUS
  <2>1. n \in 1 .. Len(w) /\ n \in 1 .. Len(w) + 1 /\ i \in 1 .. Len(w) + 1 /\ n >= i
    BY <1>0
  <2>2. Before(w, n + 1) = Before(w, n) + Len(w[n]) /\ Before(w, n) \in Nat /\ Before(w, i) \in Nat
    BY <2>1, PiecesAre
  <2>3. Len(w[n]) \in Nat
    BY <2>1
  <2>4. CASE n = i
    BY <1>0, <2>2, <2>4
  <2>5. CASE n # i
    <3>1. Before(w, i) + Len(w[i]) <= Before(w, n)
      BY <1>0, <1>2, <2>1, <2>5
    <3> QED
      BY <1>0, <2>2, <2>3, <3>1
  <2> QED
    BY <2>4, <2>5
<1> HIDE DEF P
<1>3. \A n \in Nat : n \in T
  <2>1. 0 \in T /\ \A n \in Nat : n \in T => n + 1 \in T
    BY <1>1, <1>2
  <2> HIDE DEF T
  <2> QED
    BY <2>1, Induction
<1>4. \A j \in i + 1 .. Len(w) + 1 : P(j)
  BY <1>0, <1>3
<1> QED
  BY <1>4 DEF P

\* A piece is in the whole as it is.
LEMMA PieceAt ==
  ASSUME NEW S, NEW w \in Seq(Seq(S)), NEW i \in 1 .. Len(w), NEW k \in 1 .. Len(w[i])
  PROVE  /\ Before(w, i) + k \in 1 .. Len(FlattenSeq(w))
         /\ FlattenSeq(w)[Before(w, i) + k] = w[i][k]
<1> DEFINE q == Before(w, i) + k
           P(n) == n \in i .. Len(w) => q \in 1 .. Len(Upto(w, n)) /\ Upto(w, n)[q] = w[i][k]
           T == {n \in Nat : P(n)}
<1>0. Len(w) \in Nat /\ w[i] \in Seq(S) /\ k \in Nat \ {0} /\ k <= Len(w[i])
  OBVIOUS
<1>1. P(0)
  OBVIOUS
<1>2. ASSUME NEW n \in Nat, P(n)
      PROVE  P(n + 1)
  <2> SUFFICES ASSUME n + 1 \in i .. Len(w)
               PROVE  q \in 1 .. Len(Upto(w, n + 1)) /\ Upto(w, n + 1)[q] = w[i][k]
    OBVIOUS
  <2>1. n \in 0 .. Len(w) - 1 /\ n \in 0 .. Len(w) /\ n + 1 \in 1 .. Len(w) /\ (n + 1) - 1 = n
    BY <1>0
  <2> DEFINE u == Upto(w, n)
             x == w[n + 1]
  <2>2. Upto(w, n + 1) = u \o x /\ u \in Seq(S) /\ x \in Seq(S)
    BY <2>1, UptoIs
  <2>3. CASE n + 1 = i
    <3>1. Before(w, i) = Len(u) /\ x = w[i]
      BY <2>1, <2>3 DEF Before
    <3> HIDE DEF u, x
    <3>2. Len(u) + k \in 1 .. Len(u \o x) /\ (u \o x)[Len(u) + k] = x[k]
      BY <1>0, <2>2, <3>1
    <3> QED
      BY <2>2, <3>1, <3>2
  <2>4. CASE n + 1 # i
    <3>1. q \in 1 .. Len(u) /\ u[q] = w[i][k]
      BY <1>0, <1>2, <2>1, <2>4
    <3> HIDE DEF u, x, q
    <3>2. q \in 1 .. Len(u \o x) /\ (u \o x)[q] = u[q]
      BY <2>2, <3>1
    <3> QED
      BY <2>2, <3>1, <3>2
  <2> QED
    BY <2>3, <2>4
<1> HIDE DEF P
<1>3. \A n \in Nat : n \in T
  <2>1. 0 \in T /\ \A n \in Nat : n \in T => n + 1 \in T
    BY <1>1, <1>2
  <2> HIDE DEF T
  <2> QED
    BY <2>1, Induction
<1>4. P(Len(w))
  BY <1>0, <1>3
<1>5. Len(w) \in i .. Len(w) /\ Upto(w, Len(w)) = FlattenSeq(w)
  BY <1>0, UptoIs
<1> QED
  BY <1>4, <1>5 DEF P

\* Every place of the whole is in a piece.
LEMMA PieceOf ==
  ASSUME NEW S, NEW w \in Seq(Seq(S)), NEW q \in 1 .. Len(FlattenSeq(w))
  PROVE  \E i \in 1 .. Len(w) : \E k \in 1 .. Len(w[i]) : q = Before(w, i) + k
<1> DEFINE P(n) == n \in 0 .. Len(w) /\ q <= Len(Upto(w, n)) =>
                     \E i \in 1 .. Len(w) : \E k \in 1 .. Len(w[i]) : q = Before(w, i) + k
           T == {n \in Nat : P(n)}
<1>0. Len(w) \in Nat /\ q \in Nat \ {0}
  BY UptoIs
<1>1. P(0)
  <2>1. Len(Upto(w, 0)) = 0
    BY UptoIs
  <2> QED
    BY <1>0, <2>1
<1>2. ASSUME NEW n \in Nat, P(n)
      PROVE  P(n + 1)
  <2> SUFFICES ASSUME n + 1 \in 0 .. Len(w), q <= Len(Upto(w, n + 1)), ~(q <= Len(Upto(w, n)))
               PROVE  \E i \in 1 .. Len(w) : \E k \in 1 .. Len(w[i]) : q = Before(w, i) + k
    BY <1>2
  <2>1. n \in 0 .. Len(w) - 1 /\ n \in 0 .. Len(w) /\ n + 1 \in 1 .. Len(w) /\ (n + 1) - 1 = n
    BY <1>0
  <2> DEFINE u == Upto(w, n)
             x == w[n + 1]
  <2>2. Upto(w, n + 1) = u \o x /\ u \in Seq(S) /\ x \in Seq(S)
    BY <2>1, UptoIs
  <2>3. q > Len(u) /\ q <= Len(u) + Len(x) /\ Len(u) \in Nat /\ Len(x) \in Nat
    BY <1>0, <2>2
  <2>4. Before(w, n + 1) = Len(u)
    BY <2>1 DEF Before
  <2>5. q - Len(u) \in 1 .. Len(x) /\ q = Len(u) + (q - Len(u))
    BY <1>0, <2>3
  <2> QED
    BY <2>1, <2>4, <2>5
<1> HIDE DEF P
<1>3. \A n \in Nat : n \in T
  <2>1. 0 \in T /\ \A n \in Nat : n \in T => n + 1 \in T
    BY <1>1, <1>2
  <2> HIDE DEF T
  <2> QED
    BY <2>1, Induction
<1>4. P(Len(w))
  BY <1>0, <1>3
<1>5. Len(w) \in 0 .. Len(w) /\ q <= Len(Upto(w, Len(w)))
  BY <1>0, UptoIs
<1> QED
  BY <1>4, <1>5 DEF P

\* g has what h has in the places of each piece of w.
PartsOf(w, h, g) ==
  \A i \in 1 .. Len(w) : FlattenSeq([k \in 1 .. Len(w[i]) |-> h[Before(w, i) + k]]) = g[i]

\* What is made of a whole, place by place, is made of its pieces one by one.
LEMMA PieceByPiece ==
  ASSUME NEW S, NEW R, NEW w \in Seq(Seq(S)), NEW h \in Seq(Seq(R)), NEW g \in Seq(Seq(R)),
         Len(h) = Len(FlattenSeq(w)), Len(g) = Len(w),
         PartsOf(w, h, g)
  PROVE  FlattenSeq(h) = FlattenSeq(g)
<1> DEFINE P(n) == n \in 0 .. Len(w) => Upto(h, Before(w, n + 1)) = Upto(g, n)
           T == {n \in Nat : P(n)}
<1>0. Len(w) \in Nat /\ Len(h) \in Nat /\ FlattenSeq(w) \in Seq(S)
  BY UptoIs
<1>1. P(0)
  <2>1. Before(w, 0 + 1) = 0 /\ Upto(h, 0) = <<>> /\ Upto(g, 0) = <<>>
    BY UptoIs, PiecesAre
  <2> QED
    BY <2>1
<1>2. ASSUME NEW n \in Nat, P(n)
      PROVE  P(n + 1)
  <2> SUFFICES ASSUME n + 1 \in 0 .. Len(w)
               PROVE  Upto(h, Before(w, (n + 1) + 1)) = Upto(g, n + 1)
    OBVIOUS
  <2> DEFINE m == Before(w, n + 1)
             l == Len(w[n + 1])
             a == SubSeq(h, 1, m)
             b == [k \in 1 .. l |-> h[m + k]]
  <2>1. n \in 0 .. Len(g) - 1 /\ n \in 0 .. Len(w) /\ n + 1 \in 1 .. Len(w) /\ n + 1 \in 1 .. Len(w) + 1
        /\ (n + 1) + 1 \in 1 .. Len(w) + 1
    BY <1>0
  <2>2. Before(w, (n + 1) + 1) = m + l /\ m \in Nat /\ l \in Nat
    <3>1. l \in Nat
      BY <2>1
    <3> DEFINE t == n + 1
    <3>2. t \in 1 .. Len(w) /\ t \in 1 .. Len(w) + 1
      BY <2>1
    <3> HIDE DEF t
    <3>3. Before(w, t + 1) = Before(w, t) + Len(w[t]) /\ Before(w, t) \in Nat
      BY <3>2, PiecesAre
    <3> QED
      BY <3>1, <3>3 DEF t
  <2>3. m + l <= Len(h)
    <3>1. CASE n + 1 = Len(w)
      BY <2>2, <3>1, PiecesAre
    <3>2. CASE n + 1 # Len(w)
      <4> DEFINE t == (n + 1) + 1
      <4>1. t \in 1 .. Len(w) /\ Len(w) + 1 \in t + 1 .. Len(w) + 1
        BY <1>0, <2>1, <3>2
      <4>2. Before(w, t) + Len(w[t]) <= Before(w, Len(w) + 1)
        BY <4>1, PiecesInOrder
      <4>3. Len(w[t]) \in Nat
        BY <4>1
      <4>4. Before(w, Len(w) + 1) = Len(h)
        BY PiecesAre
      <4> QED
        BY <1>0, <2>2, <4>2, <4>3, <4>4
    <3> QED
      BY <3>1, <3>2
  <2> HIDE DEF m, l
  <2>4. a \in Seq(Seq(R)) /\ b \in Seq(Seq(R))
    <3>1. \A k \in 1 .. l : m + k \in 1 .. Len(h) /\ h[m + k] \in Seq(R)
      BY <1>0, <2>2, <2>3
    <3> QED
      BY <1>0, <2>2, <2>3, <3>1
  <2>5. SubSeq(h, 1, m + l) = a \o b
    <3>1. SubSeq(h, 1, m + l) \in Seq(Seq(R)) /\ Len(SubSeq(h, 1, m + l)) = m + l
      BY <1>0, <2>2, <2>3
    <3>2. Len(a) = m /\ Len(b) = l
      BY <1>0, <2>2, <2>3
    <3>3. a \o b \in Seq(Seq(R)) /\ Len(a \o b) = m + l
      <4> HIDE DEF a, b
      <4> QED
        BY <2>4, <3>2, ConcatProperties
    <3>4. \A k \in 1 .. m + l : SubSeq(h, 1, m + l)[k] = h[k]
      BY <1>0, <2>2, <2>3
    <3>5. ASSUME NEW k \in 1 .. m + l
          PROVE  (a \o b)[k] = h[k]
      <4>1. CASE k <= m
        <5>1. (a \o b)[k] = a[k]
          BY <2>2, <2>4, <3>2, <4>1
        <5>2. a[k] = h[k]
          BY <1>0, <2>2, <2>3, <4>1
        <5> QED
          BY <5>1, <5>2
      <4>2. CASE k > m
        <5>1. k - m \in 1 .. l /\ m + (k - m) = k
          BY <2>2, <4>2
        <5>2. (a \o b)[k] = b[k - m]
          BY <2>2, <2>4, <3>2, <4>2
        <5>3. b[k - m] = h[m + (k - m)]
          BY <5>1
        <5> QED
          BY <5>1, <5>2, <5>3
      <4>3. k <= m \/ k > m
        BY <2>2
      <4> QED
        BY <4>1, <4>2, <4>3
    <3> DEFINE c == SubSeq(h, 1, m + l)
               d == a \o b
    <3>6. c \in Seq(Seq(R)) /\ d \in Seq(Seq(R)) /\ Len(c) = m + l /\ Len(d) = m + l
      BY <3>1, <3>3
    <3>7. \A k \in 1 .. m + l : c[k] = d[k]
      BY <3>4, <3>5
    <3> HIDE DEF c, d
    <3>8. c = d
      BY <3>6, <3>7, SeqEqual
    <3> QED
      BY <3>8 DEF c, d
  <2>6. FlattenSeq(b) = g[n + 1]
    BY <2>1 DEF m, l, PartsOf
  <2> HIDE DEF a, b
  <2>7. FlattenSeq(a \o b) = FlattenSeq(a) \o FlattenSeq(b)
    BY <2>4, FlattenConcat
  <2>8. FlattenSeq(a) = Upto(g, n)
    BY <1>2, <2>1 DEF a, m, Upto
  <2>9. Upto(g, n + 1) = Upto(g, n) \o g[n + 1]
    BY <2>1, UptoIs
  <2>10. Upto(h, m + l) = FlattenSeq(a \o b)
    BY <2>5 DEF Upto
  <2> QED
    BY <2>2, <2>6, <2>7, <2>8, <2>9, <2>10
<1> HIDE DEF P
<1>3. \A n \in Nat : n \in T
  <2>1. 0 \in T /\ \A n \in Nat : n \in T => n + 1 \in T
    BY <1>1, <1>2
  <2> HIDE DEF T
  <2> QED
    BY <2>1, Induction
<1>4. P(Len(w))
  BY <1>0, <1>3
<1>5. Upto(h, Len(h)) = Upto(g, Len(g))
  <2>1. Before(w, Len(w) + 1) = Len(h)
    BY PiecesAre
  <2> QED
    BY <1>0, <1>4, <2>1 DEF P
<1> QED
  BY <1>5, UptoIs

-----------------------------------------------------------------------------
(***************************************************************************)
(* Leaving out lines.                                                      *)
(***************************************************************************)

\* A sequence and one more element.
LEMMA SameTuple ==
  ASSUME NEW S, NEW a \in Seq(S), NEW e \in S, NEW t \in Seq(S), Len(t) = Len(a) + 1,
         \A i \in 1 .. Len(a) : a[i] = t[i], e = t[Len(t)]
  PROVE  a \o <<e>> = t
<1> DEFINE u == a \o <<e>>
<1>1. u \in Seq(S) /\ Len(u) = Len(t)
  OBVIOUS
<1>2. \A i \in 1 .. Len(u) : u[i] = t[i]
  OBVIOUS
<1> HIDE DEF u
<1>3. u = t
  BY <1>1, <1>2, SeqEqual
<1> QED
  BY <1>3 DEF u

\* Short sequences, which the provers do not build by themselves.
LEMMA Tuples ==
  ASSUME NEW x, NEW y, NEW z
  PROVE  <<>> \o <<x>> = <<x>> /\ <<x>> \o <<y>> = <<x, y>> /\ <<x, y>> \o <<z>> = <<x, y, z>>
<1>1. <<>> \o <<x>> = <<x>>
  OBVIOUS
<1> DEFINE S == {x, y, z}
<1>2. <<x>> \o <<y>> = <<x, y>>
  <2>1. /\ <<x>> \in Seq(S) /\ y \in S /\ <<x, y>> \in Seq(S)
        /\ Len(<<x>>) = 1 /\ Len(<<x, y>>) = 2 /\ <<x, y>>[2] = y /\ <<x, y>>[1] = x /\ <<x>>[1] = x
    OBVIOUS
  <2> DEFINE a == <<x>>  t == <<x, y>>
  <2>2. /\ a \in Seq(S) /\ y \in S /\ t \in Seq(S) /\ Len(t) = Len(a) + 1
        /\ \A i \in 1 .. Len(a) : a[i] = t[i]
        /\ y = t[Len(t)]
    BY <2>1
  <2> HIDE DEF S, a, t
  <2>3. a \o <<y>> = t
    BY <2>2, SameTuple
  <2> QED
    BY <2>3 DEF a, t
<1>3. <<x, y>> \o <<z>> = <<x, y, z>>
  <2>1. /\ <<x, y>> \in Seq(S) /\ z \in S /\ <<x, y, z>> \in Seq(S)
        /\ Len(<<x, y>>) = 2 /\ Len(<<x, y, z>>) = 3 /\ <<x, y>>[2] = y /\ <<x, y>>[1] = x
        /\ <<x, y, z>>[1] = x /\ <<x, y, z>>[2] = y /\ <<x, y, z>>[3] = z
    OBVIOUS
  <2> DEFINE a == <<x, y>>  t == <<x, y, z>>
  <2>2. /\ a \in Seq(S) /\ z \in S /\ t \in Seq(S) /\ Len(t) = Len(a) + 1
        /\ \A i \in 1 .. Len(a) : a[i] = t[i]
        /\ z = t[Len(t)]
    BY <2>1
  <2> HIDE DEF S, a, t
  <2>3. a \o <<z>> = t
    BY <2>2, SameTuple
  <2> QED
    BY <2>3 DEF a, t
<1> QED
  BY <1>1, <1>2, <1>3

\* A whole of up to three pieces.
LEMMA FewPieces ==
  ASSUME NEW S, NEW a \in Seq(S), NEW b \in Seq(S), NEW c \in Seq(S)
  PROVE  /\ FlattenSeq(<<>>) = <<>> /\ FlattenSeq(<<a>>) = a
         /\ FlattenSeq(<<a, b>>) = a \o b /\ FlattenSeq(<<a, b, c>>) = (a \o b) \o c
<1>1. FlattenSeq(<<>>) = <<>>
  BY DEF FlattenSeq
<1>2. <<>> \o <<a>> = <<a>> /\ <<a>> \o <<b>> = <<a, b>> /\ <<a, b>> \o <<c>> = <<a, b, c>>
      /\ <<>> \o a = a
  <2>1. <<>> \o a = a
    OBVIOUS
  <2> QED
    BY <2>1, Tuples
<1>3. <<>> \in Seq(Seq(S)) /\ <<a>> \in Seq(Seq(S)) /\ <<a, b>> \in Seq(Seq(S))
  OBVIOUS
<1>4. \A w \in Seq(Seq(S)) : \A x \in Seq(S) : FlattenSeq(w \o <<x>>) = FlattenSeq(w) \o x
  BY FlattenNext
<1>5. FlattenSeq(<<a>>) = a
  <2>1. FlattenSeq(<<>> \o <<a>>) = FlattenSeq(<<>>) \o a
    BY <1>3, <1>4
  <2> QED
    BY <1>1, <1>2, <2>1
<1>6. FlattenSeq(<<a, b>>) = a \o b
  <2>1. FlattenSeq(<<a>> \o <<b>>) = FlattenSeq(<<a>>) \o b
    BY <1>3, <1>4
  <2> QED
    BY <1>2, <1>5, <2>1
<1>7. FlattenSeq(<<a, b, c>>) = (a \o b) \o c
  <2>1. FlattenSeq(<<a, b>> \o <<c>>) = FlattenSeq(<<a, b>>) \o c
    BY <1>3, <1>4
  <2> QED
    BY <1>2, <1>6, <2>1
<1> QED
  BY <1>1, <1>5, <1>6, <1>7

\* A whole whose pieces are its elements.
LEMMA Singles ==
  ASSUME NEW S, NEW s \in Seq(S)
  PROVE  FlattenSeq([i \in 1 .. Len(s) |-> <<s[i]>>]) = s
<1> DEFINE w == [i \in 1 .. Len(s) |-> <<s[i]>>]
           P(n) == n \in 0 .. Len(s) => Upto(w, n) = SubSeq(s, 1, n)
           T == {n \in Nat : P(n)}
<1>0. w \in Seq(Seq(S)) /\ Len(w) = Len(s) /\ Len(s) \in Nat
  OBVIOUS
<1>a. \A i \in 1 .. Len(s) : w[i] = <<s[i]>>
  OBVIOUS
<1> HIDE DEF w
<1>1. P(0)
  <2>1. SubSeq(s, 1, 0) = <<>>
    OBVIOUS
  <2> QED
    BY <1>0, <2>1, UptoIs
<1>2. ASSUME NEW n \in Nat, P(n)
      PROVE  P(n + 1)
  <2> SUFFICES ASSUME n + 1 \in 0 .. Len(s)
               PROVE  Upto(w, n + 1) = SubSeq(s, 1, n + 1)
    OBVIOUS
  <2>1. n \in 0 .. Len(w) - 1 /\ n \in 0 .. Len(s) /\ n + 1 \in 1 .. Len(s)
    BY <1>0
  <2>2. Upto(w, n + 1) = Upto(w, n) \o w[n + 1]
    BY <1>0, <2>1, UptoIs
  <2>3. SubSeq(s, 1, n + 1) = SubSeq(s, 1, n) \o <<s[n + 1]>>
    BY <1>0, <2>1
  <2> QED
    BY <1>2, <1>a, <2>1, <2>2, <2>3
<1> HIDE DEF P
<1>3. \A n \in Nat : n \in T
  <2>1. 0 \in T /\ \A n \in Nat : n \in T => n + 1 \in T
    BY <1>1, <1>2
  <2> HIDE DEF T
  <2> QED
    BY <2>1, Induction
<1>4. Upto(w, Len(s)) = SubSeq(s, 1, Len(s))
  BY <1>0, <1>3 DEF P
<1>5. SubSeq(s, 1, Len(s)) = s
  OBVIOUS
<1> QED
  BY <1>0, <1>4, <1>5, UptoIs DEF w

\* What Without makes of a line.
Kept(types, line) == IF line.type \in types THEN <<>> ELSE <<line>>

\* What is left has none of those lines, and is all if there were none.
LEMMA WithoutIs ==
  ASSUME NEW T, NEW S, NEW s \in Seq(S)
  PROVE  /\ Without(T, s) \in Seq(S)
         /\ \A q \in DOMAIN Without(T, s) : Without(T, s)[q].type \notin T
         /\ (\A i \in DOMAIN s : s[i].type \notin T) => Without(T, s) = s
<1> DEFINE w == [i \in 1 .. Len(s) |-> Kept(T, s[i])]
<1>0. DOMAIN s = 1 .. Len(s) /\ Len(s) \in Nat
  OBVIOUS
<1>1. Without(T, s) = FlattenSeq(w)
  BY <1>0 DEF Without, Kept
<1>2. w \in Seq(Seq(S)) /\ Len(w) = Len(s)
  BY <1>0 DEF Kept
<1>3. \A i \in 1 .. Len(s) : w[i] = Kept(T, s[i])
  OBVIOUS
<1>4. (\A i \in DOMAIN s : s[i].type \notin T) => Without(T, s) = s
  <2> SUFFICES ASSUME \A i \in DOMAIN s : s[i].type \notin T
               PROVE  Without(T, s) = s
    OBVIOUS
  <2>1. w = [i \in 1 .. Len(s) |-> <<s[i]>>]
    BY <1>0 DEF Kept
  <2> QED
    BY <1>1, <2>1, Singles
<1> HIDE DEF w
<1>5. Without(T, s) \in Seq(S)
  BY <1>1, <1>2, UptoIs
<1>6. ASSUME NEW q \in DOMAIN Without(T, s)
      PROVE  Without(T, s)[q].type \notin T
  <2>1. q \in 1 .. Len(FlattenSeq(w))
    BY <1>1, <1>5
  <2>2. PICK i \in 1 .. Len(w) : \E k \in 1 .. Len(w[i]) : q = Before(w, i) + k
    BY <1>2, <2>1, PieceOf
  <2>3. PICK k \in 1 .. Len(w[i]) : q = Before(w, i) + k
    BY <2>2
  <2>4. FlattenSeq(w)[q] = w[i][k]
    BY <1>2, <2>3, PieceAt
  <2>5. w[i] = Kept(T, s[i])
    BY <1>2, <1>3
  <2> QED
    BY <1>1, <2>3, <2>4, <2>5 DEF Kept
<1> QED
  BY <1>4, <1>5, <1>6

\* g has the pieces of w without those lines.
LeavesOut(T, w, g) == \A i \in 1 .. Len(w) : Without(T, w[i]) = g[i]

\* What is left out of every piece is left out of the whole.
LEMMA WithoutPieces ==
  ASSUME NEW T, NEW S, NEW w \in Seq(Seq(S)), NEW g \in Seq(Seq(S)), Len(g) = Len(w),
         LeavesOut(T, w, g)
  PROVE  Without(T, FlattenSeq(w)) = FlattenSeq(g)
<1> DEFINE out == FlattenSeq(w)
           h == [q \in 1 .. Len(out) |-> Kept(T, out[q])]
<1>1. out \in Seq(S) /\ Len(out) \in Nat
  BY UptoIs
<1>2. Without(T, out) = FlattenSeq(h)
  <2> HIDE DEF out
  <2>1. DOMAIN out = 1 .. Len(out)
    BY <1>1
  <2> QED
    BY <2>1 DEF Without, Kept
<1>3. h \in Seq(Seq(S)) /\ Len(h) = Len(out)
  BY <1>1 DEF Kept
<1>4. ASSUME NEW i \in 1 .. Len(w)
      PROVE  FlattenSeq([k \in 1 .. Len(w[i]) |-> h[Before(w, i) + k]]) = g[i]
  <2>1. \A k \in 1 .. Len(w[i]) : Before(w, i) + k \in 1 .. Len(out) /\ out[Before(w, i) + k] = w[i][k]
    BY PieceAt
  <2>2. \A k \in 1 .. Len(w[i]) : h[Before(w, i) + k] = Kept(T, w[i][k])
    BY <2>1
  <2>3. [k \in 1 .. Len(w[i]) |-> h[Before(w, i) + k]] = [k \in 1 .. Len(w[i]) |-> Kept(T, w[i][k])]
    BY <2>2
  <2>4. DOMAIN w[i] = 1 .. Len(w[i])
    OBVIOUS
  <2>5. Without(T, w[i]) = FlattenSeq([k \in 1 .. Len(w[i]) |-> Kept(T, w[i][k])])
    BY <2>4 DEF Without, Kept
  <2> QED
    BY <2>3, <2>5 DEF LeavesOut
<1> HIDE DEF h, out
<1>5. FlattenSeq(h) = FlattenSeq(g)
  <2>1. Len(h) = Len(FlattenSeq(w))
    BY <1>3 DEF out
  <2>2. PartsOf(w, h, g)
    BY <1>4 DEF PartsOf
  <2> QED
    BY <1>3, <2>1, <2>2, PieceByPiece
<1> QED
  BY <1>2, <1>5 DEF out

\* Taking out of one line, and of two sequences of them.
LEMMA WithoutOne ==
  ASSUME NEW T, NEW S, NEW x \in S
  PROVE  Without(T, <<x>>) = Kept(T, x) /\ Without(T, <<>>) = <<>>
<1>1. Without(T, <<x>>) = FlattenSeq(<<Kept(T, x)>>)
  BY DEF Without, Kept
<1>2. Kept(T, x) \in Seq(S)
  BY DEF Kept
<1>3. FlattenSeq(<<Kept(T, x)>>) = Kept(T, x)
  BY <1>2, FewPieces
<1>4. Without(T, <<>>) = <<>>
  <2>1. Without(T, <<>>) = FlattenSeq(<<>>)
    BY DEF Without
  <2> QED
    BY <1>2, <2>1, FewPieces
<1> QED
  BY <1>1, <1>3, <1>4

\* Lines are left out of two descriptions as of their concatenation.
LEMMA WithoutConcat ==
  ASSUME NEW T, NEW S, NEW a \in Seq(S), NEW b \in Seq(S)
  PROVE  Without(T, a \o b) = Without(T, a) \o Without(T, b)
<1> DEFINE w == <<a, b>>
           g == <<Without(T, a), Without(T, b)>>
<1>1. Without(T, a) \in Seq(S) /\ Without(T, b) \in Seq(S)
  BY WithoutIs
<1>2. w \in Seq(Seq(S)) /\ g \in Seq(Seq(S)) /\ Len(g) = Len(w)
      /\ \A i \in 1 .. Len(w) : Without(T, w[i]) = g[i]
  BY <1>1
<1>3. FlattenSeq(w) = a \o b /\ FlattenSeq(g) = Without(T, a) \o Without(T, b)
  BY <1>1, FewPieces
<1> HIDE DEF w, g
<1>4. Without(T, FlattenSeq(w)) = FlattenSeq(g)
  <2>1. LeavesOut(T, w, g)
    BY <1>2 DEF LeavesOut
  <2> QED
    BY <1>2, <2>1, WithoutPieces
<1> QED
  BY <1>3, <1>4

\* Leaving out some lines first makes no difference.
LEMMA WithoutTwice ==
  ASSUME NEW T, NEW U, U \subseteq T, NEW S, NEW s \in Seq(S)
  PROVE  Without(T, Without(U, s)) = Without(T, s)
<1> DEFINE w == [i \in 1 .. Len(s) |-> Kept(U, s[i])]
           g == [i \in 1 .. Len(s) |-> Kept(T, s[i])]
<1>1. DOMAIN s = 1 .. Len(s) /\ Len(s) \in Nat
  OBVIOUS
<1>2. Without(U, s) = FlattenSeq(w) /\ Without(T, s) = FlattenSeq(g)
  BY <1>1 DEF Without, Kept
<1>3. w \in Seq(Seq(S)) /\ g \in Seq(Seq(S)) /\ Len(g) = Len(w) /\ Len(w) = Len(s)
  BY <1>1 DEF Kept
<1>4. ASSUME NEW i \in 1 .. Len(w)
      PROVE  Without(T, w[i]) = g[i]
  <2>1. w[i] = Kept(U, s[i]) /\ g[i] = Kept(T, s[i]) /\ s[i] \in S
    BY <1>3
  <2> HIDE DEF w, g
  <2>2. CASE s[i].type \in U
    <3>1. w[i] = <<>> /\ g[i] = <<>>
      BY <2>1, <2>2 DEF Kept
    <3> QED
      BY <2>1, <3>1, WithoutOne
  <2>3. CASE s[i].type \notin U
    <3>1. w[i] = <<s[i]>>
      BY <2>1, <2>3 DEF Kept
    <3> QED
      BY <2>1, <3>1, WithoutOne
  <2> QED
    BY <2>2, <2>3
<1> HIDE DEF w, g
<1>5. Without(T, FlattenSeq(w)) = FlattenSeq(g)
  <2>1. LeavesOut(T, w, g)
    BY <1>4 DEF LeavesOut
  <2> QED
    BY <1>3, <2>1, WithoutPieces
<1> QED
  BY <1>2, <1>5

-----------------------------------------------------------------------------
(***************************************************************************)
(* What EnsureBundleMid puts in, and StripBundleMid takes out again.       *)
(***************************************************************************)

\* The lines of s and those EnsureBundleMid may put in.
Wider(S, s) ==
  S \cup {Line("group", MidsOf(s))} \cup {Line("mid", <<MidOf(s, i)>>) : i \in DOMAIN s}

Extras == {"mid", "group"}

\* Of a line EnsureBundleMid makes the line itself and mids and groups.
LEMMA RebuiltIs ==
  ASSUME NEW S, NEW s \in Seq(S), NEW i \in DOMAIN s
  PROVE  /\ Rebuilt(s, i) \in Seq(Wider(S, s))
         /\ Without(Extras, Rebuilt(s, i)) = Kept(Extras, s[i])
<1> DEFINE W == Wider(S, s)
           x == s[i]
           G == IF i = Min(Sections(s)) THEN GroupLines(s) ELSE <<>>
           M == MidLines(s, i)
<1>1. x \in W
  BY DEF Wider
<1>2. G \in Seq(W) /\ Without(Extras, G) = <<>>
  <2> DEFINE y == Line("group", MidsOf(s))
  <2>1. G = <<>> \/ G = <<y>>
    BY DEF GroupLines
  <2>2. y \in W /\ y.type \in Extras
    BY DEF Wider, Line, Extras
  <2> HIDE DEF y, G, W
  <2>3. Without(Extras, <<y>>) = <<>> /\ Without(Extras, <<>>) = <<>>
    BY <2>2, WithoutOne DEF Kept
  <2>4. <<y>> \in Seq(W) /\ <<>> \in Seq(W)
    BY <2>2
  <2> QED
    BY <2>1, <2>3, <2>4
<1>3. M \in Seq(W) /\ Without(Extras, M) = <<>>
  <2> DEFINE y == Line("mid", <<MidOf(s, i)>>)
  <2>1. M = <<>> \/ M = <<y>>
    BY DEF MidLines
  <2>2. y \in W /\ y.type \in Extras
    BY DEF Wider, Line, Extras
  <2> HIDE DEF y, M, W
  <2>3. Without(Extras, <<y>>) = <<>> /\ Without(Extras, <<>>) = <<>>
    BY <2>2, WithoutOne DEF Kept
  <2>4. <<y>> \in Seq(W) /\ <<>> \in Seq(W)
    BY <2>2
  <2> QED
    BY <2>1, <2>3, <2>4
<1>4. Rebuilt(s, i) = IF x.type # "m" THEN <<x>> ELSE (G \o <<x>>) \o M
  BY DEF Rebuilt
<1> HIDE DEF G, M, W, x
<1>5. <<x>> \in Seq(W) /\ Without(Extras, <<x>>) = Kept(Extras, x)
  BY <1>1, WithoutOne
<1>6. CASE x.type # "m"
  BY <1>4, <1>5, <1>6 DEF W, x
<1>7. CASE x.type = "m"
  <2>1. G \o <<x>> \in Seq(W) /\ (G \o <<x>>) \o M \in Seq(W)
    BY <1>2, <1>3, <1>5
  <2>2. Without(Extras, G \o <<x>>) = <<>> \o <<x>>
    <3>1. Kept(Extras, x) = <<x>>
      BY <1>7 DEF Kept, Extras
    <3>2. G \in Seq(W) /\ <<x>> \in Seq(W)
      BY <1>2, <1>5
    <3>3. Without(Extras, G \o <<x>>) = Without(Extras, G) \o Without(Extras, <<x>>)
      BY <3>2, WithoutConcat
    <3> QED
      BY <1>2, <1>5, <3>1, <3>3
  <2>3. Without(Extras, (G \o <<x>>) \o M) = (<<>> \o <<x>>) \o <<>>
    <3> DEFINE a == G \o <<x>>
    <3>1. a \in Seq(W) /\ M \in Seq(W)
      BY <1>3, <2>1
    <3> HIDE DEF a
    <3>2. Without(Extras, a \o M) = Without(Extras, a) \o Without(Extras, M)
      BY <3>1, WithoutConcat
    <3> QED
      BY <1>3, <2>2, <3>2 DEF a
  <2>4. (<<>> \o <<x>>) \o <<>> = <<x>>
    BY <1>5
  <2>5. Kept(Extras, x) = <<x>>
    BY <1>7 DEF Kept, Extras
  <2> QED
    BY <1>4, <1>7, <2>1, <2>3, <2>4, <2>5 DEF W, x
<1> QED
  BY <1>6, <1>7

\* What was put in is all taken out again.
LEMMA StripOfEnsure ==
  ASSUME NEW S, NEW s \in Seq(S)
  PROVE  /\ EnsureBundleMid(s) \in Seq(Wider(S, s))
         /\ StripBundleMid(EnsureBundleMid(s)) = StripBundleMid(s)
<1> DEFINE W == Wider(S, s)
           w == [i \in 1 .. Len(s) |-> Rebuilt(s, i)]
           g == [i \in 1 .. Len(s) |-> Kept(Extras, s[i])]
<1>1. DOMAIN s = 1 .. Len(s) /\ Len(s) \in Nat
  OBVIOUS
<1>2. EnsureBundleMid(s) = FlattenSeq(w) /\ Without(Extras, s) = FlattenSeq(g)
  BY <1>1 DEF EnsureBundleMid, Without, Kept
<1>3. w \in Seq(Seq(W)) /\ Len(w) = Len(s)
  <2>1. \A i \in 1 .. Len(s) : Rebuilt(s, i) \in Seq(W)
    BY <1>1, RebuiltIs
  <2> HIDE DEF W
  <2> QED
    BY <1>1, <2>1
<1>4. g \in Seq(Seq(W)) /\ Len(g) = Len(s)
  <2>1. \A i \in 1 .. Len(s) : s[i] \in W
    BY <1>1 DEF Wider
  <2> HIDE DEF W
  <2> QED
    BY <1>1, <2>1 DEF Kept
<1>5. LeavesOut(Extras, w, g)
  BY <1>1, <1>3, RebuiltIs DEF LeavesOut
<1> HIDE DEF W, w, g
<1>6. Without(Extras, FlattenSeq(w)) = FlattenSeq(g)
  BY <1>3, <1>4, <1>5, WithoutPieces
<1>7. FlattenSeq(w) \in Seq(W)
  BY <1>3, UptoIs
<1> QED
  BY <1>2, <1>6, <1>7 DEF W, StripBundleMid, Extras

-----------------------------------------------------------------------------
(***************************************************************************)
(* Where EnsureBundleMid puts the lines.                                   *)
(***************************************************************************)

\* A whole of which only one piece is not empty.
LEMMA OnlyOne ==
  ASSUME NEW R, NEW f \in Seq(Seq(R)), NEW n \in 1 .. Len(f),
         \A k \in 1 .. Len(f) : k # n => f[k] = <<>>
  PROVE  FlattenSeq(f) = f[n]
<1> DEFINE P(m) == m \in 0 .. Len(f) => Upto(f, m) = IF m < n THEN <<>> ELSE f[n]
           T == {m \in Nat : P(m)}
<1>0. Len(f) \in Nat /\ n \in Nat \ {0} /\ f[n] \in Seq(R)
  OBVIOUS
<1>1. P(0)
  BY <1>0, UptoIs
<1>2. ASSUME NEW m \in Nat, P(m)
      PROVE  P(m + 1)
  <2> SUFFICES ASSUME m + 1 \in 0 .. Len(f)
               PROVE  Upto(f, m + 1) = IF m + 1 < n THEN <<>> ELSE f[n]
    OBVIOUS
  <2>1. m \in 0 .. Len(f) - 1 /\ m \in 0 .. Len(f) /\ m + 1 \in 1 .. Len(f)
    BY <1>0
  <2>2. Upto(f, m + 1) = Upto(f, m) \o f[m + 1]
    BY <2>1, UptoIs
  <2>3. Upto(f, m) = IF m < n THEN <<>> ELSE f[n]
    BY <1>2, <2>1
  <2>4. <<>> \o <<>> = <<>> /\ <<>> \o f[n] = f[n] /\ f[n] \o <<>> = f[n]
    <3> DEFINE x == f[n]
    <3>1. x \in Seq(R)
      BY <1>0
    <3> HIDE DEF x
    <3>2. <<>> \o x = x /\ x \o <<>> = x /\ <<>> \o <<>> = <<>>
      BY <3>1
    <3> QED
      BY <3>2 DEF x
  <2>5. CASE m + 1 < n
    <3>1. m < n /\ m + 1 # n
      BY <1>0, <2>5
    <3>2. f[m + 1] = <<>>
      BY <2>1, <3>1
    <3> QED
      BY <2>2, <2>3, <2>4, <2>5, <3>1, <3>2
  <2>6. CASE m + 1 = n
    <3>1. m < n /\ ~(m + 1 < n)
      BY <1>0, <2>6
    <3> QED
      BY <2>2, <2>3, <2>4, <2>6, <3>1
  <2>7. CASE m + 1 > n
    <3>1. ~(m < n) /\ ~(m + 1 < n) /\ m + 1 # n
      BY <1>0, <2>7
    <3>2. f[m + 1] = <<>>
      BY <2>1, <3>1
    <3> QED
      BY <2>2, <2>3, <2>4, <3>1, <3>2
  <2>8. m + 1 < n \/ m + 1 = n \/ m + 1 > n
    BY <1>0
  <2> QED
    BY <2>5, <2>6, <2>7, <2>8
<1> HIDE DEF P
<1>3. \A m \in Nat : m \in T
  <2>1. 0 \in T /\ \A m \in Nat : m \in T => m + 1 \in T
    BY <1>1, <1>2
  <2> HIDE DEF T
  <2> QED
    BY <2>1, Induction
<1>4. P(Len(f))
  BY <1>0, <1>3
<1>5. Upto(f, Len(f)) = f[n]
  BY <1>0, <1>4 DEF P
<1> QED
  BY <1>5, UptoIs

\* The least of a set is the one that is not above any other.
LEMMA MinIs ==
  ASSUME NEW D, D \subseteq Int, NEW x \in D, \A y \in D : x <= y
  PROVE  Min(D) = x
<1>1. x \in D /\ \A y \in D : x <= y
  OBVIOUS
<1>2. Min(D) \in D /\ \A y \in D : Min(D) <= y
  BY <1>1 DEF Min
<1>3. Min(D) \in Int /\ x \in Int /\ Min(D) <= x /\ x <= Min(D)
  BY <1>1, <1>2
<1> QED
  BY <1>3

\* A set of natural numbers has a least.
LEMMA MinOf ==
  ASSUME NEW D, D \subseteq Nat, D # {}
  PROVE  Min(D) \in D /\ \A y \in D : Min(D) <= y
<1>1. PICK x \in D : \A y \in D : ~(<<y, x>> \in OpToRel(<, Nat))
  BY WFMin, NatLessThanWellFounded, Zenon
<1>2. \A y \in D : x <= y
  <2> SUFFICES ASSUME NEW y \in D PROVE x <= y
    OBVIOUS
  <2>1. ~(y < x)
    <3>1. ~(<<y, x>> \in OpToRel(<, Nat))
      BY <1>1
    <3> QED
      BY <3>1 DEF OpToRel
  <2> QED
    BY <2>1
<1> QED
  BY <1>2 DEF Min

\* What is put before a line, and after it, and where the line then is.
Lead(s, i) == IF s[i].type = "m" /\ i = Min(Sections(s)) THEN GroupLines(s) ELSE <<>>
Trail(s, i)  == IF s[i].type = "m" THEN MidLines(s, i) ELSE <<>>

Pieces(s) == [i \in 1 .. Len(s) |-> Rebuilt(s, i)]
At(s, i)  == Before(Pieces(s), i) + (Len(Lead(s, i)) + 1)

GroupLine(s)  == Line("group", MidsOf(s))
MidLine(s, i) == Line("mid", <<MidOf(s, i)>>)

\* They are empty or one line.
LEMMA LeadAndTrail ==
  ASSUME NEW S, NEW s \in Seq(S), NEW i \in DOMAIN s
  PROVE  /\ Lead(s, i) = <<>> \/ Lead(s, i) = <<GroupLine(s)>>
         /\ Trail(s, i) = <<>> \/ Trail(s, i) = <<MidLine(s, i)>>
         /\ Lead(s, i) \in Seq(Wider(S, s)) /\ Trail(s, i) \in Seq(Wider(S, s))
         /\ s[i] \in Wider(S, s)
         /\ Rebuilt(s, i) = (Lead(s, i) \o <<s[i]>>) \o Trail(s, i)
<1> DEFINE W == Wider(S, s)
<1>1. GroupLine(s) \in W /\ MidLine(s, i) \in W /\ s[i] \in W
  BY DEF Wider, GroupLine, MidLine
<1>2. Lead(s, i) = <<>> \/ Lead(s, i) = <<GroupLine(s)>>
  BY DEF Lead, GroupLines, GroupLine
<1>3. Trail(s, i) = <<>> \/ Trail(s, i) = <<MidLine(s, i)>>
  BY DEF Trail, MidLines, MidLine
<1> HIDE DEF W
<1>4. Lead(s, i) \in Seq(W) /\ Trail(s, i) \in Seq(W)
  <2>1. <<>> \in Seq(W) /\ <<GroupLine(s)>> \in Seq(W) /\ <<MidLine(s, i)>> \in Seq(W)
    BY <1>1
  <2> QED
    BY <1>2, <1>3, <2>1
<1>5. Rebuilt(s, i) = (Lead(s, i) \o <<s[i]>>) \o Trail(s, i)
  <2>1. CASE s[i].type # "m"
    <3> DEFINE x == s[i]
    <3>1. Lead(s, i) = <<>> /\ Trail(s, i) = <<>> /\ Rebuilt(s, i) = <<x>>
      BY <2>1 DEF Lead, Trail, Rebuilt
    <3>2. (<<>> \o <<x>>) \o <<>> = <<x>>
      BY <1>1
    <3> QED
      BY <3>1, <3>2
  <2>2. CASE s[i].type = "m"
    BY <2>2 DEF Lead, Trail, Rebuilt
  <2> QED
    BY <2>1, <2>2
<1> QED
  BY <1>1, <1>2, <1>3, <1>4, <1>5 DEF W

\* The line is in its place in the piece made of it.
LEMMA PieceIs ==
  ASSUME NEW S, NEW s \in Seq(S), NEW i \in DOMAIN s
  PROVE  LET f == Len(Lead(s, i))
             b == Len(Trail(s, i))
             r == Rebuilt(s, i)
         IN  /\ f \in {0, 1} /\ b \in {0, 1} /\ Len(r) = f + 1 + b
             /\ r[f + 1] = s[i]
             /\ f = 1 => r[1] = GroupLine(s)
             /\ b = 1 => r[f + 2] = MidLine(s, i)
             /\ f = 1 <=> Lead(s, i) # <<>>
             /\ b = 1 <=> Trail(s, i) # <<>>
<1> DEFINE F == Lead(s, i)
           B == Trail(s, i)
           W == Wider(S, s)
           x == s[i]
<1>1. /\ F = <<>> \/ F = <<GroupLine(s)>>
      /\ B = <<>> \/ B = <<MidLine(s, i)>>
      /\ F \in Seq(W) /\ B \in Seq(W) /\ x \in W
      /\ Rebuilt(s, i) = (F \o <<x>>) \o B
  BY LeadAndTrail
<1>2. /\ F = <<>> => Len(F) = 0
      /\ F # <<>> => Len(F) = 1 /\ F[1] = GroupLine(s)
      /\ B = <<>> => Len(B) = 0
      /\ B # <<>> => Len(B) = 1 /\ B[1] = MidLine(s, i)
  BY <1>1
<1> HIDE DEF F, B, W, x
<1> DEFINE a == F \o <<x>>
<1>3. a \in Seq(W) /\ Len(a) = Len(F) + 1 /\ a[Len(F) + 1] = x /\ (F # <<>> => a[1] = F[1])
  BY <1>1, <1>2
<1>4. Len(F) \in {0, 1} /\ Len(B) \in {0, 1}
  BY <1>2
<1> HIDE DEF a
<1> DEFINE r == a \o B
<1>5. /\ Len(r) = Len(a) + Len(B)
      /\ \A k \in 1 .. Len(a) : r[k] = a[k]
      /\ B # <<>> => r[Len(a) + 1] = B[1]
  <2>1. Len(r) = Len(a) + Len(B)
    BY <1>1, <1>3
  <2>2. \A k \in 1 .. Len(a) : r[k] = a[k]
    BY <1>1, <1>3
  <2>3. B # <<>> => r[Len(a) + 1] = B[1]
    BY <1>1, <1>2, <1>3
  <2> QED
    BY <2>1, <2>2, <2>3
<1>6. r = Rebuilt(s, i)
  BY <1>1 DEF a
<1> HIDE DEF r
<1>7. /\ Len(r) = Len(F) + 1 + Len(B)
      /\ r[Len(F) + 1] = x
      /\ F # <<>> => r[1] = GroupLine(s)
      /\ B # <<>> => r[Len(F) + 2] = MidLine(s, i)
  BY <1>2, <1>3, <1>4, <1>5
<1>8. (Len(F) = 1 <=> F # <<>>) /\ (Len(B) = 1 <=> B # <<>>)
  <2>1. 0 # 1
    OBVIOUS
  <2> QED
    BY <1>2, <2>1, Zenon
<1> QED
  BY <1>4, <1>6, <1>7, <1>8 DEF F, B, x

\* The rewritten description is made of those pieces.
LEMMA PiecesOf ==
  ASSUME NEW S, NEW s \in Seq(S)
  PROVE  /\ Pieces(s) \in Seq(Seq(Wider(S, s))) /\ Len(Pieces(s)) = Len(s)
         /\ \A i \in 1 .. Len(s) : Pieces(s)[i] = Rebuilt(s, i)
         /\ DOMAIN s = 1 .. Len(s) /\ Len(s) \in Nat
         /\ EnsureBundleMid(s) = FlattenSeq(Pieces(s))
         /\ EnsureBundleMid(s) \in Seq(Wider(S, s))
         /\ DOMAIN EnsureBundleMid(s) = 1 .. Len(EnsureBundleMid(s))
<1> DEFINE W == Wider(S, s)
<1>1. DOMAIN s = 1 .. Len(s) /\ Len(s) \in Nat
  OBVIOUS
<1>2. \A i \in 1 .. Len(s) : Rebuilt(s, i) \in Seq(W)
  BY <1>1, RebuiltIs
<1>3. EnsureBundleMid(s) \in Seq(W)
  BY StripOfEnsure
<1> HIDE DEF W
<1>4. Pieces(s) \in Seq(Seq(W)) /\ Len(Pieces(s)) = Len(s)
      /\ \A i \in 1 .. Len(s) : Pieces(s)[i] = Rebuilt(s, i)
  BY <1>1, <1>2 DEF Pieces
<1>5. EnsureBundleMid(s) = FlattenSeq(Pieces(s))
  BY <1>1 DEF EnsureBundleMid, Pieces
<1>6. DOMAIN EnsureBundleMid(s) = 1 .. Len(EnsureBundleMid(s))
  BY <1>3
<1> QED
  BY <1>1, <1>3, <1>4, <1>5, <1>6 DEF W

\* out has the line x at q.
HasLine(out, q, x) == q \in DOMAIN out /\ out[q] = x

\* Each line is where At says, and what was put in is beside it.
LEMMA LinesArePlaced ==
  ASSUME NEW S, NEW s \in Seq(S), NEW i \in DOMAIN s
  PROVE  LET out == EnsureBundleMid(s)
         IN  /\ HasLine(out, At(s, i), s[i]) /\ At(s, i) \in Nat
             /\ Lead(s, i) # <<>> => HasLine(out, At(s, i) - 1, GroupLine(s))
             /\ Trail(s, i) # <<>> => HasLine(out, At(s, i) + 1, MidLine(s, i))
<1> DEFINE w == Pieces(s)
           n == Before(w, i)
           f == Len(Lead(s, i))
           b == Len(Trail(s, i))
           r == Rebuilt(s, i)
           out == EnsureBundleMid(s)
           W == Wider(S, s)
<1>1. w \in Seq(Seq(W)) /\ i \in 1 .. Len(w) /\ w[i] = r /\ out = FlattenSeq(w)
      /\ DOMAIN out = 1 .. Len(out)
  BY PiecesOf
<1>2. /\ f \in {0, 1} /\ b \in {0, 1} /\ Len(r) = f + 1 + b
      /\ r[f + 1] = s[i]
      /\ f = 1 => r[1] = GroupLine(s)
      /\ b = 1 => r[f + 2] = MidLine(s, i)
      /\ f = 1 <=> Lead(s, i) # <<>>
      /\ b = 1 <=> Trail(s, i) # <<>>
  BY PieceIs
<1>3. At(s, i) = n + (f + 1)
  BY DEF At
<1> HIDE DEF w, f, b, r, out, W
<1>4. \A k \in 1 .. Len(r) : n + k \in 1 .. Len(out) /\ out[n + k] = r[k]
  <2> SUFFICES ASSUME NEW k \in 1 .. Len(r)
               PROVE  n + k \in 1 .. Len(out) /\ out[n + k] = r[k]
    OBVIOUS
  <2> QED
    BY <1>1, PieceAt
<1>5. n \in Nat
  <2>1. i \in 1 .. Len(w) + 1
    BY <1>1
  <2> QED
    BY <1>1, <2>1, PiecesAre
<1> HIDE DEF n
<1>6. f + 1 \in 1 .. Len(r) /\ (f = 1 => 1 \in 1 .. Len(r)) /\ (b = 1 => f + 2 \in 1 .. Len(r))
  BY <1>2
<1>7. HasLine(out, At(s, i), s[i]) /\ At(s, i) \in Nat
  BY <1>1, <1>2, <1>3, <1>4, <1>5, <1>6 DEF HasLine
<1>8. f = 1 => HasLine(out, At(s, i) - 1, GroupLine(s))
  <2>1. f = 1 => At(s, i) - 1 = n + 1
    BY <1>3, <1>5
  <2> QED
    BY <1>1, <1>2, <1>4, <1>6, <2>1 DEF HasLine
<1>9. b = 1 => HasLine(out, At(s, i) + 1, MidLine(s, i))
  <2>1. At(s, i) + 1 = n + (f + 2)
    BY <1>2, <1>3, <1>5
  <2> QED
    BY <1>1, <1>2, <1>4, <1>6, <2>1 DEF HasLine
<1> QED
  BY <1>2, <1>7, <1>8, <1>9 DEF out

\* The lines keep their order, and a mid stays with its section.
LEMMA LinesAreInOrder ==
  ASSUME NEW S, NEW s \in Seq(S), NEW i \in DOMAIN s, NEW j \in DOMAIN s, i < j
  PROVE  /\ At(s, i) < At(s, j) /\ At(s, i) \in Nat /\ At(s, j) \in Nat
         /\ Trail(s, i) # <<>> => At(s, i) + 1 < At(s, j)
<1> DEFINE w == Pieces(s)
           n == Before(w, i)
           m == Before(w, j)
           f == Len(Lead(s, i))
           g == Len(Lead(s, j))
           b == Len(Trail(s, i))
           r == Rebuilt(s, i)
           W == Wider(S, s)
<1>1. w \in Seq(Seq(W)) /\ i \in 1 .. Len(w) /\ j \in 1 .. Len(w) /\ w[i] = r /\ Len(w) \in Nat
  BY PiecesOf
<1>2. /\ f \in {0, 1} /\ b \in {0, 1} /\ Len(r) = f + 1 + b
      /\ b = 1 <=> Trail(s, i) # <<>>
  BY PieceIs
<1>3. g \in {0, 1}
  BY PieceIs
<1>4. At(s, i) = n + (f + 1) /\ At(s, j) = m + (g + 1)
  BY DEF At
<1> HIDE DEF w, f, b, r, g, W
<1>5. n \in Nat /\ m \in Nat
  <2>1. i \in 1 .. Len(w) + 1 /\ j \in 1 .. Len(w) + 1
    BY <1>1
  <2> QED
    BY <1>1, <2>1, PiecesAre
<1>6. n + Len(w[i]) <= m
  <2>1. j \in i + 1 .. Len(w) + 1
    BY <1>1
  <2> QED
    BY <1>1, <2>1, PiecesInOrder
<1> HIDE DEF n, m
<1>7. n + (f + 1 + b) <= m
  BY <1>1, <1>2, <1>6
<1>8. At(s, i) < At(s, j) /\ At(s, i) \in Nat /\ At(s, j) \in Nat
  BY <1>2, <1>3, <1>4, <1>5, <1>7
<1>9. b = 1 => At(s, i) + 1 < At(s, j)
  BY <1>2, <1>3, <1>4, <1>5, <1>7
<1> QED
  BY <1>2, <1>8, <1>9

\* A line of the whole is one of the caller's or was put beside one.
LEMMA LineIs ==
  ASSUME NEW S, NEW s \in Seq(S), NEW q \in DOMAIN EnsureBundleMid(s)
  PROVE  \E i \in DOMAIN s :
           \/ q = At(s, i)
           \/ Lead(s, i) # <<>> /\ q = At(s, i) - 1
           \/ Trail(s, i) # <<>> /\ q = At(s, i) + 1
<1> DEFINE w == Pieces(s)
           W == Wider(S, s)
<1>1. w \in Seq(Seq(W)) /\ Len(w) = Len(s) /\ DOMAIN s = 1 .. Len(s) /\ Len(s) \in Nat
      /\ (\A i \in 1 .. Len(s) : w[i] = Rebuilt(s, i)) /\ q \in 1 .. Len(FlattenSeq(w))
  BY PiecesOf
<1> HIDE DEF w, W
<1>2. PICK i \in 1 .. Len(w) : \E k \in 1 .. Len(w[i]) : q = Before(w, i) + k
  BY <1>1, PieceOf
<1>3. PICK k \in 1 .. Len(w[i]) : q = Before(w, i) + k
  BY <1>2
<1> DEFINE n == Before(w, i)
           f == Len(Lead(s, i))
           b == Len(Trail(s, i))
<1>4. i \in DOMAIN s /\ w[i] = Rebuilt(s, i)
  BY <1>1
<1>5. /\ f \in {0, 1} /\ b \in {0, 1} /\ Len(w[i]) = f + 1 + b
      /\ f = 1 <=> Lead(s, i) # <<>>
      /\ b = 1 <=> Trail(s, i) # <<>>
  BY <1>4, PieceIs
<1>6. n \in Nat
  <2>1. i \in 1 .. Len(w) + 1
    BY <1>1
  <2> QED
    BY <1>1, <2>1, PiecesAre
<1>7. At(s, i) = n + (f + 1)
  BY DEF At, w
<1> HIDE DEF n, f, b
<1>8. k \in 1 .. f + 1 + b /\ q = n + k
  BY <1>3, <1>5 DEF n
<1>9. \/ q = At(s, i)
      \/ f = 1 /\ q = At(s, i) - 1
      \/ b = 1 /\ q = At(s, i) + 1
  BY <1>5, <1>6, <1>7, <1>8
<1> QED
  BY <1>4, <1>5, <1>9

\* h has what g has of each line of the caller, in its place, and nothing elsewhere.
MadeOfLines(s, h, g) ==
  /\ \A i \in DOMAIN s : h[At(s, i)] = g[i]
  /\ \A q \in DOMAIN EnsureBundleMid(s) : h[q] = <<>> \/ \E i \in DOMAIN s : q = At(s, i)

\* What is made of the caller's lines only is made of them one by one.
LEMMA Selected ==
  ASSUME NEW S, NEW s \in Seq(S), NEW R, NEW h \in Seq(Seq(R)), NEW g \in Seq(Seq(R)),
         Len(h) = Len(EnsureBundleMid(s)), Len(g) = Len(s),
         MadeOfLines(s, h, g)
  PROVE  FlattenSeq(h) = FlattenSeq(g)
<1> DEFINE w == Pieces(s)
           W == Wider(S, s)
           out == EnsureBundleMid(s)
<1>1. w \in Seq(Seq(W)) /\ Len(w) = Len(s) /\ DOMAIN s = 1 .. Len(s) /\ Len(s) \in Nat
      /\ (\A i \in 1 .. Len(s) : w[i] = Rebuilt(s, i)) /\ out = FlattenSeq(w)
      /\ DOMAIN out = 1 .. Len(out) /\ Len(out) \in Nat
  BY PiecesOf
<1>2. Len(h) = Len(out) /\ \A q \in 1 .. Len(out) : h[q] = <<>> \/ \E i \in DOMAIN s : q = At(s, i)
  BY <1>1 DEF MadeOfLines
<1> HIDE DEF w, W, out
<1>3. ASSUME NEW i \in 1 .. Len(w)
      PROVE  FlattenSeq([k \in 1 .. Len(w[i]) |-> h[Before(w, i) + k]]) = g[i]
  <2> DEFINE n == Before(w, i)
             l == Len(w[i])
             p == Len(Lead(s, i)) + 1
             f == [k \in 1 .. l |-> h[n + k]]
  <2>1. i \in DOMAIN s /\ w[i] = Rebuilt(s, i)
    BY <1>1
  <2>2. p \in {1, 2} /\ p <= l /\ l \in Nat
    <3> DEFINE a == Len(Lead(s, i))
               b == Len(Trail(s, i))
    <3>1. a \in {0, 1} /\ b \in {0, 1} /\ l = a + 1 + b
      BY <2>1, PieceIs
    <3> HIDE DEF a, b, l
    <3>2. p = a + 1
      BY DEF a
    <3> HIDE DEF p
    <3> QED
      BY <3>1, <3>2
  <2>3. \A k \in 1 .. l : n + k \in 1 .. Len(out) /\ h[n + k] \in Seq(R)
    <3> SUFFICES ASSUME NEW k \in 1 .. l
                 PROVE  n + k \in 1 .. Len(out) /\ h[n + k] \in Seq(R)
      OBVIOUS
    <3>1. n + k \in 1 .. Len(out)
      BY <1>1, PieceAt
    <3> QED
      BY <1>2, <3>1
  <2>4. At(s, i) = n + p
    BY DEF At, w
  <2>5. n \in Nat
    <3>1. i \in 1 .. Len(w) + 1
      BY <1>1
    <3> QED
      BY <1>1, <3>1, PiecesAre
  <2> HIDE DEF n, l, p
  <2>6. f \in Seq(Seq(R)) /\ Len(f) = l /\ p \in 1 .. Len(f)
    BY <2>2, <2>3
  <2>7. \A k \in 1 .. Len(f) : k # p => f[k] = <<>>
    <3> SUFFICES ASSUME NEW k \in 1 .. l, k # p, h[n + k] # <<>>
                 PROVE  FALSE
      BY <2>6
    <3>1. PICK j \in DOMAIN s : n + k = At(s, j)
      BY <1>2, <2>3
    <3>2. j # i
      BY <2>2, <2>4, <2>5, <3>1
    <3>3. CASE j < i
      <4> DEFINE m == Before(w, j)
                 v == Len(w[j])
                 e == Len(Lead(s, j))
      <4>1. j \in 1 .. Len(w) /\ i \in j + 1 .. Len(w) + 1 /\ j \in 1 .. Len(w) + 1 /\ w[j] = Rebuilt(s, j)
        BY <1>1, <2>1, <3>3
      <4>2. m + v <= Before(w, i) /\ m \in Nat
        BY <1>1, <4>1, PiecesInOrder, PiecesAre
      <4>3. e \in {0, 1} /\ e + 1 <= v /\ v \in Nat
        <5> DEFINE b == Len(Trail(s, j))
        <5>1. e \in {0, 1} /\ b \in {0, 1} /\ v = e + 1 + b
          BY <1>1, <4>1, PieceIs
        <5> HIDE DEF e, b, v
        <5> QED
          BY <5>1
      <4>4. At(s, j) = m + (e + 1)
        BY DEF At, w
      <4> HIDE DEF m, v, e
      <4>5. m + v <= n
        BY <4>2 DEF n
      <4> QED
        BY <2>2, <2>5, <3>1, <4>2, <4>3, <4>4, <4>5
    <3>4. CASE i < j
      <4> DEFINE m == Before(w, j)
                 e == Len(Lead(s, j))
      <4>1. j \in 1 .. Len(w) /\ j \in i + 1 .. Len(w) + 1 /\ j \in 1 .. Len(w) + 1
        BY <1>1, <2>1, <3>4
      <4>2. Before(w, i) + Len(w[i]) <= m /\ m \in Nat
        BY <1>1, <4>1, PiecesInOrder, PiecesAre
      <4>3. e \in {0, 1}
        BY <1>1, <4>1, PieceIs
      <4>4. At(s, j) = m + (e + 1)
        BY DEF At, w
      <4> HIDE DEF m, e
      <4>5. n + l <= m
        BY <4>2 DEF n, l
      <4> QED
        BY <2>2, <2>5, <3>1, <4>2, <4>3, <4>4, <4>5
    <3> QED
      BY <1>1, <2>1, <3>2, <3>3, <3>4
  <2>8. f[p] = g[i]
    BY <2>1, <2>4, <2>6 DEF MadeOfLines
  <2> HIDE DEF f
  <2>9. FlattenSeq(f) = f[p]
    BY <2>6, <2>7, OnlyOne
  <2> QED
    BY <2>8, <2>9 DEF f, n, l
<1>4. PartsOf(w, h, g)
  BY <1>3 DEF PartsOf
<1> QED
  BY <1>1, <1>2, <1>4, PieceByPiece

-----------------------------------------------------------------------------
(***************************************************************************)
(* What OpenAI is offered: nothing but mids and groups is new, every       *)
(* section has a mid, and the group lists them.                            *)
(***************************************************************************)

\* A description is rewritten to itself with mids and groups put in.
LEMMA OnlyAddsEnsure ==
  ASSUME NEW S, NEW s \in Seq(S)
  PROVE  OnlyAdds(s, EnsureBundleMid(s))
<1> DEFINE out == EnsureBundleMid(s)
           kept == {At(s, i) : i \in DOMAIN s}
           h == [q \in 1 .. Len(out) |-> IF q \in kept THEN <<out[q]>> ELSE <<>>]
           g == [i \in 1 .. Len(s) |-> <<s[i]>>]
           W == Wider(S, s)
<1>1. out \in Seq(W) /\ DOMAIN out = 1 .. Len(out) /\ Len(out) \in Nat
      /\ DOMAIN s = 1 .. Len(s) /\ Len(s) \in Nat
  <2>1. EnsureBundleMid(s) \in Seq(Wider(S, s)) /\ DOMAIN s = 1 .. Len(s) /\ Len(s) \in Nat
    BY PiecesOf
  <2> HIDE DEF W
  <2>2. out \in Seq(W)
    BY <2>1 DEF W
  <2> HIDE DEF out
  <2> QED
    BY <2>1, <2>2
<1>2. \A i \in DOMAIN s : At(s, i) \in DOMAIN out /\ out[At(s, i)] = s[i]
  BY LinesArePlaced DEF HasLine
<1>3. \A i \in DOMAIN s : s[i] \in W
  BY LeadAndTrail
<1> HIDE DEF W, out
<1>4. kept \subseteq DOMAIN out
  BY <1>2
<1>5. \A i \in DOMAIN s : At(s, i) \in kept
  OBVIOUS
<1>6. \A q \in kept : \E i \in DOMAIN s : q = At(s, i)
  OBVIOUS
<1> HIDE DEF kept
<1>7. FlattenSeq(h) = s
  <2>1. h \in Seq(Seq(W)) /\ Len(h) = Len(out)
    BY <1>1
  <2>2. g \in Seq(Seq(W)) /\ Len(g) = Len(s)
    BY <1>1, <1>3
  <2>3. \A i \in DOMAIN s : h[At(s, i)] = g[i]
    BY <1>1, <1>2, <1>5
  <2>4. \A q \in DOMAIN out : h[q] = <<>> \/ \E i \in DOMAIN s : q = At(s, i)
    BY <1>1, <1>6
  <2>5. FlattenSeq(g) = s
    BY Singles
  <2> HIDE DEF h, g
  <2>6. FlattenSeq(h) = FlattenSeq(g)
    <3>1. Len(h) = Len(EnsureBundleMid(s)) /\ MadeOfLines(s, h, g)
      BY <2>1, <2>3, <2>4 DEF MadeOfLines, out
    <3> QED
      BY <2>1, <2>2, <3>1, Selected
  <2> QED
    BY <2>5, <2>6
<1>8. ASSUME NEW q \in DOMAIN out \ kept
      PROVE  out[q].type \in {"mid", "group"}
  <2>1. PICK i \in DOMAIN s : \/ q = At(s, i)
                              \/ Lead(s, i) # <<>> /\ q = At(s, i) - 1
                              \/ Trail(s, i) # <<>> /\ q = At(s, i) + 1
    BY LineIs DEF out
  <2>2. CASE q = At(s, i)
    BY <1>5, <2>2
  <2>3. CASE Lead(s, i) # <<>> /\ q = At(s, i) - 1
    <3>1. out[q] = GroupLine(s)
      BY <2>3, LinesArePlaced DEF HasLine, out
    <3> QED
      BY <3>1 DEF GroupLine, Line
  <2>4. CASE Trail(s, i) # <<>> /\ q = At(s, i) + 1
    <3>1. out[q] = MidLine(s, i)
      BY <2>4, LinesArePlaced DEF HasLine, out
    <3> QED
      BY <3>1 DEF MidLine, Line
  <2> QED
    BY <2>1, <2>2, <2>3, <2>4
<1>9. h = [q \in DOMAIN out |-> IF q \in kept THEN <<out[q]>> ELSE <<>>]
  BY <1>1
<1> QED
  BY <1>4, <1>7, <1>8, <1>9 DEF OnlyAdds, out

\* Where the lines of each kind are.
LEMMA KindsOfLines ==
  ASSUME NEW S, NEW s \in Seq(S), NEW q \in DOMAIN EnsureBundleMid(s)
  PROVE  LET x == EnsureBundleMid(s)[q]
         IN  /\ x.type \notin {"mid", "group"} => \E i \in DOMAIN s : q = At(s, i) /\ x = s[i]
             /\ x.type = "mid" =>
                  \/ \E i \in DOMAIN s : q = At(s, i) /\ x = s[i]
                  \/ \E i \in DOMAIN s : Trail(s, i) # <<>> /\ q = At(s, i) + 1 /\ x = MidLine(s, i)
             /\ x.type = "group" =>
                  \/ \E i \in DOMAIN s : q = At(s, i) /\ x = s[i]
                  \/ \E i \in DOMAIN s : Lead(s, i) # <<>> /\ q = At(s, i) - 1 /\ x = GroupLine(s)
<1> DEFINE out == EnsureBundleMid(s)
           x == out[q]
<1>1. PICK i \in DOMAIN s : \/ q = At(s, i)
                            \/ Lead(s, i) # <<>> /\ q = At(s, i) - 1
                            \/ Trail(s, i) # <<>> /\ q = At(s, i) + 1
  BY LineIs
<1>2. /\ q = At(s, i) => x = s[i]
      /\ Lead(s, i) # <<>> /\ q = At(s, i) - 1 => x = GroupLine(s)
      /\ Trail(s, i) # <<>> /\ q = At(s, i) + 1 => x = MidLine(s, i)
  BY LinesArePlaced DEF HasLine
<1>3. GroupLine(s).type = "group" /\ MidLine(s, i).type = "mid"
  BY DEF GroupLine, MidLine, Line
<1> HIDE DEF x
<1> QED
  BY <1>1, <1>2, <1>3 DEF x

\* The places keep the order of the lines.
LEMMA OrderKept ==
  ASSUME NEW S, NEW s \in Seq(S), NEW i \in DOMAIN s, NEW j \in DOMAIN s
  PROVE  /\ At(s, i) < At(s, j) <=> i < j
         /\ At(s, i) \in Nat /\ At(s, j) \in Nat
<1>1. i \in Nat /\ j \in Nat
  OBVIOUS
<1>2. At(s, i) \in Nat /\ At(s, j) \in Nat
  BY LinesArePlaced
<1>3. i < j => At(s, i) < At(s, j)
  BY LinesAreInOrder
<1>4. j < i => At(s, j) < At(s, i)
  BY LinesAreInOrder
<1>5. i = j => At(s, i) = At(s, j)
  OBVIOUS
<1> QED
  BY <1>1, <1>2, <1>3, <1>4, <1>5

\* The sections are the caller's.
LEMMA SectionsKept ==
  ASSUME NEW S, NEW s \in Seq(S)
  PROVE  Sections(EnsureBundleMid(s)) = {At(s, i) : i \in Sections(s)}
<1> DEFINE out == EnsureBundleMid(s)
<1>1. ASSUME NEW q \in Sections(out)
      PROVE  q \in {At(s, i) : i \in Sections(s)}
  <2>1. q \in DOMAIN out /\ out[q].type = "m"
    BY DEF Sections
  <2>2. PICK i \in DOMAIN s : q = At(s, i) /\ out[q] = s[i]
    BY <2>1, KindsOfLines
  <2>3. i \in Sections(s)
    BY <2>1, <2>2 DEF Sections
  <2> QED
    BY <2>2, <2>3
<1>2. ASSUME NEW i \in Sections(s)
      PROVE  At(s, i) \in Sections(out)
  <2>1. i \in DOMAIN s /\ s[i].type = "m"
    BY DEF Sections
  <2>2. At(s, i) \in DOMAIN out /\ out[At(s, i)] = s[i]
    BY <2>1, LinesArePlaced DEF HasLine
  <2> QED
    BY <2>1, <2>2 DEF Sections
<1> QED
  BY <1>1, <1>2

\* Every section has the mid it was to have, and has it as its own.
LEMMA MidsKept ==
  ASSUME NEW S, NEW s \in Seq(S), NEW i \in Sections(s)
  PROVE  LET out == EnsureBundleMid(s)
         IN  ~Assigned(out, At(s, i)) /\ MidOf(out, At(s, i)) = MidOf(s, i)
<1> DEFINE out == EnsureBundleMid(s)
           p == At(s, i)
           O == OwnMids(out, p)
<1>1. i \in DOMAIN s /\ s[i].type = "m" /\ DOMAIN s = 1 .. Len(s)
  BY DEF Sections
<1>2. Sections(out) = {At(s, k) : k \in Sections(s)} /\ Sections(s) \subseteq DOMAIN s
  BY SectionsKept DEF Sections
<1>3. p \in Nat /\ DOMAIN out = 1 .. Len(out)
  BY <1>1, LinesArePlaced, PiecesOf
<1>4. O \subseteq Nat /\ \A y \in O : y \in DOMAIN out /\ y > p /\ out[y].type = "mid" /\ out[y].mids # <<>>
  <2>1. \A y \in O : y \in DOMAIN out /\ y > p /\ out[y].type = "mid" /\ out[y].mids # <<>>
    BY DEF OwnMids
  <2> QED
    BY <1>3, <2>1
<1> HIDE DEF out
\* A mid of the caller's own stays one, and no other of the caller's becomes one.
<1>5. ASSUME NEW j \in DOMAIN s
      PROVE  At(s, j) \in O <=> j \in OwnMids(s, i)
  <2>1. At(s, j) \in DOMAIN out /\ out[At(s, j)] = s[j]
    BY LinesArePlaced DEF HasLine, out
  <2>2. At(s, j) > p <=> j > i
    <3>1. p < At(s, j) <=> i < j
      BY <1>1, OrderKept
    <3> QED
      BY <1>1, <1>3, <2>1, <3>1
  <2>3. (\E k \in Sections(out) : p < k /\ k < At(s, j)) <=> (\E k \in Sections(s) : i < k /\ k < j)
    <3>1. \A k \in Sections(s) : (p < At(s, k) <=> i < k) /\ (At(s, k) < At(s, j) <=> k < j)
      <4> SUFFICES ASSUME NEW k \in Sections(s)
                   PROVE  (p < At(s, k) <=> i < k) /\ (At(s, k) < At(s, j) <=> k < j)
        OBVIOUS
      <4>1. k \in DOMAIN s
        BY <1>2
      <4> QED
        BY <1>1, <4>1, OrderKept
    <3> QED
      BY <1>2, <3>1
  <2> QED
    BY <2>1, <2>2, <2>3 DEF OwnMids
<1>6. CASE Assigned(s, i)
  <2>1. Trail(s, i) # <<>>
    BY <1>1, <1>6 DEF Trail, MidLines
  <2>2. p + 1 \in DOMAIN out /\ out[p + 1] = MidLine(s, i)
    BY <1>1, <2>1, LinesArePlaced DEF HasLine, out
  <2>3. out[p + 1].type = "mid" /\ out[p + 1].mids # <<>> /\ out[p + 1].mids[1] = MidOf(s, i)
    BY <2>2 DEF MidLine, Line
  <2>4. p + 1 \in O
    <3>1. \A k \in Sections(out) : k \in DOMAIN out
      BY DEF Sections
    <3>2. ~\E k \in Sections(out) : p < k /\ k < p + 1
      BY <1>3, <3>1
    <3> QED
      BY <1>3, <2>2, <2>3, <3>2 DEF OwnMids
  <2>5. Min(O) = p + 1
    <3>1. O \subseteq Int /\ \A y \in O : p + 1 <= y
      BY <1>3, <1>4
    <3> HIDE DEF O
    <3> QED
      BY <2>4, <3>1, MinIs
  <2> QED
    BY <2>3, <2>4, <2>5 DEF Assigned, MidOf, out
<1>7. CASE ~Assigned(s, i)
  <2> DEFINE N == OwnMids(s, i)
             j == Min(N)
  <2>1. N \subseteq Nat /\ N \subseteq DOMAIN s /\ N # {}
    BY <1>1, <1>7 DEF OwnMids, Assigned
  <2>2. j \in N /\ \A y \in N : j <= y
    <3> HIDE DEF N
    <3> QED
      BY <2>1, MinOf
  <2> HIDE DEF j
  <2>3. At(s, j) \in O /\ j \in DOMAIN s
    BY <1>5, <2>1, <2>2
  <2>4. ASSUME NEW y \in O
        PROVE  At(s, j) <= y
    <3>1. y \in DOMAIN out /\ y > p /\ out[y].type = "mid"
      BY <1>4
    <3>2. CASE \E l \in DOMAIN s : y = At(s, l) /\ out[y] = s[l]
      <4>1. PICK l \in DOMAIN s : y = At(s, l)
        BY <3>2
      <4>2. l \in N
        BY <1>5, <4>1
      <4>3. ~(l < j)
        BY <1>1, <2>1, <2>2, <4>2
      <4>4. ~(At(s, l) < At(s, j)) /\ At(s, l) \in Nat /\ At(s, j) \in Nat
        BY <2>3, <4>3, OrderKept
      <4> QED
        BY <4>1, <4>4
    <3>3. CASE \E l \in DOMAIN s : Trail(s, l) # <<>> /\ y = At(s, l) + 1
      <4>1. PICK l \in DOMAIN s : Trail(s, l) # <<>> /\ y = At(s, l) + 1
        BY <3>3
      <4>2. s[l].type = "m" /\ Assigned(s, l)
        BY <4>1 DEF Trail, MidLines
      <4>3. l \in Sections(s) /\ l # i
        BY <1>7, <4>2 DEF Sections
      <4>4. CASE l < i
        <5>1. At(s, l) + 1 < p
          BY <1>1, <4>1, <4>4, LinesAreInOrder
        <5>2. At(s, l) \in Nat
          BY LinesArePlaced
        <5> QED
          BY <1>3, <3>1, <4>1, <5>1, <5>2
      <4>5. CASE i < l
        <5>1. p < At(s, l) /\ At(s, l) \in Nat
          BY <1>1, <4>5, OrderKept
        <5>2. At(s, l) \in Sections(out)
          BY <1>2, <4>3
        <5>3. At(s, l) < y
          BY <4>1, <5>1
        <5>4. ~\E k \in Sections(out) : p < k /\ k < y
          BY DEF OwnMids
        <5> QED
          BY <5>1, <5>2, <5>3, <5>4
      <4> QED
        BY <1>1, <4>3, <4>4, <4>5
    <3> QED
      BY <3>1, <3>2, <3>3, KindsOfLines DEF out
  <2>5. Min(O) = At(s, j)
    <3>1. O \subseteq Int
      BY <1>4
    <3> HIDE DEF O
    <3> QED
      BY <2>3, <2>4, <3>1, MinIs
  <2>6. out[At(s, j)] = s[j]
    BY <2>3, LinesArePlaced DEF HasLine, out
  <2>7. MidOf(s, i) = s[j].mids[1]
    BY <1>7 DEF MidOf, j
  <2>8. ~Assigned(out, p) /\ MidOf(out, p) = out[Min(O)].mids[1]
    BY <2>3 DEF Assigned, MidOf
  <2> QED
    BY <2>5, <2>6, <2>7, <2>8 DEF out
<1> QED
  BY <1>6, <1>7

\* The mids are those that were assigned or chosen.
LEMMA MidsOfEnsure ==
  ASSUME NEW S, NEW s \in Seq(S)
  PROVE  MidsOf(EnsureBundleMid(s)) = MidsOf(s)
<1> DEFINE out == EnsureBundleMid(s)
           R == {MidOf(s, i) : i \in DOMAIN s} \cup {MidOf(out, q) : q \in DOMAIN out}
           h == [q \in 1 .. Len(out) |-> IF q \in Sections(out) THEN <<MidOf(out, q)>> ELSE <<>>]
           g == [i \in 1 .. Len(s) |-> IF i \in Sections(s) THEN <<MidOf(s, i)>> ELSE <<>>]
<1>1. DOMAIN s = 1 .. Len(s) /\ DOMAIN out = 1 .. Len(out) /\ Len(s) \in Nat /\ Len(out) \in Nat
  <2>1. DOMAIN s = 1 .. Len(s) /\ DOMAIN out = 1 .. Len(out) /\ Len(s) \in Nat
    BY PiecesOf
  <2>2. out \in Seq(Wider(S, s))
    BY PiecesOf
  <2> HIDE DEF out
  <2> QED
    BY <2>1, <2>2
<1>2. Sections(out) = {At(s, k) : k \in Sections(s)} /\ Sections(s) \subseteq DOMAIN s
  BY SectionsKept DEF Sections
<1>3. \A i \in Sections(s) : MidOf(out, At(s, i)) = MidOf(s, i)
  BY MidsKept
<1>4. \A i \in DOMAIN s : At(s, i) \in DOMAIN out /\ out[At(s, i)] = s[i]
  BY LinesArePlaced DEF HasLine
<1>5. \A i \in DOMAIN s : At(s, i) \in Sections(out) <=> i \in Sections(s)
  BY <1>4 DEF Sections
<1>6. MidsOf(s) = FlattenSeq(g)
  BY <1>1 DEF MidsOf
<1> HIDE DEF out
<1>7. MidsOf(out) = FlattenSeq(h)
  BY <1>1 DEF MidsOf
<1>8. h \in Seq(Seq(R)) /\ Len(h) = Len(out)
  <2>1. \A q \in 1 .. Len(out) : MidOf(out, q) \in R
    BY <1>1
  <2> HIDE DEF R
  <2> QED
    BY <1>1, <2>1
<1>9. g \in Seq(Seq(R)) /\ Len(g) = Len(s)
  <2>1. \A i \in 1 .. Len(s) : MidOf(s, i) \in R
    BY <1>1
  <2> HIDE DEF R
  <2> QED
    BY <1>1, <2>1
<1>10. \A i \in DOMAIN s : h[At(s, i)] = g[i]
  BY <1>1, <1>3, <1>4, <1>5
<1>11. \A q \in DOMAIN out : h[q] = <<>> \/ \E i \in DOMAIN s : q = At(s, i)
  BY <1>1, <1>2
<1> HIDE DEF h, g
<1>12. Len(h) = Len(EnsureBundleMid(s)) /\ MadeOfLines(s, h, g)
  BY <1>8, <1>10, <1>11 DEF MadeOfLines, out
<1>13. FlattenSeq(h) = FlattenSeq(g)
  BY <1>8, <1>9, <1>12, Selected
<1> QED
  BY <1>6, <1>7, <1>13 DEF out

\* The group that is put in is the only one, and there is one if there is a section.
LEMMA GroupOfEnsure ==
  ASSUME NEW S, NEW s \in Seq(S)
  PROVE  LET out == EnsureBundleMid(s)
             groups == {q \in DOMAIN out : out[q].type = "group"}
         IN  /\ Sections(out) # {} => HasGroup(out)
             /\ ~HasGroup(s) /\ Sections(out) # {} =>
                  groups # {} /\ out[Min(groups)].mids = MidsOf(s)
<1> DEFINE out == EnsureBundleMid(s)
           groups == {q \in DOMAIN out : out[q].type = "group"}
<1>1. CASE Sections(out) = {}
  BY <1>1
<1>2. CASE HasGroup(s)
  <2>1. PICK i \in DOMAIN s : s[i].type = "group"
    BY <1>2 DEF HasGroup
  <2>2. At(s, i) \in DOMAIN out /\ out[At(s, i)] = s[i]
    BY LinesArePlaced DEF HasLine
  <2> QED
    BY <1>2, <2>1, <2>2 DEF HasGroup
<1>3. CASE ~HasGroup(s) /\ Sections(out) # {}
  <2> DEFINE m == Min(Sections(s))
  <2>1. Sections(s) # {} /\ Sections(s) \subseteq Nat
    BY <1>3, SectionsKept DEF Sections
  <2>2. m \in Sections(s)
    BY <2>1, MinOf
  <2>3. m \in DOMAIN s /\ s[m].type = "m"
    BY <2>2 DEF Sections
  <2>4. Lead(s, m) # <<>>
    <3>1. Lead(s, m) = <<Line("group", MidsOf(s))>>
      BY <1>3, <2>3 DEF Lead, GroupLines
    <3> QED
      BY <3>1
  <2>5. At(s, m) - 1 \in DOMAIN out /\ out[At(s, m) - 1] = GroupLine(s)
    BY <2>3, <2>4, LinesArePlaced DEF HasLine
  <2>6. GroupLine(s).type = "group" /\ GroupLine(s).mids = MidsOf(s)
    BY DEF GroupLine, Line
  <2>7. ASSUME NEW q \in groups
        PROVE  q = At(s, m) - 1
    <3>1. CASE \E i \in DOMAIN s : q = At(s, i) /\ out[q] = s[i]
      BY <1>3, <3>1 DEF HasGroup
    <3>2. CASE \E i \in DOMAIN s : Lead(s, i) # <<>> /\ q = At(s, i) - 1
      BY <3>2 DEF Lead
    <3> QED
      BY <3>1, <3>2, KindsOfLines
  <2>8. At(s, m) - 1 \in groups
    BY <2>5, <2>6
  <2>9. groups = {At(s, m) - 1}
    BY <2>7, <2>8
  <2>10. Min(groups) = At(s, m) - 1
    <3>1. At(s, m) \in Nat
      BY <2>3, LinesArePlaced
    <3> DEFINE p == At(s, m) - 1
    <3>2. p \in Int /\ groups = {p}
      BY <2>9, <3>1
    <3> HIDE DEF p, groups
    <3>3. Min(groups) = p
      BY <3>2, MinIs
    <3> QED
      BY <3>3 DEF p
  <2>11. HasGroup(out)
    BY <2>5, <2>6 DEF HasGroup
  <2> QED
    BY <2>5, <2>6, <2>8, <2>10, <2>11
<1> QED
  BY <1>1, <1>2, <1>3

\* Every section has a mid of its own, and a group that is new lists them all.
LEMMA EnsureIsIdiomatic ==
  ASSUME NEW S, NEW s \in Seq(S)
  PROVE  LET out == EnsureBundleMid(s)
         IN  /\ \A q \in Sections(out) : ~Assigned(out, q)
             /\ ~HasGroup(s) => Idiomatic(out)
<1> DEFINE out == EnsureBundleMid(s)
           groups == {q \in DOMAIN out : out[q].type = "group"}
<1>1. ASSUME NEW q \in Sections(out)
      PROVE  ~Assigned(out, q)
  <2>1. PICK i \in Sections(s) : q = At(s, i)
    BY SectionsKept
  <2> QED
    BY <2>1, MidsKept
<1>2. ~HasGroup(s) /\ Sections(out) # {} => groups # {} /\ out[Min(groups)].mids = MidsOf(s)
  BY GroupOfEnsure
<1>3. MidsOf(out) = MidsOf(s)
  BY MidsOfEnsure
<1> HIDE DEF out
<1>4. ~HasGroup(s) => Idiomatic(out)
  BY <1>1, <1>2, <1>3 DEF Idiomatic
<1> QED
  BY <1>1, <1>4 DEF out

\* To rewrite it again changes nothing.
LEMMA EnsureTwice ==
  ASSUME NEW S, NEW s \in Seq(S)
  PROVE  EnsureBundleMid(EnsureBundleMid(s)) = EnsureBundleMid(s)
<1> DEFINE out == EnsureBundleMid(s)
           W == Wider(S, s)
<1>1. (\A q \in Sections(out) : ~Assigned(out, q)) /\ (Sections(out) # {} => HasGroup(out))
  BY EnsureIsIdiomatic, GroupOfEnsure
<1>2. out \in Seq(W) /\ DOMAIN out = 1 .. Len(out)
  BY PiecesOf
<1> HIDE DEF out, W
<1>3. ASSUME NEW q \in DOMAIN out
      PROVE  Rebuilt(out, q) = <<out[q]>>
  <2> DEFINE x == out[q]
  <2>1. x \in W
    BY <1>2
  <2>2. CASE x.type # "m"
    BY <2>2 DEF Rebuilt
  <2>3. CASE x.type = "m"
    <3>1. q \in Sections(out)
      BY <2>3 DEF Sections
    <3>2. MidLines(out, q) = <<>> /\ GroupLines(out) = <<>>
      BY <1>1, <3>1 DEF MidLines, GroupLines
    <3>3. Rebuilt(out, q) = (<<>> \o <<x>>) \o <<>>
      BY <2>3, <3>2 DEF Rebuilt
    <3> HIDE DEF x
    <3>4. (<<>> \o <<x>>) \o <<>> = <<x>>
      BY <2>1
    <3> QED
      BY <3>3, <3>4 DEF x
  <2> QED
    BY <2>2, <2>3
<1>4. EnsureBundleMid(out) = FlattenSeq([q \in 1 .. Len(out) |-> <<out[q]>>])
  BY <1>2, <1>3 DEF EnsureBundleMid
<1> QED
  BY <1>2, <1>4, Singles DEF out

\* Sections that are all numbered are numbered differently.
LEMMA NumbersDiffer ==
  ASSUME NEW S, NEW s \in Seq(S), NEW i \in Sections(s), NEW j \in Sections(s),
         ItoaIsInjective(Cardinality(Sections(s))), Number(s, i) = Number(s, j)
  PROVE  i = j
<1> DEFINE B(k) == {l \in Sections(s) : l < k}
           D == Sections(s)
<1>1. D \subseteq 1 .. Len(s) /\ Len(s) \in Nat
  BY DEF Sections
<1>2. IsFiniteSet(D)
  <2>1. IsFiniteSet(1 .. Len(s))
    BY <1>1, FS_Interval
  <2> HIDE DEF D
  <2> QED
    BY <1>1, <2>1, FS_Subset
<1>3. ASSUME NEW k \in D
      PROVE  /\ IsFiniteSet(B(k)) /\ Cardinality(B(k)) \in 0 .. Cardinality(D)
  <2>1. B(k) \subseteq D
    OBVIOUS
  <2> DEFINE C == B(k)
  <2> HIDE DEF D, C
  <2>2. IsFiniteSet(C) /\ Cardinality(C) <= Cardinality(D)
    BY <1>2, <2>1, FS_Subset DEF C
  <2>3. Cardinality(C) \in Nat /\ Cardinality(D) \in Nat
    BY <1>2, <2>2, FS_CardinalityType
  <2> QED
    BY <2>2, <2>3 DEF C
<1>4. Cardinality(B(i)) = Cardinality(B(j))
  <2>1. ToString(Cardinality(B(i))) = ToString(Cardinality(B(j)))
    BY DEF Number
  <2> QED
    BY <1>3, <2>1 DEF ItoaIsInjective
<1>5. ASSUME NEW k \in D, NEW l \in D, k < l, Cardinality(B(k)) = Cardinality(B(l))
      PROVE  FALSE
  <2> DEFINE C == B(k)
             E == B(l)
  <2>1. k \in Nat /\ l \in Nat
    BY <1>1
  <2>2. \A m \in D : m \in Nat
    BY <1>1
  <2>3. C \subseteq E
    <3>1. \A m \in D : m < k => m < l
      BY <1>5, <2>1, <2>2
    <3> QED
      BY <3>1
  <2>4. k \in E /\ k \notin C
    BY <1>5, <2>1
  <2>5. IsFiniteSet(E) /\ Cardinality(C) = Cardinality(E)
    BY <1>3, <1>5
  <2> HIDE DEF C, E
  <2> QED
    BY <2>3, <2>4, <2>5, FS_Subset
<1>6. i \in D /\ j \in D /\ i \in Nat /\ j \in Nat
  BY <1>1
<1> HIDE DEF D, B
<1>7. ~(i < j) /\ ~(j < i)
  BY <1>4, <1>5, <1>6
<1> QED
  BY <1>6, <1>7

\* A caller that chose no mid gets different ones.
LEMMA EnsureIsDistinct ==
  ASSUME NEW S, NEW s \in Seq(S), Plain(s), ItoaIsInjective(Cardinality(Sections(s)))
  PROVE  Distinct(EnsureBundleMid(s))
<1> DEFINE R == {MidOf(s, i) : i \in DOMAIN s}
           g == [i \in 1 .. Len(s) |-> IF i \in Sections(s) THEN <<MidOf(s, i)>> ELSE <<>>]
<1>1. DOMAIN s = 1 .. Len(s) /\ Len(s) \in Nat
  OBVIOUS
<1>2. MidsOf(s) = FlattenSeq(g)
  BY <1>1 DEF MidsOf
<1>3. g \in Seq(Seq(R)) /\ Len(g) = Len(s)
  <2>1. \A i \in 1 .. Len(s) : MidOf(s, i) \in R
    BY <1>1
  <2> HIDE DEF R
  <2> QED
    BY <1>1, <2>1
<1>4. \A i \in Sections(s) : MidOf(s, i) = Number(s, i)
  BY DEF Plain, MidOf, Assigned, OwnMids
<1>5. \A i \in 1 .. Len(s) : /\ i \in Sections(s) => Len(g[i]) = 1 /\ g[i][1] = MidOf(s, i)
                             /\ i \notin Sections(s) => Len(g[i]) = 0
  OBVIOUS
<1> HIDE DEF g, R
<1>6. FlattenSeq(g) \in Seq(R)
  BY <1>3, UptoIs
<1>7. ASSUME NEW q \in DOMAIN FlattenSeq(g)
      PROVE  \E i \in Sections(s) : q = Before(g, i) + 1 /\ FlattenSeq(g)[q] = Number(s, i)
  <2>1. q \in 1 .. Len(FlattenSeq(g))
    BY <1>6
  <2>2. PICK i \in 1 .. Len(g) : \E k \in 1 .. Len(g[i]) : q = Before(g, i) + k
    BY <1>3, <2>1, PieceOf
  <2>3. PICK k \in 1 .. Len(g[i]) : q = Before(g, i) + k
    BY <2>2
  <2>4. i \in Sections(s) /\ k = 1 /\ g[i][1] = MidOf(s, i)
    <3>1. i \in 1 .. Len(s) /\ Len(g[i]) # 0
      BY <1>3, <2>3
    <3>2. i \in Sections(s) /\ Len(g[i]) = 1 /\ g[i][1] = MidOf(s, i)
      BY <1>5, <3>1
    <3>3. k \in 1 .. 1
      BY <2>3, <3>2
    <3> QED
      BY <3>2, <3>3
  <2>5. FlattenSeq(g)[Before(g, i) + k] = g[i][k]
    BY <1>3, <2>3, PieceAt
  <2> QED
    BY <1>4, <2>3, <2>4, <2>5
<1>8. IsInjective(FlattenSeq(g))
  <2> SUFFICES ASSUME NEW a \in DOMAIN FlattenSeq(g), NEW b \in DOMAIN FlattenSeq(g),
                      FlattenSeq(g)[a] = FlattenSeq(g)[b]
               PROVE  a = b
    BY DEF IsInjective
  <2>1. PICK i \in Sections(s) : a = Before(g, i) + 1 /\ FlattenSeq(g)[a] = Number(s, i)
    BY <1>7
  <2>2. PICK j \in Sections(s) : b = Before(g, j) + 1 /\ FlattenSeq(g)[b] = Number(s, j)
    BY <1>7
  <2>3. i = j
    BY <2>1, <2>2, NumbersDiffer
  <2> QED
    BY <2>1, <2>2, <2>3
<1> QED
  BY <1>2, <1>8, MidsOfEnsure DEF Distinct
=============================================================================

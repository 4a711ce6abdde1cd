--------------------------- MODULE DownlinkProofs ---------------------------
(***************************************************************************)
(* What TLAPS proves about Downlink for every capacity of recvCh, every    *)
(* frame and chunk size and any number of responses and interruptions.     *)
(* Bytes are counted by the cardinality of the set of their positions, so  *)
(* that no induction over a sequence is needed.                            *)
(***************************************************************************)
EXTENDS Downlink, FiniteSetTheorems, FunctionTheorems, SequenceTheorems, TLAPS

(***************************************************************************)
(* Counting bytes.                                                         *)
(***************************************************************************)
Places(K, s) == {j \in DOMAIN s : s[j] \in K}
PlacesIn(K, ch) == UNION {{i} \X Places(K, ch[i]) : i \in DOMAIN ch}

\* Bytes and BytesIn count positions.
LEMMA BytesArePlaces ==
  \A K, s : Bytes(K, s) = Cardinality(Places(K, s)) /\ BytesIn(K, s) = Cardinality(PlacesIn(K, s))
  BY DEF Bytes, BytesIn, Places, PlacesIn

\* Two sets between which there is a one-to-one map are of the same size.
LEMMA SameSize ==
  ASSUME NEW S, NEW T, IsFiniteSet(S), NEW f \in [S -> T],
         \A x, y \in S : f[x] = f[y] => x = y,
         \A y \in T : \E x \in S : f[x] = y
  PROVE  IsFiniteSet(T) /\ Cardinality(T) = Cardinality(S)
<1>1. f \in Bijection(S, T)
  BY Fun_IsBij
<1> QED
  BY <1>1, FS_Bijection DEF ExistsBijection

\* Two disjoint finite sets have together as many elements as each of them.
LEMMA DisjointSize ==
  ASSUME NEW S, NEW T, IsFiniteSet(S), IsFiniteSet(T), S \cap T = {}
  PROVE  /\ IsFiniteSet(S \cup T)
         /\ Cardinality(S \cup T) = Cardinality(S) + Cardinality(T)
<1>1. Cardinality(S) \in Nat /\ Cardinality(T) \in Nat
  BY FS_CardinalityType
<1> QED
  BY <1>1, FS_Union, FS_EmptySet

\* The positions of a sequence of length n.
LEMMA UpTo ==
  ASSUME NEW n \in Nat
  PROVE  IsFiniteSet(1 .. n) /\ Cardinality(1 .. n) = n
<1>1. 1 \in Int /\ n \in Int
  OBVIOUS
<1>2. IsFiniteSet(1 .. n) /\ Cardinality(1 .. n) = IF 1 > n THEN 0 ELSE n - 1 + 1
  BY <1>1, FS_Interval
<1> QED
  BY <1>2

\* A sequence has finitely many bytes of a run.
LEMMA BytesType ==
  ASSUME NEW K, NEW s \in Audio
  PROVE  /\ IsFiniteSet(Places(K, s)) /\ Len(s) \in Nat
         /\ Bytes(K, s) \in Nat /\ Bytes(K, s) <= Len(s)
<1>1. Len(s) \in Nat /\ DOMAIN s = 1 .. Len(s)
  BY DEF Audio
<1>2. IsFiniteSet(1 .. Len(s)) /\ Cardinality(1 .. Len(s)) = Len(s)
  BY <1>1, UpTo
<1>3. Places(K, s) \in SUBSET (1 .. Len(s))
  BY <1>1 DEF Places
<1> QED
  BY <1>1, <1>2, <1>3, FS_Subset, FS_CardinalityType, BytesArePlaces

\* There are no bytes in nothing.
LEMMA BytesEmpty ==
  ASSUME NEW K
  PROVE  Bytes(K, << >>) = 0 /\ BytesIn(K, << >>) = 0
<1>1. Places(K, << >>) = {} /\ PlacesIn(K, << >>) = {}
  BY DEF Places, PlacesIn
<1> QED
  BY <1>1, FS_EmptySet, BytesArePlaces

\* Appending adds the counts.
LEMMA BytesConcat ==
  ASSUME NEW K, NEW s \in Audio, NEW t \in Audio
  PROVE  s \o t \in Audio /\ Bytes(K, s \o t) = Bytes(K, s) + Bytes(K, t)
<1> DEFINE n == Len(s)
           T == {j \in (n + 1) .. (n + Len(t)) : t[j - n] \in K}
           f == [j \in Places(K, t) |-> n + j]
<1>1. /\ n \in Nat /\ Len(t) \in Nat /\ DOMAIN s = 1 .. n /\ DOMAIN t = 1 .. Len(t)
      /\ s \o t \in Audio /\ DOMAIN (s \o t) = 1 .. (n + Len(t))
      /\ \A i \in 1 .. (n + Len(t)) :
           (s \o t)[i] = IF i <= n THEN s[i] ELSE t[i - n]
  BY ConcatProperties, LenProperties DEF Audio
<1> HIDE DEF n
<1>2. Places(K, s \o t) = Places(K, s) \cup T
  BY <1>1 DEF Places
<1>3. Places(K, s) \cap T = {}
  BY <1>1 DEF Places
<1>4. IsFiniteSet(T) /\ Cardinality(T) = Cardinality(Places(K, t))
  <2>1. f \in [Places(K, t) -> T]
    BY <1>1 DEF Places
  <2>2. \A x, y \in Places(K, t) : f[x] = f[y] => x = y
    BY <1>1 DEF Places
  <2>3. ASSUME NEW y \in T PROVE \E x \in Places(K, t) : f[x] = y
    <3>1. y - n \in Places(K, t)
      BY <1>1 DEF Places
    <3> QED
      BY <3>1, <1>1
  <2>4. IsFiniteSet(Places(K, t))
    BY BytesType
  <2> HIDE DEF f, T
  <2> QED
    BY <2>1, <2>2, <2>3, <2>4, SameSize
<1> QED
  BY <1>1, <1>2, <1>3, <1>4, BytesType, DisjointSize, BytesArePlaces

\* What is cut off a sequence and what is left have its bytes between them.
LEMMA BytesSplit ==
  ASSUME NEW K, NEW s \in Audio, NEW n \in 0 .. Len(s)
  PROVE  LET a == SubSeq(s, 1, n)
             b == SubSeq(s, n + 1, Len(s))
         IN  /\ a \in Audio /\ b \in Audio /\ Len(b) <= Len(s)
             /\ Bytes(K, s) = Bytes(K, a) + Bytes(K, b)
<1> DEFINE a == SubSeq(s, 1, n)
           b == SubSeq(s, n + 1, Len(s))
<1>1. Len(s) \in Nat /\ \A i \in 1 .. Len(s) : s[i] \in Runs
  BY DEF Audio
<1>2. a \in Audio /\ b \in Audio /\ Len(b) <= Len(s)
  <2>1. a \in Seq(Runs)
    BY <1>1, SubSeqProperties
  <2>2. b \in Seq(Runs) /\ Len(b) = IF n + 1 <= Len(s) THEN Len(s) - (n + 1) + 1 ELSE 0
    BY <1>1, SubSeqProperties
  <2> QED
    BY <1>1, <2>1, <2>2 DEF Audio
<1>3. a \o b = s
  <2>1. SubSeq(s, 1, n) \o SubSeq(s, n + 1, Len(s)) = SubSeq(s, 1, Len(s))
    <3>1. /\ s \in Seq(Runs) /\ 1 \in 1 .. Len(s) + 1 /\ n \in 1 - 1 .. Len(s)
          /\ Len(s) \in n .. Len(s)
      BY <1>1 DEF Audio
    <3> QED
      BY <3>1, ConcatAdjacentSubSeq
  <2> QED
    BY <2>1, SubSeqFull DEF Audio
<1> HIDE DEF a, b
<1>4. Bytes(K, s) = Bytes(K, a) + Bytes(K, b)
  BY <1>2, <1>3, BytesConcat
<1> QED
  BY <1>2, <1>4 DEF a, b

\* Audio of one run only is counted whole for that run.
LEMMA BytesOfOne ==
  ASSUME NEW k, NEW s \in Audio, \A j \in Runs : j # k => Bytes({j}, s) = 0
  PROVE  Bytes({k}, s) = Len(s)
<1>1. Len(s) \in Nat /\ DOMAIN s = 1 .. Len(s) /\ \A i \in 1 .. Len(s) : s[i] \in Runs
  BY DEF Audio
<1>2. ASSUME NEW i \in 1 .. Len(s) PROVE s[i] = k
  <2>1. SUFFICES ASSUME s[i] # k PROVE FALSE
    OBVIOUS
  <2>2. Places({s[i]}, s) = {}
    BY <2>1, <1>1, BytesType, BytesArePlaces, FS_EmptySet
  <2> QED
    BY <2>2, <1>1 DEF Places
<1>3. Places({k}, s) = 1 .. Len(s)
  BY <1>1, <1>2 DEF Places
<1> QED
  BY <1>1, <1>3, BytesArePlaces, UpTo

-----------------------------------------------------------------------------
Channel == Seq(Audio)

\* The chunks of a channel, its head and its tail.
LEMMA ChannelFacts ==
  ASSUME NEW ch \in Channel
  PROVE  /\ Len(ch) \in Nat /\ DOMAIN ch = 1 .. Len(ch)
         /\ \A i \in 1 .. Len(ch) : ch[i] \in Audio
         /\ ch # << >> => /\ Len(ch) > 0 /\ Head(ch) = ch[1]
                          /\ Head(ch) \in Audio /\ Tail(ch) \in Channel
                          /\ Len(Tail(ch)) = Len(ch) - 1
                          /\ \A i \in 1 .. Len(Tail(ch)) : Tail(ch)[i] = ch[i + 1]
<1>1. Len(ch) \in Nat /\ DOMAIN ch = 1 .. Len(ch) /\ \A i \in 1 .. Len(ch) : ch[i] \in Audio
  BY LenProperties, ElementOfSeq DEF Channel
<1>2. ASSUME ch # << >> PROVE Len(ch) > 0 /\ Head(ch) = ch[1]
  BY <1>1, <1>2, EmptySeq DEF Channel
<1>3. ASSUME ch # << >>
      PROVE  /\ Head(ch) \in Audio /\ Tail(ch) \in Channel
             /\ Len(Tail(ch)) = Len(ch) - 1
             /\ \A i \in 1 .. Len(Tail(ch)) : Tail(ch)[i] = ch[i + 1]
  BY <1>3, HeadTailProperties DEF Channel
<1> QED
  BY <1>1, <1>2, <1>3

\* A position in a channel is a chunk and a position in it.
LEMMA InPlaces ==
  ASSUME NEW K, NEW ch, NEW p
  PROVE  p \in PlacesIn(K, ch) <=>
           \E i \in DOMAIN ch : \E j \in Places(K, ch[i]) : p = <<i, j>>
  BY DEF PlacesIn

\* A channel has finitely many bytes of a run.
LEMMA BytesInType ==
  ASSUME NEW K, NEW ch \in Channel
  PROVE  IsFiniteSet(PlacesIn(K, ch)) /\ BytesIn(K, ch) \in Nat
<1> DEFINE R == 1 .. Len(ch)
           S == {{i} \X Places(K, ch[i]) : i \in R}
           f == [i \in R |-> {i} \X Places(K, ch[i])]
<1>1. DOMAIN ch = R /\ \A i \in R : ch[i] \in Audio
  BY ChannelFacts
<1>2. IsFiniteSet(R)
  BY ChannelFacts, UpTo
<1>3. IsFiniteSet(S)
  <2>1. f \in [R -> S] /\ \A y \in S : \E x \in R : f[x] = y
    OBVIOUS
  <2> HIDE DEF f, R, S
  <2>2. f \in Surjection(R, S)
    BY <2>1, Fun_IsSurj
  <2> QED
    BY <1>2, <2>2, FS_Surjection
<1>4. ASSUME NEW T \in S PROVE IsFiniteSet(T)
  <2>1. PICK i \in R : T = {i} \X Places(K, ch[i])
    OBVIOUS
  <2>2. IsFiniteSet({i}) /\ IsFiniteSet(Places(K, ch[i]))
    BY <1>1, BytesType, FS_Singleton
  <2> QED
    BY <2>1, <2>2, FS_Product
<1>5. PlacesIn(K, ch) = UNION S
  BY <1>1 DEF PlacesIn
<1> HIDE DEF S
<1> QED
  BY <1>3, <1>4, <1>5, FS_UNION, FS_CardinalityType, BytesArePlaces

\* The places of one chunk, as the i-th of a channel.
LEMMA OneChunk ==
  ASSUME NEW K, NEW c \in Audio, NEW i
  PROVE  /\ IsFiniteSet({i} \X Places(K, c))
         /\ Cardinality({i} \X Places(K, c)) = Bytes(K, c)
<1>1. IsFiniteSet({i}) /\ Cardinality({i}) = 1
  BY FS_Singleton
<1>2. IsFiniteSet(Places(K, c)) /\ Bytes(K, c) \in Nat
  BY BytesType
<1>3. Cardinality({i} \X Places(K, c)) = 1 * Cardinality(Places(K, c))
  BY <1>1, <1>2, FS_Product
<1> QED
  BY <1>1, <1>2, <1>3, FS_Product, BytesArePlaces

\* Sending adds the bytes of the chunk.
LEMMA BytesInAppend ==
  ASSUME NEW K, NEW ch \in Channel, NEW c \in Audio
  PROVE  /\ Append(ch, c) \in Channel
         /\ BytesIn(K, Append(ch, c)) = BytesIn(K, ch) + Bytes(K, c)
<1> DEFINE n == Len(ch)
           S == {n + 1} \X Places(K, c)
           app == Append(ch, c)
<1>1. /\ n \in Nat /\ DOMAIN ch = 1 .. n
      /\ app \in Channel /\ DOMAIN app = 1 .. n + 1
      /\ \A i \in 1 .. n : app[i] = ch[i]
      /\ app[n + 1] = c
  <2>1. n \in Nat /\ DOMAIN ch = 1 .. n
    BY ChannelFacts
  <2>2. app \in Channel /\ Len(app) = n + 1 /\ (\A i \in 1 .. n : app[i] = ch[i])
        /\ app[n + 1] = c
    BY AppendProperties DEF Channel
  <2> QED
    BY <2>1, <2>2, ChannelFacts
<1> HIDE DEF n, app
<1>2. PlacesIn(K, app) = PlacesIn(K, ch) \cup S
  <2>1. ASSUME NEW p \in PlacesIn(K, app) PROVE p \in PlacesIn(K, ch) \cup S
    <3>1. PICK i \in 1 .. n + 1 : \E j \in Places(K, app[i]) : p = <<i, j>>
      BY <1>1, InPlaces
    <3>2. CASE i = n + 1
      BY <3>1, <3>2, <1>1
    <3>3. CASE i # n + 1
      <4>1. i \in DOMAIN ch /\ app[i] = ch[i]
        BY <3>3, <1>1
      <4> QED
        BY <3>1, <4>1, InPlaces
    <3> QED
      BY <3>2, <3>3
  <2>2. ASSUME NEW p \in PlacesIn(K, ch) PROVE p \in PlacesIn(K, app)
    <3>1. PICK i \in 1 .. n : \E j \in Places(K, ch[i]) : p = <<i, j>>
      BY <1>1, InPlaces
    <3>2. i \in DOMAIN app /\ app[i] = ch[i]
      BY <1>1
    <3> QED
      BY <3>1, <3>2, InPlaces
  <2>3. ASSUME NEW p \in S PROVE p \in PlacesIn(K, app)
    <3>1. PICK j \in Places(K, c) : p = <<n + 1, j>>
      OBVIOUS
    <3>2. n + 1 \in DOMAIN app /\ app[n + 1] = c
      BY <1>1
    <3> QED
      BY <3>1, <3>2, InPlaces
  <2> QED
    BY <2>1, <2>2, <2>3
<1>3. PlacesIn(K, ch) \cap S = {}
  <2> SUFFICES ASSUME NEW p \in PlacesIn(K, ch), p \in S PROVE FALSE
    OBVIOUS
  <2>1. PICK i \in 1 .. n : \E j \in Places(K, ch[i]) : p = <<i, j>>
    BY <1>1, InPlaces
  <2>2. PICK j \in Places(K, c) : p = <<n + 1, j>>
    OBVIOUS
  <2> QED
    BY <2>1, <2>2, <1>1
<1>4. IsFiniteSet(S) /\ Cardinality(S) = Bytes(K, c) /\ IsFiniteSet(PlacesIn(K, ch))
  BY OneChunk, BytesInType
<1> HIDE DEF S
<1>5. Cardinality(PlacesIn(K, app)) = Cardinality(PlacesIn(K, ch)) + Cardinality(S)
  BY <1>2, <1>3, <1>4, DisjointSize
<1> QED
  BY <1>1, <1>4, <1>5, BytesArePlaces DEF app

\* Receiving takes the bytes of the head away.
LEMMA BytesInTail ==
  ASSUME NEW K, NEW ch \in Channel, ch # << >>
  PROVE  BytesIn(K, ch) = Bytes(K, Head(ch)) + BytesIn(K, Tail(ch))
<1> DEFINE S == {1} \X Places(K, Head(ch))
           rest == PlacesIn(K, Tail(ch))
           T == {p \in PlacesIn(K, ch) : p[1] # 1}
           f == [p \in rest |-> <<p[1] + 1, p[2]>>]
<1>1. /\ Len(ch) \in Nat /\ Len(ch) > 0 /\ DOMAIN ch = 1 .. Len(ch)
      /\ Head(ch) = ch[1] /\ Head(ch) \in Audio
      /\ Tail(ch) \in Channel /\ DOMAIN Tail(ch) = 1 .. Len(ch) - 1
      /\ \A i \in 1 .. Len(ch) - 1 : Tail(ch)[i] = ch[i + 1]
  <2>1. /\ Len(ch) \in Nat /\ Len(ch) > 0 /\ DOMAIN ch = 1 .. Len(ch)
        /\ Head(ch) = ch[1] /\ Head(ch) \in Audio
        /\ Tail(ch) \in Channel /\ Len(Tail(ch)) = Len(ch) - 1
        /\ \A i \in 1 .. Len(Tail(ch)) : Tail(ch)[i] = ch[i + 1]
    BY ChannelFacts
  <2>2. DOMAIN Tail(ch) = 1 .. Len(Tail(ch))
    BY <2>1, ChannelFacts
  <2> QED
    BY <2>1, <2>2
<1>2. PlacesIn(K, ch) = S \cup T /\ S \cap T = {}
  <2>1. ASSUME NEW p \in S PROVE p \in PlacesIn(K, ch) /\ p[1] = 1
    <3>1. PICK j \in Places(K, ch[1]) : p = <<1, j>>
      BY <1>1
    <3>2. 1 \in DOMAIN ch
      BY <1>1
    <3> QED
      BY <3>1, <3>2, InPlaces
  <2>2. ASSUME NEW p \in PlacesIn(K, ch), p[1] = 1 PROVE p \in S
    <3>1. PICK i \in DOMAIN ch : \E j \in Places(K, ch[i]) : p = <<i, j>>
      BY InPlaces
    <3>2. i = 1
      BY <3>1, <2>2
    <3> QED
      BY <3>1, <3>2, <1>1
  <2> QED
    BY <2>1, <2>2
<1>r. ASSUME NEW p \in rest
      PROVE  \E i \in 1 .. Len(ch) - 1 : \E j \in Places(K, ch[i + 1]) : p = <<i, j>>
  <2> DEFINE tl == Tail(ch)
  <2> HIDE DEF tl
  <2>a. p \in PlacesIn(K, tl)
    BY <1>r DEF tl
  <2>b. \E i \in DOMAIN tl : \E j \in Places(K, tl[i]) : p = <<i, j>>
    BY <2>a, InPlaces
  <2>1. PICK i \in DOMAIN Tail(ch) : \E j \in Places(K, Tail(ch)[i]) : p = <<i, j>>
    BY <2>b DEF tl
  <2> QED
    BY <2>1, <1>1
<1>3. f \in [rest -> T]
  <2> SUFFICES ASSUME NEW p \in rest PROVE <<p[1] + 1, p[2]>> \in T
    OBVIOUS
  <2>1. PICK i \in 1 .. Len(ch) - 1 : \E j \in Places(K, ch[i + 1]) : p = <<i, j>>
    BY <1>r
  <2>2. PICK j \in Places(K, ch[i + 1]) : p = <<i, j>>
    BY <2>1
  <2>3. <<p[1] + 1, p[2]>> = <<i + 1, j>> /\ i + 1 # 1 /\ i + 1 \in DOMAIN ch
    BY <2>2, <1>1
  <2>4. <<i + 1, j>> \in PlacesIn(K, ch)
    BY <2>3, InPlaces
  <2> QED
    BY <2>3, <2>4
<1>4. ASSUME NEW x \in rest, NEW y \in rest, f[x] = f[y] PROVE x = y
  <2>1. PICK i \in 1 .. Len(ch) - 1 : \E j \in Places(K, ch[i + 1]) : x = <<i, j>>
    BY <1>r
  <2>a. PICK j \in Places(K, ch[i + 1]) : x = <<i, j>>
    BY <2>1
  <2>2. PICK k \in 1 .. Len(ch) - 1 : \E l \in Places(K, ch[k + 1]) : y = <<k, l>>
    BY <1>r
  <2>b. PICK l \in Places(K, ch[k + 1]) : y = <<k, l>>
    BY <2>2
  <2>3. <<i + 1, j>> = <<k + 1, l>>
    BY <2>a, <2>b, <1>4
  <2>4. i = k /\ j = l
    BY <2>3, <1>1
  <2> QED
    BY <2>a, <2>b, <2>4
<1>5. ASSUME NEW y \in T PROVE \E x \in rest : f[x] = y
  <2>1. PICK i \in DOMAIN ch : \E j \in Places(K, ch[i]) : y = <<i, j>>
    BY InPlaces
  <2>2. PICK j \in Places(K, ch[i]) : y = <<i, j>>
    BY <2>1
  <2>3. i # 1 /\ i \in 2 .. Len(ch)
    BY <2>2, <1>1
  <2>4. i - 1 \in DOMAIN Tail(ch) /\ Tail(ch)[i - 1] = ch[i]
    BY <2>3, <1>1
  <2>5. <<i - 1, j>> \in rest
    BY <2>4, InPlaces
  <2>6. f[<<i - 1, j>>] = <<i - 1 + 1, j>>
    BY <2>5
  <2> QED
    BY <2>2, <2>3, <2>5, <2>6
<1>6. IsFiniteSet(S) /\ Cardinality(S) = Bytes(K, Head(ch)) /\ IsFiniteSet(rest)
  BY <1>1, OneChunk, BytesInType
<1> HIDE DEF f, S, T, rest
<1>7. IsFiniteSet(T) /\ Cardinality(T) = Cardinality(rest)
  BY <1>3, <1>4, <1>5, <1>6, SameSize
<1>8. Cardinality(PlacesIn(K, ch)) = Cardinality(S) + Cardinality(T)
  BY <1>2, <1>6, <1>7, DisjointSize
<1> QED
  BY <1>6, <1>7, <1>8, BytesArePlaces DEF rest

\* A delta of one run has all its bytes in that run.
LEMMA BytesOfDelta ==
  ASSUME NEW K, NEW r \in Runs, NEW n \in Nat
  PROVE  LET d == [j \in 1 .. n |-> r]
         IN  /\ d \in Audio /\ Len(d) = n
             /\ Bytes(K, d) = IF r \in K THEN n ELSE 0
<1> DEFINE d == [j \in 1 .. n |-> r]
<1>1. d \in Audio /\ Len(d) = n
  BY DEF Audio
<1>2. Places(K, d) = IF r \in K THEN 1 .. n ELSE {}
  BY DEF Places
<1> HIDE DEF d
<1>3. Bytes(K, d) = IF r \in K THEN n ELSE 0
  BY <1>2, UpTo, FS_EmptySet, BytesArePlaces
<1> QED
  BY <1>1, <1>3 DEF d

-----------------------------------------------------------------------------
(***************************************************************************)
(* The inductive invariant.                                                *)
(***************************************************************************)

\* The bytes of run k that were not dropped by barge-in, and all of them.
Alive(k) == heard[k] + Moving(k) + BytesIn({k}, recvCh) + lost[k]
Total(k) == Alive(k) + dropped[k]

\* The pump holds a chunk and the player a frame only between two of their
\* steps; handleBargeIn leaves recvCh empty behind its first loop.
HeldInv ==
  /\ pump # "write" => chunk = << >>
  /\ play # "write" => frame = << >>
  /\ play = "off" => pump = "off"
  /\ recvPc \in {"read", "dead"} => drained = 0 /\ pending = 0
  /\ recvPc \in {"drain", "flush"} => pending = 0
  /\ recvPc \in {"flush", "report"} => recvCh = << >>

\* The current item is the current response's; each run is over because of a
\* response.done or an interruption, or is the current item's; and each new run
\* is paid for by a response or an interruption.
RunInv ==
  /\ item \in {0, resp} /\ (~inProgress => item = 0) /\ (inProgress => resp > 0)
  /\ item # 0 => run > cut /\ run \notin finished
  /\ \A k \in 1 .. run : k \in finished \/ k <= cut \/ (k = run /\ item # 0)
  /\ run + (IF inProgress /\ item = 0 THEN 1 ELSE 0)
         + (IF recvPc \in {"drain", "flush", "report"} THEN 1 ELSE 0) <= resp + speeches

\* No byte is of a run still to come, and those of the current item are the
\* ones recvLoop counted.
TotalInv ==
  /\ \A k \in Runs : k > run => Total(k) = 0
  /\ item # 0 => itemBytes = Total(run)

\* handleBargeIn subtracts what it dropped of the current item, and no more
\* unless it dropped an older one.
DropInv ==
  item # 0 => /\ dropped[run] <= drained + pending
              /\ (\A j \in Runs : j < run => dropped[j] = 0)
                   => drained + pending = dropped[run]

\* Of an interrupted run OpenAI was told, or that could not be written, or less
\* than a millisecond of it can ever be heard, or an older one was dropped too.
ToldInv ==
  \A k \in Runs \ finished : k <= cut =>
    \/ told[k] > 0 \/ k \in unsent
    \/ \E j \in Runs : j < k /\ dropped[j] > 0
    \/ Alive(k) < BytesPerMs

\* After an interruption only the chunk the pump held can be stale.
StaleInv ==
  /\ chunk # << >> => Len(chunk) \in ChunkSizes
  /\ \A i \in DOMAIN recvCh : Len(recvCh[i]) \in ChunkSizes
  /\ recvPc = "report" => \E n \in ChunkSizes : Len(buf) + Len(chunk) <= n
  /\ recvPc \in {"read", "dead"} =>
       /\ BytesIn(1 .. cut, recvCh) = 0
       /\ \E n \in ChunkSizes : Bytes(1 .. cut, buf) + Bytes(1 .. cut, chunk) <= n

Inv == /\ TypeOK /\ HeldInv /\ RunInv
       /\ TotalInv /\ DropInv /\ ToldInv /\ StaleInv

-----------------------------------------------------------------------------
(***************************************************************************)
(* Types.                                                                  *)
(***************************************************************************)
LEMMA InitInv == Init => Inv
<1> SUFFICES ASSUME Init PROVE Inv
  OBVIOUS
<1> USE SizeAssumption
<1>a. Audio = Seq(Runs) /\ << >> \in Audio /\ << >> \in Seq(Audio) /\ Len(<< >>) = 0
  BY DEF Audio
<1>b. \A K : Bytes(K, << >>) = 0 /\ BytesIn(K, << >>) = 0
  BY BytesEmpty
<1>c. None \in [Runs -> Nat] /\ \A k \in Runs : None[k] = 0
  BY DEF None
<1>1. TypeOK
  <2>1. /\ resp \in 0 .. MaxResponses /\ speeches \in 0 .. MaxSpeech
        /\ deltas \in 0 .. MaxDeltas
        /\ item \in 0 .. resp /\ itemBytes \in Nat
        /\ run \in {0} \cup Runs /\ cut \in 0 .. run
        /\ drained \in Nat /\ pending \in Nat /\ finished \subseteq 1 .. run
    BY DEF Init
  <2>2. /\ recvCh \in Seq(Audio) /\ Len(recvCh) <= RecvCap
        /\ chunk \in Audio /\ buf \in Audio /\ frame \in Audio
    BY <1>a DEF Init
  <2>3. {heard, lost, dropped, told} \subseteq [Runs -> Nat]
    BY <1>c DEF Init
  <2> QED
    BY <2>1, <2>2, <2>3 DEF Init, TypeOK
<1>2. HeldInv
  BY DEF Init, HeldInv
<1>3. RunInv
  BY DEF Init, RunInv
<1>4. TotalInv
  BY <1>b, <1>c DEF Init, TotalInv, Total, Alive, Moving
<1>5. DropInv
  BY DEF Init, DropInv
<1>6. ToldInv
  BY <1>c DEF Init, ToldInv, Runs
<1>7. StaleInv
  <2>1. PICK n \in ChunkSizes : n \in Nat
    OBVIOUS
  <2>2. DOMAIN << >> = {}
    OBVIOUS
  <2>3. Bytes(1 .. cut, buf) + Bytes(1 .. cut, chunk) <= n
    BY <2>1, <1>b DEF Init
  <2>4. \E m \in ChunkSizes : Bytes(1 .. cut, buf) + Bytes(1 .. cut, chunk) <= m
    BY <2>1, <2>3
  <2> QED
    BY <2>2, <2>4, <1>b DEF Init, StaleInv
<1> QED
  BY <1>1, <1>2, <1>3, <1>4, <1>5, <1>6, <1>7 DEF Inv

\* What TypeOK says of the audio and of the counts of every run.
LEMMA AudioTypes ==
  ASSUME TypeOK
  PROVE  /\ recvCh \in Channel /\ {chunk, buf, frame} \subseteq Audio
         /\ \A k \in Runs : {heard[k], lost[k], dropped[k], told[k]} \subseteq Nat
         /\ \A K : /\ BytesIn(K, recvCh) \in Nat
                   /\ {Bytes(K, chunk), Bytes(K, buf), Bytes(K, frame)} \subseteq Nat
         /\ \A k \in Runs : {Moving(k), Alive(k), Total(k)} \subseteq Nat
<1>1. recvCh \in Channel /\ chunk \in Audio /\ buf \in Audio /\ frame \in Audio
  BY DEF TypeOK, Channel
<1>2. /\ heard \in [Runs -> Nat] /\ lost \in [Runs -> Nat]
      /\ dropped \in [Runs -> Nat] /\ told \in [Runs -> Nat]
  BY DEF TypeOK
<1>3. \A K : /\ BytesIn(K, recvCh) \in Nat
             /\ Bytes(K, chunk) \in Nat /\ Bytes(K, buf) \in Nat /\ Bytes(K, frame) \in Nat
  BY <1>1, BytesType, BytesInType
<1>4. \A k \in Runs : Moving(k) \in Nat
  BY <1>3 DEF Moving
<1>5. \A k \in Runs : Alive(k) \in Nat
  BY <1>2, <1>3, <1>4 DEF Alive
<1>6. \A k \in Runs : Total(k) \in Nat
  BY <1>2, <1>5 DEF Total
<1> QED
  BY <1>1, <1>2, <1>3, <1>4, <1>5, <1>6

\* Plus adds the bytes of each run.
LEMMA PlusType ==
  ASSUME NEW f \in [Runs -> Nat], NEW s \in Audio
  PROVE  /\ Plus(f, s) \in [Runs -> Nat]
         /\ \A k \in Runs : Plus(f, s)[k] = f[k] + Bytes({k}, s)
<1>1. \A k \in Runs : Bytes({k}, s) \in Nat
  BY BytesType
<1> QED
  BY <1>1 DEF Plus

-----------------------------------------------------------------------------
(***************************************************************************)
(* No byte is lost track of.                                               *)
(***************************************************************************)
audioVars == <<recvCh, chunk, buf, frame, heard, lost, dropped>>

\* The variables that hold or count audio keep their types.
AudioOK ==
  /\ recvCh \in Seq(Audio) /\ Len(recvCh) <= RecvCap
  /\ chunk \in Audio /\ buf \in Audio /\ frame \in Audio
  /\ heard \in [Runs -> Nat] /\ lost \in [Runs -> Nat] /\ dropped \in [Runs -> Nat]

\* The part of the types that is about audio.
LEMMA TypeOKAudio == TypeOK => AudioOK /\ told \in [Runs -> Nat] /\ unsent \subseteq Runs
  BY DEF TypeOK, AudioOK

\* A step that moves no audio changes no count of it.
LEMMA StillAudio ==
  ASSUME AudioOK, UNCHANGED audioVars
  PROVE  AudioOK' /\ \A k : Alive(k)' = Alive(k) /\ Total(k)' = Total(k)
  BY DEF AudioOK, audioVars, Alive, Total, Moving

\* Moved: the audio changes places, and barge-in may drop some of it.
Moved ==
  /\ AudioOK'
  /\ \A k \in Runs : /\ Total(k)' = Total(k) /\ Alive(k)' <= Alive(k)
                     /\ dropped'[k] >= dropped[k]

\* A step that only moves the bytes of run k between the places where they are
\* counted keeps their number; what it adds to dropped is no longer alive.
LEMMA Shift ==
  ASSUME TypeOK, NEW k \in Runs,
         heard'[k] + (Bytes({k}, chunk') + Bytes({k}, buf') + Bytes({k}, frame'))
           + BytesIn({k}, recvCh') + lost'[k] + dropped'[k]
         = heard[k] + (Bytes({k}, chunk) + Bytes({k}, buf) + Bytes({k}, frame))
           + BytesIn({k}, recvCh) + lost[k] + dropped[k],
         AudioOK', dropped'[k] >= dropped[k]
  PROVE  Total(k)' = Total(k) /\ Alive(k)' <= Alive(k)
<1>1. /\ Total(k) = Alive(k) + dropped[k] /\ Total(k)' = Alive(k)' + dropped'[k]
      /\ Alive(k) = heard[k] + (Bytes({k}, chunk) + Bytes({k}, buf) + Bytes({k}, frame))
                      + BytesIn({k}, recvCh) + lost[k]
      /\ Alive(k)' = heard'[k] + (Bytes({k}, chunk') + Bytes({k}, buf') + Bytes({k}, frame'))
                       + BytesIn({k}, recvCh') + lost'[k]
  BY DEF Moving, Alive, Total
<1>2. /\ heard[k] \in Nat /\ lost[k] \in Nat /\ dropped[k] \in Nat
      /\ BytesIn({k}, recvCh) \in Nat
      /\ Bytes({k}, chunk) \in Nat /\ Bytes({k}, buf) \in Nat /\ Bytes({k}, frame) \in Nat
  BY AudioTypes
<1>3. /\ heard'[k] \in Nat /\ lost'[k] \in Nat /\ dropped'[k] \in Nat
      /\ BytesIn({k}, recvCh') \in Nat
      /\ Bytes({k}, chunk') \in Nat /\ Bytes({k}, buf') \in Nat /\ Bytes({k}, frame') \in Nat
  <2>1. recvCh' \in Channel /\ chunk' \in Audio /\ buf' \in Audio /\ frame' \in Audio
    BY DEF AudioOK, Channel
  <2>2. heard'[k] \in Nat /\ lost'[k] \in Nat /\ dropped'[k] \in Nat
    BY DEF AudioOK
  <2> QED
    BY <2>1, <2>2, BytesType, BytesInType
<1>4. Alive(k)' + dropped'[k] = Alive(k) + dropped[k]
  BY <1>1
<1>5. Total(k)' = Total(k)
  BY <1>1, <1>4
<1>6. Alive(k) \in Nat /\ Alive(k)' \in Nat
  BY <1>1, <1>2, <1>3
<1>7. Alive(k)' <= Alive(k)
  BY <1>2, <1>3, <1>4, <1>6
<1> QED
  BY <1>5, <1>7

\* One receive of the loop that empties recvCh drops a chunk.
LEMMA DrainMoves ==
  ASSUME TypeOK, Drain
  PROVE  Moved
<1>0. recvCh \in Channel /\ \A k \in Runs : Total(k) \in Nat /\ Alive(k) \in Nat /\ dropped[k] \in Nat
  BY AudioTypes
<1>1. CASE recvCh = << >>
  <2>1. UNCHANGED audioVars
    BY <1>1 DEF Drain, audioVars, pumpVars, playVars
  <2>2. \A k \in Runs : dropped'[k] = dropped[k]
    BY <2>1 DEF audioVars
  <2> QED
    BY <1>0, <2>1, <2>2, StillAudio, TypeOKAudio DEF Moved
<1>2. CASE recvCh # << >>
  <2>1. /\ dropped' = Plus(dropped, Head(recvCh)) /\ recvCh' = Tail(recvCh)
        /\ UNCHANGED <<chunk, buf, frame, heard, lost>>
    BY <1>2 DEF Drain, pumpVars, playVars
  <2>2. Head(recvCh) \in Audio /\ Tail(recvCh) \in Channel /\ Len(Tail(recvCh)) = Len(recvCh) - 1
        /\ Len(recvCh) \in Nat
    BY <1>0, <1>2, ChannelFacts
  <2>3. dropped' \in [Runs -> Nat]
        /\ \A k \in Runs : dropped'[k] = dropped[k] + Bytes({k}, Head(recvCh))
    BY <2>1, <2>2, PlusType, TypeOKAudio DEF AudioOK
  <2>4. \A k : BytesIn({k}, recvCh) = Bytes({k}, Head(recvCh)) + BytesIn({k}, recvCh')
    BY <1>0, <1>2, <2>1, BytesInTail
  <2>5. \A k : Bytes({k}, Head(recvCh)) \in Nat /\ BytesIn({k}, recvCh') \in Nat
    BY <2>1, <2>2, BytesType, BytesInType
  <2>6. AudioOK'
    <3>1. recvCh' \in Seq(Audio)
      BY <2>1, <2>2 DEF Channel
    <3>2. RecvCap \in Nat
      BY SizeAssumption
    <3> QED
      BY <3>1, <3>2, <2>1, <2>2, <2>3, TypeOKAudio DEF AudioOK
  <2>7. ASSUME NEW k \in Runs
        PROVE  /\ Total(k)' = Total(k) /\ Alive(k)' <= Alive(k) /\ dropped'[k] >= dropped[k]
    <3>1. /\ heard'[k] = heard[k] /\ lost'[k] = lost[k]
          /\ chunk' = chunk /\ buf' = buf /\ frame' = frame
      BY <2>1
    <3>2. /\ dropped'[k] = dropped[k] + Bytes({k}, Head(recvCh))
          /\ BytesIn({k}, recvCh) = Bytes({k}, Head(recvCh)) + BytesIn({k}, recvCh')
          /\ Bytes({k}, Head(recvCh)) \in Nat /\ BytesIn({k}, recvCh') \in Nat
      BY <2>3, <2>4, <2>5
    <3>3. /\ heard[k] \in Nat /\ lost[k] \in Nat /\ dropped[k] \in Nat
          /\ Bytes({k}, chunk) \in Nat /\ Bytes({k}, buf) \in Nat /\ Bytes({k}, frame) \in Nat
      BY AudioTypes
    <3>4. heard'[k] + (Bytes({k}, chunk') + Bytes({k}, buf') + Bytes({k}, frame'))
            + BytesIn({k}, recvCh') + lost'[k] + dropped'[k]
          = heard[k] + (Bytes({k}, chunk) + Bytes({k}, buf) + Bytes({k}, frame))
            + BytesIn({k}, recvCh) + lost[k] + dropped[k]
      BY <3>1, <3>2, <3>3
    <3>5. dropped'[k] >= dropped[k]
      BY <3>2, <3>3
    <3> QED
      BY <2>6, <3>4, <3>5, Shift
  <2> QED
    BY <2>6, <2>7 DEF Moved
<1> QED
  BY <1>1, <1>2

\* adapter.Drain drops what is buffered.
LEMMA FlushMoves ==
  ASSUME TypeOK, Flush
  PROVE  Moved
<1>1. /\ dropped' = Plus(dropped, buf) /\ buf' = << >>
      /\ UNCHANGED <<recvCh, chunk, frame, heard, lost>>
  BY DEF Flush, pumpVars, playVars
<1>2. dropped' \in [Runs -> Nat] /\ \A k \in Runs : dropped'[k] = dropped[k] + Bytes({k}, buf)
  BY <1>1, PlusType, TypeOKAudio DEF AudioOK
<1>3. AudioOK'
  <2>1. << >> \in Audio
    BY DEF Audio
  <2> QED
    BY <1>1, <1>2, <2>1, TypeOKAudio DEF AudioOK
<1>4. ASSUME NEW k \in Runs
      PROVE  /\ Total(k)' = Total(k) /\ Alive(k)' <= Alive(k) /\ dropped'[k] >= dropped[k]
  <2>1. /\ heard'[k] = heard[k] /\ lost'[k] = lost[k] /\ recvCh' = recvCh
        /\ chunk' = chunk /\ frame' = frame
        /\ dropped'[k] = dropped[k] + Bytes({k}, buf) /\ Bytes({k}, buf') = 0
    BY <1>1, <1>2, BytesEmpty
  <2>2. /\ heard[k] \in Nat /\ lost[k] \in Nat /\ dropped[k] \in Nat
        /\ BytesIn({k}, recvCh) \in Nat
        /\ Bytes({k}, chunk) \in Nat /\ Bytes({k}, buf) \in Nat /\ Bytes({k}, frame) \in Nat
    BY AudioTypes
  <2>3. heard'[k] + (Bytes({k}, chunk') + Bytes({k}, buf') + Bytes({k}, frame'))
          + BytesIn({k}, recvCh') + lost'[k] + dropped'[k]
        = heard[k] + (Bytes({k}, chunk) + Bytes({k}, buf) + Bytes({k}, frame))
          + BytesIn({k}, recvCh) + lost[k] + dropped[k]
    BY <2>1, <2>2
  <2>4. dropped'[k] >= dropped[k]
    BY <2>1, <2>2
  <2> QED
    BY <1>3, <2>3, <2>4, Shift
<1> QED
  BY <1>3, <1>4 DEF Moved

\* RecvAudio takes a chunk from recvCh to the pump.
LEMMA PumpRecvMoves ==
  ASSUME TypeOK, HeldInv, PumpRecv
  PROVE  Moved
<1>1. /\ recvCh # << >> /\ chunk = << >>
      /\ chunk' = Head(recvCh) /\ recvCh' = Tail(recvCh)
      /\ UNCHANGED <<buf, frame, heard, lost, dropped>>
  BY DEF PumpRecv, HeldInv, playVars
<1>2. /\ Head(recvCh) \in Audio /\ Tail(recvCh) \in Channel
      /\ Len(Tail(recvCh)) = Len(recvCh) - 1 /\ Len(recvCh) \in Nat
  BY <1>1, AudioTypes, ChannelFacts
<1>3. AudioOK'
  <2>1. RecvCap \in Nat
    BY SizeAssumption
  <2> QED
    BY <1>1, <1>2, <2>1, TypeOKAudio DEF AudioOK, Channel
<1>4. ASSUME NEW k \in Runs
      PROVE  /\ Total(k)' = Total(k) /\ Alive(k)' <= Alive(k) /\ dropped'[k] >= dropped[k]
  <2>1. /\ heard'[k] = heard[k] /\ lost'[k] = lost[k] /\ dropped'[k] = dropped[k]
        /\ buf' = buf /\ frame' = frame
        /\ BytesIn({k}, recvCh) = Bytes({k}, chunk') + BytesIn({k}, recvCh')
        /\ Bytes({k}, chunk) = 0
        /\ Bytes({k}, chunk') \in Nat /\ BytesIn({k}, recvCh') \in Nat
    BY <1>1, <1>2, AudioTypes, BytesInTail, BytesEmpty, BytesType, BytesInType
  <2>2. /\ heard[k] \in Nat /\ lost[k] \in Nat /\ dropped[k] \in Nat
        /\ BytesIn({k}, recvCh) \in Nat
        /\ Bytes({k}, chunk) \in Nat /\ Bytes({k}, buf) \in Nat /\ Bytes({k}, frame) \in Nat
    BY AudioTypes
  <2>3. heard'[k] + (Bytes({k}, chunk') + Bytes({k}, buf') + Bytes({k}, frame'))
          + BytesIn({k}, recvCh') + lost'[k] + dropped'[k]
        = heard[k] + (Bytes({k}, chunk) + Bytes({k}, buf) + Bytes({k}, frame))
          + BytesIn({k}, recvCh) + lost[k] + dropped[k]
    BY <2>1, <2>2
  <2>4. dropped'[k] >= dropped[k]
    BY <2>1, <2>2
  <2> QED
    BY <1>3, <2>3, <2>4, Shift
<1> QED
  BY <1>3, <1>4 DEF Moved

\* TryRead takes a frame from the adapter to the player.
LEMMA TryReadMoves ==
  ASSUME TypeOK, HeldInv, TryReadFrame
  PROVE  Moved
<1>1. /\ frame = << >> /\ Len(buf) >= FrameBytes
      /\ frame' = SubSeq(buf, 1, FrameBytes)
      /\ buf' = SubSeq(buf, FrameBytes + 1, Len(buf))
      /\ UNCHANGED <<recvCh, chunk, heard, lost, dropped>>
  BY DEF TryReadFrame, HeldInv, pumpVars
<1>2. /\ frame' \in Audio /\ buf' \in Audio
      /\ \A K : Bytes(K, buf) = Bytes(K, frame') + Bytes(K, buf')
  <2>1. buf \in Audio /\ Len(buf) \in Nat /\ FrameBytes \in 0 .. Len(buf)
    BY <1>1, AudioTypes, BytesType, SizeAssumption
  <2> QED
    BY <1>1, <2>1, BytesSplit
<1>3. AudioOK'
  BY <1>1, <1>2, TypeOKAudio DEF AudioOK
<1>4. ASSUME NEW k \in Runs
      PROVE  /\ Total(k)' = Total(k) /\ Alive(k)' <= Alive(k) /\ dropped'[k] >= dropped[k]
  <2>1. /\ heard'[k] = heard[k] /\ lost'[k] = lost[k] /\ dropped'[k] = dropped[k]
        /\ chunk' = chunk /\ recvCh' = recvCh
        /\ Bytes({k}, buf) = Bytes({k}, frame') + Bytes({k}, buf')
        /\ Bytes({k}, frame) = 0
        /\ Bytes({k}, frame') \in Nat /\ Bytes({k}, buf') \in Nat
    BY <1>1, <1>2, BytesEmpty, BytesType
  <2>2. /\ heard[k] \in Nat /\ lost[k] \in Nat /\ dropped[k] \in Nat
        /\ BytesIn({k}, recvCh) \in Nat
        /\ Bytes({k}, chunk) \in Nat /\ Bytes({k}, buf) \in Nat /\ Bytes({k}, frame) \in Nat
    BY AudioTypes
  <2>3. heard'[k] + (Bytes({k}, chunk') + Bytes({k}, buf') + Bytes({k}, frame'))
          + BytesIn({k}, recvCh') + lost'[k] + dropped'[k]
        = heard[k] + (Bytes({k}, chunk) + Bytes({k}, buf) + Bytes({k}, frame))
          + BytesIn({k}, recvCh) + lost[k] + dropped[k]
    BY <2>1, <2>2
  <2>4. dropped'[k] >= dropped[k]
    BY <2>1, <2>2
  <2> QED
    BY <1>3, <2>3, <2>4, Shift
<1> QED
  BY <1>3, <1>4 DEF Moved

\* A frame that is written is heard.
LEMMA WriteFrameMoves ==
  ASSUME TypeOK, HeldInv, WriteFrame
  PROVE  Moved
<1>1. /\ heard' = Plus(heard, frame) /\ frame' = << >>
      /\ UNCHANGED <<recvCh, chunk, buf, lost, dropped>>
  BY DEF WriteFrame, pumpVars
<1>2. /\ heard' \in [Runs -> Nat] /\ << >> \in Audio
      /\ \A k \in Runs : heard'[k] = heard[k] + Bytes({k}, frame)
  <2>1. heard \in [Runs -> Nat] /\ frame \in Audio /\ << >> \in Audio
    BY TypeOKAudio DEF AudioOK, Audio
  <2> QED
    BY <1>1, <2>1, PlusType
<1>3. AudioOK'
  BY <1>1, <1>2, TypeOKAudio DEF AudioOK
<1>4. ASSUME NEW k \in Runs
      PROVE  /\ Total(k)' = Total(k) /\ Alive(k)' <= Alive(k) /\ dropped'[k] >= dropped[k]
  <2>1. /\ heard'[k] = heard[k] + Bytes({k}, frame) /\ Bytes({k}, frame') = 0
        /\ lost'[k] = lost[k] /\ dropped'[k] = dropped[k]
        /\ chunk' = chunk /\ recvCh' = recvCh /\ buf' = buf
    BY <1>1, <1>2, BytesEmpty
  <2>2. /\ heard[k] \in Nat /\ lost[k] \in Nat /\ dropped[k] \in Nat
        /\ BytesIn({k}, recvCh) \in Nat
        /\ Bytes({k}, chunk) \in Nat /\ Bytes({k}, buf) \in Nat /\ Bytes({k}, frame) \in Nat
    BY AudioTypes
  <2>3. heard'[k] + (Bytes({k}, chunk') + Bytes({k}, buf') + Bytes({k}, frame'))
          + BytesIn({k}, recvCh') + lost'[k] + dropped'[k]
        = heard[k] + (Bytes({k}, chunk) + Bytes({k}, buf) + Bytes({k}, frame))
          + BytesIn({k}, recvCh) + lost[k] + dropped[k]
    BY <2>1, <2>2
  <2>4. dropped'[k] >= dropped[k]
    BY <2>1, <2>2
  <2> QED
    BY <1>3, <2>3, <2>4, Shift
<1> QED
  BY <1>3, <1>4 DEF Moved

\* A frame that cannot be written is lost, and the call with it.
LEMMA WriteFailsMoves ==
  ASSUME TypeOK, HeldInv, WriteFails
  PROVE  Moved
<1>1. /\ lost' = Plus(lost, frame) /\ frame' = << >>
      /\ UNCHANGED <<recvCh, chunk, buf, heard, dropped>>
  BY DEF WriteFails, pumpVars
<1>2. /\ lost' \in [Runs -> Nat] /\ << >> \in Audio
      /\ \A k \in Runs : lost'[k] = lost[k] + Bytes({k}, frame)
  <2>1. lost \in [Runs -> Nat] /\ frame \in Audio /\ << >> \in Audio
    BY TypeOKAudio DEF AudioOK, Audio
  <2> QED
    BY <1>1, <2>1, PlusType
<1>3. AudioOK'
  BY <1>1, <1>2, TypeOKAudio DEF AudioOK
<1>4. ASSUME NEW k \in Runs
      PROVE  /\ Total(k)' = Total(k) /\ Alive(k)' <= Alive(k) /\ dropped'[k] >= dropped[k]
  <2>1. /\ lost'[k] = lost[k] + Bytes({k}, frame) /\ Bytes({k}, frame') = 0
        /\ heard'[k] = heard[k] /\ dropped'[k] = dropped[k]
        /\ chunk' = chunk /\ recvCh' = recvCh /\ buf' = buf
    BY <1>1, <1>2, BytesEmpty
  <2>2. /\ heard[k] \in Nat /\ lost[k] \in Nat /\ dropped[k] \in Nat
        /\ BytesIn({k}, recvCh) \in Nat
        /\ Bytes({k}, chunk) \in Nat /\ Bytes({k}, buf) \in Nat /\ Bytes({k}, frame) \in Nat
    BY AudioTypes
  <2>3. heard'[k] + (Bytes({k}, chunk') + Bytes({k}, buf') + Bytes({k}, frame'))
          + BytesIn({k}, recvCh') + lost'[k] + dropped'[k]
        = heard[k] + (Bytes({k}, chunk) + Bytes({k}, buf) + Bytes({k}, frame))
          + BytesIn({k}, recvCh) + lost[k] + dropped[k]
    BY <2>1, <2>2
  <2>4. dropped'[k] >= dropped[k]
    BY <2>1, <2>2
  <2> QED
    BY <1>3, <2>3, <2>4, Shift
<1> QED
  BY <1>3, <1>4 DEF Moved

\* adapter.Write appends the chunk of the pump.
LEMMA PumpWriteMoves ==
  ASSUME TypeOK, HeldInv, PumpWrite
  PROVE  Moved
<1>1. /\ chunk' = << >>
      /\ IF closed THEN lost' = Plus(lost, chunk) /\ buf' = buf
                   ELSE buf' = buf \o chunk /\ lost' = lost
      /\ UNCHANGED <<recvCh, frame, heard, dropped>>
  BY DEF PumpWrite, playVars
<1>2. /\ lost' \in [Runs -> Nat] /\ << >> \in Audio /\ buf' \in Audio
      /\ \A k \in Runs : /\ lost'[k] \in Nat
                         /\ lost'[k] + Bytes({k}, buf') = lost[k] + Bytes({k}, buf) + Bytes({k}, chunk)
  <2>1. /\ lost \in [Runs -> Nat] /\ buf \in Audio /\ chunk \in Audio /\ << >> \in Audio
        /\ \A k \in Runs : lost[k] \in Nat
        /\ \A K : Bytes(K, buf) \in Nat /\ Bytes(K, chunk) \in Nat
    BY TypeOKAudio, BytesType DEF AudioOK, Audio
  <2>2. CASE closed
    <3>1. lost' = Plus(lost, chunk) /\ buf' = buf
      BY <1>1, <2>2
    <3>2. lost' \in [Runs -> Nat] /\ \A k \in Runs : lost'[k] = lost[k] + Bytes({k}, chunk)
      BY <2>1, <3>1, PlusType
    <3> QED
      BY <2>1, <3>1, <3>2
  <2>3. CASE ~closed
    <3>1. lost' = lost /\ buf' = buf \o chunk
      BY <1>1, <2>3
    <3>2. buf' \in Audio /\ \A K : Bytes(K, buf') = Bytes(K, buf) + Bytes(K, chunk)
      BY <2>1, <3>1, BytesConcat
    <3> QED
      BY <2>1, <3>1, <3>2
  <2> QED
    BY <2>2, <2>3
<1>3. AudioOK'
  BY <1>1, <1>2, TypeOKAudio DEF AudioOK
<1>4. ASSUME NEW k \in Runs
      PROVE  /\ Total(k)' = Total(k) /\ Alive(k)' <= Alive(k) /\ dropped'[k] >= dropped[k]
  <2>1. /\ lost'[k] + Bytes({k}, buf') = lost[k] + Bytes({k}, buf) + Bytes({k}, chunk)
        /\ Bytes({k}, chunk') = 0 /\ Bytes({k}, buf') \in Nat /\ lost'[k] \in Nat
        /\ heard'[k] = heard[k] /\ dropped'[k] = dropped[k]
        /\ frame' = frame /\ recvCh' = recvCh
    BY <1>1, <1>2, BytesEmpty, BytesType
  <2>2. /\ heard[k] \in Nat /\ lost[k] \in Nat /\ dropped[k] \in Nat
        /\ BytesIn({k}, recvCh) \in Nat
        /\ Bytes({k}, chunk) \in Nat /\ Bytes({k}, buf) \in Nat /\ Bytes({k}, frame) \in Nat
    BY AudioTypes
  <2>3. heard'[k] + (Bytes({k}, chunk') + Bytes({k}, buf') + Bytes({k}, frame'))
          + BytesIn({k}, recvCh') + lost'[k] + dropped'[k]
        = heard[k] + (Bytes({k}, chunk) + Bytes({k}, buf) + Bytes({k}, frame))
          + BytesIn({k}, recvCh) + lost[k] + dropped[k]
    BY <2>1, <2>2
  <2>4. dropped'[k] >= dropped[k]
    BY <2>1, <2>2
  <2> QED
    BY <1>3, <2>3, <2>4, Shift
<1> QED
  BY <1>3, <1>4 DEF Moved

\* Of all the steps only an audio delta brings bytes in.
LEMMA StepMoves ==
  ASSUME TypeOK, HeldInv, [Next]_vars, ~ \E n \in ChunkSizes : AudioDelta(n)
  PROVE  Moved
<1>1. CASE UNCHANGED audioVars
  <2>1. \A k \in Runs : {Alive(k), Total(k), dropped[k]} \subseteq Nat
    BY AudioTypes
  <2>2. \A k \in Runs : dropped'[k] = dropped[k]
    BY <1>1 DEF audioVars
  <2> QED
    BY <1>1, <2>1, <2>2, StillAudio, TypeOKAudio DEF Moved
<1>2. CASE \/ ResponseCreated \/ ResponseDone \/ SpeechStarted \/ ReadError \/ Report
           \/ NewCallSession \/ RunStarts \/ Cancel \/ RunReturns \/ PumpEnds
           \/ TryReadSilence \/ TryReadEOF \/ UNCHANGED vars
  <2>1. UNCHANGED audioVars
    BY <1>2 DEF ResponseCreated, ResponseDone, SpeechStarted, ReadError, Report,
                NewCallSession, RunStarts, Cancel, RunReturns, PumpEnds, TryReadSilence,
                TryReadEOF, vars, audioVars, pumpVars, playVars
  <2> QED
    BY <1>1, <2>1
<1>3. CASE Drain \/ Flush
  BY <1>3, DrainMoves, FlushMoves
<1>4. CASE PumpRecv \/ PumpWrite \/ TryReadFrame \/ WriteFrame \/ WriteFails
  BY <1>4, PumpRecvMoves, PumpWriteMoves, TryReadMoves, WriteFrameMoves, WriteFailsMoves
<1> QED
  BY <1>2, <1>3, <1>4 DEF Next, Server, BargeIn, Pump, Play

\* The run an audio delta belongs to.
RunOf == IF item = resp THEN run ELSE run + 1

\* An audio delta is of a run that has not been interrupted, and counts there.
LEMMA DeltaCounts ==
  ASSUME TypeOK, RunInv, NEW n \in ChunkSizes, AudioDelta(n)
  PROVE  /\ RunOf \in Runs /\ RunOf > cut /\ RunOf >= run /\ RunOf \in Nat
         /\ run' = RunOf /\ item' = resp /\ resp > 0 /\ n \in Nat
         /\ item # resp => item = 0 /\ RunOf = run + 1
         /\ AudioOK'
         /\ \A k \in Runs : /\ Total(k)' = Total(k) + (IF k = RunOf THEN n ELSE 0)
                            /\ Alive(k)' = Alive(k) + (IF k = RunOf THEN n ELSE 0)
<1> DEFINE d == [j \in 1 .. n |-> RunOf]
<1>1. /\ n \in Nat /\ recvPc = "read" /\ inProgress /\ run' = RunOf /\ item' = resp
      /\ UNCHANGED <<chunk, buf, frame, heard, dropped>>
      /\ \/ Len(recvCh) < RecvCap /\ recvCh' = Append(recvCh, d) /\ lost' = lost
         \/ lost' = Plus(lost, d) /\ recvCh' = recvCh
  BY SizeAssumption DEF AudioDelta, RunOf, pumpVars, playVars
<1>2. /\ resp \in Nat /\ speeches \in Nat /\ run \in Nat /\ cut \in 0 .. run /\ item \in 0 .. resp
      /\ resp <= MaxResponses /\ speeches <= MaxSpeech /\ MaxResponses \in Nat /\ MaxSpeech \in Nat
      /\ run = 0 \/ run \in Runs
  BY SizeAssumption DEF TypeOK, Runs
<1>3. /\ item \in {0, resp} /\ resp > 0 /\ (item # 0 => run > cut)
      /\ run + (IF inProgress /\ item = 0 THEN 1 ELSE 0) <= resp + speeches
  <2>1. run + (IF inProgress /\ item = 0 THEN 1 ELSE 0)
            + (IF recvPc \in {"drain", "flush", "report"} THEN 1 ELSE 0) <= resp + speeches
    BY DEF RunInv
  <2>2. recvPc \notin {"drain", "flush", "report"}
    BY <1>1
  <2> QED
    BY <1>1, <1>2, <2>1, <2>2 DEF RunInv
<1>4. /\ RunOf \in Runs /\ RunOf > cut /\ RunOf >= run /\ RunOf \in Nat
      /\ item # resp => item = 0 /\ RunOf = run + 1
  <2>1. CASE item = resp
    BY <1>2, <1>3, <2>1 DEF RunOf, Runs
  <2>2. CASE item # resp
    <3>1. item = 0 /\ run + 1 <= resp + speeches
      BY <1>1, <1>2, <1>3, <2>2
    <3> QED
      BY <1>2, <2>2, <3>1 DEF RunOf, Runs
  <2> QED
    BY <2>1, <2>2
<1>5. /\ d \in Audio
      /\ \A k \in Runs : Bytes({k}, d) = IF k = RunOf THEN n ELSE 0
  <2>1. \A K : d \in Audio /\ Bytes(K, d) = IF RunOf \in K THEN n ELSE 0
    BY <1>1, <1>4, BytesOfDelta
  <2> QED
    BY <2>1
<1> HIDE DEF d
<1>6. /\ recvCh \in Channel /\ Len(recvCh) \in Nat /\ lost \in [Runs -> Nat]
      /\ \A k \in Runs : lost[k] \in Nat /\ BytesIn({k}, recvCh) \in Nat
  BY AudioTypes, ChannelFacts, TypeOKAudio DEF AudioOK
<1>7. /\ recvCh' \in Channel /\ Len(recvCh') <= RecvCap /\ lost' \in [Runs -> Nat]
      /\ \A k \in Runs : lost'[k] + BytesIn({k}, recvCh')
                           = lost[k] + BytesIn({k}, recvCh) + (IF k = RunOf THEN n ELSE 0)
  <2>1. CASE Len(recvCh) < RecvCap /\ recvCh' = Append(recvCh, d) /\ lost' = lost
    <3>1. recvCh' \in Channel /\ \A K : BytesIn(K, recvCh') = BytesIn(K, recvCh) + Bytes(K, d)
      BY <2>1, <1>5, <1>6, BytesInAppend
    <3>2. Len(recvCh') = Len(recvCh) + 1
      BY <2>1, <1>5, <1>6, AppendProperties DEF Channel
    <3>3. RecvCap \in Nat
      BY SizeAssumption
    <3> QED
      BY <2>1, <3>1, <3>2, <3>3, <1>1, <1>5, <1>6
  <2>2. CASE lost' = Plus(lost, d) /\ recvCh' = recvCh
    <3>1. lost' \in [Runs -> Nat] /\ \A k \in Runs : lost'[k] = lost[k] + Bytes({k}, d)
      BY <2>2, <1>5, <1>6, PlusType
    <3>2. Len(recvCh) <= RecvCap
      BY DEF TypeOK
    <3>3. ASSUME NEW k \in Runs
          PROVE  lost'[k] + BytesIn({k}, recvCh')
                   = lost[k] + BytesIn({k}, recvCh) + (IF k = RunOf THEN n ELSE 0)
      <4>1. lost'[k] = lost[k] + (IF k = RunOf THEN n ELSE 0) /\ recvCh' = recvCh
        BY <2>2, <3>1, <1>5
      <4>2. lost[k] \in Nat /\ BytesIn({k}, recvCh) \in Nat
        BY <1>6
      <4> QED
        BY <4>1, <4>2, <1>1
    <3> QED
      BY <2>2, <3>1, <3>2, <3>3, <1>6
  <2> QED
    BY <1>1, <2>1, <2>2
<1>8. AudioOK'
  BY <1>1, <1>7, TypeOKAudio DEF AudioOK, Channel
<1>9. ASSUME NEW k \in Runs
      PROVE  /\ Total(k)' = Total(k) + (IF k = RunOf THEN n ELSE 0)
             /\ Alive(k)' = Alive(k) + (IF k = RunOf THEN n ELSE 0)
  <2> DEFINE e == IF k = RunOf THEN n ELSE 0
  <2>e. e \in Nat
    BY <1>1
  <2>1. /\ Total(k) = Alive(k) + dropped[k] /\ Total(k)' = Alive(k)' + dropped'[k]
        /\ Alive(k) = heard[k] + Moving(k) + BytesIn({k}, recvCh) + lost[k]
        /\ Alive(k)' = heard'[k] + Moving(k)' + BytesIn({k}, recvCh') + lost'[k]
    BY DEF Alive, Total
  <2>2. Moving(k)' = Moving(k) /\ heard'[k] = heard[k] /\ dropped'[k] = dropped[k]
    BY <1>1 DEF Moving
  <2>3. lost'[k] + BytesIn({k}, recvCh') = lost[k] + BytesIn({k}, recvCh) + e
    BY <1>7
  <2>4. /\ heard[k] \in Nat /\ lost[k] \in Nat /\ dropped[k] \in Nat /\ Moving(k) \in Nat
        /\ BytesIn({k}, recvCh) \in Nat
    BY AudioTypes
  <2>5. lost'[k] \in Nat /\ BytesIn({k}, recvCh') \in Nat
    BY <1>7, BytesInType
  <2> HIDE DEF e
  <2>6. Alive(k)' = Alive(k) + e
    BY <2>1, <2>2, <2>3, <2>4, <2>5, <2>e
  <2>7. Alive(k) \in Nat
    BY AudioTypes
  <2>8. Total(k)' = Total(k) + e
    BY <2>1, <2>2, <2>4, <2>6, <2>7, <2>e
  <2> QED
    BY <2>6, <2>8 DEF e
<1> QED
  BY <1>1, <1>3, <1>4, <1>8, <1>9

-----------------------------------------------------------------------------
(***************************************************************************)
(* Every step preserves the invariant.                                     *)
(***************************************************************************)
LEMMA AudioStep ==
  ASSUME Inv, [Next]_vars
  PROVE  AudioOK'
<1>1. CASE \E n \in ChunkSizes : AudioDelta(n)
  BY <1>1, DeltaCounts DEF Inv
<1>2. CASE ~ \E n \in ChunkSizes : AudioDelta(n)
  BY <1>2, StepMoves DEF Inv, Moved
<1> QED
  BY <1>1, <1>2

\* The program counters and flags.
FlagsOK ==
  /\ handler \in BOOLEAN /\ inProgress \in BOOLEAN
  /\ closed \in BOOLEAN /\ cancelled \in BOOLEAN
  /\ recvPc \in {"read", "drain", "flush", "report", "dead"}
  /\ pump \in {"off", "recv", "write", "ended"}
  /\ play \in {"off", "read", "write", "ended"}

\* What the server counts and what barge-in keeps.
CountsOK ==
  /\ resp \in 0 .. MaxResponses /\ speeches \in 0 .. MaxSpeech /\ deltas \in 0 .. MaxDeltas
  /\ item \in 0 .. resp /\ itemBytes \in Nat
  /\ run \in {0} \cup Runs /\ cut \in 0 .. run
  /\ drained \in Nat /\ pending \in Nat /\ finished \subseteq 1 .. run

\* The types, in three parts.
LEMMA TypeParts ==
  TypeOK <=> AudioOK /\ FlagsOK /\ CountsOK /\ told \in [Runs -> Nat] /\ unsent \subseteq Runs
  BY DEF TypeOK, AudioOK, FlagsOK, CountsOK

\* Each step keeps the types of the program counters and flags.
LEMMA FlagsStep ==
  ASSUME FlagsOK, [Next]_vars
  PROVE  FlagsOK'
<1> USE DEF FlagsOK
<1>1. CASE \E n \in ChunkSizes : AudioDelta(n)
  BY <1>1 DEF AudioDelta, pumpVars, playVars
<1>2. CASE ResponseCreated \/ ResponseDone \/ SpeechStarted \/ ReadError
  BY <1>2 DEF ResponseCreated, ResponseDone, SpeechStarted, ReadError, itemVars, pumpVars, playVars
<1>3. CASE Drain \/ Flush \/ Report
  BY <1>3 DEF Drain, Flush, Report, itemVars, pumpVars, playVars
<1>4. CASE NewCallSession \/ RunStarts \/ Cancel \/ RunReturns
  BY <1>4 DEF NewCallSession, RunStarts, Cancel, RunReturns, itemVars, pumpVars, playVars
<1>5. CASE PumpRecv \/ PumpEnds \/ PumpWrite
  BY <1>5 DEF PumpRecv, PumpEnds, PumpWrite, itemVars, playVars
<1>6. CASE TryReadFrame \/ TryReadSilence \/ TryReadEOF \/ WriteFrame \/ WriteFails
  BY <1>6 DEF TryReadFrame, TryReadSilence, TryReadEOF, WriteFrame, WriteFails, itemVars, pumpVars
<1>7. CASE UNCHANGED vars
  BY <1>7 DEF vars
<1> QED
  BY <1>1, <1>2, <1>3, <1>4, <1>5, <1>6, <1>7 DEF Next, Server, BargeIn, Pump, Play

\* Each step keeps the counters in their ranges.
LEMMA CountsStep ==
  ASSUME Inv, [Next]_vars
  PROVE  CountsOK'
<1> USE SizeAssumption
<1>a. CountsOK /\ recvCh \in Channel /\ buf \in Audio /\ TypeOK /\ RunInv
  BY TypeParts, AudioTypes DEF Inv
<1>1. ASSUME NEW n \in ChunkSizes, AudioDelta(n) PROVE CountsOK'
  <2>1. RunOf \in Runs /\ RunOf >= run /\ run' = RunOf /\ item' = resp /\ resp > 0 /\ n \in Nat
    BY <1>1, <1>a, DeltaCounts
  <2>2. /\ deltas' = deltas + 1 /\ deltas < MaxDeltas
        /\ itemBytes' = IF item = resp THEN itemBytes + n ELSE n
        /\ UNCHANGED <<resp, speeches, finished, drained, pending, cut>>
    BY <1>1 DEF AudioDelta, bargeVars
  <2>3. run \in Nat /\ RunOf \in Nat
    BY <1>a, <2>1 DEF CountsOK, Runs
  <2>4. cut' \in 0 .. run' /\ finished' \subseteq 1 .. run'
    BY <1>a, <2>1, <2>2, <2>3 DEF CountsOK
  <2> QED
    BY <1>a, <2>1, <2>2, <2>4 DEF CountsOK
<1>2. CASE ResponseCreated
  BY <1>2, <1>a DEF ResponseCreated, CountsOK, bargeVars
<1>3. CASE ResponseDone
  <2>1. item # 0 => run \in 1 .. run
    BY <1>a DEF CountsOK, Runs, RunInv
  <2> QED
    BY <1>3, <1>a, <2>1 DEF ResponseDone, CountsOK, bargeVars
<1>4. CASE SpeechStarted
  BY <1>4, <1>a DEF SpeechStarted, CountsOK, bargeVars, itemVars
<1>9. CASE ReadError
  BY <1>9, <1>a DEF ReadError, CountsOK, bargeVars, itemVars, serverVars
<1>5. CASE Drain
  <2>1. recvCh # << >> => Len(Head(recvCh)) \in Nat
    BY <1>a, ChannelFacts, BytesType
  <2> QED
    BY <1>5, <1>a, <2>1 DEF Drain, CountsOK, itemVars, serverVars
<1>6. CASE Flush
  <2>1. Len(buf) \in Nat
    BY <1>a, BytesType
  <2> QED
    BY <1>6, <1>a, <2>1 DEF Flush, CountsOK, itemVars, serverVars
<1>7. CASE Report
  BY <1>7, <1>a DEF Report, CountsOK, serverVars, Runs
<1>8. CASE \/ NewCallSession \/ RunStarts \/ Cancel \/ RunReturns \/ Pump \/ Play
           \/ UNCHANGED vars
  <2>1. UNCHANGED <<serverVars, itemVars, bargeVars>>
    BY <1>8 DEF NewCallSession, RunStarts, Cancel, RunReturns, Pump, Play, PumpRecv, PumpEnds,
                PumpWrite, TryReadFrame, TryReadSilence, TryReadEOF, WriteFrame, WriteFails,
                vars, serverVars, itemVars, bargeVars
  <2> QED
    BY <1>a, <2>1 DEF CountsOK, serverVars, itemVars, bargeVars
<1> QED
  BY <1>1, <1>2, <1>3, <1>4, <1>5, <1>6, <1>7, <1>8, <1>9 DEF Next, Server, BargeIn

\* Less than a millisecond of audio is reported as none.
LEMMA PlayedFacts ==
  ASSUME TypeOK
  PROVE  /\ PlayedBytes \in Nat /\ PlayedMs \in Nat
         /\ PlayedMs = 0 => PlayedBytes < BytesPerMs
<1>1. itemBytes \in Nat /\ drained \in Nat /\ pending \in Nat
  BY DEF TypeOK
<1>2. PlayedBytes \in Nat
  BY <1>1 DEF PlayedBytes
<1>3. BytesPerMs \in Nat /\ BytesPerMs > 0
  BY SizeAssumption
<1> QED
  BY <1>2, <1>3 DEF PlayedMs

\* Each step keeps the types.
LEMMA TypeStep ==
  ASSUME Inv, [Next]_vars
  PROVE  TypeOK'
<1>1. AudioOK' /\ FlagsOK' /\ CountsOK'
  BY AudioStep, FlagsStep, CountsStep, TypeParts DEF Inv
<1>2. told' \in [Runs -> Nat] /\ unsent' \subseteq Runs
  <2>a. told \in [Runs -> Nat] /\ unsent \subseteq Runs
    BY TypeParts DEF Inv
  <2>1. CASE Report
    <3>1. PlayedMs \in Nat /\ (Reports => run \in Runs)
      BY PlayedFacts DEF Inv, RunInv, TypeOK, Reports
    <3> QED
      BY <2>1, <2>a, <3>1 DEF Report
  <2>2. CASE ~Report
    <3>1. told' = told /\ unsent' = unsent
      BY <2>2 DEF Next, Server, BargeIn, NewCallSession, RunStarts, Cancel, RunReturns, Pump, Play,
                  ResponseCreated, AudioDelta, ResponseDone, SpeechStarted, ReadError,
                  Drain, Flush, PumpRecv, PumpEnds, PumpWrite, TryReadFrame, TryReadSilence,
                  TryReadEOF, WriteFrame, WriteFails, vars, bargeVars
    <3> QED
      BY <2>a, <3>1
  <2> QED
    BY <2>1, <2>2
<1> QED
  BY <1>1, <1>2 DEF TypeOK, AudioOK, FlagsOK, CountsOK

\* Each step keeps who holds audio at which point of the code.
LEMMA HeldStep ==
  ASSUME Inv, [Next]_vars
  PROVE  HeldInv'
<1> HeldInv /\ FlagsOK
  BY TypeParts DEF Inv
<1> USE DEF HeldInv, FlagsOK
<1>1. CASE \E n \in ChunkSizes : AudioDelta(n)
  BY <1>1 DEF AudioDelta, bargeVars, pumpVars, playVars
<1>2. CASE ResponseCreated \/ ResponseDone \/ SpeechStarted \/ ReadError
  BY <1>2 DEF ResponseCreated, ResponseDone, SpeechStarted, ReadError, bargeVars, pumpVars, playVars
<1>3. CASE Drain
  BY <1>3 DEF Drain, pumpVars, playVars
<1>4. CASE Flush \/ Report
  BY <1>4 DEF Flush, Report, pumpVars, playVars
<1>5. CASE NewCallSession \/ RunStarts \/ Cancel \/ RunReturns
  BY <1>5 DEF NewCallSession, RunStarts, Cancel, RunReturns, bargeVars, pumpVars, playVars
<1>6. CASE PumpRecv
  BY <1>6 DEF PumpRecv, bargeVars, playVars
<1>7. CASE PumpEnds \/ PumpWrite
  BY <1>7 DEF PumpEnds, PumpWrite, bargeVars, playVars
<1>8. CASE TryReadFrame \/ TryReadSilence \/ TryReadEOF
  BY <1>8 DEF TryReadFrame, TryReadSilence, TryReadEOF, bargeVars, pumpVars
<1>9. CASE WriteFrame \/ WriteFails
  BY <1>9 DEF WriteFrame, WriteFails, bargeVars, pumpVars
<1>10. CASE UNCHANGED vars
  BY <1>10 DEF vars
<1> QED
  BY <1>1, <1>2, <1>3, <1>4, <1>5, <1>6, <1>7, <1>8, <1>9, <1>10
     DEF Next, Server, BargeIn, Pump, Play

\* The steps of the session, the pump and the player leave what recvLoop keeps.
LEMMA LoopIsAlone ==
  ASSUME \/ NewCallSession \/ RunStarts \/ Cancel \/ RunReturns \/ Pump \/ Play
         \/ UNCHANGED vars
  PROVE  UNCHANGED <<serverVars, itemVars, recvPc, bargeVars>>
  BY DEF NewCallSession, RunStarts, Cancel, RunReturns, Pump, Play, PumpRecv, PumpEnds,
         PumpWrite, TryReadFrame, TryReadSilence, TryReadEOF, WriteFrame, WriteFails,
         vars, serverVars, itemVars, bargeVars

\* Each step keeps the run, the item and the response in line.
LEMMA RunStep ==
  ASSUME Inv, [Next]_vars
  PROVE  RunInv'
<1>a. /\ RunInv /\ resp \in Nat /\ speeches \in Nat /\ run \in Nat /\ cut \in 0 .. run
      /\ inProgress \in BOOLEAN /\ finished \subseteq 1 .. run
  BY SizeAssumption, TypeParts DEF Inv, FlagsOK, CountsOK, Runs
<1>1. ASSUME NEW n \in ChunkSizes, AudioDelta(n) PROVE RunInv'
  <2>1. /\ RunOf > cut /\ RunOf >= run /\ RunOf \in Nat /\ run' = RunOf /\ item' = resp /\ resp > 0
        /\ item # resp => item = 0 /\ RunOf = run + 1
    BY <1>1, DeltaCounts DEF Inv
  <2>2. /\ inProgress /\ recvPc = "read"
        /\ UNCHANGED <<resp, speeches, finished, inProgress, recvPc, cut>>
    BY <1>1 DEF AudioDelta, bargeVars
  <2>3. item = resp => RunOf = run
    BY DEF RunOf
  <2>4. run' > cut' /\ run' \notin finished'
    BY <1>a, <2>1, <2>2, <2>3 DEF RunInv
  <2>5. \A k \in 1 .. run' : k \in finished' \/ k <= cut' \/ (k = run' /\ item' # 0)
    <3> SUFFICES ASSUME NEW k \in 1 .. RunOf, k # RunOf
                 PROVE  k \in finished \/ k <= cut
      BY <2>1, <2>2
    <3>1. k \in 1 .. run /\ (k = run => item # resp)
      BY <1>a, <2>1, <2>3
    <3> QED
      BY <3>1, <2>1, <1>a DEF RunInv
  <2>6. RunOf <= resp + speeches
    <3>1. run + (IF inProgress /\ item = 0 THEN 1 ELSE 0)
              + (IF recvPc \in {"drain", "flush", "report"} THEN 1 ELSE 0) <= resp + speeches
      BY <1>a DEF RunInv
    <3>2. run + (IF item = 0 THEN 1 ELSE 0) <= resp + speeches
      BY <2>2, <3>1, <1>a
    <3> QED
      BY <3>2, <2>1, <2>3, <1>a
  <2>7. run' + (IF inProgress' /\ item' = 0 THEN 1 ELSE 0)
             + (IF recvPc' \in {"drain", "flush", "report"} THEN 1 ELSE 0) <= resp' + speeches'
    BY <2>1, <2>2, <2>6
  <2>8. item' \in {0, resp'} /\ (~inProgress' => item' = 0) /\ (inProgress' => resp' > 0)
    BY <2>1, <2>2
  <2> QED
    BY <2>4, <2>5, <2>7, <2>8 DEF RunInv
<1>2. CASE ResponseCreated
  BY <1>2, <1>a DEF ResponseCreated, RunInv, bargeVars
<1>3. CASE ResponseDone
  BY <1>3, <1>a DEF ResponseDone, RunInv, bargeVars
<1>4. CASE SpeechStarted
  BY <1>4, <1>a DEF SpeechStarted, RunInv, itemVars, bargeVars
<1>5. CASE ReadError \/ Drain \/ Flush
  BY <1>5, <1>a DEF ReadError, Drain, Flush, RunInv, serverVars, itemVars, bargeVars
<1>6. CASE Report
  BY <1>6, <1>a DEF Report, RunInv, serverVars
<1>7. CASE \/ NewCallSession \/ RunStarts \/ Cancel \/ RunReturns \/ Pump \/ Play
           \/ UNCHANGED vars
  <2>1. UNCHANGED <<serverVars, itemVars, recvPc, bargeVars>>
    BY <1>7, LoopIsAlone
  <2> QED
    BY <2>1, <1>a DEF RunInv, serverVars, itemVars, bargeVars
<1> QED
  BY <1>1, <1>2, <1>3, <1>4, <1>5, <1>6, <1>7 DEF Next, Server, BargeIn

\* Only an audio delta begins a run; the other steps keep the current item or
\* forget it.
LEMMA ItemStep ==
  ASSUME [Next]_vars, ~ \E n \in ChunkSizes : AudioDelta(n)
  PROVE  /\ run' = run
         /\ item' = 0 \/ (item' = item /\ itemBytes' = itemBytes)
<1>1. CASE \/ NewCallSession \/ RunStarts \/ Cancel \/ RunReturns \/ Pump \/ Play
           \/ UNCHANGED vars
  BY <1>1, LoopIsAlone DEF itemVars
<1>2. CASE ResponseCreated \/ ResponseDone \/ SpeechStarted \/ ReadError
  BY <1>2 DEF ResponseCreated, ResponseDone, SpeechStarted, ReadError, itemVars
<1>3. CASE Drain \/ Flush \/ Report
  BY <1>3 DEF Drain, Flush, Report, itemVars
<1> QED
  BY <1>1, <1>2, <1>3 DEF Next, Server, BargeIn

\* The count of the run that is current after a step.
LEMMA TotalAt ==
  ASSUME NEW k, k = run'
  PROVE  Total(run)' = Total(k)' /\ dropped[run]' = dropped'[k]
  BY DEF Total, Alive, Moving

\* Only a delta adds to a run, and recvLoop counts it.
LEMMA TotalStep ==
  ASSUME Inv, [Next]_vars
  PROVE  TotalInv'
<1>a. /\ TypeOK /\ HeldInv /\ RunInv /\ TotalInv /\ run \in Nat /\ resp \in Nat
      /\ run = 0 \/ run \in Runs
  BY SizeAssumption, TypeParts DEF Inv, CountsOK, Runs
<1>1. ASSUME NEW n \in ChunkSizes, AudioDelta(n) PROVE TotalInv'
  <2>1. /\ RunOf \in Runs /\ RunOf >= run /\ RunOf \in Nat /\ run' = RunOf /\ item' = resp /\ resp > 0
        /\ n \in Nat /\ item # resp => item = 0 /\ RunOf = run + 1
        /\ \A k \in Runs : Total(k)' = Total(k) + (IF k = RunOf THEN n ELSE 0)
    BY <1>1, <1>a, DeltaCounts
  <2>2. itemBytes' = IF item = resp THEN itemBytes + n ELSE n
    BY <1>1 DEF AudioDelta
  <2>3. ASSUME NEW k \in Runs, k > run' PROVE Total(k)' = 0
    <3>1. k > run /\ k # RunOf
      BY <2>1, <2>3, <1>a DEF Runs
    <3>2. Total(k) = 0
      BY <3>1, <1>a DEF TotalInv
    <3> QED
      BY <3>1, <3>2, <2>1
  <2>4. itemBytes' = Total(run)'
    <3>1. PICK r \in Runs : r = RunOf
      BY <2>1
    <3>2. Total(run)' = Total(r)'
      BY <3>1, <2>1, TotalAt
    <3>3. Total(r)' = Total(r) + n
      BY <3>1, <2>1
    <3>4. CASE item = resp
      <4>1. r = run /\ item # 0
        BY <3>1, <3>4, <2>1 DEF RunOf
      <4>2. itemBytes = Total(r)
        BY <4>1, <1>a DEF TotalInv
      <4> QED
        BY <3>2, <3>3, <3>4, <4>2, <2>2
    <3>5. CASE item # resp
      <4>0. RunOf = run + 1
        BY <3>5, <1>1, <1>a, DeltaCounts
      <4>1. r > run
        BY <3>1, <4>0, <1>a
      <4>2. Total(r) = 0
        BY <4>1, <1>a DEF TotalInv
      <4> QED
        BY <3>2, <3>3, <3>5, <4>2, <2>1, <2>2
    <3> QED
      BY <3>4, <3>5
  <2> QED
    BY <2>3, <2>4 DEF TotalInv
<1>2. CASE ~ \E n \in ChunkSizes : AudioDelta(n)
  <2>1. run' = run /\ (item' = 0 \/ (item' = item /\ itemBytes' = itemBytes))
    BY <1>2, ItemStep
  <2>2. \A k \in Runs : Total(k)' = Total(k)
    BY <1>2, <1>a, StepMoves DEF Moved
  <2>3. \A k \in Runs : k > run' => Total(k)' = 0
    BY <2>1, <2>2, <1>a DEF TotalInv
  <2>4. ASSUME item' # 0 PROVE itemBytes' = Total(run)'
    <3>1. item # 0 /\ itemBytes' = itemBytes /\ itemBytes = Total(run)
      BY <2>1, <2>4, <1>a DEF TotalInv
    <3>2. run \in Runs
      BY <3>1, <1>a DEF RunInv, TypeOK, Runs
    <3>3. PICK r \in Runs : r = run
      BY <3>2
    <3>4. Total(run)' = Total(r)' /\ Total(r)' = Total(r)
      BY <3>3, <2>1, <2>2, TotalAt
    <3> QED
      BY <3>1, <3>3, <3>4
  <2> QED
    BY <2>3, <2>4 DEF TotalInv
<1> QED
  BY <1>1, <1>2

\* A step that drops the audio s and adds its length to what handleBargeIn
\* subtracts.  What is not of the current item is of an older one.
LEMMA DropsAll ==
  ASSUME TypeOK, TotalInv, RunInv, DropInv, NEW s \in Audio,
         \A k \in Runs : Bytes({k}, s) <= Alive(k) /\ dropped'[k] = dropped[k] + Bytes({k}, s),
         drained' + pending' = drained + pending + Len(s),
         item' = item, run' = run
  PROVE  DropInv'
<1> SUFFICES ASSUME item # 0
             PROVE  /\ dropped'[run] <= drained' + pending'
                    /\ (\A j \in Runs : j < run => dropped'[j] = 0)
                         => drained' + pending' = dropped'[run]
  BY DEF DropInv
<1>1. run \in Runs /\ run \in Nat /\ drained \in Nat /\ pending \in Nat
  BY DEF RunInv, TypeOK, Runs
<1>2. /\ \A k \in Runs : {dropped[k], Alive(k)} \subseteq Nat
      /\ \A k \in Runs : Bytes({k}, s) \in Nat /\ Bytes({k}, s) <= Len(s)
      /\ Len(s) \in Nat
  BY AudioTypes, BytesType
<1>3. dropped'[run] = dropped[run] + Bytes({run}, s)
  BY <1>1
<1>4. dropped[run] <= drained + pending
  BY DEF DropInv
<1>5. dropped'[run] <= drained' + pending'
  BY <1>1, <1>2, <1>3, <1>4
<1>6. ASSUME \A j \in Runs : j < run => dropped'[j] = 0
      PROVE  drained' + pending' = dropped'[run]
  <2>1. ASSUME NEW j \in Runs, j # run PROVE Bytes({j}, s) = 0
    <3>1. j \in Nat
      BY DEF Runs
    <3>2. CASE j < run
      <4>1. dropped'[j] = 0 /\ dropped'[j] = dropped[j] + Bytes({j}, s)
        BY <1>6, <3>2
      <4>2. dropped[j] \in Nat /\ Bytes({j}, s) \in Nat
        BY <1>2
      <4> QED
        BY <4>1, <4>2
    <3>3. CASE j > run
      <4>1. Total(j) = 0 /\ Total(j) = Alive(j) + dropped[j]
        BY <3>3 DEF TotalInv, Total
      <4>2. dropped[j] \in Nat /\ Alive(j) \in Nat /\ Bytes({j}, s) \in Nat
        BY <1>2
      <4>3. Bytes({j}, s) <= Alive(j)
        OBVIOUS
      <4> QED
        BY <4>1, <4>2, <4>3
    <3> QED
      BY <2>1, <3>1, <3>2, <3>3, <1>1
  <2>2. Bytes({run}, s) = Len(s)
    BY <2>1, BytesOfOne
  <2>3. ASSUME NEW j \in Runs, j < run PROVE dropped[j] = 0
    <3>1. dropped'[j] = 0 /\ dropped'[j] = dropped[j] + Bytes({j}, s)
      BY <1>6, <2>3
    <3>2. dropped[j] \in Nat /\ Bytes({j}, s) \in Nat
      BY <1>2
    <3> QED
      BY <3>1, <3>2
  <2>4. drained + pending = dropped[run]
    BY <2>3 DEF DropInv
  <2> QED
    BY <1>1, <1>2, <1>3, <2>2, <2>4
<1> QED
  BY <1>5, <1>6

\* What barge-in drops, it subtracts.
LEMMA DropStep ==
  ASSUME Inv, [Next]_vars
  PROVE  DropInv'
<1>a. TypeOK /\ HeldInv /\ RunInv /\ TotalInv /\ DropInv
  BY DEF Inv
<1>1. ASSUME NEW n \in ChunkSizes, AudioDelta(n) PROVE DropInv'
  <2>1. /\ RunOf \in Runs /\ run' = RunOf /\ item' = resp /\ resp > 0
        /\ item # resp => item = 0 /\ RunOf = run + 1
    BY <1>1, <1>a, DeltaCounts
  <2>2. drained = 0 /\ pending = 0 /\ UNCHANGED <<drained, pending, dropped>>
    BY <1>1, <1>a DEF AudioDelta, HeldInv, bargeVars
  <2>3. CASE item = resp
    <3>1. run' = run /\ item # 0
      BY <2>1, <2>3 DEF RunOf
    <3> QED
      BY <1>a, <2>2, <3>1 DEF DropInv
  <2>4. CASE item # resp
    <3>1. RunOf > run
      BY <2>1, <2>4, <1>a, SizeAssumption DEF TypeOK, Runs
    <3>2. Total(RunOf) = 0 /\ Total(RunOf) = Alive(RunOf) + dropped[RunOf]
      BY <3>1, <2>1, <1>a DEF TotalInv, Total
    <3>3. Alive(RunOf) \in Nat /\ dropped[RunOf] \in Nat
      BY <2>1, <1>a, AudioTypes
    <3>4. dropped[RunOf] = 0
      BY <3>2, <3>3
    <3> QED
      BY <2>1, <2>2, <3>4 DEF DropInv
  <2> QED
    BY <2>3, <2>4
<1>2. CASE Drain
  <2>1. CASE recvCh = << >>
    BY <1>2, <2>1, <1>a DEF Drain, DropInv, itemVars
  <2>2. CASE recvCh # << >>
    <3>1. /\ dropped' = Plus(dropped, Head(recvCh)) /\ drained' = drained + Len(Head(recvCh))
          /\ pending' = pending /\ item' = item /\ run' = run
      BY <1>2, <2>2 DEF Drain, itemVars
    <3>2. recvCh \in Channel /\ Head(recvCh) \in Audio
      BY <1>a, <2>2, AudioTypes, ChannelFacts
    <3>3. ASSUME NEW k \in Runs
          PROVE  /\ Bytes({k}, Head(recvCh)) <= Alive(k)
                 /\ dropped'[k] = dropped[k] + Bytes({k}, Head(recvCh))
      <4>1. dropped'[k] = dropped[k] + Bytes({k}, Head(recvCh))
        BY <3>1, <3>2, <1>a, PlusType, TypeOKAudio DEF AudioOK
      <4>2. BytesIn({k}, recvCh) = Bytes({k}, Head(recvCh)) + BytesIn({k}, Tail(recvCh))
        BY <2>2, <3>2, BytesInTail
      <4>3. Bytes({k}, Head(recvCh)) \in Nat /\ BytesIn({k}, Tail(recvCh)) \in Nat
        BY <2>2, <3>2, ChannelFacts, BytesType, BytesInType
      <4>4. Alive(k) = heard[k] + Moving(k) + BytesIn({k}, recvCh) + lost[k]
        BY DEF Alive
      <4>5. heard[k] \in Nat /\ Moving(k) \in Nat /\ lost[k] \in Nat
        BY <1>a, AudioTypes
      <4> QED
        BY <4>1, <4>2, <4>3, <4>4, <4>5
    <3>4. drained' + pending' = drained + pending + Len(Head(recvCh))
      <4> DEFINE l == Len(Head(recvCh))
      <4>1. drained \in Nat /\ pending \in Nat
        BY <1>a DEF TypeOK
      <4>2. l \in Nat
        BY <3>2, BytesType
      <4>3. drained' = drained + l /\ pending' = pending
        BY <3>1
      <4> HIDE DEF l
      <4>4. drained' + pending' = drained + pending + l
        BY <4>1, <4>2, <4>3
      <4> QED
        BY <4>4 DEF l
    <3> QED
      BY <1>a, <3>1, <3>2, <3>3, <3>4, DropsAll
  <2> QED
    BY <2>1, <2>2
<1>3. CASE Flush
  <2>1. /\ dropped' = Plus(dropped, buf) /\ pending' = Len(buf) /\ pending = 0
        /\ drained' = drained /\ item' = item /\ run' = run
    BY <1>3, <1>a DEF Flush, itemVars, HeldInv
  <2>2. buf \in Audio /\ Len(buf) \in Nat /\ drained \in Nat
    BY <1>a, AudioTypes, BytesType DEF TypeOK
  <2>3. ASSUME NEW k \in Runs
        PROVE  Bytes({k}, buf) <= Alive(k) /\ dropped'[k] = dropped[k] + Bytes({k}, buf)
    <3>1. dropped'[k] = dropped[k] + Bytes({k}, buf)
      BY <2>1, <2>2, <1>a, PlusType, TypeOKAudio DEF AudioOK
    <3>2. Alive(k) = heard[k] + (Bytes({k}, chunk) + Bytes({k}, buf) + Bytes({k}, frame))
                      + BytesIn({k}, recvCh) + lost[k]
      BY DEF Alive, Moving
    <3>3. /\ heard[k] \in Nat /\ lost[k] \in Nat /\ BytesIn({k}, recvCh) \in Nat
          /\ Bytes({k}, chunk) \in Nat /\ Bytes({k}, buf) \in Nat /\ Bytes({k}, frame) \in Nat
      BY <1>a, AudioTypes
    <3> QED
      BY <3>1, <3>2, <3>3
  <2>4. drained' + pending' = drained + pending + Len(buf)
    BY <2>1, <2>2
  <2> QED
    BY <1>a, <2>1, <2>2, <2>3, <2>4, DropsAll
<1>4. CASE ResponseDone \/ Report
  BY <1>4 DEF ResponseDone, Report, DropInv
<1>5. CASE ResponseCreated \/ SpeechStarted \/ ReadError
  BY <1>5, <1>a DEF ResponseCreated, SpeechStarted, ReadError, DropInv, itemVars, bargeVars
<1>6. CASE \/ NewCallSession \/ RunStarts \/ Cancel \/ RunReturns \/ Pump \/ Play
           \/ UNCHANGED vars
  <2>1. UNCHANGED <<serverVars, itemVars, recvPc, bargeVars>>
    BY <1>6, LoopIsAlone
  <2>2. dropped' = dropped
    BY <1>6 DEF NewCallSession, RunStarts, Cancel, RunReturns, Pump, Play, PumpRecv, PumpEnds,
                PumpWrite, TryReadFrame, TryReadSilence, TryReadEOF, WriteFrame, WriteFails, vars
  <2> QED
    BY <1>a, <2>1, <2>2 DEF DropInv, itemVars, bargeVars
<1> QED
  BY <1>1, <1>2, <1>3, <1>4, <1>5, <1>6 DEF Next, Server, BargeIn

\* An item is reported before it is forgotten.
LEMMA ToldStep ==
  ASSUME Inv, [Next]_vars
  PROVE  ToldInv'
<1>a. TypeOK /\ HeldInv /\ RunInv /\ TotalInv /\ DropInv /\ ToldInv
  BY DEF Inv
<1>b. \A k \in Runs : dropped[k] \in Nat /\ Alive(k) \in Nat
  BY <1>a, AudioTypes
<1>c. run \in Nat /\ cut \in 0 .. run /\ BytesPerMs \in Nat
  BY <1>a, SizeAssumption DEF TypeOK, Runs
\* A step that reports nothing cannot make a run audible again.
<1>d. ASSUME UNCHANGED <<told, unsent, cut>>, finished \subseteq finished',
             \A k \in Runs : dropped'[k] >= dropped[k] /\ (k <= cut => Alive(k)' <= Alive(k)),
             TypeOK'
      PROVE  ToldInv'
  <2> SUFFICES ASSUME NEW k \in Runs, k \notin finished', k <= cut
               PROVE  \/ told[k] > 0 \/ k \in unsent
                      \/ \E j \in Runs : j < k /\ dropped'[j] > 0
                      \/ Alive(k)' < BytesPerMs
    BY <1>d DEF ToldInv
  <2>1. CASE told[k] > 0 \/ k \in unsent
    BY <2>1
  <2>2. ASSUME NEW j \in Runs, j < k, dropped[j] > 0
        PROVE  dropped'[j] > 0
    <3>1. dropped'[j] \in Nat /\ dropped[j] \in Nat /\ dropped'[j] >= dropped[j]
      BY <1>b, <1>d DEF TypeOK
    <3> QED
      BY <2>2, <3>1
  <2>3. CASE Alive(k) < BytesPerMs
    <3>1. Alive(k)' <= Alive(k)
      BY <1>d
    <3>2. Alive(k)' \in Nat
      <4>1. AudioOK'
        BY <1>d DEF TypeOK, AudioOK
      <4>2. recvCh' \in Channel /\ chunk' \in Audio /\ buf' \in Audio /\ frame' \in Audio
            /\ heard'[k] \in Nat /\ lost'[k] \in Nat
        BY <4>1 DEF AudioOK, Channel
      <4>3. /\ BytesIn({k}, recvCh') \in Nat /\ Bytes({k}, chunk') \in Nat
            /\ Bytes({k}, buf') \in Nat /\ Bytes({k}, frame') \in Nat
        BY <4>2, BytesType, BytesInType
      <4>4. Alive(k)' = heard'[k] + (Bytes({k}, chunk') + Bytes({k}, buf') + Bytes({k}, frame'))
                          + BytesIn({k}, recvCh') + lost'[k]
        BY DEF Alive, Moving
      <4> QED
        BY <4>2, <4>3, <4>4
    <3>3. Alive(k) \in Nat
      BY <1>b
    <3> QED
      BY <2>3, <3>1, <3>2, <3>3, <1>c
  <2>4. \/ told[k] > 0 \/ k \in unsent
        \/ (\E j \in Runs : j < k /\ dropped[j] > 0) \/ Alive(k) < BytesPerMs
    BY <1>a, <1>d DEF ToldInv
  <2> QED
    BY <2>1, <2>2, <2>3, <2>4
<1>1. ASSUME NEW n \in ChunkSizes, AudioDelta(n) PROVE ToldInv'
  <2>1. UNCHANGED <<told, unsent, cut, finished, dropped>>
    BY <1>1 DEF AudioDelta, bargeVars
  <2>2. RunOf > cut /\ RunOf \in Nat /\ n \in Nat
    BY <1>1, <1>a, DeltaCounts
  <2>3. ASSUME NEW k \in Runs PROVE dropped'[k] >= dropped[k] /\ (k <= cut => Alive(k)' <= Alive(k))
    <3>1. Alive(k)' = Alive(k) + (IF k = RunOf THEN n ELSE 0)
      BY <1>1, <1>a, DeltaCounts
    <3>2. k <= cut => k # RunOf
      BY <1>c, <2>2
    <3>3. Alive(k) \in Nat /\ dropped[k] \in Nat /\ dropped' = dropped
      BY <1>b, <2>1
    <3>4. k <= cut => Alive(k)' <= Alive(k)
      BY <3>1, <3>2, <3>3
    <3> QED
      BY <3>3, <3>4
  <2> QED
    BY <2>1, <2>3, <1>d, TypeStep
<1>2. CASE Report
  <2>1. /\ \/ ~Reports /\ UNCHANGED <<told, unsent>>
           \/ Reports /\ told' = [told EXCEPT ![run] = PlayedMs] /\ UNCHANGED unsent
           \/ Reports /\ unsent' = unsent \cup {run} /\ UNCHANGED told
        /\ cut' = run /\ UNCHANGED finished /\ UNCHANGED audioVars
    BY <1>2 DEF Report, serverVars, pumpVars, playVars, audioVars
  <2>2. /\ \A k \in Runs : dropped'[k] = dropped[k]
        /\ \A k \in Runs : Alive(k)' = Alive(k)
    BY <2>1, <1>a, StillAudio, TypeOKAudio DEF audioVars
  <2>3. ASSUME NEW k \in Runs, k \notin finished, k <= run
        PROVE  \/ told'[k] > 0 \/ k \in unsent'
               \/ \E j \in Runs : j < k /\ dropped[j] > 0
               \/ Alive(k) < BytesPerMs
    <3>t. told \in [Runs -> Nat] /\ PlayedMs \in Nat
      BY <1>a, TypeOKAudio, PlayedFacts
    <3>1. CASE k <= cut
      <4>1. (told[k] > 0 => told'[k] > 0) /\ unsent \subseteq unsent'
        BY <2>1, <3>t DEF Reports
      <4> QED
        BY <3>1, <2>3, <4>1, <1>a DEF ToldInv
    <3>2. CASE ~(k <= cut)
      <4>1. k = run /\ item # 0
        <5>1. k \in 1 .. run
          BY <2>3, <1>c DEF Runs
        <5> QED
          BY <5>1, <2>3, <3>2, <1>a DEF RunInv
      <4>2. CASE PlayedMs > 0
        BY <4>1, <4>2, <2>1, <3>t DEF Reports
      <4>3. CASE ~(PlayedMs > 0)
        <5> SUFFICES ASSUME \A j \in Runs : j < run => ~(dropped[j] > 0)
                     PROVE  Alive(k) < BytesPerMs
          BY <4>1
        <5>1. PlayedBytes < BytesPerMs
          BY <4>3, <3>t, <1>a, PlayedFacts
        <5>2. \A j \in Runs : j < run => dropped[j] = 0
          BY <1>b
        <5>3. drained + pending = dropped[k]
          BY <4>1, <5>2, <1>a DEF DropInv
        <5>4. itemBytes = Alive(k) + dropped[k]
          BY <4>1, <1>a DEF TotalInv, Total
        <5>5. PlayedBytes = Alive(k) \/ Alive(k) = 0
          BY <5>3, <5>4, <1>b DEF PlayedBytes
        <5>6. BytesPerMs > 0 /\ BytesPerMs \in Nat
          BY SizeAssumption
        <5> QED
          BY <5>1, <5>5, <5>6
      <4> QED
        BY <4>2, <4>3
    <3> QED
      BY <3>1, <3>2
  <2> QED
    BY <2>1, <2>2, <2>3 DEF ToldInv
<1>3. CASE ~Report /\ ~ \E n \in ChunkSizes : AudioDelta(n)
  <2>1. UNCHANGED <<told, unsent, cut>> /\ finished \subseteq finished'
    <3>1. CASE \/ NewCallSession \/ RunStarts \/ Cancel \/ RunReturns \/ Pump \/ Play
               \/ UNCHANGED vars
      BY <3>1, LoopIsAlone DEF bargeVars, serverVars
    <3>2. CASE ResponseCreated \/ ResponseDone \/ SpeechStarted
      BY <3>2 DEF ResponseCreated, ResponseDone, SpeechStarted, bargeVars
    <3>3. CASE ReadError \/ Drain \/ Flush
      BY <3>3 DEF ReadError, Drain, Flush, bargeVars, serverVars
    <3> QED
      BY <1>3, <3>1, <3>2, <3>3 DEF Next, Server, BargeIn
  <2>2. Moved
    BY <1>3, <1>a, StepMoves
  <2>3. \A k \in Runs : dropped'[k] >= dropped[k] /\ (k <= cut => Alive(k)' <= Alive(k))
    BY <2>2 DEF Moved
  <2> QED
    BY <2>1, <2>3, <1>d, TypeStep
<1> QED
  BY <1>1, <1>2, <1>3

\* Each step keeps the bound on stale audio: nothing old is received again.
LEMMA StaleStep ==
  ASSUME Inv, [Next]_vars
  PROVE  StaleInv'
<1>a. TypeOK /\ HeldInv /\ RunInv /\ StaleInv
  BY DEF Inv
<1>b. /\ recvCh \in Channel /\ chunk \in Audio /\ buf \in Audio
      /\ Len(chunk) \in Nat /\ Len(buf) \in Nat
      /\ \A K : Bytes(K, chunk) \in Nat /\ Bytes(K, buf) \in Nat
      /\ \A K : Bytes(K, chunk) <= Len(chunk) /\ Bytes(K, buf) <= Len(buf)
  BY <1>a, AudioTypes, BytesType
<1>c. ChunkSizes \subseteq Nat /\ ChunkSizes # {} /\ FrameBytes \in Nat
  BY SizeAssumption
<1>1. ASSUME NEW n \in ChunkSizes, AudioDelta(n) PROVE StaleInv'
  <2> DEFINE d == [j \in 1 .. n |-> RunOf]
  <2>1. /\ recvPc = "read" /\ UNCHANGED <<recvPc, chunk, buf, cut>>
        /\ recvCh' = Append(recvCh, d) \/ recvCh' = recvCh
    BY <1>1 DEF AudioDelta, RunOf, bargeVars, pumpVars
  <2>2. /\ d \in Audio /\ Len(d) = n /\ Bytes(1 .. cut, d) = 0
    <3>1. RunOf \in Runs /\ RunOf > cut /\ n \in Nat /\ RunOf \in Nat
      BY <1>1, <1>a, DeltaCounts
    <3>2. RunOf \notin 1 .. cut
      BY <3>1, <1>a, SizeAssumption DEF TypeOK, Runs
    <3>3. \A K : d \in Audio /\ Len(d) = n /\ Bytes(K, d) = IF RunOf \in K THEN n ELSE 0
      BY <3>1, BytesOfDelta
    <3> HIDE DEF d
    <3> QED
      BY <3>2, <3>3
  <2> HIDE DEF d
  <2>3. CASE recvCh' = Append(recvCh, d)
    <3>1. BytesIn(1 .. cut, recvCh') = BytesIn(1 .. cut, recvCh) + Bytes(1 .. cut, d)
      BY <2>2, <2>3, <1>b, BytesInAppend
    <3>2. BytesIn(1 .. cut, recvCh) = 0
      BY <2>1, <1>a DEF StaleInv
    <3>3. BytesIn(1 .. cut', recvCh') = 0
      BY <3>1, <3>2, <2>1, <2>2
    <3>4. \A i \in DOMAIN recvCh' : Len(recvCh'[i]) \in ChunkSizes
      <4>1. /\ Len(recvCh') = Len(recvCh) + 1 /\ recvCh'[Len(recvCh) + 1] = d
            /\ \A i \in 1 .. Len(recvCh) : recvCh'[i] = recvCh[i]
            /\ recvCh' \in Channel
        BY <2>2, <2>3, <1>b, AppendProperties DEF Channel
      <4>2. DOMAIN recvCh' = 1 .. Len(recvCh) + 1 /\ DOMAIN recvCh = 1 .. Len(recvCh)
            /\ Len(recvCh) \in Nat
        BY <4>1, <1>b, ChannelFacts
      <4>3. \A i \in 1 .. Len(recvCh) : Len(recvCh[i]) \in ChunkSizes
        BY <4>2, <1>a DEF StaleInv
      <4> QED
        BY <4>1, <4>2, <4>3, <2>2
    <3> QED
      BY <3>3, <3>4, <2>1, <1>a DEF StaleInv
  <2>4. CASE recvCh' = recvCh
    BY <2>4, <2>1, <1>a DEF StaleInv
  <2> QED
    BY <2>1, <2>3, <2>4
<1>2. ASSUME UNCHANGED <<recvCh, chunk, buf, cut>>,
             \/ recvPc' = recvPc
             \/ recvPc' = "drain"
             \/ recvPc = "read" /\ recvPc' = "dead"
      PROVE  StaleInv'
  BY <1>2, <1>a DEF StaleInv
<1>3. CASE \/ ResponseCreated \/ ResponseDone \/ SpeechStarted \/ ReadError
           \/ NewCallSession \/ RunStarts \/ Cancel \/ RunReturns \/ PumpEnds
           \/ TryReadSilence \/ TryReadEOF \/ WriteFrame \/ WriteFails \/ UNCHANGED vars
  <2>1. UNCHANGED <<recvCh, chunk, buf, cut>>
    BY <1>3 DEF ResponseCreated, ResponseDone, SpeechStarted, ReadError, NewCallSession, RunStarts,
                Cancel, RunReturns, PumpEnds, TryReadSilence, TryReadEOF, WriteFrame, WriteFails,
                vars, pumpVars, bargeVars
  <2>2. \/ recvPc' = recvPc \/ recvPc' = "drain"
        \/ recvPc = "read" /\ recvPc' = "dead"
    BY <1>3 DEF ResponseCreated, ResponseDone, SpeechStarted, ReadError, NewCallSession, RunStarts,
                Cancel, RunReturns, PumpEnds, TryReadSilence, TryReadEOF, WriteFrame, WriteFails, vars
  <2> QED
    BY <2>1, <2>2, <1>2
<1>t. ASSUME recvCh # << >>
      PROVE  /\ Head(recvCh) \in Audio /\ Head(recvCh) = recvCh[1] /\ Len(Head(recvCh)) \in ChunkSizes
             /\ \A i \in DOMAIN Tail(recvCh) : Len(Tail(recvCh)[i]) \in ChunkSizes
  <2>1. /\ Len(recvCh) \in Nat /\ Len(recvCh) > 0 /\ DOMAIN recvCh = 1 .. Len(recvCh)
        /\ Head(recvCh) = recvCh[1] /\ Head(recvCh) \in Audio
        /\ Tail(recvCh) \in Channel /\ Len(Tail(recvCh)) = Len(recvCh) - 1
        /\ \A i \in 1 .. Len(Tail(recvCh)) : Tail(recvCh)[i] = recvCh[i + 1]
    BY <1>t, <1>b, ChannelFacts
  <2>2. DOMAIN Tail(recvCh) = 1 .. Len(recvCh) - 1
    BY <2>1, ChannelFacts
  <2>3. \A i \in 1 .. Len(recvCh) : Len(recvCh[i]) \in ChunkSizes
    BY <2>1, <1>a DEF StaleInv
  <2>4. ASSUME NEW i \in DOMAIN Tail(recvCh) PROVE Len(Tail(recvCh)[i]) \in ChunkSizes
    <3>1. i \in 1 .. Len(Tail(recvCh)) /\ i + 1 \in 1 .. Len(recvCh)
      BY <2>1, <2>2
    <3>2. Tail(recvCh)[i] = recvCh[i + 1]
      BY <2>1, <3>1
    <3> QED
      BY <2>3, <3>1, <3>2
  <2>5. Len(recvCh[1]) \in ChunkSizes
    BY <2>1, <2>3
  <2> QED
    BY <2>1, <2>4, <2>5
<1>4. CASE Drain
  <2>1. UNCHANGED <<chunk, buf, cut>> /\ recvPc' \notin {"read", "dead", "report"}
        /\ (recvCh' = recvCh \/ (recvCh # << >> /\ recvCh' = Tail(recvCh)))
    BY <1>4 DEF Drain, pumpVars
  <2>2. \A i \in DOMAIN recvCh' : Len(recvCh'[i]) \in ChunkSizes
    BY <2>1, <1>t, <1>a DEF StaleInv
  <2> QED
    BY <2>1, <2>2, <1>a DEF StaleInv
<1>5. CASE Flush
  <2>1. recvPc' = "report" /\ buf' = << >> /\ UNCHANGED <<recvCh, chunk>>
    BY <1>5 DEF Flush, pumpVars
  <2>2. \E n \in ChunkSizes : Len(buf') + Len(chunk') <= n
    <3>1. Len(buf') = 0 /\ Len(chunk') = Len(chunk)
      BY <2>1
    <3>2. CASE chunk = << >>
      <4>1. PICK n \in ChunkSizes : n \in Nat
        BY <1>c
      <4>2. Len(buf') + Len(chunk') <= n
        BY <3>1, <3>2, <4>1
      <4> QED
        BY <4>2
    <3>3. CASE chunk # << >>
      BY <3>1, <3>3, <1>c, <1>a DEF StaleInv
    <3> QED
      BY <3>2, <3>3
  <2> QED
    BY <2>1, <2>2, <1>a DEF StaleInv
<1>6. CASE Report
  <2>1. /\ recvPc = "report" /\ recvPc' = "read" /\ recvCh = << >> /\ cut' = run
        /\ UNCHANGED <<recvCh, chunk, buf>>
    BY <1>6, <1>a DEF Report, HeldInv, pumpVars
  <2>2. PICK n \in ChunkSizes : Len(buf) + Len(chunk) <= n
    BY <2>1, <1>a DEF StaleInv
  <2>3. Bytes(1 .. run, buf) + Bytes(1 .. run, chunk) <= n
    BY <2>2, <1>b, <1>c
  <2>4. BytesIn(1 .. cut', recvCh') = 0
    BY <2>1, BytesEmpty
  <2>5. \E m \in ChunkSizes : Bytes(1 .. cut', buf') + Bytes(1 .. cut', chunk') <= m
    BY <2>1, <2>3
  <2> QED
    BY <2>1, <2>4, <2>5, <1>a DEF StaleInv
<1>7. CASE PumpRecv
  <2>1. /\ recvCh # << >> /\ chunk = << >> /\ chunk' = Head(recvCh) /\ recvCh' = Tail(recvCh)
        /\ recvPc # "report" /\ UNCHANGED <<recvPc, buf, cut>>
    BY <1>7, <1>a DEF PumpRecv, HeldInv, bargeVars
  <2>2. Len(chunk') \in ChunkSizes /\ \A i \in DOMAIN recvCh' : Len(recvCh'[i]) \in ChunkSizes
    BY <2>1, <1>t
  <2>3. ASSUME recvPc \in {"read", "dead"}
        PROVE  /\ BytesIn(1 .. cut', recvCh') = 0
               /\ \E n \in ChunkSizes : Bytes(1 .. cut', buf') + Bytes(1 .. cut', chunk') <= n
    <3>1. PICK n \in ChunkSizes : Bytes(1 .. cut, buf) + Bytes(1 .. cut, chunk) <= n
      BY <2>3, <1>a DEF StaleInv
    <3>2. /\ BytesIn(1 .. cut, recvCh) = 0
          /\ BytesIn(1 .. cut, recvCh) = Bytes(1 .. cut, chunk') + BytesIn(1 .. cut, recvCh')
      BY <2>1, <2>3, <1>a, <1>b, BytesInTail DEF StaleInv
    <3>3. Bytes(1 .. cut, chunk') \in Nat /\ BytesIn(1 .. cut, recvCh') \in Nat
      BY <2>1, <1>b, <1>t, ChannelFacts, BytesType, BytesInType
    <3>4. Bytes(1 .. cut, chunk') = 0 /\ BytesIn(1 .. cut, recvCh') = 0
      BY <3>2, <3>3
    <3>5. Bytes(1 .. cut, chunk) = 0 /\ Bytes(1 .. cut, buf) \in Nat
      BY <2>1, <1>b, BytesEmpty
    <3>6. Bytes(1 .. cut, buf) + Bytes(1 .. cut, chunk') <= n
      BY <3>1, <3>4, <3>5
    <3> QED
      BY <2>1, <3>4, <3>6
  <2> QED
    BY <2>1, <2>2, <2>3 DEF StaleInv
<1>8. CASE PumpWrite
  <2>1. chunk' = << >> /\ (buf' = buf \/ buf' = buf \o chunk) /\ UNCHANGED <<recvCh, recvPc, cut>>
    BY <1>8 DEF PumpWrite, bargeVars
  <2>2. Len(buf') + Len(chunk') <= Len(buf) + Len(chunk)
    <3>1. Len(chunk') = 0 /\ (Len(buf') = Len(buf) \/ Len(buf') = Len(buf) + Len(chunk))
      BY <2>1, <1>b, ConcatProperties DEF Audio
    <3> QED
      BY <3>1, <1>b
  <2>3. ASSUME NEW K PROVE Bytes(K, buf') + Bytes(K, chunk') <= Bytes(K, buf) + Bytes(K, chunk)
    <3>1. Bytes(K, chunk') = 0
      BY <2>1, BytesEmpty
    <3>2. Bytes(K, buf \o chunk) = Bytes(K, buf) + Bytes(K, chunk)
      BY <1>b, BytesConcat
    <3>3. Bytes(K, buf') = Bytes(K, buf) \/ Bytes(K, buf') = Bytes(K, buf) + Bytes(K, chunk)
      BY <2>1, <3>2
    <3>4. Bytes(K, buf) \in Nat /\ Bytes(K, chunk) \in Nat
      BY <1>b
    <3> QED
      BY <3>1, <3>3, <3>4
  <2>4. buf' \in Audio /\ chunk' \in Audio
    <3>1. buf \o chunk \in Audio /\ << >> \in Audio
      BY <1>b, BytesConcat DEF Audio
    <3> QED
      BY <2>1, <3>1, <1>b
  <2>5. recvPc' = "report" => \E n \in ChunkSizes : Len(buf') + Len(chunk') <= n
    <3> SUFFICES ASSUME recvPc = "report" PROVE \E n \in ChunkSizes : Len(buf') + Len(chunk') <= n
      BY <2>1
    <3>1. PICK n \in ChunkSizes : Len(buf) + Len(chunk) <= n
      BY <1>a DEF StaleInv
    <3>2. Len(buf') \in Nat /\ Len(chunk') \in Nat
      BY <2>4, BytesType
    <3> QED
      BY <3>1, <3>2, <2>2, <1>b, <1>c
  <2>6. recvPc' \in {"read", "dead"} =>
          /\ BytesIn(1 .. cut', recvCh') = 0
          /\ \E n \in ChunkSizes : Bytes(1 .. cut', buf') + Bytes(1 .. cut', chunk') <= n
    <3> SUFFICES ASSUME recvPc \in {"read", "dead"}
                 PROVE  /\ BytesIn(1 .. cut, recvCh) = 0
                        /\ \E n \in ChunkSizes : Bytes(1 .. cut, buf') + Bytes(1 .. cut, chunk') <= n
      BY <2>1
    <3>1. PICK n \in ChunkSizes : Bytes(1 .. cut, buf) + Bytes(1 .. cut, chunk) <= n
      BY <1>a DEF StaleInv
    <3>2. Bytes(1 .. cut, buf') \in Nat /\ Bytes(1 .. cut, chunk') \in Nat
      BY <2>4, BytesType
    <3>3. Bytes(1 .. cut, buf') + Bytes(1 .. cut, chunk') <= n
      BY <3>1, <3>2, <2>3, <1>b, <1>c
    <3> QED
      BY <3>3, <1>a DEF StaleInv
  <2> QED
    BY <2>1, <2>5, <2>6, <1>a DEF StaleInv
<1>9. CASE TryReadFrame
  <2>1. /\ Len(buf) >= FrameBytes /\ buf' = SubSeq(buf, FrameBytes + 1, Len(buf))
        /\ UNCHANGED <<recvCh, chunk, recvPc, cut>>
    BY <1>9 DEF TryReadFrame, bargeVars, pumpVars
  <2>2. FrameBytes \in 0 .. Len(buf)
    BY <2>1, <1>b, <1>c
  <2>3. buf' \in Audio /\ Len(buf') <= Len(buf)
    BY <2>1, <2>2, <1>b, BytesSplit
  <2>4. ASSUME NEW K PROVE Bytes(K, buf') <= Bytes(K, buf)
    <3>1. /\ SubSeq(buf, 1, FrameBytes) \in Audio
          /\ Bytes(K, buf) = Bytes(K, SubSeq(buf, 1, FrameBytes)) + Bytes(K, buf')
      BY <2>1, <2>2, <1>b, BytesSplit
    <3>2. Bytes(K, SubSeq(buf, 1, FrameBytes)) \in Nat /\ Bytes(K, buf') \in Nat
      BY <3>1, <2>3, BytesType
    <3> QED
      BY <3>1, <3>2
  <2>5. recvPc' = "report" => \E n \in ChunkSizes : Len(buf') + Len(chunk') <= n
    <3> SUFFICES ASSUME recvPc = "report" PROVE \E n \in ChunkSizes : Len(buf') + Len(chunk) <= n
      BY <2>1
    <3>1. PICK n \in ChunkSizes : Len(buf) + Len(chunk) <= n
      BY <1>a DEF StaleInv
    <3>2. Len(buf') \in Nat
      BY <2>3, BytesType
    <3> QED
      BY <3>1, <3>2, <2>3, <1>b, <1>c
  <2>6. recvPc' \in {"read", "dead"} =>
          /\ BytesIn(1 .. cut', recvCh') = 0
          /\ \E n \in ChunkSizes : Bytes(1 .. cut', buf') + Bytes(1 .. cut', chunk') <= n
    <3> SUFFICES ASSUME recvPc \in {"read", "dead"}
                 PROVE  /\ BytesIn(1 .. cut, recvCh) = 0
                        /\ \E n \in ChunkSizes : Bytes(1 .. cut, buf') + Bytes(1 .. cut, chunk) <= n
      BY <2>1
    <3>1. PICK n \in ChunkSizes : Bytes(1 .. cut, buf) + Bytes(1 .. cut, chunk) <= n
      BY <1>a DEF StaleInv
    <3>2. Bytes(1 .. cut, buf') \in Nat
      BY <2>3, BytesType
    <3>3. Bytes(1 .. cut, buf') + Bytes(1 .. cut, chunk) <= n
      BY <3>1, <3>2, <2>4, <1>b, <1>c
    <3> QED
      BY <3>3, <1>a DEF StaleInv
  <2> QED
    BY <2>1, <2>5, <2>6, <1>a DEF StaleInv
<1> QED
  BY <1>1, <1>3, <1>4, <1>5, <1>6, <1>7, <1>8, <1>9 DEF Next, Server, BargeIn, Pump, Play

-----------------------------------------------------------------------------
(***************************************************************************)
(* The theorems.                                                           *)
(***************************************************************************)

\* The inductive invariant holds in every state: the bytes of the current item
\* that are heard, moving, queued, lost or dropped add up to those recvLoop counted,
\* handleBargeIn subtracts what it dropped, and little stale audio is left
\* (recvLoop, handleBargeIn, runDownlink, AudioAdapter).  It counts bytes and
\* says nothing of their order.
THEOREM InvariantHolds == Spec => []Inv
<1>1. Inv /\ [Next]_vars => Inv'
  BY TypeStep, HeldStep, RunStep, TotalStep, DropStep, ToldStep, StaleStep DEF Inv
<1> QED
  BY <1>1, InitInv, PTL DEF Spec

\* What OpenAI counts for the current item was heard, is on its way, was lost
\* or was dropped by barge-in (currentItemBytes), and the types hold.
THEOREM ItemIsAccounted == Spec => []ItemAccounted
<1>1. Inv => ItemAccounted
  <2> SUFFICES ASSUME Inv, item # 0
               PROVE  itemBytes = heard[run] + Moving(run) + BytesIn({run}, recvCh)
                                    + lost[run] + dropped[run]
    BY DEF Inv, ItemAccounted
  <2>1. itemBytes = Total(run)
    BY DEF Inv, TotalInv
  <2> QED
    BY <2>1 DEF Total, Alive
<1> QED
  BY <1>1, InvariantHolds, PTL

\* handleBargeIn reports no more as played than was played, is with the pump
\* or the player, or was lost to a full recvCh.
THEOREM ReportIsWithinHeard == Spec => []ReportWithinHeard
<1>1. Inv => ReportWithinHeard
  <2> SUFFICES ASSUME Inv, recvPc = "report", item # 0
               PROVE  PlayedBytes <= heard[run] + Moving(run) + lost[run]
    BY DEF ReportWithinHeard
  <2>1. TypeOK /\ recvCh = << >> /\ run \in Runs
    BY DEF Inv, HeldInv, RunInv, TypeOK, Runs
  <2>2. itemBytes = heard[run] + Moving(run) + BytesIn({run}, recvCh) + lost[run] + dropped[run]
    BY DEF Inv, TotalInv, Total, Alive
  <2>3. dropped[run] <= drained + pending
    BY DEF Inv, DropInv
  <2>4. BytesIn({run}, recvCh) = 0
    BY <2>1, BytesEmpty
  <2>5. /\ heard[run] \in Nat /\ Moving(run) \in Nat /\ lost[run] \in Nat /\ dropped[run] \in Nat
        /\ drained \in Nat /\ pending \in Nat
    BY <2>1, AudioTypes DEF TypeOK
  <2> QED
    BY <2>2, <2>3, <2>4, <2>5 DEF PlayedBytes
<1> QED
  BY <1>1, InvariantHolds, PTL

\* Of audio an interruption took away OpenAI was told how much was heard, but
\* for the exceptions ToldUnlessFinished names (a truncate that could not be
\* written, response.done, older audio).
THEOREM ToldUnlessItemIsFinished == Spec => []ToldUnlessFinished
<1>1. Inv => ToldUnlessFinished
  <2> SUFFICES ASSUME Inv, recvPc \in {"read", "dead"}, NEW k \in Runs, k \notin finished,
                      dropped[k] > 0, heard[k] >= BytesPerMs
               PROVE  \/ told[k] > 0 \/ k \in unsent
                      \/ \E j \in Runs : j < k /\ dropped[j] > 0
    BY DEF ToldUnlessFinished
  <2>1. TypeOK /\ RunInv /\ TotalInv /\ DropInv /\ ToldInv /\ HeldInv
    BY DEF Inv
  <2>2. Alive(k) >= BytesPerMs /\ Total(k) # 0
    <3>1. /\ Alive(k) = heard[k] + Moving(k) + BytesIn({k}, recvCh) + lost[k]
          /\ Total(k) = Alive(k) + dropped[k]
      BY DEF Alive, Total
    <3>2. /\ heard[k] \in Nat /\ Moving(k) \in Nat /\ BytesIn({k}, recvCh) \in Nat
          /\ lost[k] \in Nat /\ dropped[k] \in Nat /\ BytesPerMs \in Nat
      BY <2>1, AudioTypes, SizeAssumption
    <3> QED
      BY <3>1, <3>2
  <2>3. k <= cut
    <3>1. /\ k \in Nat /\ run \in Nat /\ drained \in Nat /\ pending \in Nat /\ cut \in 0 .. run
          /\ k >= 1 /\ dropped[k] \in Nat
      BY <2>1, AudioTypes, SizeAssumption DEF TypeOK, Runs
    <3>2. k <= run
      BY <2>1, <2>2, <3>1 DEF TotalInv
    <3>3. ~(k = run /\ item # 0)
      <4> SUFFICES ASSUME k = run, item # 0 PROVE FALSE
        OBVIOUS
      <4>1. dropped[k] <= drained + pending /\ drained = 0 /\ pending = 0
        BY <2>1 DEF DropInv, HeldInv
      <4> QED
        BY <4>1, <3>1
    <3> QED
      BY <2>1, <3>1, <3>2, <3>3 DEF RunInv
  <2>4. ~(Alive(k) < BytesPerMs)
    BY <2>1, <2>2, AudioTypes, SizeAssumption
  <2> QED
    BY <2>1, <2>3, <2>4 DEF ToldInv
<1> QED
  BY <1>1, InvariantHolds, PTL

\* Once handleBargeIn is done, no more interrupted audio than one delta is left
\* to be played, however the pump and the player ran while it was at work.
THEOREM StaleIsAtMostOneChunk == Spec => []StaleAtMostOneChunk
<1>1. Inv => StaleAtMostOneChunk
  <2> SUFFICES ASSUME Inv, recvPc \in {"read", "dead"}
               PROVE  \E n \in ChunkSizes :
                        Bytes(1 .. cut, buf) + Bytes(1 .. cut, chunk) + BytesIn(1 .. cut, recvCh) <= n
    BY DEF StaleAtMostOneChunk
  <2>1. PICK n \in ChunkSizes : Bytes(1 .. cut, buf) + Bytes(1 .. cut, chunk) <= n
    BY DEF Inv, StaleInv
  <2>2. BytesIn(1 .. cut, recvCh) = 0
    BY DEF Inv, StaleInv
  <2>3. Bytes(1 .. cut, buf) \in Nat /\ Bytes(1 .. cut, chunk) \in Nat
    BY AudioTypes DEF Inv
  <2> QED
    BY <2>1, <2>2, <2>3
<1> QED
  BY <1>1, InvariantHolds, PTL

=============================================================================

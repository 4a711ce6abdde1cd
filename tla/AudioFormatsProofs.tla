------------------------- MODULE AudioFormatsProofs -------------------------
(***************************************************************************)
(* What TLAPS proves about the conversions of package audio, for audio of  *)
(* every length: nothing is lost between samples and bytes, and resampling *)
(* neither overflows nor leaves the range of the samples around it.        *)
(***************************************************************************)
EXTENDS AudioFormats, SequenceTheorems, TLAPS

\* The int16 conversions of the resampling never wrap.
LEMMA Int16Stays ==
  ASSUME NEW x \in Int16
  PROVE  ToInt16(x) = x
BY DEF ToInt16, Int16

\* A sample is its low and its high byte.
LEMMA BytesOfSample ==
  ASSUME NEW s \in Int16
  PROVE  /\ Low(s) \in Byte /\ High(s) \in Byte
         /\ ToInt16(Low(s) + 256 * High(s)) = s
BY DEF Int16, Byte, Low, High, ToInt16

\* Any two bytes are a sample.
LEMMA SampleOfBytes ==
  ASSUME NEW a \in Byte, NEW b \in Byte
  PROVE  ToInt16(a + 256 * b) \in Int16
BY DEF Int16, Byte, ToInt16

\* The middle of two samples, as Go computes it, is between them.
LEMMA MiddleIsBetween ==
  ASSUME NEW a \in Int16, NEW b \in Int16
  PROVE  LET q == Quotient(a + b, 2)
         IN  q \in Int16 /\ ((a <= q /\ q <= b) \/ (b <= q /\ q <= a))
BY DEF Int16, Quotient

\* The point at a third between two samples, as Go computes it, is between them.
LEMMA ThirdIsBetween ==
  ASSUME NEW a \in Int16, NEW b \in Int16
  PROVE  LET q == Quotient(2 * a + b, 3)
         IN  q \in Int16 /\ ((a <= q /\ q <= b) \/ (b <= q /\ q <= a))
BY DEF Int16, Quotient

-----------------------------------------------------------------------------
\* Two bytes to a sample.
LEMMA BytesAreBytes ==
  ASSUME NEW s \in Seq(Int16)
  PROVE  Int16ToBytes(s) \in Seq(Byte) /\ Len(Int16ToBytes(s)) = 2 * Len(s)
<1>1. ASSUME NEW i \in 1 .. 2 * Len(s)
      PROVE  Int16ToBytes(s)[i] \in Byte
  <2>1. CASE i % 2 = 1
    <3>1. (i + 1) \div 2 \in 1 .. Len(s)
      BY <2>1
    <3> QED
      BY <2>1, <3>1, BytesOfSample DEF Int16ToBytes
  <2>2. CASE i % 2 # 1
    <3>1. i \div 2 \in 1 .. Len(s)
      BY <2>2
    <3> QED
      BY <2>2, <3>1, BytesOfSample DEF Int16ToBytes
  <2> QED
    BY <2>1, <2>2
<1> QED
  BY <1>1 DEF Int16ToBytes

\* Samples that are written as bytes and read again are the same samples
\* (Int16ToBytes and BytesToInt16, whatever the length).
THEOREM SamplesSurvive ==
  ASSUME NEW s \in Seq(Int16)
  PROVE  BytesToInt16(Int16ToBytes(s)) = s
<1> DEFINE b == Int16ToBytes(s)
<1>1. Len(b) = 2 * Len(s) /\ Len(b) \div 2 = Len(s)
  BY BytesAreBytes
<1>2. ASSUME NEW i \in 1 .. Len(s)
      PROVE  ToInt16(b[2 * i - 1] + 256 * b[2 * i]) = s[i]
  <2>1. b[2 * i - 1] = Low(s[i])
    BY DEF Int16ToBytes
  <2>2. b[2 * i] = High(s[i])
    BY DEF Int16ToBytes
  <2> QED
    BY <2>1, <2>2, BytesOfSample
<1>3. BytesToInt16(b) = [i \in 1 .. Len(s) |-> s[i]]
  BY <1>1, <1>2 DEF BytesToInt16
<1> QED
  BY <1>3

\* Swapping moves bytes and drops none.
LEMMA SwapIsBytes ==
  ASSUME NEW b \in Seq(Byte)
  PROVE  SwapPCM16(b) \in Seq(Byte) /\ Len(SwapPCM16(b)) = Len(b)
BY DEF SwapPCM16

\* Swapping twice changes nothing, also with an odd byte at the end: what the
\* session swaps in one direction, the phone swaps back (SwapPCM16).
THEOREM SwapTwice ==
  ASSUME NEW b \in Seq(Byte)
  PROVE  SwapPCM16(SwapPCM16(b)) = b
<1> DEFINE c == SwapPCM16(b)
<1>1. c \in Seq(Byte) /\ Len(c) = Len(b)
  BY SwapIsBytes
<1>2. ASSUME NEW i \in 1 .. Len(b)
      PROVE  SwapPCM16(c)[i] = b[i]
  <2>1. CASE i % 2 = 0
    <3>1. SwapPCM16(c)[i] = c[i - 1]
      BY <1>1, <2>1 DEF SwapPCM16
    <3>2. i - 1 \in 1 .. Len(b) /\ (i - 1) % 2 # 0 /\ i - 1 < Len(b) /\ (i - 1) + 1 = i
      BY <2>1
    <3>3. c[i - 1] = b[i]
      BY <3>2 DEF SwapPCM16
    <3> QED
      BY <3>1, <3>3
  <2>2. CASE i % 2 # 0 /\ i < Len(b)
    <3>1. SwapPCM16(c)[i] = c[i + 1]
      BY <1>1, <2>2 DEF SwapPCM16
    <3>2. i + 1 \in 1 .. Len(b) /\ (i + 1) % 2 = 0 /\ (i + 1) - 1 = i
      BY <2>2
    <3>3. c[i + 1] = b[i]
      BY <3>2 DEF SwapPCM16
    <3> QED
      BY <3>1, <3>3
  <2>3. CASE i % 2 # 0 /\ i = Len(b)
    BY <1>1, <2>3 DEF SwapPCM16
  <2> QED
    BY <2>1, <2>2, <2>3
<1>3. SwapPCM16(c) = [i \in 1 .. Len(b) |-> b[i]]
  BY <1>1, <1>2 DEF SwapPCM16
<1> QED
  BY <1>3

-----------------------------------------------------------------------------
\* Upsampling keeps every sample and puts between two of them one that is
\* between them; nothing wraps (Resample8to16, for the caller's G.711 audio).
THEOREM UpsamplingIsBetween ==
  ASSUME NEW src \in Seq(Int16)
  PROVE  LET dst == Resample8to16(src)
         IN  /\ dst \in Seq(Int16) /\ Len(dst) = 2 * Len(src)
             /\ \A i \in 1 .. Len(src) :
                  LET a == src[i]
                      b == src[IF i < Len(src) THEN i + 1 ELSE i]
                      d == dst[2 * i]
                  IN  dst[2 * i - 1] = a /\ ((a <= d /\ d <= b) \/ (b <= d /\ d <= a))
<1> DEFINE dst == Resample8to16(src)
           middle(i) == Quotient(src[i] + src[i + 1], 2)
<1>1. ASSUME NEW i \in 1 .. Len(src)
      PROVE  dst[2 * i - 1] = src[i]
  BY DEF Resample8to16
<1>2. ASSUME NEW i \in 1 .. Len(src), i < Len(src)
      PROVE  /\ dst[2 * i] = middle(i) /\ dst[2 * i] \in Int16
             /\ \/ src[i] <= dst[2 * i] /\ dst[2 * i] <= src[i + 1]
                \/ src[i + 1] <= dst[2 * i] /\ dst[2 * i] <= src[i]
  <2>1. dst[2 * i] = ToInt16(middle(i))
    BY <1>2 DEF Resample8to16
  <2>2. src[i] \in Int16 /\ src[i + 1] \in Int16
    BY <1>2
  <2> QED
    BY <2>1, <2>2, MiddleIsBetween, Int16Stays
<1>3. ASSUME NEW i \in 1 .. Len(src), i = Len(src)
      PROVE  dst[2 * i] = src[i]
  BY <1>3 DEF Resample8to16
<1>4. ASSUME NEW j \in 1 .. 2 * Len(src)
      PROVE  dst[j] \in Int16
  <2>1. CASE j % 2 = 1
    <3>1. (j + 1) \div 2 \in 1 .. Len(src) /\ j = 2 * ((j + 1) \div 2) - 1
      BY <2>1
    <3> QED
      BY <3>1, <1>1
  <2>2. CASE j % 2 # 1
    <3>1. PICK i \in 1 .. Len(src) : j = 2 * i
      BY <2>2
    <3>2. CASE i < Len(src)
      BY <3>1, <3>2, <1>2
    <3>3. CASE ~(i < Len(src))
      <4>1. i = Len(src) /\ src[i] \in Int16
        BY <3>3
      <4> QED
        BY <3>1, <4>1, <1>3
    <3> QED
      BY <3>2, <3>3
  <2> QED
    BY <2>1, <2>2
<1>5. dst \in Seq(Int16) /\ Len(dst) = 2 * Len(src)
  BY <1>4 DEF Resample8to16
<1>6. ASSUME NEW i \in 1 .. Len(src)
      PROVE  LET a == src[i]
                 b == src[IF i < Len(src) THEN i + 1 ELSE i]
                 d == dst[2 * i]
             IN  dst[2 * i - 1] = a /\ ((a <= d /\ d <= b) \/ (b <= d /\ d <= a))
  <2>1. CASE i < Len(src)
    BY <1>1, <1>2, <2>1
  <2>2. CASE ~(i < Len(src))
    <3>1. i = Len(src) /\ src[i] \in Int16
      BY <2>2
    <3> QED
      BY <1>1, <1>3, <2>2, <3>1 DEF Int16
  <2> QED
    BY <2>1, <2>2
<1> QED
  BY <1>5, <1>6

\* 24 kHz audio brought to 8 kHz is every third of its samples; brought to 16 kHz
\* its samples lie, in order, between two neighbours of the source, but for one
\* zero in the last place when two samples are left over.  The lengths are a third
\* and two thirds of the source's, rounded down (Resample24to8, Resample24to16;
\* transcodeRecv for G.711 and for L16).
THEOREM DownsamplingIsBetween ==
  ASSUME NEW src \in Seq(Int16)
  PROVE  LET eight   == Resample24to8(src)
             sixteen == Resample24to16(src)
         IN  /\ eight \in Seq(Int16) /\ Len(eight) = Len(src) \div 3
             /\ \A i \in 1 .. Len(eight) : eight[i] = src[3 * i - 2]
             /\ sixteen \in Seq(Int16) /\ Len(sixteen) = (2 * Len(src)) \div 3
             /\ \A i \in 1 .. Len(sixteen) :
                  LET k == (3 * i - 1) \div 2
                      d == sixteen[i]
                  IN  \/ /\ k \in 1 .. Len(src) - 1
                         /\ (src[k] <= d /\ d <= src[k + 1]) \/ (src[k + 1] <= d /\ d <= src[k])
                      \/ d = 0 /\ i = Len(sixteen) /\ Len(src) % 3 = 2
<1> DEFINE dst == Resample24to16(src)
           n == (Len(src) * 2) \div 3
           at(i) == 3 * ((i - 1) \div 2)
           pos(i) == (3 * i - 1) \div 2
           between(i) ==
             /\ pos(i) \in 1 .. Len(src) - 1
             /\ \/ src[pos(i)] <= dst[i] /\ dst[i] <= src[pos(i) + 1]
                \/ src[pos(i) + 1] <= dst[i] /\ dst[i] <= src[pos(i)]
<1>1. n \in Nat /\ Len(dst) = n /\ DOMAIN dst = 1 .. n
  BY DEF Resample24to16
<1>2. ASSUME NEW i \in 1 .. n
      PROVE  dst[i] \in Int16 /\ (between(i) \/ (dst[i] = 0 /\ i = n /\ Len(src) % 3 = 2))
  <2>1. at(i) \in Nat /\ at(i) < Len(src)
    BY DEF Int16
  <2>2. CASE at(i) + 3 > Len(src)
    <3>1. dst[i] = 0
      BY <2>2 DEF Resample24to16
    <3>2. i = n /\ Len(src) % 3 = 2
      BY <2>1, <2>2
    <3> QED
      BY <3>1, <3>2 DEF Int16
  <2>3. CASE ~(at(i) + 3 > Len(src)) /\ i % 2 = 1
    <3>1. dst[i] = ToInt16(Quotient(2 * src[at(i) + 1] + src[at(i) + 2], 3))
      BY <2>3 DEF Resample24to16
    <3>2. /\ at(i) + 1 \in 1 .. Len(src) - 1 /\ at(i) + 1 + 1 = at(i) + 2
          /\ pos(i) = at(i) + 1
      BY <2>1, <2>3
    <3>3. src[at(i) + 1] \in Int16 /\ src[at(i) + 2] \in Int16
      BY <3>2
    <3>4. /\ dst[i] \in Int16
          /\ \/ src[at(i) + 1] <= dst[i] /\ dst[i] <= src[at(i) + 2]
             \/ src[at(i) + 2] <= dst[i] /\ dst[i] <= src[at(i) + 1]
      BY <3>1, <3>3, ThirdIsBetween, Int16Stays
    <3> QED
      BY <3>2, <3>4
  <2>4. CASE ~(at(i) + 3 > Len(src)) /\ i % 2 # 1
    <3>1. dst[i] = ToInt16(Quotient(src[at(i) + 2] + 2 * src[at(i) + 3], 3))
      BY <2>4 DEF Resample24to16
    <3>2. /\ at(i) + 2 \in 1 .. Len(src) - 1 /\ at(i) + 2 + 1 = at(i) + 3
          /\ pos(i) = at(i) + 2
      BY <2>1, <2>4
    <3>3. src[at(i) + 2] \in Int16 /\ src[at(i) + 3] \in Int16
      BY <3>2
    <3>4. src[at(i) + 2] + 2 * src[at(i) + 3] = 2 * src[at(i) + 3] + src[at(i) + 2]
      BY <3>3 DEF Int16
    <3>5. /\ dst[i] \in Int16
          /\ \/ src[at(i) + 2] <= dst[i] /\ dst[i] <= src[at(i) + 3]
             \/ src[at(i) + 3] <= dst[i] /\ dst[i] <= src[at(i) + 2]
      BY <3>1, <3>3, <3>4, ThirdIsBetween, Int16Stays
    <3> QED
      BY <3>2, <3>5
  <2> QED
    BY <2>2, <2>3, <2>4
<1>3. dst \in Seq(Int16)
  BY <1>1, <1>2 DEF Resample24to16
<1>4. \A i \in 1 .. Len(src) \div 3 : 3 * i - 2 \in 1 .. Len(src) /\ src[3 * i - 2] \in Int16
  OBVIOUS
<1>5. LET eight == Resample24to8(src)
      IN  /\ eight \in Seq(Int16) /\ Len(eight) = Len(src) \div 3
          /\ \A i \in 1 .. Len(eight) : eight[i] = src[3 * i - 2]
  BY <1>4 DEF Resample24to8
<1> QED
  BY <1>1, <1>2, <1>3, <1>5

-----------------------------------------------------------------------------
\* Conversions do not care where the audio is cut.
LEMMA BytesOfConcat ==
  ASSUME NEW s \in Seq(Int16), NEW t \in Seq(Int16)
  PROVE  Int16ToBytes(s \o t) = Int16ToBytes(s) \o Int16ToBytes(t)
<1> DEFINE m == Len(s)
           n == Len(t)
           a == Int16ToBytes(s)
           b == Int16ToBytes(t)
           c == Int16ToBytes(s \o t)
<1>1. m \in Nat /\ n \in Nat /\ s \o t \in Seq(Int16) /\ Len(s \o t) = m + n
  OBVIOUS
<1>2. a \in Seq(Byte) /\ Len(a) = 2 * m /\ b \in Seq(Byte) /\ Len(b) = 2 * n
  BY BytesAreBytes
<1>3. c \in Seq(Byte) /\ Len(c) = 2 * (m + n)
  BY <1>1, BytesAreBytes
<1>4. ASSUME NEW i \in 1 .. 2 * (m + n)
      PROVE  c[i] = (a \o b)[i]
  <2>1. c[i] = IF i % 2 = 1 THEN Low((s \o t)[(i + 1) \div 2]) ELSE High((s \o t)[i \div 2])
    BY <1>1 DEF Int16ToBytes
  <2>2. CASE i <= 2 * m
    <3>1. (a \o b)[i] = a[i]
      BY <1>1, <1>2, <2>2
    <3>2. a[i] = IF i % 2 = 1 THEN Low(s[(i + 1) \div 2]) ELSE High(s[i \div 2])
      BY <1>1, <2>2 DEF Int16ToBytes
    <3>3. CASE i % 2 = 1
      <4>1. (i + 1) \div 2 \in 1 .. m
        BY <1>1, <2>2, <3>3
      <4>2. (s \o t)[(i + 1) \div 2] = s[(i + 1) \div 2]
        BY <4>1
      <4> QED
        BY <2>1, <3>1, <3>2, <3>3, <4>2
    <3>4. CASE i % 2 # 1
      <4>1. i \div 2 \in 1 .. m
        BY <1>1, <2>2, <3>4
      <4>2. (s \o t)[i \div 2] = s[i \div 2]
        BY <4>1
      <4> QED
        BY <2>1, <3>1, <3>2, <3>4, <4>2
    <3> QED
      BY <3>3, <3>4
  <2>3. CASE i > 2 * m
    <3> DEFINE j == i - 2 * m
    <3>0. j \in 1 .. 2 * n /\ j % 2 = i % 2
      BY <1>1, <2>3
    <3>1. (a \o b)[i] = b[j]
      BY <1>1, <1>2, <2>3
    <3>2. b[j] = IF j % 2 = 1 THEN Low(t[(j + 1) \div 2]) ELSE High(t[j \div 2])
      BY <1>1, <3>0 DEF Int16ToBytes
    <3>3. CASE i % 2 = 1
      <4>1. (j + 1) \div 2 \in 1 .. n /\ (i + 1) \div 2 = m + (j + 1) \div 2
        BY <1>1, <2>3, <3>3
      <4>2. (s \o t)[(i + 1) \div 2] = t[(j + 1) \div 2]
        BY <1>1, <4>1
      <4> QED
        BY <2>1, <3>0, <3>1, <3>2, <3>3, <4>2
    <3>4. CASE i % 2 # 1
      <4>1. j \div 2 \in 1 .. n /\ i \div 2 = m + j \div 2
        BY <1>1, <2>3, <3>4
      <4>2. (s \o t)[i \div 2] = t[j \div 2]
        BY <1>1, <4>1
      <4> QED
        BY <2>1, <3>0, <3>1, <3>2, <3>4, <4>2
    <3> QED
      BY <3>3, <3>4
  <2>4. i <= 2 * m \/ i > 2 * m
    BY <1>1
  <2> QED
    BY <2>2, <2>3, <2>4
<1>5. a \o b \in Seq(Byte) /\ Len(a \o b) = 2 * (m + n)
  BY <1>1, <1>2
<1> HIDE DEF a, b, c, m, n
<1>6. c = a \o b
  BY <1>1, <1>3, <1>4, <1>5, SeqEqual
<1> QED
  BY <1>6 DEF a, b, c

\* A stream can be swapped in pieces, if they are cut between samples.
LEMMA SwapOfConcat ==
  ASSUME NEW a \in Seq(Byte), NEW b \in Seq(Byte), Len(a) % 2 = 0
  PROVE  SwapPCM16(a \o b) = SwapPCM16(a) \o SwapPCM16(b)
<1> DEFINE m == Len(a)
           n == Len(b)
           p == SwapPCM16(a)
           q == SwapPCM16(b)
           c == SwapPCM16(a \o b)
<1>1. m \in Nat /\ n \in Nat /\ m % 2 = 0 /\ a \o b \in Seq(Byte) /\ Len(a \o b) = m + n
  OBVIOUS
<1>2. p \in Seq(Byte) /\ Len(p) = m /\ q \in Seq(Byte) /\ Len(q) = n
  BY SwapIsBytes
<1>3. c \in Seq(Byte) /\ Len(c) = m + n
  BY <1>1, SwapIsBytes
<1>4. ASSUME NEW i \in 1 .. m + n
      PROVE  c[i] = (p \o q)[i]
  <2> DEFINE k == IF i % 2 = 0 THEN i - 1 ELSE IF i < m + n THEN i + 1 ELSE i
  <2>1. c[i] = (a \o b)[k]
    BY <1>1 DEF SwapPCM16
  <2>2. CASE i <= m
    <3>1. (p \o q)[i] = p[i]
      BY <1>1, <1>2, <2>2
    <3>2. k \in 1 .. m /\ k = IF i % 2 = 0 THEN i - 1 ELSE IF i < m THEN i + 1 ELSE i
      BY <1>1, <2>2
    <3>3. p[i] = a[k]
      BY <1>1, <2>2, <3>2 DEF SwapPCM16
    <3>4. (a \o b)[k] = a[k]
      BY <3>2
    <3> QED
      BY <2>1, <3>1, <3>3, <3>4
  <2>3. CASE i > m
    <3> DEFINE j == i - m
    <3>0. j \in 1 .. n /\ j % 2 = i % 2
      BY <1>1, <2>3
    <3>1. (p \o q)[i] = q[j]
      BY <1>1, <1>2, <2>3
    <3>2. k - m \in 1 .. n /\ k - m = IF j % 2 = 0 THEN j - 1 ELSE IF j < n THEN j + 1 ELSE j
      BY <1>1, <2>3, <3>0
    <3>3. q[j] = b[k - m]
      BY <1>1, <3>0, <3>2 DEF SwapPCM16
    <3>4. (a \o b)[k] = b[k - m]
      BY <1>1, <3>2
    <3> QED
      BY <2>1, <3>1, <3>3, <3>4
  <2>4. i <= m \/ i > m
    BY <1>1
  <2> QED
    BY <2>2, <2>3, <2>4
<1>5. p \o q \in Seq(Byte) /\ Len(p \o q) = m + n
  BY <1>1, <1>2
<1> HIDE DEF p, q, c, m, n
<1>6. c = p \o q
  BY <1>1, <1>3, <1>4, <1>5, SeqEqual
<1> QED
  BY <1>6 DEF p, q, c

\* Resampled audio lasts as long as its source, but for less than a sample.
LEMMA DownsampledLength ==
  ASSUME NEW s \in Seq(Int16)
  PROVE  /\ Resample24to8(s) \in Seq(Int16)
         /\ 24000 * Len(Resample24to8(s)) <= 8000 * Len(s)
         /\ 8000 * Len(s) <= 24000 * (Len(Resample24to8(s)) + 1)
         /\ \A i \in 1 .. Len(Resample24to8(s)) : \E k \in 1 .. Len(s) : Resample24to8(s)[i] = s[k]
         /\ 24000 * Len(Resample24to16(s)) <= 16000 * Len(s)
         /\ 16000 * Len(s) <= 24000 * (Len(Resample24to16(s)) + 1)
<1> DEFINE r == Resample24to8(s)
           q == Resample24to16(s)
<1>1. Len(s) \in Nat
  OBVIOUS
<1>2. Len(r) = Len(s) \div 3 /\ DOMAIN r = 1 .. Len(r)
  BY <1>1 DEF Resample24to8
<1>3. Len(q) = (Len(s) * 2) \div 3
  BY <1>1 DEF Resample24to16
<1>4. ASSUME NEW i \in 1 .. Len(r)
      PROVE  3 * i - 2 \in 1 .. Len(s) /\ r[i] = s[3 * i - 2]
  BY <1>1, <1>2 DEF Resample24to8
<1>5. r \in Seq(Int16)
  <2>1. \A i \in 1 .. Len(s) \div 3 : s[3 * i - 2] \in Int16
    BY <1>1
  <2>2. Len(s) \div 3 \in Nat
    BY <1>1
  <2> QED
    BY <2>1, <2>2 DEF Resample24to8
<1>6. \A i \in 1 .. Len(r) : \E k \in 1 .. Len(s) : r[i] = s[k]
  BY <1>4
<1>7. 24000 * Len(r) <= 8000 * Len(s) /\ 8000 * Len(s) <= 24000 * (Len(r) + 1)
  BY <1>1, <1>2
<1>8. 24000 * Len(q) <= 16000 * Len(s) /\ 16000 * Len(s) <= 24000 * (Len(q) + 1)
  BY <1>1, <1>3
<1> QED
  BY <1>5, <1>6, <1>7, <1>8
=============================================================================

-------------------------- MODULE CallMediaProofs --------------------------
(***************************************************************************)
(* What TLAPS proves about CallMedia for every offer, every frame of the   *)
(* caller, every chunk of the provider and every companding law: the best  *)
(* common codec is answered, both sides hear each other, and at the speed  *)
(* at which they speak.                                                    *)
(***************************************************************************)
EXTENDS CallMedia, AudioFormatsProofs, WellFoundedInduction

-----------------------------------------------------------------------------
(***************************************************************************)
(* Negotiation.                                                            *)
(***************************************************************************)

\* A set of natural numbers that is not empty has a least one.
LEMMA LeastExists ==
  ASSUME NEW T, T \subseteq Nat, T # {}
  PROVE  \E x \in T : \A y \in T : x <= y
<1>1. PICK x \in T : \A y \in T : ~(<<y, x>> \in OpToRel(<, Nat))
  BY WFMin, NatLessThanWellFounded, Zenon
<1>2. ASSUME NEW y \in T
      PROVE  x <= y
  <2>1. x \in Nat /\ y \in Nat
    OBVIOUS
  <2>2. ~(y < x)
    BY <1>1, <2>1, Zenon DEF OpToRel
  <2> QED
    BY <2>1, <2>2
<1> QED
  BY <1>2

\* Of all pairs of codecs that match the first of ours with the first of theirs is
\* chosen, and none only if none match.
LEMMA NegotiatesTheFirst ==
  ASSUME NEW p, NEW remote, DOMAIN remote \subseteq Nat,
         DOMAIN ProviderCodecs(p) \subseteq Nat
  PROVE  LET found == Matches(p, remote)
         IN  IF found = {} THEN NegotiateCodec(p, remote) = {}
             ELSE \E x \in found : /\ NegotiateCodec(p, remote) = {remote[x[2]]}
                                   /\ \A y \in found : x[1] <= y[1]
<1> DEFINE found == Matches(p, remote)
           first(x) == \A y \in found : x[1] < y[1] \/ (x[1] = y[1] /\ x[2] <= y[2])
<1>1. NegotiateCodec(p, remote) = {remote[x[2]] : x \in {y \in found : first(y)}}
  BY Zenon DEF NegotiateCodec
<1>2. CASE found = {}
  BY <1>1, <1>2
<1>3. CASE found # {}
  <2> DEFINE ours   == {x[1] : x \in found}
             theirs(i) == {x[2] : x \in {y \in found : y[1] = i}}
  <2>0. \A x \in found : x[1] \in Nat /\ x[2] \in Nat /\ x = <<x[1], x[2]>>
    BY DEF Matches
  <2>1. PICK i \in ours : \A k \in ours : i <= k
    <3>1. ours \subseteq Nat /\ ours # {}
      BY <1>3, <2>0
    <3> QED
      BY <3>1, LeastExists
  <2>2. PICK j \in theirs(i) : \A k \in theirs(i) : j <= k
    <3>1. theirs(i) \subseteq Nat /\ theirs(i) # {}
      BY <2>0, <2>1
    <3> QED
      BY <3>1, LeastExists
  <2>3. PICK x \in found : x[1] = i /\ x[2] = j
    BY <2>2
  <2>4. \A y \in found : x[1] <= y[1]
    BY <2>1, <2>3
  <2>5. first(x)
    <3> SUFFICES ASSUME NEW y \in found
                 PROVE  x[1] < y[1] \/ (x[1] = y[1] /\ x[2] <= y[2])
      OBVIOUS
    <3>1. CASE y[1] = i
      <4>1. y[2] \in theirs(i)
        BY <3>1
      <4> QED
        BY <2>2, <2>3, <3>1, <4>1
    <3>2. CASE y[1] # i
      BY <2>0, <2>3, <2>4, <3>2
    <3> QED
      BY <3>1, <3>2
  <2>6. ASSUME NEW y \in found, first(y)
        PROVE  y = x
    <3>1. /\ y[1] < x[1] \/ (y[1] = x[1] /\ y[2] <= x[2])
          /\ x[1] < y[1] \/ (x[1] = y[1] /\ x[2] <= y[2])
      BY <2>5, <2>6
    <3> QED
      BY <2>0, <3>1
  <2>7. {y \in found : first(y)} = {x}
    BY <2>5, <2>6
  <2>8. NegotiateCodec(p, remote) = {remote[x[2]]}
    <3>1. {remote[z[2]] : z \in {x}} = {remote[x[2]]}
      OBVIOUS
    <3> QED
      BY <1>1, <2>7, <3>1, Zenon
  <2> QED
    BY <1>3, <2>4, <2>8
<1> QED
  BY <1>2, <1>3

\* The codecs any provider prefers.
LEMMA CodecsOfProviders ==
  ASSUME NEW p
  PROVE  /\ DOMAIN ProviderCodecs(p) \subseteq Nat \ {0}
         /\ \A i \in DOMAIN ProviderCodecs(p) :
              LET c == ProviderCodecs(p)[i]
              IN  \/ c.name = "L16" /\ c.rate = 24000
                  \/ c.name = "L16" /\ c.rate = 16000 /\ p = "gemini"
                  \/ c.name \in {"PCMU", "PCMA"} /\ c.rate = 8000
<1>1. CASE p \in {"openai", "deepgram"}
  BY <1>1 DEF ProviderCodecs, G711, Format
<1>2. CASE p = "gemini"
  BY <1>2 DEF ProviderCodecs, G711, Format
<1>3. CASE p \notin {"openai", "deepgram", "gemini"}
  <2>1. ProviderCodecs(p) = G711
    BY <1>3 DEF ProviderCodecs
  <2> QED
    BY <2>1 DEF G711, Format
<1> QED
  BY <1>1, <1>2, <1>3

\* An offer is a list of codecs.
LEMMA OffersAreSequences ==
  ASSUME NEW o \in Offers
  PROVE  DOMAIN o \subseteq Nat /\ ToSet(o) = {o[i] : i \in DOMAIN o}
BY MediaAssumption DEF ToSet

\* A call is rejected only if no codec of the offer matches.
LEMMA RejectIsRight ==
  ASSUME offer \in Offers, NegotiateCodec(provider, offer) = {}
  PROVE  \A i \in DOMAIN ProviderCodecs(provider) :
           ~\E j \in DOMAIN offer : codecMatch(ProviderCodecs(provider)[i], offer[j])
<1>1. Matches(provider, offer) = {}
  BY NegotiatesTheFirst, CodecsOfProviders, OffersAreSequences
<1> SUFFICES ASSUME NEW i \in DOMAIN ProviderCodecs(provider), NEW j \in DOMAIN offer,
                    codecMatch(ProviderCodecs(provider)[i], offer[j])
             PROVE  FALSE
  OBVIOUS
<1>2. <<i, j>> \in Matches(provider, offer)
  BY DEF Matches
<1> QED
  BY <1>1, <1>2

\* The codec that is answered matches one the provider prefers, and none before it matches.
LEMMA AnswerIsBest ==
  ASSUME offer \in Offers, NegotiateCodec(provider, offer) # {}
  PROVE  \E c \in ToSet(offer), i \in DOMAIN ProviderCodecs(provider) :
           /\ NegotiateCodec(provider, offer) = {c}
           /\ codecMatch(ProviderCodecs(provider)[i], c)
           /\ \A k \in 1 .. i - 1 :
                ~\E j \in DOMAIN offer : codecMatch(ProviderCodecs(provider)[k], offer[j])
<1> DEFINE found == Matches(provider, offer)
<1>1. PICK x \in found : /\ NegotiateCodec(provider, offer) = {offer[x[2]]}
                         /\ \A y \in found : x[1] <= y[1]
  BY NegotiatesTheFirst, CodecsOfProviders, OffersAreSequences
<1>2. /\ x[1] \in DOMAIN ProviderCodecs(provider) /\ x[2] \in DOMAIN offer
      /\ codecMatch(ProviderCodecs(provider)[x[1]], offer[x[2]])
  BY DEF Matches
<1>3. x[1] \in Nat /\ offer[x[2]] \in ToSet(offer)
  BY <1>2, CodecsOfProviders, OffersAreSequences
<1>4. ASSUME NEW k \in 1 .. x[1] - 1, NEW j \in DOMAIN offer,
             codecMatch(ProviderCodecs(provider)[k], offer[j])
      PROVE  FALSE
  <2>1. k \in DOMAIN ProviderCodecs(provider)
    <3>1. DOMAIN ProviderCodecs(provider) = 1 .. Len(ProviderCodecs(provider))
            /\ Len(ProviderCodecs(provider)) \in Nat
      <4>1. CASE provider \in {"openai", "deepgram"}
        <5>1. ProviderCodecs(provider) = <<Format("L16", 24000)>> \o G711
          BY <4>1 DEF ProviderCodecs
        <5> QED
          BY <5>1 DEF G711, Format
      <4>2. CASE provider = "gemini"
        BY <4>2 DEF ProviderCodecs, G711, Format
      <4>3. CASE provider \notin {"openai", "deepgram", "gemini"}
        <5>1. ProviderCodecs(provider) = G711
          BY <4>3 DEF ProviderCodecs
        <5> QED
          BY <5>1 DEF G711, Format
      <4> QED
        BY <4>1, <4>2, <4>3
    <3> QED
      BY <1>2, <1>3, <3>1
  <2>2. <<k, j>> \in found
    BY <1>4, <2>1 DEF Matches
  <2>3. x[1] <= k
    BY <1>1, <2>2
  <2> QED
    BY <1>3, <2>3
<1> QED
  BY <1>1, <1>2, <1>3, <1>4

-----------------------------------------------------------------------------
(***************************************************************************)
(* Audio on the wire.                                                      *)
(***************************************************************************)

\* A sample is companded to a byte.
LEMMA EncodedIsByte ==
  ASSUME NEW name, NEW s \in Int16
  PROVE  EncodeG711(Law(name), s) \in Byte
<1>1. Low(s) \in Byte /\ High(s) \in Byte /\ ToInt16(Low(s) + 256 * High(s)) = s
  BY BytesOfSample
<1>2. Law(name) \in {"PCMU", "PCMA"}
  BY DEF Law
<1>3. EncodeG711(Law(name), ToInt16(Low(s) + 256 * High(s))) \in Byte
  BY <1>1, <1>2, MediaAssumption
<1> QED
  BY <1>1, <1>3

\* Audio can be put on the wire in pieces.
LEMMA OnWireOfConcat ==
  ASSUME NEW name, NEW s \in Seq(Int16), NEW t \in Seq(Int16)
  PROVE  OnWire(name, s \o t) = OnWire(name, s) \o OnWire(name, t)
<1>1. CASE name = "L16"
  <2>1. /\ Int16ToBytes(s) \in Seq(Byte) /\ Int16ToBytes(t) \in Seq(Byte)
        /\ Len(Int16ToBytes(s)) = 2 * Len(s)
    BY BytesAreBytes
  <2>2. Len(Int16ToBytes(s)) % 2 = 0
    BY <2>1
  <2>3. SwapPCM16(Int16ToBytes(s) \o Int16ToBytes(t))
          = SwapPCM16(Int16ToBytes(s)) \o SwapPCM16(Int16ToBytes(t))
    BY <2>1, <2>2, SwapOfConcat
  <2> QED
    BY <1>1, <2>3, BytesOfConcat DEF OnWire
<1>2. CASE name # "L16"
  <2> DEFINE E(a) == Encode(Law(name), a)
  <2>1. \A a \in Seq(Int16) : E(a) \in Seq(Byte) /\ Len(E(a)) = Len(a)
    BY EncodedIsByte DEF Encode
  <2>2. s \o t \in Seq(Int16)
    OBVIOUS
  <2>3. ASSUME NEW i \in 1 .. Len(s \o t)
        PROVE  E(s \o t)[i] = (E(s) \o E(t))[i]
    <3>1. CASE i <= Len(s)
      BY <2>1, <2>2, <3>1 DEF Encode
    <3>2. CASE i > Len(s)
      <4>1. i - Len(s) \in 1 .. Len(t) /\ (s \o t)[i] = t[i - Len(s)]
        BY <3>2
      <4>2. (E(s) \o E(t))[i] = E(t)[i - Len(s)]
        BY <2>1, <3>2, <4>1
      <4>3. E(t)[i - Len(s)] = EncodeG711(Law(name), t[i - Len(s)])
        BY <4>1 DEF Encode
      <4>4. E(s \o t)[i] = EncodeG711(Law(name), (s \o t)[i])
        BY <2>2 DEF Encode
      <4> QED
        BY <4>1, <4>2, <4>3, <4>4
    <3>3. i <= Len(s) \/ i > Len(s)
      OBVIOUS
    <3> QED
      BY <3>1, <3>2, <3>3
  <2>4. /\ E(s) \in Seq(Byte) /\ E(t) \in Seq(Byte) /\ E(s \o t) \in Seq(Byte)
        /\ Len(E(s \o t)) = Len(s \o t) /\ Len(E(s)) = Len(s) /\ Len(E(t)) = Len(t)
    BY <2>1, <2>2
  <2>5. OnWire(name, s \o t) = E(s \o t) /\ OnWire(name, s) = E(s) /\ OnWire(name, t) = E(t)
    BY <1>2 DEF OnWire
  <2> HIDE DEF E
  <2>6. E(s) \o E(t) \in Seq(Byte) /\ Len(E(s) \o E(t)) = Len(s \o t)
    <3>1. E(s) \o E(t) \in Seq(Byte) /\ Len(E(s) \o E(t)) = Len(E(s)) + Len(E(t))
      BY <2>4, ConcatProperties
    <3>2. Len(s \o t) = Len(s) + Len(t)
      OBVIOUS
    <3> QED
      BY <2>4, <3>1, <3>2
  <2>7. E(s \o t) = E(s) \o E(t)
    BY <2>3, <2>4, <2>6, SeqEqual
  <2> QED
    BY <2>5, <2>7
<1> QED
  BY <1>1, <1>2

\* What is on the wire are bytes.
LEMMA OnWireIsBytes ==
  ASSUME NEW name, NEW s \in Seq(Int16)
  PROVE  /\ OnWire(name, s) \in Seq(Byte)
         /\ Len(OnWire(name, s)) = BytesPerSample(name) * Len(s)
         /\ Len(OnWire(name, s)) \div BytesPerSample(name) = Len(s)
<1>1. CASE name = "L16"
  BY <1>1, BytesAreBytes, SwapIsBytes DEF OnWire, BytesPerSample
<1>2. CASE name # "L16"
  BY <1>2, EncodedIsByte DEF OnWire, Encode, BytesPerSample
<1> QED
  BY <1>1, <1>2

-----------------------------------------------------------------------------
(***************************************************************************)
(* What the provider hears.                                                *)
(***************************************************************************)

\* The codec of a call that was answered.
LEMMA CodecOfCall ==
  ASSUME pc = "up", BestCodec
  PROVE  /\ codec = {The}
         /\ \/ The.name = "L16" /\ The.rate = 24000
            \/ The.name = "L16" /\ The.rate = 16000 /\ provider = "gemini"
            \/ The.name \in {"PCMU", "PCMA"} /\ The.rate = 8000
<1>1. PICK c \in ToSet(offer), i \in DOMAIN ProviderCodecs(provider) :
         codec = {c} /\ codecMatch(ProviderCodecs(provider)[i], c)
  BY DEF BestCodec
<1>2. The = c
  BY <1>1 DEF The
<1> QED
  BY <1>1, <1>2, CodecsOfProviders DEF codecMatch

\* With L16 the provider is sent what the caller sends, at the rate it knows.
LEMMA FormatOfL16 ==
  ASSUME pc = "up", BestCodec, RateIsKnown, The.name = "L16"
  PROVE  InputFormat(provider, The) = Format("L16", The.rate)
<1>1. CASE provider = "gemini"
  BY <1>1, CodecOfCall DEF RateIsKnown, codecMatch, InputFormat, Format
<1>2. CASE provider # "gemini"
  BY <1>2, CodecOfCall DEF InputFormat, SpokenFormat, Format
<1> QED
  BY <1>1, <1>2

\* The samples of a frame of L16 reach the provider.
LEMMA L16IsHeard ==
  ASSUME pc = "up", BestCodec, RateIsKnown, The.name = "L16",
         NEW x, BytesToInt16(SwapPCM16(x.frame)) = BytesToInt16(x.sent)
  PROVE  HearsCaller(x)
<1>1. InputFormat(provider, The) = Format("L16", The.rate)
  BY FormatOfL16
<1> QED
  BY <1>1 DEF HearsCaller, FromWire, FromFormat, Format

\* The samples of a frame of G.711 reach the provider.
LEMMA G711IsHeard ==
  ASSUME pc = "up", BestCodec, The.name # "L16",
         NEW x, x.frame \in Seq(Byte),
         x.sent = IF provider = "gemini" THEN transcodeSend(The.name, x.frame) ELSE x.frame
  PROVE  HearsCaller(x)
<1>1. The.name \in {"PCMU", "PCMA"} /\ The.rate = 8000
  BY CodecOfCall
<1> DEFINE said == Decode(Law(The.name), x.frame)
<1>2. FromWire(The.name, x.frame) = said
  BY DEF FromWire
<1>3. CASE provider # "gemini"
  <2>1. InputFormat(provider, The) = Format(The.name, 8000)
    BY <1>1, <1>3 DEF InputFormat, SpokenFormat
  <2>2. FromFormat(InputFormat(provider, The), x.sent) = said
    BY <1>3, <2>1 DEF FromFormat, Format
  <2> QED
    BY <1>1, <1>2, <2>1, <2>2 DEF HearsCaller, Format
<1>4. CASE provider = "gemini"
  <2>1. InputFormat(provider, The) = Format("L16", 16000)
    BY <1>4 DEF InputFormat
  <2>2. said \in Seq(Int16)
    BY <1>1, MediaAssumption DEF Decode, Law
  <2>3. x.sent = Int16ToBytes(Resample8to16(said))
    BY <1>4 DEF transcodeSend
  <2>4. FromFormat(InputFormat(provider, The), x.sent) = Resample8to16(said)
    BY <2>1, <2>2, <2>3, UpsamplingIsBetween, SamplesSurvive DEF FromFormat, Format
  <2> HIDE DEF said
  <2>5. \A i \in 1 .. Len(said) :
          /\ Resample8to16(said)[2 * i - 1] = said[i]
          /\ Between(Resample8to16(said)[2 * i], said[i], said[IF i < Len(said) THEN i + 1 ELSE i])
    BY <2>2, UpsamplingIsBetween DEF Between
  <2> QED
    BY <1>1, <1>2, <2>1, <2>4, <2>5 DEF HearsCaller, Format
<1> QED
  BY <1>3, <1>4

\* A frame has a number of bytes.
LEMMA FrameBytesIsNat ==
  ASSUME pc = "up", BestCodec
  PROVE  FrameBytes \in Nat /\ FrameBytes \div BytesPerSample(The.name) \in Nat
<1>1. The.rate \in Nat /\ BytesPerSample(The.name) \in {1, 2}
  BY CodecOfCall DEF BytesPerSample
<1>2. The.rate * BytesPerSample(The.name) * FrameDuration \in Nat
  BY <1>1, DurationAssumption
<1>3. \A a \in Nat, b \in Nat \ {0} : a \div b \in Nat
  OBVIOUS
<1> QED
  BY <1>1, <1>2, <1>3, DurationAssumption DEF FrameBytes, FrameBytesFor

\* A frame of the caller is heard.
LEMMA FrameIsHeard ==
  ASSUME pc = "up", BestCodec, RateIsKnown, NEW samples \in CallerFrames,
         NEW x, x = [frame |-> OnWire(The.name, samples), sent |-> Sent(OnWire(The.name, samples))]
  PROVE  HearsCaller(x)
<1>1. samples \in Seq(Int16) /\ samples \in Seq(CallerSamples)
  BY FrameBytesIsNat, MediaAssumption DEF CallerFrames
<1>2. CASE The.name = "L16"
  <2> DEFINE b == Int16ToBytes(samples)
  <2>1. b \in Seq(Byte)
    BY <1>1, BytesAreBytes
  <2>2. x.frame = SwapPCM16(b)
    BY <1>2 DEF OnWire
  <2>3. x.sent = SwapPCM16(SwapPCM16(b))
    BY <1>2 DEF OnWire, Sent, Swapped, transcodeSend
  <2>4. SwapPCM16(x.frame) = x.sent
    BY <2>2, <2>3
  <2> QED
    BY <1>2, <2>4, L16IsHeard
<1>3. CASE The.name # "L16"
  <2>1. x.frame = Encode(Law(The.name), samples)
    BY <1>3 DEF OnWire
  <2>2. x.frame \in Seq(Byte)
    BY <1>1, <2>1, EncodedIsByte DEF Encode
  <2>3. x.sent = IF provider = "gemini" THEN transcodeSend(The.name, x.frame) ELSE x.frame
    BY <1>3 DEF Sent, Swapped
  <2> QED
    BY <1>3, <2>2, <2>3, G711IsHeard
<1> QED
  BY <1>2, <1>3

\* The silence that stands for a missing frame is heard.
LEMMA SilenceIsHeard ==
  ASSUME pc = "up", BestCodec, RateIsKnown, NEW x,
         x = [frame |-> Silence,
              sent |-> IF provider = "gemini" THEN transcodeSend(The.name, Silence) ELSE Silence]
  PROVE  HearsCaller(x)
<1>1. Silence \in Seq(Byte) /\ Len(Silence) = FrameBytes
  <2>1. SilenceByte(The.name) \in Byte
    BY DEF SilenceByte, Byte
  <2> QED
    BY <2>1, FrameBytesIsNat DEF Silence
<1>2. CASE The.name = "L16"
  <2>1. \A i \in 1 .. FrameBytes : Silence[i] = 0
    BY <1>2 DEF Silence, SilenceByte
  <2>2. SwapPCM16(Silence) = Silence
    <3>1. \A i \in 1 .. FrameBytes : SwapPCM16(Silence)[i] = 0
      BY <1>1, <2>1, FrameBytesIsNat DEF SwapPCM16
    <3> QED
      BY <1>1, <2>1, <3>1, SwapIsBytes
  <2>3. x.sent = Silence /\ x.frame = Silence
    BY <1>2 DEF transcodeSend
  <2> QED
    BY <1>2, <2>2, <2>3, L16IsHeard
<1>3. CASE The.name # "L16"
  BY <1>1, <1>3, G711IsHeard
<1> QED
  BY <1>2, <1>3

-----------------------------------------------------------------------------
(***************************************************************************)
(* The invariant.                                                          *)
(***************************************************************************)

\* Nothing of a call moves before it is answered, and its frames are heard.
MediaInv ==
  /\ offer \in Offers
  /\ pc = "invited" => up = {}
  /\ BestCodec
  /\ CallerIsHeard

\* A call starts with nothing answered and nothing heard.
LEMMA InitMedia == Init => MediaInv
BY DEF Init, MediaInv, BestCodec, CallerIsHeard

\* What the negotiation decided stays, and a frame of the caller is judged by that.
LEMMA SameCall ==
  ASSUME MediaInv, pc = "up", UNCHANGED <<provider, offer, pc, codec>>
  PROVE  /\ offer' \in Offers /\ pc' = "up" /\ BestCodec' /\ RateIsKnown' = RateIsKnown
         /\ \A x : HearsCaller(x)' = HearsCaller(x)
<1>1. The' = The
  BY DEF The
<1>2. BestCodec'
  BY DEF MediaInv, BestCodec
<1>3. RateIsKnown' = RateIsKnown
  BY <1>1 DEF RateIsKnown
<1>4. \A x : HearsCaller(x)' = HearsCaller(x)
  BY <1>1 DEF HearsCaller
<1> QED
  BY <1>2, <1>3, <1>4 DEF MediaInv

\* Each step keeps the codec and what the provider hears.
LEMMA StepMedia == MediaInv /\ [Next]_vars => MediaInv'
<1> SUFFICES ASSUME MediaInv, [Next]_vars
             PROVE  MediaInv'
  OBVIOUS
<1>1. CASE Reject
  BY <1>1, RejectIsRight DEF Reject, MediaInv, BestCodec, CallerIsHeard
<1>2. CASE Answer
  <2>1. BestCodec'
    BY <1>2, AnswerIsBest DEF Answer, MediaInv, BestCodec
  <2>2. up' = {} /\ pc' = "up" /\ offer' = offer
    BY <1>2 DEF Answer, MediaInv, upVars
  <2> QED
    BY <2>1, <2>2 DEF MediaInv, CallerIsHeard
<1>3. ASSUME NEW samples \in CallerFrames, pc = "up", UplinkFrame(samples)
      PROVE  MediaInv'
  <2>1. UNCHANGED <<provider, offer, pc, codec>>
    BY <1>3 DEF UplinkFrame
  <2>2. \A x \in up' :
          x = [frame |-> OnWire(The.name, samples), sent |-> Sent(OnWire(The.name, samples))]
    BY <1>3 DEF UplinkFrame, SendAudio
  <2>3. RateIsKnown => \A x \in up' : HearsCaller(x)
    BY <1>3, <2>2, FrameIsHeard DEF MediaInv
  <2> QED
    BY <1>3, <2>1, <2>3, SameCall DEF MediaInv, CallerIsHeard
<1>4. CASE UplinkSilence
  <2>1. UNCHANGED <<provider, offer, pc, codec>> /\ pc = "up"
    BY <1>4 DEF UplinkSilence
  <2>2. RateIsKnown => \A x \in up' : HearsCaller(x)
    BY <1>4, <2>1, SilenceIsHeard DEF UplinkSilence, MediaInv
  <2> QED
    BY <2>1, <2>2, SameCall DEF MediaInv, CallerIsHeard
<1>5. CASE Downlink
  <2>1. UNCHANGED <<provider, offer, pc, codec, up>> /\ pc = "up"
    BY <1>5 DEF Downlink, DownlinkChunk, ChunkLost, PlayFrame, PlaySilence, Drain, upVars
  <2> QED
    BY <2>1, SameCall DEF MediaInv, CallerIsHeard
<1>6. CASE UNCHANGED vars
  <2>1. UNCHANGED <<provider, offer, pc, codec, up>>
    BY <1>6 DEF vars, upVars
  <2>2. CASE pc = "up"
    BY <2>1, <2>2, SameCall DEF MediaInv, CallerIsHeard
  <2>3. CASE pc # "up"
    BY <2>1, <2>3 DEF MediaInv, BestCodec, CallerIsHeard
  <2> QED
    BY <2>2, <2>3
<1> QED
  BY <1>1, <1>2, <1>3, <1>4, <1>5, <1>6 DEF Next, Uplink

\* Every call is answered with the best codec it has in common with its provider,
\* and none is rejected that has one, whatever is offered.
THEOREM BestCodecAnswered == Spec => []BestCodec
<1>1. MediaInv => BestCodec
  BY DEF MediaInv
<1> QED
  BY InitMedia, StepMedia, <1>1, PTL DEF Spec

\* Whatever the caller says, in frames of any length, the provider hears it.
THEOREM CallerHeard == Spec => []CallerIsHeard
<1>1. MediaInv => CallerIsHeard
  BY DEF MediaInv
<1> QED
  BY InitMedia, StepMedia, <1>1, PTL DEF Spec

-----------------------------------------------------------------------------
(***************************************************************************)
(* What the caller hears.                                                  *)
(***************************************************************************)

\* What becomes of the samples of a chunk.
Resampled(said) ==
  IF provider = "gemini"
  THEN IF The.name = "L16" THEN Resample24to16(said) ELSE Resample24to8(said)
  ELSE said

\* The caller's sample s comes from those of the provider.
Comes(s, samples) ==
  IF The.name = "L16" THEN \E a, b \in {0} \cup ToSet(samples) : Between(s, a, b)
  ELSE s \in ToSet(samples)

\* The format in which each provider speaks.
LEMMA FormatOfDownlink ==
  ASSUME pc = "up", BestCodec, RateIsKnown
  PROVE  \/ provider # "gemini" /\ OutputFormat(provider, The) = Format(The.name, The.rate)
         \/ /\ provider = "gemini" /\ OutputFormat(provider, The) = Format("L16", 24000)
            /\ \/ The.name = "L16" /\ The.rate = 16000
               \/ The.name \in {"PCMU", "PCMA"} /\ The.rate = 8000
<1>1. CASE provider = "gemini"
  BY <1>1, CodecOfCall DEF RateIsKnown, codecMatch, OutputFormat, Format
<1>2. CASE provider # "gemini"
  BY <1>2, CodecOfCall DEF OutputFormat, SpokenFormat, Format
<1> QED
  BY <1>1, <1>2

\* The values of a sequence of samples.
LEMMA SetOfSamples ==
  ASSUME NEW s \in Seq(Int16)
  PROVE  ToSet(s) = {s[i] : i \in 1 .. Len(s)} /\ ToSet(s) \subseteq Int16
BY DEF ToSet

\* A chunk reaches the adapter as its samples have to be on the wire.
LEMMA ChunkOnWire ==
  ASSUME pc = "up", BestCodec, NEW said \in Seq(Int16)
  PROVE  /\ Resampled(said) \in Seq(Int16)
         /\ Received(InFormat(OutputFormat(provider, The), said)) = OnWire(The.name, Resampled(said))
<1>1. CASE provider = "gemini"
  <2>1. InFormat(OutputFormat(provider, The), said) = Int16ToBytes(said)
    BY <1>1 DEF InFormat, OutputFormat, Format
  <2>2. BytesToInt16(Int16ToBytes(said)) = said
    BY SamplesSurvive
  <2>3. Received(InFormat(OutputFormat(provider, The), said)) = OnWire(The.name, Resampled(said))
    BY <1>1, <2>1, <2>2 DEF Received, transcodeRecv, Swapped, OnWire, Resampled
  <2>4. Resampled(said) \in Seq(Int16)
    BY <1>1, DownsampledLength, DownsamplingIsBetween DEF Resampled
  <2> QED
    BY <2>3, <2>4
<1>2. CASE provider # "gemini"
  <2>1. OutputFormat(provider, The).name = The.name
    BY <1>2, CodecOfCall DEF OutputFormat, SpokenFormat, Format
  <2> QED
    BY <1>2, <2>1 DEF Received, Swapped, InFormat, OnWire, Resampled
<1> QED
  BY <1>1, <1>2

\* And its samples come from the provider, in the time it took for them.
LEMMA ChunkIsHeard ==
  ASSUME pc = "up", BestCodec, RateIsKnown, NEW said \in Seq(Int16)
  PROVE  LET from == OutputFormat(provider, The)
             r    == Resampled(said)
         IN  /\ from.rate = The.rate => r = said
             /\ from.rate # The.rate => \A i \in 1 .. Len(r) : Comes(r[i], said)
             /\ Len(r) * from.rate <= Len(said) * The.rate
             /\ Len(said) * The.rate <= (Len(r) + 1) * from.rate
<1> DEFINE from == OutputFormat(provider, The)
           r == Resampled(said)
<1>0. Len(said) \in Nat /\ r \in Seq(Int16) /\ Len(r) \in Nat
  BY ChunkOnWire
<1>1. CASE provider # "gemini"
  <2>1. from.rate = The.rate /\ r = said /\ The.rate \in {8000, 16000, 24000}
    BY <1>1, FormatOfDownlink, CodecOfCall DEF Resampled, Format
  <2> QED
    BY <1>0, <2>1
<1>2. CASE provider = "gemini" /\ The.name = "L16"
  <2>1. from.rate = 24000 /\ The.rate = 16000 /\ r = Resample24to16(said)
    BY <1>2, FormatOfDownlink DEF Resampled, Format
  <2>2. ASSUME NEW i \in 1 .. Len(r)
        PROVE  Comes(r[i], said)
    <3>1. \/ \E k \in 1 .. Len(said) - 1 : Between(r[i], said[k], said[k + 1])
          \/ r[i] = 0
      <4> DEFINE k == (3 * i - 1) \div 2
      <4> DEFINE q == Resample24to16(said)
      <4>1. \A j \in 1 .. Len(q) :
              LET l == (3 * j - 1) \div 2
                  d == q[j]
              IN  \/ /\ l \in 1 .. Len(said) - 1
                     /\ (said[l] <= d /\ d <= said[l + 1]) \/ (said[l + 1] <= d /\ d <= said[l])
                  \/ d = 0 /\ j = Len(q) /\ Len(said) % 3 = 2
        BY DownsamplingIsBetween, Zenon
      <4>q. q = r
        BY <2>1
      <4> HIDE DEF q, r
      <4>2. \/ k \in 1 .. Len(said) - 1 /\ Between(r[i], said[k], said[k + 1])
            \/ r[i] = 0
        BY <4>1, <4>q DEF Between
      <4> QED
        BY <4>2
    <3>2. CASE r[i] = 0
      BY <1>2, <3>2 DEF Comes, Between
    <3>3. ASSUME NEW k \in 1 .. Len(said) - 1, Between(r[i], said[k], said[k + 1])
          PROVE  Comes(r[i], said)
      <4>1. said[k] \in ToSet(said) /\ said[k + 1] \in ToSet(said)
        BY <1>0, SetOfSamples
      <4> QED
        BY <1>2, <3>3, <4>1 DEF Comes
    <3> QED
      BY <3>1, <3>2, <3>3
  <2>3. /\ 24000 * Len(r) <= 16000 * Len(said)
        /\ 16000 * Len(said) <= 24000 * (Len(r) + 1)
    BY <2>1, DownsampledLength
  <2> QED
    BY <1>0, <2>1, <2>2, <2>3
<1>3. CASE provider = "gemini" /\ The.name # "L16"
  <2>1. from.rate = 24000 /\ The.rate = 8000 /\ r = Resample24to8(said)
    BY <1>3, FormatOfDownlink DEF Resampled, Format
  <2>2. ASSUME NEW i \in 1 .. Len(r)
        PROVE  Comes(r[i], said)
    BY <1>3, <2>1, DownsampledLength, SetOfSamples DEF Comes
  <2>3. /\ 24000 * Len(r) <= 8000 * Len(said)
        /\ 8000 * Len(said) <= 24000 * (Len(r) + 1)
    BY <2>1, DownsampledLength
  <2> QED
    BY <1>0, <2>1, <2>2, <2>3
<1> QED
  BY <1>1, <1>2, <1>3

\* A packet is of one frame's duration exactly.
LEMMA PacketIsAFrame ==
  ASSUME pc = "up", BestCodec
  PROVE  FrameBytes * Second = The.rate * BytesPerSample(The.name) * FrameDuration
<1> DEFINE k == The.rate \div Second
           m == BytesPerSample(The.name) * FrameDuration
<1>1. The.rate \in {8000, 16000, 24000} /\ BytesPerSample(The.name) \in {1, 2}
  BY CodecOfCall DEF BytesPerSample
<1>2. FrameDuration \in Nat /\ Second \in Nat \ {0}
  BY DurationAssumption
<1>3. The.rate % Second = 0 /\ The.rate \in Nat
  BY <1>1, MediaAssumption
<1>4. \A r \in Nat, S \in Nat \ {0} : r % S = 0 => r = (r \div S) * S /\ r \div S \in Nat
  OBVIOUS
<1>5. The.rate = k * Second /\ k \in Nat
  BY <1>2, <1>3, <1>4
<1>6. m \in Nat
  BY <1>1, <1>2
<1>7. \A a \in Nat, S \in Nat \ {0} : (a * S) \div S = a
  OBVIOUS
<1>8. \A x \in Nat, b \in Nat, d \in Nat : x * b * d = x * (b * d)
  OBVIOUS
<1>9. The.rate * BytesPerSample(The.name) * FrameDuration = The.rate * m
  BY <1>1, <1>2, <1>8
<1> HIDE DEF k, m
<1>10. \A x \in Nat, b \in Nat, d \in Nat : (x * b) * d = (x * d) * b /\ x * d \in Nat
  OBVIOUS
<1>11. The.rate * m = (k * m) * Second /\ k * m \in Nat
  BY <1>2, <1>5, <1>6, <1>10
<1>12. FrameBytes = k * m
  BY <1>2, <1>7, <1>9, <1>11 DEF FrameBytes, FrameBytesFor
<1> QED
  BY <1>9, <1>11, <1>12

\* Silence is a frame of bytes.
LEMMA FrameBytesIsWhole ==
  ASSUME pc = "up", BestCodec
  PROVE  FrameBytes \in Nat /\ Silence \in Seq(Byte) /\ Len(Silence) = FrameBytes
<1>1. SilenceByte(The.name) \in Byte
  BY DEF SilenceByte, Byte
<1> QED
  BY <1>1, FrameBytesIsNat DEF Silence

-----------------------------------------------------------------------------
(***************************************************************************)
(* The audio in the adapter and behind it is what became of the samples h  *)
(* of the provider; h is made chunk by chunk.                              *)
(***************************************************************************)

HeardAs(h) ==
  LET from == OutputFormat(provider, The)
  IN  /\ out \o buf = OnWire(The.name, h)
      /\ from.rate = The.rate => h = told
      /\ from.rate # The.rate => \A i \in 1 .. Len(h) : Comes(h[i], told)
      /\ Len(h) * from.rate <= Len(told) * The.rate
      /\ Len(told) * The.rate <= (Len(h) + chunks) * from.rate

\* What the provider was sent of a frame lasts as long as the frame.
InTime(x) ==
  (Len(x.frame) \div BytesPerSample(The.name)) * InputFormat(provider, The).rate
    = (Len(x.sent) \div BytesPerSample(InputFormat(provider, The).name)) * The.rate

AudioInv ==
  /\ TypeOK
  /\ pc # "up" => /\ codec = {} /\ up = {} /\ told = <<>> /\ chunks = 0
                  /\ out = <<>> /\ buf = <<>> /\ rtp = <<>>
  /\ pc = "up" => (rtp = <<>> \/ Len(rtp) = FrameBytes)
  /\ pc = "up" /\ RateIsKnown => /\ \E h \in Seq(Int16) : HeardAs(h)
                                 /\ \A x \in up : InTime(x)

\* The rates a call can have.
LEMMA RatesOfCall ==
  ASSUME pc = "up", BestCodec
  PROVE  /\ The.rate \in {8000, 16000, 24000}
         /\ OutputFormat(provider, The).rate \in {8000, 16000, 24000}
BY CodecOfCall DEF OutputFormat, SpokenFormat, Format

\* Whatever is sent in place of a frame of the same length is in time.
LEMMA SentInTime ==
  ASSUME pc = "up", BestCodec, NEW frame \in Seq(Byte), NEW b \in Seq(Byte), Len(b) = Len(frame),
         NEW x, x = [frame |-> frame,
                     sent |-> IF provider = "gemini" THEN transcodeSend(The.name, b) ELSE b]
  PROVE  x.frame \in Seq(Byte) /\ x.sent \in Seq(Byte) /\ (RateIsKnown => InTime(x))
<1>1. CASE The.name = "L16"
  <2>1. x.frame = frame /\ x.sent = b
    BY <1>1 DEF transcodeSend
  <2>2. RateIsKnown => InputFormat(provider, The) = Format("L16", The.rate)
    BY <1>1, FormatOfL16
  <2> QED
    BY <1>1, <2>1, <2>2 DEF InTime, Format
<1>2. CASE The.name # "L16" /\ provider # "gemini"
  <2>1. x.frame = frame /\ x.sent = b
    BY <1>2
  <2>2. InputFormat(provider, The) = Format(The.name, The.rate)
    BY <1>2, CodecOfCall DEF InputFormat, SpokenFormat, Format
  <2> QED
    BY <2>1, <2>2 DEF InTime, Format
<1>3. CASE The.name # "L16" /\ provider = "gemini"
  <2> DEFINE said == Decode(Law(The.name), b)
             n == Len(frame)
  <2>1. said \in Seq(Int16) /\ Len(said) = n /\ n \in Nat
    <3>1. Law(The.name) \in {"PCMU", "PCMA"}
      BY DEF Law
    <3> QED
      BY <3>1, MediaAssumption DEF Decode
  <2>2. x.frame = frame /\ x.sent = Int16ToBytes(Resample8to16(said))
    BY <1>3 DEF transcodeSend
  <2>3. x.sent \in Seq(Byte) /\ Len(x.sent) = 2 * (2 * n)
    BY <2>1, <2>2, UpsamplingIsBetween, BytesAreBytes
  <2>4. InputFormat(provider, The) = Format("L16", 16000) /\ The.rate = 8000
    BY <1>3, CodecOfCall DEF InputFormat
  <2>5. InTime(x)
    <3>1. BytesPerSample(The.name) = 1 /\ BytesPerSample("L16") = 2
      BY <1>3 DEF BytesPerSample
    <3>2. Len(x.frame) = n
      BY <2>2
    <3>3. (n \div 1) * 16000 = ((2 * (2 * n)) \div 2) * 8000
      BY <2>1
    <3> QED
      BY <2>3, <2>4, <3>1, <3>2, <3>3 DEF InTime, Format
  <2> QED
    BY <2>2, <2>3, <2>5
<1> QED
  BY <1>1, <1>2, <1>3

\* A call starts with no audio anywhere.
LEMMA InitAudio == Init => AudioInv
BY DEF Init, AudioInv, TypeOK

\* What was negotiated stays, and with it every format.
LEMMA SameFormats ==
  ASSUME UNCHANGED <<provider, offer, pc, codec>>
  PROVE  /\ The' = The /\ FrameBytes' = FrameBytes /\ RateIsKnown' = RateIsKnown
         /\ OutputFormat(provider, The)' = OutputFormat(provider, The)
         /\ \A x : InTime(x)' = InTime(x)
<1>1. The' = The
  BY DEF The
<1> QED
  BY <1>1 DEF FrameBytes, RateIsKnown, InTime

\* As long as the audio is only moved, it is heard as before.
LEMMA MovedIsHeard ==
  ASSUME UNCHANGED <<provider, offer, pc, codec, told, chunks>>,
         out' \o buf' = out \o buf, NEW h, HeardAs(h)
  PROVE  HeardAs(h)'
<1>1. The' = The
  BY SameFormats
<1>2. \A s : Comes(s, told)' = Comes(s, told)
  BY <1>1 DEF Comes
<1> QED
  BY <1>1, <1>2 DEF HeardAs

\* Bytes may be appended in one go or in two.
LEMMA BytesInOrder ==
  ASSUME NEW a \in Seq(Byte), NEW b \in Seq(Byte), NEW c \in Seq(Byte)
  PROVE  a \o (b \o c) = (a \o b) \o c
BY ConcatAssociative

\* A chunk adds to the samples that became of what the provider said.
LEMMA ChunkExtends ==
  ASSUME AudioInv, BestCodec, pc = "up", RateIsKnown, NEW said \in Seq(Int16), DownlinkChunk(said),
         NEW h \in Seq(Int16), HeardAs(h)
  PROVE  \E g \in Seq(Int16) : HeardAs(g)'
<1> DEFINE from == OutputFormat(provider, The)
           r    == Resampled(said)
<1>1. /\ UNCHANGED <<provider, offer, pc, codec, out>>
      /\ told' = told \o said /\ chunks' = chunks + 1
      /\ buf' = buf \o Received(InFormat(from, said))
  BY DEF DownlinkChunk
<1>2. The' = The
  BY <1>1, SameFormats
<1>3. r \in Seq(Int16) /\ Received(InFormat(from, said)) = OnWire(The.name, r)
  BY ChunkOnWire
<1>4. /\ from.rate = The.rate => r = said
      /\ from.rate # The.rate => \A i \in 1 .. Len(r) : Comes(r[i], said)
      /\ Len(r) * from.rate <= Len(said) * The.rate
      /\ Len(said) * The.rate <= (Len(r) + 1) * from.rate
  BY ChunkIsHeard
<1>5. /\ out \o buf = OnWire(The.name, h)
      /\ from.rate = The.rate => h = told
      /\ from.rate # The.rate => \A i \in 1 .. Len(h) : Comes(h[i], told)
      /\ Len(h) * from.rate <= Len(told) * The.rate
      /\ Len(told) * The.rate <= (Len(h) + chunks) * from.rate
  BY DEF HeardAs
<1>6. told \in Seq(Int16) /\ out \in Seq(Byte) /\ buf \in Seq(Byte) /\ chunks \in Nat
  BY DEF AudioInv, TypeOK
<1>0. PICK g \in Seq(Int16) : g = h \o r
  <2>1. h \o r \in Seq(Int16)
    BY <1>3, ConcatProperties
  <2> QED
    BY <2>1, Zenon
<1>7. Len(g) = Len(h) + Len(r) /\ Len(told \o said) = Len(told) + Len(said)
  BY <1>0, <1>3, <1>6
<1>8. The.rate \in {8000, 16000, 24000} /\ from.rate \in {8000, 16000, 24000}
  BY RatesOfCall
<1>a. out' \o buf' = OnWire(The.name, g)
  <2>1. OnWire(The.name, g) = OnWire(The.name, h) \o OnWire(The.name, r)
    BY <1>0, <1>3, OnWireOfConcat
  <2>2. OnWire(The.name, r) \in Seq(Byte)
    BY <1>3, OnWireIsBytes
  <2> DEFINE w == OnWire(The.name, r)
  <2>3. w \in Seq(Byte)
    BY <2>2
  <2> HIDE DEF w
  <2>4. out \o (buf \o w) = (out \o buf) \o w
    <3>1. out \in Seq(Byte) /\ buf \in Seq(Byte)
      BY <1>6
    <3> QED
      BY <2>3, <3>1, BytesInOrder
  <2> QED
    BY <1>1, <1>3, <1>5, <2>1, <2>4 DEF w
<1>b. from.rate = The.rate => g = told'
  BY <1>0, <1>1, <1>4, <1>5
<1>c. from.rate # The.rate => \A i \in 1 .. Len(g) : Comes(g[i], told \o said)
  <2> SUFFICES ASSUME from.rate # The.rate, NEW i \in 1 .. Len(g)
               PROVE  Comes(g[i], told \o said)
    OBVIOUS
  <2>1. ToSet(told) \subseteq ToSet(told \o said) /\ ToSet(said) \subseteq ToSet(told \o said)
    <3>1. \A k \in 1 .. Len(told) : told[k] = (told \o said)[k] /\ k \in DOMAIN (told \o said)
      BY <1>6
    <3>2. \A k \in 1 .. Len(said) : /\ said[k] = (told \o said)[Len(told) + k]
                                    /\ Len(told) + k \in DOMAIN (told \o said)
      BY <1>6
    <3>3. told \o said \in Seq(Int16)
      BY <1>6
    <3>4. /\ ToSet(told) = {told[i1] : i1 \in 1 .. Len(told)}
          /\ ToSet(said) = {said[i1] : i1 \in 1 .. Len(said)}
          /\ ToSet(told \o said) = {(told \o said)[i1] : i1 \in DOMAIN (told \o said)}
      BY <1>6, <3>3, SetOfSamples DEF ToSet
    <3> QED
      BY <3>1, <3>2, <3>4
  <2>2. \A s : Comes(s, told) \/ Comes(s, said) => Comes(s, told \o said)
    BY <2>1 DEF Comes
  <2>3. CASE i <= Len(h)
    <3>1. g[i] = h[i] /\ i \in 1 .. Len(h)
      BY <1>0, <1>3, <1>7, <2>3
    <3> QED
      BY <1>5, <2>2, <3>1
  <2>4. CASE i > Len(h)
    <3>1. g[i] = r[i - Len(h)] /\ i - Len(h) \in 1 .. Len(r)
      BY <1>0, <1>3, <1>7, <2>4
    <3> QED
      BY <1>4, <2>2, <3>1
  <2>5. i <= Len(h) \/ i > Len(h)
    BY <1>7
  <2> QED
    BY <2>3, <2>4, <2>5
<1>d. /\ Len(g) * from.rate <= Len(told') * The.rate
      /\ Len(told') * The.rate <= (Len(g) + chunks') * from.rate
  <2> DEFINE lh == Len(h)  lr == Len(r)  lt == Len(told)  ls == Len(said)
             a == The.rate  b == from.rate
  <2>1. lh \in Nat /\ lr \in Nat /\ lt \in Nat /\ ls \in Nat
    BY <1>3, <1>6
  <2>2. /\ lr * b <= ls * a /\ ls * a <= (lr + 1) * b
        /\ lh * b <= lt * a /\ lt * a <= (lh + chunks) * b
    BY <1>4, <1>5
  <2>3. Len(g) = lh + lr /\ Len(told') = lt + ls /\ chunks' = chunks + 1
    BY <1>1, <1>7
  <2>4. a \in {8000, 16000, 24000} /\ b \in {8000, 16000, 24000}
    BY <1>8
  <2> HIDE DEF lh, lr, lt, ls, a, b
  <2>5. (lh + lr) * b <= (lt + ls) * a /\ (lt + ls) * a <= ((lh + lr) + (chunks + 1)) * b
    BY <1>6, <2>1, <2>2, <2>4
  <2>6. Len(g) * b <= Len(told') * a /\ Len(told') * a <= (Len(g) + chunks') * b
    BY <2>3, <2>5
  <2> QED
    BY <2>6 DEF a, b
<1> HIDE DEF r
<1>e. HeardAs(g)'
  <2>1. from' = from
    BY <1>1, <1>2
  <2>2. (from.rate # The.rate => \A i \in 1 .. Len(g) : Comes(g[i], told))'
    BY <1>1, <1>2, <1>c, <2>1 DEF Comes
  <2>3. (out \o buf = OnWire(The.name, g))'
    BY <1>1, <1>2, <1>a
  <2>4. (from.rate = The.rate => g = told)'
    BY <1>2, <1>b, <2>1
  <2>5. (/\ Len(g) * from.rate <= Len(told) * The.rate
         /\ Len(told) * The.rate <= (Len(g) + chunks) * from.rate)'
    BY <1>2, <1>d, <2>1
  <2> QED
    BY <2>2, <2>3, <2>4, <2>5, Zenon DEF HeardAs
<1> QED
  BY <1>e

\* A call is answered with no audio anywhere.
LEMMA AnswerIsEmpty ==
  ASSUME AudioInv, BestCodec', Answer
  PROVE  AudioInv'
<1>1. /\ UNCHANGED <<provider, offer, up, told, chunks, lost, out, buf, rtp>> /\ pc' = "up"
      /\ up = {} /\ told = <<>> /\ chunks = 0 /\ out = <<>> /\ buf = <<>> /\ rtp = <<>>
  BY DEF Answer, AudioInv, upVars, downVars
<1>2. TypeOK'
  <2>1. codec' \subseteq ToSet(offer)'
    BY <1>1 DEF BestCodec
  <2> QED
    BY <1>1, <2>1 DEF AudioInv, TypeOK
<1>3. \A name : OnWire(name, <<>>) = <<>>
  BY DEF OnWire, Int16ToBytes, SwapPCM16, Encode
<1>4. <<>> \in Seq(Int16) /\ <<>> \o <<>> = <<>> /\ Len(<<>>) = 0
  OBVIOUS
<1>5. The'.rate \in Nat /\ OutputFormat(provider', The').rate \in Nat
  <2>1. (/\ The.rate \in {8000, 16000, 24000}
         /\ OutputFormat(provider, The).rate \in {8000, 16000, 24000})'
    <3>1. (\/ The.rate = 24000 /\ The.name = "L16"
           \/ The.rate = 16000 /\ The.name = "L16"
           \/ The.rate = 8000 /\ The.name \in {"PCMU", "PCMA"})'
      <4>1. PICK c \in ToSet(offer'), i \in DOMAIN ProviderCodecs(provider') :
              codec' = {c} /\ codecMatch(ProviderCodecs(provider')[i], c)
        BY <1>1 DEF BestCodec
      <4>2. The' = c
        BY <4>1 DEF The
      <4> QED
        BY <4>1, <4>2, CodecsOfProviders DEF codecMatch
    <3> QED
      BY <3>1 DEF OutputFormat, SpokenFormat, Format
  <2> QED
    BY <2>1
<1>6. HeardAs(<<>>)'
  BY <1>1, <1>3, <1>4, <1>5 DEF HeardAs
<1>7. (\E h \in Seq(Int16) : HeardAs(h))'
  BY <1>4, <1>6
<1>8. (\A x \in up : InTime(x))'
  BY <1>1
<1> QED
  BY <1>1, <1>2, <1>7, <1>8 DEF AudioInv

\* What a step has to keep while the call is up.
LEMMA KeepsAudio ==
  ASSUME AudioInv, pc = "up", UNCHANGED <<provider, offer, pc, codec>>,
         told' \in Seq(Int16), chunks' \in Nat, lost' \in Nat,
         out' \in Seq(Byte), buf' \in Seq(Byte), rtp' \in Seq(Byte),
         \A x \in up' : x.frame \in Seq(Byte) /\ x.sent \in Seq(Byte),
         rtp' = <<>> \/ Len(rtp') = FrameBytes,
         RateIsKnown => \E h \in Seq(Int16) : HeardAs(h)',
         RateIsKnown => \A x \in up' : InTime(x)
  PROVE  AudioInv'
<1>1. FrameBytes' = FrameBytes /\ RateIsKnown' = RateIsKnown /\ \A x : InTime(x)' = InTime(x)
  BY SameFormats
<1>2. TypeOK'
  BY DEF AudioInv, TypeOK
<1>3. RateIsKnown => (\A x \in up : InTime(x))'
  BY <1>1
<1>4. RateIsKnown => (\E h \in Seq(Int16) : HeardAs(h))'
  OBVIOUS
<1> QED
  BY <1>1, <1>2, <1>3, <1>4 DEF AudioInv

\* What the invariant says, part by part.
LEMMA AudioIsTyped ==
  ASSUME AudioInv
  PROVE  /\ told \in Seq(Int16) /\ chunks \in Nat /\ lost \in Nat
         /\ out \in Seq(Byte) /\ buf \in Seq(Byte) /\ rtp \in Seq(Byte)
         /\ \A x \in up : x.frame \in Seq(Byte) /\ x.sent \in Seq(Byte)
         /\ pc = "up" => (rtp = <<>> \/ Len(rtp) = FrameBytes)
         /\ pc = "up" /\ RateIsKnown => \E h \in Seq(Int16) : HeardAs(h)
         /\ pc = "up" /\ RateIsKnown => \A x \in up : InTime(x)
BY DEF AudioInv, TypeOK

\* A chunk of the provider keeps the invariant.
LEMMA ChunkIsAdded ==
  ASSUME AudioInv, BestCodec, pc = "up", NEW said \in Chunks, DownlinkChunk(said)
  PROVE  AudioInv'
<1>1. said \in Seq(Int16)
  BY MediaAssumption
<1>2. /\ UNCHANGED <<provider, offer, pc, codec, up, lost, out, rtp>>
      /\ told' = told \o said /\ chunks' = chunks + 1
      /\ buf' = buf \o Received(InFormat(OutputFormat(provider, The), said))
  BY DEF DownlinkChunk, upVars
<1>3. Received(InFormat(OutputFormat(provider, The), said)) \in Seq(Byte)
  BY <1>1, ChunkOnWire, OnWireIsBytes
<1>4. told' \in Seq(Int16) /\ chunks' \in Nat
  BY <1>1, <1>2, AudioIsTyped
<1>5. buf' \in Seq(Byte)
  BY <1>2, <1>3, AudioIsTyped
<1>6. RateIsKnown => \E h \in Seq(Int16) : HeardAs(h)'
  <2> SUFFICES ASSUME RateIsKnown
               PROVE  \E h \in Seq(Int16) : HeardAs(h)'
    OBVIOUS
  <2>1. PICK h \in Seq(Int16) : HeardAs(h)
    BY AudioIsTyped
  <2> QED
    BY <1>1, <2>1, ChunkExtends
<1>7. /\ lost' \in Nat /\ out' \in Seq(Byte) /\ rtp' \in Seq(Byte)
      /\ \A x \in up' : x.frame \in Seq(Byte) /\ x.sent \in Seq(Byte)
      /\ rtp' = <<>> \/ Len(rtp') = FrameBytes
      /\ RateIsKnown => \A x \in up' : InTime(x)
  BY <1>2, AudioIsTyped
<1> QED
  BY <1>2, <1>4, <1>5, <1>6, <1>7, KeepsAudio

\* A step that only moves the audio, or cuts a packet from it.
LEMMA AudioIsMoved ==
  ASSUME AudioInv, pc = "up", UNCHANGED <<provider, offer, pc, codec, up, told, chunks>>,
         lost' \in Nat, out' \in Seq(Byte), buf' \in Seq(Byte), rtp' \in Seq(Byte),
         rtp' = <<>> \/ Len(rtp') = FrameBytes,
         out' \o buf' = out \o buf
  PROVE  AudioInv'
<1>1. RateIsKnown => \E h \in Seq(Int16) : HeardAs(h)'
  BY AudioIsTyped, MovedIsHeard
<1>2. /\ told' \in Seq(Int16) /\ chunks' \in Nat
      /\ \A x \in up' : x.frame \in Seq(Byte) /\ x.sent \in Seq(Byte)
      /\ RateIsKnown => \A x \in up' : InTime(x)
  BY AudioIsTyped
<1> QED
  BY <1>1, <1>2, KeepsAudio

\* A frame that is played keeps the invariant.
LEMMA PacketIsCut ==
  ASSUME AudioInv, BestCodec, pc = "up", PlayFrame
  PROVE  AudioInv'
<1> DEFINE F == FrameBytes
           packet == SubSeq(buf, 1, F)
           rest   == SubSeq(buf, F + 1, Len(buf))
<1>1. /\ UNCHANGED <<provider, offer, pc, codec, up, told, chunks, lost>>
      /\ Len(buf) >= F /\ rtp' = packet /\ out' = out \o packet /\ buf' = rest
  BY DEF PlayFrame, upVars
<1>2. F \in Nat /\ buf \in Seq(Byte) /\ out \in Seq(Byte) /\ Len(buf) \in Nat
  BY FrameBytesIsWhole, AudioIsTyped
<1> HIDE DEF F
<1>3. packet \in Seq(Byte) /\ Len(packet) = F /\ rest \in Seq(Byte)
  BY <1>1, <1>2
<1>4. packet \o rest = buf
  <2>1. packet \o rest = SubSeq(buf, 1, Len(buf))
    <3>1. 1 \in 1 .. Len(buf) + 1 /\ F \in 1 - 1 .. Len(buf) /\ Len(buf) \in F .. Len(buf)
      BY <1>1, <1>2
    <3> QED
      BY <1>2, <3>1, ConcatAdjacentSubSeq
  <2>2. SubSeq(buf, 1, Len(buf)) = buf
    BY <1>2, SubSeqFull
  <2> QED
    BY <2>1, <2>2
<1> HIDE DEF packet, rest
<1>5. (out \o packet) \o rest = out \o buf
  BY <1>2, <1>3, <1>4, BytesInOrder
<1>6. out' \in Seq(Byte) /\ lost' \in Nat
  BY <1>1, <1>2, <1>3, AudioIsTyped
<1> QED
  BY <1>1, <1>3, <1>5, <1>6, AudioIsMoved DEF F

\* A frame of the caller keeps the invariant.
LEMMA FrameIsInTime ==
  ASSUME AudioInv, BestCodec, pc = "up", NEW samples \in CallerFrames, UplinkFrame(samples)
  PROVE  AudioInv'
<1> DEFINE frame == OnWire(The.name, samples)
           b     == Swapped(The.name, frame)
<1>1. /\ UNCHANGED <<provider, offer, pc, codec, told, chunks, lost, out, buf, rtp>>
      /\ up' = {[frame |-> frame, sent |-> Sent(frame)]}
  BY DEF UplinkFrame, SendAudio, downVars
<1>2. samples \in Seq(Int16)
  BY FrameBytesIsNat, MediaAssumption DEF CallerFrames
<1>3. frame \in Seq(Byte)
  BY <1>2, OnWireIsBytes
<1>4. b \in Seq(Byte) /\ Len(b) = Len(frame)
  BY <1>3, SwapIsBytes DEF Swapped
<1>5. Sent(frame) = IF provider = "gemini" THEN transcodeSend(The.name, b) ELSE b
  BY DEF Sent
<1> HIDE DEF frame, b
<1>6. \A x \in up' : x.frame \in Seq(Byte) /\ x.sent \in Seq(Byte) /\ (RateIsKnown => InTime(x))
  BY <1>1, <1>3, <1>4, <1>5, SentInTime
<1>7. RateIsKnown => \E h \in Seq(Int16) : HeardAs(h)'
  BY <1>1, AudioIsTyped, MovedIsHeard
<1> QED
  BY <1>1, <1>6, <1>7, AudioIsTyped, KeepsAudio

\* A frame of silence keeps the invariant.
LEMMA SilenceIsInTime ==
  ASSUME AudioInv, BestCodec, pc = "up", UplinkSilence
  PROVE  AudioInv'
<1>1. /\ UNCHANGED <<provider, offer, pc, codec, told, chunks, lost, out, buf, rtp>>
      /\ up' = {[frame |-> Silence, sent |-> IF provider = "gemini"
                                             THEN transcodeSend(The.name, Silence) ELSE Silence]}
  BY DEF UplinkSilence, downVars
<1>2. Silence \in Seq(Byte)
  BY FrameBytesIsWhole
<1>3. \A x \in up' : x.frame \in Seq(Byte) /\ x.sent \in Seq(Byte) /\ (RateIsKnown => InTime(x))
  BY <1>1, <1>2, SentInTime
<1>4. RateIsKnown => \E h \in Seq(Int16) : HeardAs(h)'
  BY <1>1, AudioIsTyped, MovedIsHeard
<1> QED
  BY <1>1, <1>3, <1>4, AudioIsTyped, KeepsAudio

\* Each step keeps the audio of both directions.
LEMMA StepAudio == AudioInv /\ MediaInv /\ MediaInv' /\ [Next]_vars => AudioInv'
<1> SUFFICES ASSUME AudioInv, MediaInv, MediaInv', [Next]_vars
             PROVE  AudioInv'
  OBVIOUS
<1>0. BestCodec /\ BestCodec'
  BY DEF MediaInv
<1>1. CASE Reject
  BY <1>1 DEF Reject, AudioInv, TypeOK, upVars, downVars
<1>2. CASE Answer
  BY <1>0, <1>2, AnswerIsEmpty
<1>3. ASSUME NEW samples \in CallerFrames, pc = "up", UplinkFrame(samples)
      PROVE  AudioInv'
  BY <1>0, <1>3, FrameIsInTime
<1>4. CASE UplinkSilence
  BY <1>0, <1>4, SilenceIsInTime DEF UplinkSilence
<1>5. ASSUME NEW said \in Chunks, DownlinkChunk(said)
      PROVE  AudioInv'
  BY <1>0, <1>5, ChunkIsAdded DEF DownlinkChunk
<1>6. CASE ChunkLost
  <2>1. /\ pc = "up" /\ UNCHANGED <<provider, offer, pc, codec, up, told, chunks, out, buf, rtp>>
        /\ lost' \in Nat
    BY <1>6, AudioIsTyped DEF ChunkLost, upVars
  <2> QED
    BY <2>1, AudioIsTyped, AudioIsMoved
<1>7. CASE PlayFrame
  BY <1>0, <1>7, PacketIsCut DEF PlayFrame
<1>8. CASE PlaySilence
  <2>1. /\ pc = "up" /\ UNCHANGED <<provider, offer, pc, codec, up, told, chunks, lost, out, buf>>
        /\ rtp' = Silence
    BY <1>8 DEF PlaySilence, upVars
  <2> QED
    BY <1>0, <2>1, FrameBytesIsWhole, AudioIsTyped, AudioIsMoved
<1>9. CASE Drain
  <2>1. /\ pc = "up" /\ UNCHANGED <<provider, offer, pc, codec, up, told, chunks, lost, rtp>>
        /\ out' = out \o buf /\ buf' = <<>>
    BY <1>9 DEF Drain, upVars
  <2>2. out' \in Seq(Byte) /\ buf' \in Seq(Byte) /\ out' \o buf' = out \o buf
    BY <2>1, AudioIsTyped
  <2> QED
    BY <2>1, <2>2, AudioIsTyped, AudioIsMoved
<1>10. CASE UNCHANGED vars
  <2>1. UNCHANGED <<provider, offer, pc, codec, up, told, chunks, lost, out, buf, rtp>>
    BY <1>10 DEF vars, upVars, downVars
  <2>2. CASE pc = "up"
    BY <2>1, <2>2, AudioIsTyped, AudioIsMoved
  <2>3. CASE pc # "up"
    BY <2>1, <2>3 DEF AudioInv, TypeOK
  <2> QED
    BY <2>2, <2>3
<1> QED
  BY <1>1, <1>2, <1>3, <1>4, <1>5, <1>6, <1>7, <1>8, <1>9, <1>10 DEF Next, Uplink, Downlink

\* The invariant says that both sides hear each other at their speed.
LEMMA SpeedIsSame ==
  ASSUME AudioInv, BestCodec
  PROVE  SameSpeed
<1> SUFFICES ASSUME pc = "up"
             PROVE  /\ RateIsKnown => Speed
                    /\ rtp # <<>> => Len(rtp) * Second
                                       = The.rate * BytesPerSample(The.name) * FrameDuration
  BY DEF SameSpeed
<1>1. rtp # <<>> => Len(rtp) * Second = The.rate * BytesPerSample(The.name) * FrameDuration
  BY AudioIsTyped, PacketIsAFrame
<1>2. ASSUME RateIsKnown
      PROVE  Speed
  <2>1. PICK h \in Seq(Int16) : HeardAs(h)
    BY <1>2, AudioIsTyped
  <2>2. Len(out \o buf) \div BytesPerSample(The.name) = Len(h)
    BY <2>1, OnWireIsBytes DEF HeardAs
  <2>3. /\ Len(h) * OutputFormat(provider, The).rate <= Len(told) * The.rate
        /\ Len(told) * The.rate
             <= Len(h) * OutputFormat(provider, The).rate + chunks * OutputFormat(provider, The).rate
    <3>1. \A a, b, c \in Nat : (a + b) * c = a * c + b * c
      OBVIOUS
    <3>2. OutputFormat(provider, The).rate \in Nat /\ Len(h) \in Nat /\ chunks \in Nat
      BY RatesOfCall, AudioIsTyped
    <3> QED
      BY <2>1, <3>1, <3>2 DEF HeardAs
  <2>4. \A x \in up : InTime(x)
    BY <1>2, AudioIsTyped
  <2> QED
    BY <2>2, <2>3, <2>4 DEF Speed, InTime
<1> QED
  BY <1>1, <1>2

\* The caller undoes what the wire did to the samples, but for the law of G.711.
LEMMA WireIsUndone ==
  ASSUME NEW name, NEW s \in Seq(Int16)
  PROVE  FromWire(name, OnWire(name, s)) =
           IF name = "L16" THEN s ELSE Decode(Law(name), Encode(Law(name), s))
<1>1. CASE name = "L16"
  <2>1. SwapPCM16(SwapPCM16(Int16ToBytes(s))) = Int16ToBytes(s)
    BY BytesAreBytes, SwapTwice
  <2> QED
    BY <1>1, <2>1, SamplesSurvive DEF FromWire, OnWire
<1>2. CASE name # "L16"
  BY <1>2 DEF FromWire, OnWire
<1> QED
  BY <1>1, <1>2

\* Reading a chunk undoes what writing it did, but for the law of G.711.
LEMMA FormatIsUndone ==
  ASSUME NEW format, NEW s \in Seq(Int16)
  PROVE  FromFormat(format, InFormat(format, s)) =
           IF format.name = "L16" THEN s
           ELSE Decode(Law(format.name), Encode(Law(format.name), s))
BY SamplesSurvive DEF FromFormat, InFormat

\* Companding is sample by sample.
LEMMA Companded ==
  ASSUME NEW law \in {"PCMU", "PCMA"}, NEW s \in Seq(Int16)
  PROVE  LET c == Decode(law, Encode(law, s))
         IN  /\ DOMAIN c = 1 .. Len(s)
             /\ \A i \in 1 .. Len(s) : c[i] = DecodeG711(law, EncodeG711(law, s[i]))
BY DEF Decode, Encode

\* The invariant says that the caller hears what the provider said.
LEMMA HeardIsSaid ==
  ASSUME AudioInv, BestCodec
  PROVE  ProviderIsHeard
<1> DEFINE from  == OutputFormat(provider, The)
           law   == Law(The.name)
           said  == FromFormat(from, InFormat(from, told))
           heard == FromWire(The.name, out \o buf)
           range == {0} \cup ToSet(IF The.name = "L16" THEN said ELSE Decode(law, Encode(law, said)))
<1>0. TypeOK
  BY DEF AudioInv
<1> SUFFICES ASSUME pc = "up", RateIsKnown
             PROVE  IF from.rate = The.rate THEN heard = said
                    ELSE \A s \in ToSet(heard) : \E a, b \in range : Between(s, a, b)
  BY <1>0 DEF ProviderIsHeard
<1>1. PICK h \in Seq(Int16) : HeardAs(h)
  BY AudioIsTyped
<1>2. /\ out \o buf = OnWire(The.name, h)
      /\ from.rate = The.rate => h = told
      /\ from.rate # The.rate => \A i \in 1 .. Len(h) : Comes(h[i], told)
  BY <1>1 DEF HeardAs
<1>3. told \in Seq(Int16) /\ law \in {"PCMU", "PCMA"}
  BY AudioIsTyped DEF Law
<1>4. heard = IF The.name = "L16" THEN h ELSE Decode(law, Encode(law, h))
  BY <1>2, WireIsUndone
<1>5. said = IF from.name = "L16" THEN told
             ELSE Decode(Law(from.name), Encode(Law(from.name), told))
  BY <1>3, FormatIsUndone
<1>6. CASE from.rate = The.rate
  <2>1. from.name = The.name
    BY <1>6, FormatOfDownlink DEF Format
  <2> QED
    BY <1>2, <1>4, <1>5, <1>6, <2>1
<1>7. CASE from.rate # The.rate
  <2>1. from.name = "L16" /\ said = told
    BY <1>5, <1>7, FormatOfDownlink DEF Format
  <2>2. ASSUME NEW s \in ToSet(heard)
        PROVE  \E a, b \in range : Between(s, a, b)
    <3>1. CASE The.name = "L16"
      <4>1. PICK i \in 1 .. Len(h) : s = h[i]
        BY <1>4, <2>2, <3>1, SetOfSamples
      <4>2. Comes(s, told)
        BY <1>2, <1>7, <4>1
      <4>3. range = {0} \cup ToSet(told)
        BY <2>1, <3>1
      <4> QED
        BY <3>1, <4>2, <4>3 DEF Comes
    <3>2. CASE The.name # "L16"
      <4> DEFINE c == Decode(law, Encode(law, h))
                 d == Decode(law, Encode(law, told))
      <4>1. s \in ToSet(c) /\ range = {0} \cup ToSet(d)
        BY <1>4, <2>1, <2>2, <3>2
      <4>2. /\ DOMAIN c = 1 .. Len(h) /\ DOMAIN d = 1 .. Len(told)
            /\ \A i \in 1 .. Len(h) : c[i] = DecodeG711(law, EncodeG711(law, h[i]))
            /\ \A i \in 1 .. Len(told) : d[i] = DecodeG711(law, EncodeG711(law, told[i]))
        BY <1>3, Companded
      <4> HIDE DEF c, d
      <4>3. PICK i \in 1 .. Len(h) : s = DecodeG711(law, EncodeG711(law, h[i]))
        BY <4>1, <4>2 DEF ToSet
      <4>4. PICK k \in 1 .. Len(told) : h[i] = told[k]
        BY <1>2, <1>3, <1>7, <3>2, SetOfSamples DEF Comes
      <4>5. s = d[k] /\ s \in range
        BY <4>1, <4>2, <4>3, <4>4 DEF ToSet
      <4>6. s \in Int16
        <5>1. h[i] \in Int16
          OBVIOUS
        <5>2. EncodeG711(law, h[i]) \in Byte
          BY <5>1, EncodedIsByte
        <5> QED
          BY <1>3, <4>3, <5>2, MediaAssumption
      <4>7. Between(s, s, s)
        BY <4>6 DEF Between, Int16
      <4> QED
        BY <4>5, <4>7
    <3> QED
      BY <3>1, <3>2
  <2> QED
    BY <1>7, <2>2
<1> QED
  BY <1>6, <1>7

\* The two invariants hold in every reachable state.
LEMMA AudioHolds == Spec => [](AudioInv /\ MediaInv)
<1>1. Init => AudioInv /\ MediaInv
  BY InitAudio, InitMedia
<1>2. AudioInv /\ MediaInv /\ [Next]_vars => AudioInv' /\ MediaInv'
  BY StepAudio, StepMedia
<1> QED
  BY <1>1, <1>2, PTL DEF Spec

\* Whoever resamples, neither side hears the other faster or slower than it spoke,
\* and every packet is of one frame's duration, for every rate and companding law
\* (FrameBytesFor, transcodeSend, transcodeRecv and the resampling).
THEOREM SpeedIsTheSame == Spec => []SameSpeed
<1>1. AudioInv /\ MediaInv => SameSpeed
  BY SpeedIsSame DEF MediaInv
<1> QED
  BY AudioHolds, <1>1, PTL

\* Whatever the provider says, in chunks of any size, and wherever the adapter cuts
\* it into packets, what leaves the adapter or is still in it is, at the provider's
\* rate, exactly the samples that were said, in their order; at a lower rate no
\* sample is outside the range of those that were said, and nothing is claimed of
\* their order.  An interruption takes audio out of the adapter as a packet does
\* (recvLoop, transcodeRecv, AudioAdapter and SwapPCM16).
THEOREM ProviderHeard == Spec => []ProviderIsHeard
<1>1. AudioInv /\ MediaInv => ProviderIsHeard
  BY HeardIsSaid DEF MediaInv
<1> QED
  BY AudioHolds, <1>1, PTL
=============================================================================

------------------------------ MODULE CallMedia ------------------------------
(***************************************************************************)
(* The media of one call of sip2ai: the codec is negotiated, the provider  *)
(* is told a format, and audio is converted on its way in both directions  *)
(* and cut into frames.  Downlink has the goroutines of the downlink and   *)
(* what an interruption reports; here it is the audio itself that counts.  *)
(* Ours are codecs of one channel, and so are the caller's.                *)
(***************************************************************************)
EXTENDS AudioFormats, SequencesExt

CONSTANTS
  Providers,       \* names of providers
  Offers,          \* the codecs of the INVITEs; none when it does not parse
  CallerSamples,   \* samples the caller's frames are made of
  Chunks,          \* what the provider may say at once, in samples
  MaxChunks,       \* bound on the chunks of a call
  EncodeG711(_, _), DecodeG711(_, _)   \* law and sample, law and byte

Codec(name, rate, pt) == [name |-> name, rate |-> rate, pt |-> pt]

ASSUME MediaAssumption ==
  /\ \A offer \in Offers : offer \in Seq([name : STRING, rate : Nat, pt : Nat])
  /\ CallerSamples \subseteq Int16
  /\ \A said \in Chunks : said \in Seq(Int16)
  /\ \A law \in {"PCMU", "PCMA"} :
       /\ \A a, b \in Byte : EncodeG711(law, ToInt16(a + 256 * b)) \in Byte
       /\ \A b \in Byte : DecodeG711(law, b) \in Int16
  /\ MaxChunks \in Nat
  /\ \A rate \in {8000, 16000, 24000} : rate % Second = 0   \* whole samples in a unit of time

VARIABLES
  provider,   \* AI.Provider
  offer,      \* the codecs of the INVITE
  pc,         \* "invited", "rejected" or "up"
  codec,      \* AI.Codec and AI.CodecRate, the answered codec; none before
  up,         \* the last frame of the caller, and what was sent of it
  told,       \* the samples of the provider that reached the adapter,
  chunks,     \* in how many chunks,
  lost,       \* and the number of those that did not
  out,        \* the bytes that left the adapter
  buf,        \* AudioAdapter.buf
  rtp         \* the last frame written to RTP

upVars   == <<up>>
downVars == <<told, chunks, lost, out, buf, rtp>>
vars == <<provider, offer, pc, codec, upVars, downVars>>

TypeOK ==
  /\ provider \in Providers /\ offer \in Offers
  /\ pc \in {"invited", "rejected", "up"}
  /\ codec \subseteq ToSet(offer)
  /\ \A x \in up : x.frame \in Seq(Byte) /\ x.sent \in Seq(Byte)
  /\ told \in Seq(Int16) /\ chunks \in Nat /\ lost \in Nat
  /\ out \in Seq(Byte) /\ buf \in Seq(Byte) /\ rtp \in Seq(Byte)

Init ==
  /\ provider \in Providers
  /\ offer \in Offers
  /\ pc = "invited" /\ codec = {}
  /\ up = {}
  /\ told = <<>> /\ chunks = 0 /\ lost = 0
  /\ out = <<>> /\ buf = <<>> /\ rtp = <<>>

The == CHOOSE c \in codec : TRUE

-----------------------------------------------------------------------------
(***************************************************************************)
(* Conversions.                                                            *)
(***************************************************************************)

Decode(law, bytes)   == [i \in DOMAIN bytes |-> DecodeG711(law, bytes[i])]
Encode(law, samples) == [i \in DOMAIN samples |-> EncodeG711(law, samples[i])]

\* PCMU is the default of every switch.
Law(name) == IF name = "PCMA" THEN "PCMA" ELSE "PCMU"

\* Audio in a format, with the low byte first, as the providers have it.
InFormat(format, samples) ==
  IF format.name = "L16" THEN Int16ToBytes(samples) ELSE Encode(Law(format.name), samples)

\* As RTP has it, with the high byte first.
OnWire(name, samples) ==
  IF name = "L16" THEN SwapPCM16(Int16ToBytes(samples)) ELSE Encode(Law(name), samples)

\* What a phone or a provider makes of the bytes.
FromFormat(format, bytes) ==
  IF format.name = "L16" THEN BytesToInt16(bytes) ELSE Decode(Law(format.name), bytes)

FromWire(name, bytes) ==
  IF name = "L16" THEN BytesToInt16(SwapPCM16(bytes)) ELSE Decode(Law(name), bytes)

NeverSwapped(name, bytes) == bytes   \* mutant: the byte order of RTP is forgotten

\* The swap of the session, in either direction.
Swapped(name, bytes) == IF name = "L16" THEN SwapPCM16(bytes) ELSE bytes

transcodeSend(name, frame) ==
  IF name = "L16" THEN frame ELSE Int16ToBytes(Resample8to16(Decode(Law(name), frame)))

transcodeRecv(name, raw) ==
  LET said == BytesToInt16(raw)
  IN  IF name = "L16" THEN Int16ToBytes(Resample24to16(said))
      ELSE Encode(Law(name), Resample24to8(said))

Sent(frame) ==
  LET bytes == Swapped(The.name, frame)
  IN  IF provider = "gemini" THEN transcodeSend(The.name, bytes) ELSE bytes

Received(raw) ==
  Swapped(The.name, IF provider = "gemini" THEN transcodeRecv(The.name, raw) ELSE raw)

FrameBytes == FrameBytesFor(The)

Silence == [i \in 1 .. FrameBytes |-> SilenceByte(The.name)]

-----------------------------------------------------------------------------
(***************************************************************************)
(* The call.                                                               *)
(***************************************************************************)

Reject ==
  /\ pc = "invited"
  /\ NegotiateCodec(provider, offer) = {}
  /\ pc' = "rejected"
  /\ UNCHANGED <<provider, offer, codec, upVars, downVars>>

\* The answer has this codec alone.
Answer ==
  /\ pc = "invited"
  /\ NegotiateCodec(provider, offer) # {}
  /\ codec' = NegotiateCodec(provider, offer)
  /\ pc' = "up"
  /\ UNCHANGED <<provider, offer, upVars, downVars>>

SendAudio(frame) == up' = {[frame |-> frame, sent |-> Sent(frame)]}

UplinkFrame(samples) ==
  /\ pc = "up"
  /\ SendAudio(OnWire(The.name, samples))
  /\ UNCHANGED <<provider, offer, pc, codec, downVars>>

\* No frame for two packets' time.  Silence is not swapped.
UplinkSilence ==
  /\ pc = "up"
  /\ up' = {[frame |-> Silence,
             sent  |-> IF provider = "gemini" THEN transcodeSend(The.name, Silence) ELSE Silence]}
  /\ UNCHANGED <<provider, offer, pc, codec, downVars>>

\* recvLoop, RecvAudio and AudioAdapter.Write.  A provider sends whole samples.
DownlinkChunk(said) ==
  /\ pc = "up"
  /\ chunks + lost < MaxChunks
  /\ told' = told \o said
  /\ chunks' = chunks + 1
  /\ buf' = buf \o Received(InFormat(OutputFormat(provider, The), said))
  /\ UNCHANGED <<provider, offer, pc, codec, upVars, lost, out, rtp>>

\* recvCh is full, or the chunk does not decode: it is lost whole.
ChunkLost ==
  /\ pc = "up"
  /\ chunks + lost < MaxChunks
  /\ lost' = lost + 1
  /\ UNCHANGED <<provider, offer, pc, codec, upVars, told, chunks, out, buf, rtp>>

PlayShort ==   \* mutant: a frame of one byte less
  /\ pc = "up"
  /\ Len(buf) >= FrameBytes
  /\ rtp' = SubSeq(buf, 1, FrameBytes - 1)
  /\ out' = out \o rtp'
  /\ buf' = SubSeq(buf, FrameBytes + 1, Len(buf))
  /\ UNCHANGED <<provider, offer, pc, codec, upVars, told, chunks, lost>>

PlayMisaligned ==   \* mutant: a byte too many leaves the buffer
  /\ pc = "up"
  /\ Len(buf) >= FrameBytes
  /\ rtp' = SubSeq(buf, 1, FrameBytes)
  /\ out' = out \o rtp'
  /\ buf' = SubSeq(buf, FrameBytes + 2, Len(buf))
  /\ UNCHANGED <<provider, offer, pc, codec, upVars, told, chunks, lost>>

\* TryRead has a whole frame.
PlayFrame ==
  /\ pc = "up"
  /\ Len(buf) >= FrameBytes
  /\ rtp' = SubSeq(buf, 1, FrameBytes)
  /\ out' = out \o rtp'
  /\ buf' = SubSeq(buf, FrameBytes + 1, Len(buf))
  /\ UNCHANGED <<provider, offer, pc, codec, upVars, told, chunks, lost>>

PlaySilence ==
  /\ pc = "up"
  /\ Len(buf) < FrameBytes
  /\ rtp' = Silence
  /\ UNCHANGED <<provider, offer, pc, codec, upVars, told, chunks, lost, out, buf>>

\* AudioAdapter.Drain, for the one provider that is Interruptible.
Drain ==
  /\ pc = "up"
  /\ provider = "openai"
  /\ out' = out \o buf
  /\ buf' = <<>>
  /\ UNCHANGED <<provider, offer, pc, codec, upVars, told, chunks, lost, rtp>>

CallerFrames == [1 .. FrameBytes \div BytesPerSample(The.name) -> CallerSamples]

Uplink   == UplinkSilence \/ (pc = "up" /\ \E samples \in CallerFrames : UplinkFrame(samples))
Downlink == (\E said \in Chunks : DownlinkChunk(said)) \/ ChunkLost
              \/ PlayFrame \/ PlaySilence \/ Drain

Next == Reject \/ Answer \/ Uplink \/ Downlink

Spec == Init /\ [][Next]_vars

-----------------------------------------------------------------------------
(***************************************************************************)
(* Properties.                                                             *)
(***************************************************************************)

\* The call is answered with the codec the provider likes best among those the
\* caller offered, under a number the caller gave it, and it is rejected only if
\* they have none in common.
BestCodec ==
  LET common(i) == \E j \in DOMAIN offer : codecMatch(ProviderCodecs(provider)[i], offer[j])
  IN  /\ pc = "rejected" => \A i \in DOMAIN ProviderCodecs(provider) : ~common(i)
      /\ pc = "up" => \E c \in ToSet(offer), i \in DOMAIN ProviderCodecs(provider) :
                         /\ codec = {c} /\ codecMatch(ProviderCodecs(provider)[i], c)
                         /\ \A j \in 1 .. i - 1 : ~common(j)

\* The provider is told the rate of the caller's codec, or resamples by itself.
\* Of what NegotiateCodec may choose only Gemini with L16/24000 is neither.
RateIsKnown == ~(provider = "gemini" /\ codecMatch(The, Format("L16", 24000)))

\* What each side hears lasts as long as what the other said: the provider hears
\* a frame of the caller in the frame's time, the caller hears the provider in
\* the provider's time but for less than a sample of each chunk.
Speed ==
  LET in   == InputFormat(provider, The)
      from == OutputFormat(provider, The)
      size == BytesPerSample(The.name)
      said == Len(told) * The.rate
      heard == (Len(out \o buf) \div size) * from.rate
  IN  /\ \A x \in up : (Len(x.frame) \div size) * in.rate
                        = (Len(x.sent) \div BytesPerSample(in.name)) * The.rate
      /\ heard <= said /\ said <= heard + chunks * from.rate

\* And every packet is of one frame's duration (FrameBytesFor, transcodeSend,
\* transcodeRecv and the resampling, for every codec a call may be answered with).
SameSpeed ==
  pc = "up" => /\ RateIsKnown => Speed
               /\ rtp # <<>> => Len(rtp) * Second
                                  = The.rate * BytesPerSample(The.name) * FrameDuration

Between(s, a, b) == (a <= s /\ s <= b) \/ (b <= s /\ s <= a)

\* The provider hears the samples of the caller, and at twice the rate those
\* between them.
HearsCaller(x) ==
  LET in    == InputFormat(provider, The)
      said  == FromWire(The.name, x.frame)
      heard == FromFormat(in, x.sent)
  IN  IF in.rate = The.rate THEN heard = said
      ELSE \A i \in 1 .. Len(said) :
             /\ heard[2 * i - 1] = said[i]
             /\ Between(heard[2 * i], said[i], said[IF i < Len(said) THEN i + 1 ELSE i])

\* Every frame of the caller, and the silence that stands in for one, is heard by
\* the provider with its byte order, its companding and its rate undone
\* (runUplink, SendAudio of each provider, transcodeSend).
CallerIsHeard ==
  pc = "up" /\ RateIsKnown => \A x \in up : HearsCaller(x)

\* The samples of the provider leave the adapter, in a packet or dropped by an
\* interruption, in their order, across chunks, frames and interruptions; at a lower
\* rate none is outside the range of those that were said, whatever their order
\* (recvLoop, transcodeRecv, the adapter, which cuts the audio elsewhere than the
\* provider did, and SwapPCM16).
ProviderIsHeard ==
  TypeOK /\ (pc = "up" /\ RateIsKnown =>
    LET from  == OutputFormat(provider, The)
        law   == Law(The.name)
        said  == FromFormat(from, InFormat(from, told))
        heard == FromWire(The.name, out \o buf)
        range == {0} \cup ToSet(IF The.name = "L16" THEN said ELSE Decode(law, Encode(law, said)))
    IN  IF from.rate = The.rate THEN heard = said
        ELSE \A s \in ToSet(heard) : \E a, b \in range : Between(s, a, b))

-----------------------------------------------------------------------------
(***************************************************************************)
(* What the comments say of the program and the code does not do.          *)
(***************************************************************************)

\* ProviderCodecs offers Gemini "then L16/24000 (zero transcoding on recv)": a
\* call with that codec is no exception.
GeminiAtItsRate == pc = "up" => Speed
=============================================================================

---------------------------- MODULE AudioFormats ----------------------------
(***************************************************************************)
(* The audio formats of sip2ai: what each provider speaks and prefers, the *)
(* size of a frame, and the conversions of package audio on sequences of   *)
(* samples (int16) and of bytes.                                           *)
(* A definition marked "mutant" is a plausible bug in the definition that  *)
(* follows it; nothing uses it.                                            *)
(***************************************************************************)
EXTENDS Integers, Sequences

CONSTANTS
  FrameDuration,   \* of an RTP packet: 20 in the code, in units of which
  Second           \* make a second: 1000 in the code

ASSUME DurationAssumption == {FrameDuration, Second} \subseteq Nat \ {0}

Byte  == 0 .. 255
Int16 == {x \in Int : -32768 <= x /\ x <= 32767}

Format(name, rate) == [name |-> name, rate |-> rate]

-----------------------------------------------------------------------------
(***************************************************************************)
(* Providers and formats.                                                  *)
(***************************************************************************)

G711 == <<Format("PCMU", 8000), Format("PCMA", 8000)>>

\* The best first.
ProviderCodecs(provider) ==
  CASE provider \in {"openai", "deepgram"} -> <<Format("L16", 24000)>> \o G711
    [] provider = "gemini" -> <<Format("L16", 16000), Format("L16", 24000)>> \o G711
    [] provider \notin {"openai", "deepgram", "gemini"} -> G711

codecMatch(a, b) == a.name = b.name /\ a.rate = b.rate

Matches(provider, remote) ==
  {x \in (DOMAIN ProviderCodecs(provider)) \X (DOMAIN remote) :
     codecMatch(ProviderCodecs(provider)[x[1]], remote[x[2]])}

NegotiateTheirs(provider, remote) ==   \* mutant: the caller's preference decides
  {remote[j] : j \in {k \in DOMAIN remote :
     /\ \E i \in DOMAIN ProviderCodecs(provider) : <<i, k>> \in Matches(provider, remote)
     /\ \A x \in Matches(provider, remote) : k <= x[2]}}

\* NegotiateCodec: at most one codec, ours under the caller's payload type.
NegotiateCodec(provider, remote) ==
  LET found == Matches(provider, remote)
      first(x) == \A y \in found : x[1] < y[1] \/ (x[1] = y[1] /\ x[2] <= y[2])
  IN  {remote[x[2]] : x \in {y \in found : first(y)}}

\* codecToOpenAI and codecToDeepgram: one format for both directions; Deepgram's
\* does not look at the rate, and an unknown name is u-law.
SpokenFormat(provider, codec) ==
  CASE codec.name = "L16" -> Format("L16", IF provider = "deepgram" THEN 24000 ELSE codec.rate)
    [] codec.name = "PCMA" -> Format("PCMA", 8000)
    [] codec.name \notin {"L16", "PCMA"} -> Format("PCMU", 8000)

\* Gemini hears 16 kHz and speaks 24 kHz, whatever the caller's codec.
InputFormat(provider, codec) ==
  IF provider = "gemini" THEN Format("L16", 16000) ELSE SpokenFormat(provider, codec)

OutputFormat(provider, codec) ==
  IF provider = "gemini" THEN Format("L16", 24000) ELSE SpokenFormat(provider, codec)

BytesPerSample(name) == IF name = "L16" THEN 2 ELSE 1

FrameBytesFor(codec) == (codec.rate * BytesPerSample(codec.name) * FrameDuration) \div Second

SilenceByte(name) ==
  CASE name = "PCMA" -> 213
    [] name = "L16" -> 0
    [] name \notin {"PCMA", "L16"} -> 255

-----------------------------------------------------------------------------
(***************************************************************************)
(* Samples and bytes.                                                      *)
(***************************************************************************)

\* The conversion int16(x) of Go.
ToInt16(x) == LET u == x % 65536 IN IF u > 32767 THEN u - 65536 ELSE u

\* Go's division by a positive number rounds towards zero.
Quotient(x, n) == IF x >= 0 THEN x \div n ELSE -((-x) \div n)

Low(s)  == s % 256
High(s) == (s % 65536) \div 256

\* Little-endian; the length is even.
BytesToInt16(b) == [i \in 1 .. Len(b) \div 2 |-> ToInt16(b[2 * i - 1] + 256 * b[2 * i])]

Int16ToBytes(s) ==
  [i \in 1 .. 2 * Len(s) |-> IF i % 2 = 1 THEN Low(s[(i + 1) \div 2]) ELSE High(s[i \div 2])]

\* A trailing odd byte stays.
SwapPCM16(b) ==
  [i \in 1 .. Len(b) |-> IF i % 2 = 0 THEN b[i - 1] ELSE IF i < Len(b) THEN b[i + 1] ELSE b[i]]

-----------------------------------------------------------------------------
(***************************************************************************)
(* Resampling.                                                             *)
(***************************************************************************)

Resample8to16(src) ==
  [i \in 1 .. 2 * Len(src) |->
     IF i % 2 = 1 THEN src[(i + 1) \div 2]
     ELSE IF i < 2 * Len(src)
          THEN ToInt16(Quotient(src[i \div 2] + src[i \div 2 + 1], 2))
          ELSE src[Len(src)]]

Resample24to8(src) == [i \in 1 .. Len(src) \div 3 |-> src[3 * i - 2]]

\* What is left of a third sample is cut off, or the zero it was made as.
Resample24to16(src) ==
  [i \in 1 .. (Len(src) * 2) \div 3 |->
     LET at == 3 * ((i - 1) \div 2)
     IN  IF at + 3 > Len(src) THEN 0
         ELSE IF i % 2 = 1 THEN ToInt16(Quotient(2 * src[at + 1] + src[at + 2], 3))
              ELSE ToInt16(Quotient(src[at + 2] + 2 * src[at + 3], 3))]
=============================================================================

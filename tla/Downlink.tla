------------------------------ MODULE Downlink ------------------------------
(***************************************************************************)
(* The audio path of sip2ai from OpenAI to the caller: openAIClient's      *)
(* recvLoop, recvCh, the two goroutines of runDownlink and the             *)
(* AudioAdapter between them, and barge-in, which recvLoop runs while the  *)
(* two goroutines go on moving audio.                                      *)
(*                                                                         *)
(* A byte of audio is the number of the run it belongs to.  A run is a     *)
(* maximal stretch of deltas that recvLoop counts in one currentItemBytes. *)
(* A definition marked "mutant" is a plausible bug in the definition that  *)
(* follows it; no action uses it.                                          *)
(***************************************************************************)
EXTENDS Naturals, FiniteSets, Sequences

CONSTANTS
  RecvCap,        \* capacity of recvCh (256 in the code)
  FrameBytes,     \* bytes of one RTP frame
  BytesPerMs,     \* outputBytesPerMs
  ChunkSizes,     \* sizes of the audio deltas
  MaxResponses,   \* bound on the responses of a call
  MaxSpeech,      \* bound on the speech_started events of a call
  MaxDeltas       \* bound on the audio deltas of a call

ASSUME SizeAssumption ==
  /\ {RecvCap, FrameBytes, BytesPerMs} \subseteq Nat \ {0}
  /\ ChunkSizes \subseteq Nat \ {0} /\ ChunkSizes # {}
  /\ {MaxResponses, MaxSpeech, MaxDeltas} \subseteq Nat

Runs == 1 .. MaxResponses + MaxSpeech

VARIABLES
  resp,       \* number of the last response.created
  speeches,   \* number of speech_started events
  deltas,     \* number of audio deltas
  handler,    \* interruptHandler is installed
  inProgress, \* responseInProgress
  item,       \* currentItemID: 0 or the response it belongs to
  itemBytes,  \* currentItemBytes
  run,        \* number of the last run
  recvPc,     \* recvLoop, with handleBargeIn
  drained,    \* drainedRecvBytes
  pending,    \* pendingAdapter
  recvCh,     \* sequence of chunks
  pump,       \* the inner goroutine of runDownlink
  chunk,      \* the chunk it holds
  buf,        \* AudioAdapter.buf
  closed,     \* AudioAdapter.done
  play,       \* the outer loop of runDownlink
  frame,      \* frame it is writing, << >> for silence
  cancelled,  \* the call's context is cancelled
  heard,      \* bytes of each run written to RTP
  lost,       \* bytes of each run thrown away outside barge-in
  dropped,    \* bytes of each run thrown away by barge-in
  told,       \* audio_end_ms last sent for each run
  unsent,     \* runs whose truncate could not be written
  cut,        \* runs up to this one were interrupted by the caller
  finished    \* runs whose item response.done made recvLoop forget

vars == <<resp, speeches, deltas, handler, inProgress, item, itemBytes, run,
          recvPc, drained, pending, recvCh, pump, chunk, buf, closed, play,
          frame, cancelled, heard, lost, dropped, told, unsent, cut,
          finished>>

serverVars == <<resp, speeches, deltas, finished>>
itemVars   == <<inProgress, item, itemBytes, run>>
bargeVars  == <<drained, pending, told, unsent, cut>>
pumpVars   == <<pump, chunk>>
playVars   == <<play, frame>>

Audio == Seq(Runs)

TypeOK ==
  /\ resp \in 0 .. MaxResponses /\ speeches \in 0 .. MaxSpeech
  /\ deltas \in 0 .. MaxDeltas
  /\ {handler, inProgress, closed, cancelled} \subseteq BOOLEAN
  /\ item \in 0 .. resp /\ itemBytes \in Nat
  /\ run \in {0} \cup Runs /\ cut \in 0 .. run
  /\ recvPc \in {"read", "drain", "flush", "report", "dead"}
  /\ drained \in Nat /\ pending \in Nat
  /\ recvCh \in Seq(Audio) /\ Len(recvCh) <= RecvCap
  /\ pump \in {"off", "recv", "write", "ended"} /\ chunk \in Audio
  /\ buf \in Audio
  /\ play \in {"off", "read", "write", "ended"} /\ frame \in Audio
  /\ {heard, lost, dropped, told} \subseteq [Runs -> Nat]
  /\ finished \subseteq 1 .. run /\ unsent \subseteq Runs

None == [k \in Runs |-> 0]

Init ==
  /\ resp = 0 /\ speeches = 0 /\ deltas = 0
  /\ handler = FALSE /\ inProgress = FALSE
  /\ item = 0 /\ itemBytes = 0 /\ run = 0
  /\ recvPc = "read" /\ drained = 0 /\ pending = 0
  /\ recvCh = << >>
  /\ pump = "off" /\ chunk = << >>
  /\ buf = << >> /\ closed = FALSE
  /\ play = "off" /\ frame = << >>
  /\ cancelled = FALSE
  /\ heard = None /\ lost = None /\ dropped = None /\ told = None
  /\ cut = 0 /\ finished = {} /\ unsent = {}

\* The bytes of the runs in K that the audio s has, and that the chunks of a
\* channel have.
Bytes(K, s) == Cardinality({j \in DOMAIN s : s[j] \in K})
BytesIn(K, ch) ==
  Cardinality(UNION {{i} \X {j \in DOMAIN ch[i] : ch[i][j] \in K} : i \in DOMAIN ch})

Plus(f, s) == [k \in Runs |-> f[k] + Bytes({k}, s)]

-----------------------------------------------------------------------------
(***************************************************************************)
(* recvLoop: the events of one websocket connection, in order.             *)
(***************************************************************************)

ResponseCreated ==
  /\ recvPc = "read"
  /\ ~inProgress
  /\ resp < MaxResponses
  /\ resp' = resp + 1
  /\ inProgress' = TRUE
  /\ UNCHANGED <<speeches, deltas, finished, handler, item, itemBytes, run, recvPc,
                 bargeVars, recvCh, pumpVars, buf, closed, playVars,
                 cancelled, heard, lost, dropped>>

\* An audio delta of n bytes: counted for its item, then queued, or dropped
\* when recvCh is full.  Deltas of an interrupted response may still arrive.
AudioDelta(n) ==
  LET r == IF item = resp THEN run ELSE run + 1
      d == [j \in 1 .. n |-> r]
  IN
  /\ recvPc = "read"
  /\ inProgress
  /\ deltas < MaxDeltas
  /\ deltas' = deltas + 1
  /\ run' = r
  /\ item' = resp
  /\ itemBytes' = IF item = resp THEN itemBytes + n ELSE n
  /\ IF Len(recvCh) < RecvCap
     THEN recvCh' = Append(recvCh, d) /\ UNCHANGED lost
     ELSE lost' = Plus(lost, d) /\ UNCHANGED recvCh
  /\ UNCHANGED <<resp, speeches, finished, handler, inProgress, recvPc, bargeVars,
                 pumpVars, buf, closed, playVars, cancelled, heard, dropped>>

ResponseDone ==
  /\ recvPc = "read"
  /\ inProgress
  /\ inProgress' = FALSE
  /\ item' = 0
  /\ itemBytes' = 0
  /\ finished' = finished \cup (IF item = 0 THEN {} ELSE {run})
  /\ UNCHANGED <<resp, speeches, deltas, handler, run, recvPc, bargeVars, recvCh, pumpVars,
                 buf, closed, playVars, cancelled, heard, lost, dropped>>

\* handleBargeIn returns at once while no handler is installed.
SpeechStarted ==
  /\ recvPc = "read"
  /\ speeches < MaxSpeech
  /\ speeches' = speeches + 1
  /\ recvPc' = IF handler THEN "drain" ELSE "read"
  /\ UNCHANGED <<resp, deltas, finished, handler, itemVars, bargeVars, recvCh, pumpVars,
                 buf, closed, playVars, cancelled, heard, lost, dropped>>

\* The connection is lost or closed: errCh is filled, done is closed.
ReadError ==
  /\ recvPc = "read"
  /\ recvPc' = "dead"
  /\ UNCHANGED <<serverVars, handler, itemVars, bargeVars, recvCh, pumpVars,
                 buf, closed, playVars, cancelled, heard, lost, dropped>>

DrainOne ==   \* mutant: one chunk is taken out of recvCh, not all of them
  /\ recvPc = "drain"
  /\ recvPc' = "flush"
  /\ IF recvCh = << >>
     THEN UNCHANGED <<drained, recvCh, dropped>>
     ELSE /\ drained' = drained + Len(Head(recvCh))
          /\ dropped' = Plus(dropped, Head(recvCh))
          /\ recvCh' = Tail(recvCh)
  /\ UNCHANGED <<serverVars, handler, itemVars, pending, told, unsent, cut, pumpVars,
                 buf, closed, playVars, cancelled, heard, lost>>

DrainUncounted ==   \* mutant: the drained bytes are not subtracted
  /\ recvPc = "drain"
  /\ IF recvCh = << >>
     THEN recvPc' = "flush" /\ UNCHANGED <<recvCh, dropped>>
     ELSE /\ dropped' = Plus(dropped, Head(recvCh))
          /\ recvCh' = Tail(recvCh)
          /\ UNCHANGED recvPc
  /\ UNCHANGED <<serverVars, handler, itemVars, bargeVars, pumpVars,
                 buf, closed, playVars, cancelled, heard, lost>>

\* handleBargeIn, first loop: one receive from recvCh per step.
Drain ==
  /\ recvPc = "drain"
  /\ IF recvCh = << >>
     THEN recvPc' = "flush" /\ UNCHANGED <<drained, recvCh, dropped>>
     ELSE /\ drained' = drained + Len(Head(recvCh))
          /\ dropped' = Plus(dropped, Head(recvCh))
          /\ recvCh' = Tail(recvCh)
          /\ UNCHANGED recvPc
  /\ UNCHANGED <<serverVars, handler, itemVars, pending, told, unsent, cut, pumpVars,
                 buf, closed, playVars, cancelled, heard, lost>>

\* interruptHandler: AudioAdapter.Drain.
Flush ==
  /\ recvPc = "flush"
  /\ recvPc' = "report"
  /\ pending' = Len(buf)
  /\ dropped' = Plus(dropped, buf)
  /\ buf' = << >>
  /\ UNCHANGED <<serverVars, handler, itemVars, drained, told, unsent, cut, recvCh,
                 pumpVars, closed, playVars, cancelled, heard, lost>>

PlayedBytes == IF itemBytes > drained + pending
               THEN itemBytes - (drained + pending) ELSE 0
PlayedMs == PlayedBytes \div BytesPerMs
Reports  == item # 0 /\ PlayedMs > 0

ReportIfBuffered ==   \* mutant: no truncate when the adapter had nothing left
  /\ recvPc = "report"
  /\ recvPc' = "read"
  /\ UNCHANGED unsent
  /\ told' = IF Reports /\ pending > 0 THEN [told EXCEPT ![run] = PlayedMs] ELSE told
  /\ item' = 0
  /\ itemBytes' = 0
  /\ drained' = 0
  /\ pending' = 0
  /\ cut' = run
  /\ UNCHANGED <<serverVars, handler, inProgress, run, recvCh, pumpVars, buf,
                 closed, playVars, cancelled, heard, lost, dropped>>

\* conversation.item.truncate (and response.cancel), then forget the item, also
\* when the truncate could not be written, which is only logged.
Report ==
  /\ recvPc = "report"
  /\ recvPc' = "read"
  /\ \/ ~Reports /\ UNCHANGED <<told, unsent>>
     \/ Reports /\ told' = [told EXCEPT ![run] = PlayedMs] /\ UNCHANGED unsent
     \/ Reports /\ unsent' = unsent \cup {run} /\ UNCHANGED told
  /\ item' = 0
  /\ itemBytes' = 0
  /\ drained' = 0
  /\ pending' = 0
  /\ cut' = run
  /\ UNCHANGED <<serverVars, handler, inProgress, run, recvCh, pumpVars, buf,
                 closed, playVars, cancelled, heard, lost, dropped>>

-----------------------------------------------------------------------------
(***************************************************************************)
(* The session.                                                            *)
(***************************************************************************)

\* NewCallSession installs the handler; recvLoop has been running since
\* Connect, before the call was answered.
NewCallSession ==
  /\ ~handler
  /\ handler' = TRUE
  /\ UNCHANGED <<serverVars, itemVars, recvPc, bargeVars, recvCh, pumpVars,
                 buf, closed, playVars, cancelled, heard, lost, dropped>>

RunStarts ==
  /\ handler
  /\ play = "off"
  /\ pump' = "recv"
  /\ play' = "read"
  /\ UNCHANGED <<serverVars, handler, itemVars, recvPc, bargeVars, recvCh,
                 chunk, buf, closed, frame, cancelled, heard, lost, dropped>>

\* Another goroutine of the call, or the caller, ends it.
Cancel ==
  /\ ~cancelled
  /\ cancelled' = TRUE
  /\ UNCHANGED <<serverVars, handler, itemVars, recvPc, bargeVars, recvCh,
                 pumpVars, buf, closed, playVars, heard, lost, dropped>>

\* Run's deferred adapter.Close, once the outer loop returned.
RunReturns ==
  /\ cancelled
  /\ play = "ended"
  /\ ~closed
  /\ closed' = TRUE
  /\ UNCHANGED <<serverVars, handler, itemVars, recvPc, bargeVars, recvCh,
                 pumpVars, buf, playVars, cancelled, heard, lost, dropped>>

-----------------------------------------------------------------------------
(***************************************************************************)
(* The inner goroutine of runDownlink: RecvAudio, adapter.Write.           *)
(***************************************************************************)

\* select takes any ready case of RecvAudio, a chunk even when the call is over.
PumpRecv ==
  /\ pump = "recv"
  /\ recvCh # << >>
  /\ pump' = "write"
  /\ chunk' = Head(recvCh)
  /\ recvCh' = Tail(recvCh)
  /\ UNCHANGED <<serverVars, handler, itemVars, recvPc, bargeVars, buf, closed,
                 playVars, cancelled, heard, lost, dropped>>

PumpEndsQuietly ==   \* mutant: the adapter is not closed
  /\ pump = "recv"
  /\ cancelled \/ recvPc = "dead"
  /\ pump' = "ended"
  /\ UNCHANGED <<serverVars, handler, itemVars, recvPc, bargeVars, recvCh,
                 chunk, buf, closed, playVars, cancelled, heard, lost, dropped>>

PumpEnds ==
  /\ pump = "recv"
  /\ cancelled \/ recvPc = "dead"
  /\ pump' = "ended"
  /\ closed' = TRUE
  /\ UNCHANGED <<serverVars, handler, itemVars, recvPc, bargeVars, recvCh,
                 chunk, buf, playVars, cancelled, heard, lost, dropped>>

\* AudioAdapter.Write: no bound on the buffer; an error once it is closed.
PumpWrite ==
  /\ pump = "write"
  /\ chunk' = << >>
  /\ IF closed
     THEN pump' = "ended" /\ lost' = Plus(lost, chunk) /\ UNCHANGED buf
     ELSE pump' = "recv" /\ buf' = buf \o chunk /\ UNCHANGED lost
  /\ UNCHANGED <<serverVars, handler, itemVars, recvPc, bargeVars, recvCh,
                 closed, playVars, cancelled, heard, dropped>>

-----------------------------------------------------------------------------
(***************************************************************************)
(* The outer loop of runDownlink: adapter.TryRead, audioWriter.Write.      *)
(***************************************************************************)

TryReadShifts ==   \* mutant: the frame is not taken out of the buffer
  /\ play = "read"
  /\ Len(buf) >= FrameBytes
  /\ play' = "write"
  /\ frame' = SubSeq(buf, 1, FrameBytes)
  /\ UNCHANGED <<serverVars, handler, itemVars, recvPc, bargeVars, recvCh,
                 pumpVars, buf, closed, cancelled, heard, lost, dropped>>

TryReadNeedsMore ==   \* mutant: > for >= in TryRead
  /\ Len(buf) > FrameBytes
  /\ play = "read"
  /\ play' = "write"
  /\ frame' = SubSeq(buf, 1, FrameBytes)
  /\ buf' = SubSeq(buf, FrameBytes + 1, Len(buf))
  /\ UNCHANGED <<serverVars, handler, itemVars, recvPc, bargeVars, recvCh,
                 pumpVars, closed, cancelled, heard, lost, dropped>>

\* TryRead finds a whole frame, also after Close.
TryReadFrame ==
  /\ play = "read"
  /\ Len(buf) >= FrameBytes
  /\ play' = "write"
  /\ frame' = SubSeq(buf, 1, FrameBytes)
  /\ buf' = SubSeq(buf, FrameBytes + 1, Len(buf))
  /\ UNCHANGED <<serverVars, handler, itemVars, recvPc, bargeVars, recvCh,
                 pumpVars, closed, cancelled, heard, lost, dropped>>

TryReadSilence ==
  /\ play = "read"
  /\ Len(buf) < FrameBytes
  /\ ~closed
  /\ play' = "write"
  /\ UNCHANGED <<serverVars, handler, itemVars, recvPc, bargeVars, recvCh,
                 pumpVars, buf, closed, frame, cancelled, heard, lost, dropped>>

TryReadEOF ==
  /\ play = "read"
  /\ Len(buf) < FrameBytes
  /\ closed
  /\ play' = "ended"
  /\ cancelled' = TRUE
  /\ UNCHANGED <<serverVars, handler, itemVars, recvPc, bargeVars, recvCh,
                 pumpVars, buf, closed, frame, heard, lost, dropped>>

WriteFrame ==
  /\ play = "write"
  /\ play' = "read"
  /\ heard' = Plus(heard, frame)
  /\ frame' = << >>
  /\ UNCHANGED <<serverVars, handler, itemVars, recvPc, bargeVars, recvCh,
                 pumpVars, buf, closed, cancelled, lost, dropped>>

WriteFails ==
  /\ play = "write"
  /\ play' = "ended"
  /\ cancelled' = TRUE
  /\ lost' = Plus(lost, frame)
  /\ frame' = << >>
  /\ UNCHANGED <<serverVars, handler, itemVars, recvPc, bargeVars, recvCh,
                 pumpVars, buf, closed, heard, dropped>>

-----------------------------------------------------------------------------
Server ==
  \/ ResponseCreated \/ (\E n \in ChunkSizes : AudioDelta(n))
  \/ ResponseDone \/ SpeechStarted \/ ReadError

BargeIn == Drain \/ Flush \/ Report
Pump == PumpRecv \/ PumpEnds \/ PumpWrite
Play == TryReadFrame \/ TryReadSilence \/ TryReadEOF \/ WriteFrame \/ WriteFails

Next ==
  \/ Server \/ BargeIn
  \/ NewCallSession \/ RunStarts \/ Cancel \/ RunReturns
  \/ Pump \/ Play

\* The goroutines run.  Nothing forces OpenAI, the caller or an RTP error.
Fairness ==
  /\ WF_vars(BargeIn)
  /\ WF_vars(RunStarts)
  /\ WF_vars(RunReturns)
  /\ WF_vars(Pump)
  /\ WF_vars(Play)

Spec == Init /\ [][Next]_vars
FairSpec == Spec /\ Fairness

-----------------------------------------------------------------------------
(***************************************************************************)
(* Properties.                                                             *)
(***************************************************************************)

Moving(k) == Bytes({k}, chunk) + Bytes({k}, buf) + Bytes({k}, frame)

\* The bytes OpenAI counts for the current item are all accounted for: heard,
\* on their way, lost, or dropped by barge-in (currentItemBytes against
\* recvCh, runDownlink and the adapter).
ItemAccounted ==
  TypeOK /\ (item # 0 => itemBytes = heard[run] + Moving(run) + BytesIn({run}, recvCh)
                                     + lost[run] + dropped[run])

\* What handleBargeIn is about to report as played was played, is being
\* played, sits in the one chunk the pump holds, or was lost to a full recvCh.
ReportWithinHeard ==
  recvPc = "report" /\ item # 0
    => PlayedBytes <= heard[run] + Moving(run) + lost[run]

\* Of audio that an interruption took away OpenAI was told how much was heard,
\* unless the truncate could not be written, the caller heard less than a
\* millisecond of it, response.done had made recvLoop forget the item while it
\* was still being played, or audio of an older item was taken away too, which
\* handleBargeIn subtracts from this one.
ToldUnlessFinished ==
  recvPc \in {"read", "dead"} =>
    \A k \in Runs \ finished :
      dropped[k] > 0 /\ heard[k] >= BytesPerMs
        => \/ told[k] > 0 \/ k \in unsent
           \/ \E j \in Runs : j < k /\ dropped[j] > 0

\* Between two events of OpenAI at most one chunk of the audio that barge-in
\* interrupted is left to be played (handleBargeIn runs while the pump and
\* the player keep moving).
StaleAtMostOneChunk ==
  recvPc \in {"read", "dead"} => \E n \in ChunkSizes :
    Bytes(1 .. cut, buf) + Bytes(1 .. cut, chunk) + BytesIn(1 .. cut, recvCh) <= n

\* Once OpenAI has nothing more to send, every whole frame leaves the adapter:
\* it was played, dropped by barge-in or lost with the call.
PlayedOut ==
  handler ~> \/ recvCh = << >> /\ chunk = << >> /\ Len(buf) < FrameBytes
             \/ play = "ended"

\* A cancelled call ends its downlink, and a dead provider cancels the call.
DownlinkEnds ==
  /\ (cancelled /\ handler) ~> (play = "ended")
  /\ (recvPc = "dead" /\ handler) ~> cancelled

=============================================================================

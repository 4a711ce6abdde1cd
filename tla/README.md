# A TLA+ model of sip2ai and sip2openai

The repository holds two programs. **sip2ai** is a SIP user agent that answers
a call and carries its audio to a realtime AI provider (OpenAI, Gemini or
Deepgram) over a websocket. **sip2openai** is a signalling gateway: the media
runs between the caller and OpenAI over WebRTC, and the gateway relays the
SDP, keeps the dialog, and controls the session over a sideband websocket.
Both are Go: every call is a handful of goroutines that share a few fields,
channels and mutexes, and most of what can go wrong is in the order in which
those goroutines, the caller and the provider act.

## Inventory

### sip2openai

| Part | State | Operations | Talks to |
|---|---|---|---|
| `internal/sip/server.go`, `refer.go` | `Server.calls` (Call-ID to `*activeCall`), sipgo's dialogs | `onInvite`, `onAck`, `onBye`, `onNotify`, `onRefer`, `endCall`, `hangupOpenAI`, `sendRefer` | OpenAI's REST API, `Control`, the caller |
| `internal/openai/control.go` | `Control.conn`, `done`, `usage`, `callerSpoke`, `lastRecv` | `Start`, `GreetAfter`, `Close`, `recvLoop`, `keepalive` | the sideband; calls back `OnHangup` and `OnTransfer` |
| `internal/openai/calls.go` | none per call | `CreateCall`, `Hangup` | OpenAI's REST API |
| `internal/sdp/normalize.go` | none | `EnsureBundleMid`, `StripBundleMid` | `onInvite` |
| `internal/config/config.go` | the configuration | `Load`, `WithOverride`, `Validate`, `normalizeTransfers` | `onInvite` |

Three goroutines can tear a call down: the handler of the caller's BYE, the
handler of the final NOTIFY of a transfer, and the sideband's receive loop when
the model calls `hangup_call`. They meet in `endCall`, which takes the entry
out of the registry under a lock. What makes it correct: one teardown per call,
no OpenAI call without an owner, no caller left in a dialog whose OpenAI call
is gone, and no goroutine that outlives its call.

### sip2ai

| Part | State | Operations | Talks to |
|---|---|---|---|
| `internal/sip/server.go` | `Server.calls`, `wg`, the shared configuration | `Start`, `handleCall` | diago, the session, the metrics |
| `internal/rtp/session.go` | the call's context, `transfer` | `ConnectWithRetry`, `Run`: uplink, downlink, health monitor, transfer watcher | RTP, the provider, the adapter |
| `internal/ai/openai_client.go` | `conn`, `done`, `recvCh`, `errCh`, `transferCh`, the item being spoken | `Connect`, `recvLoop`, `SendAudio`, `RecvAudio`, `Ping`, `Close`, `handleBargeIn` | the websocket, the interrupt handler |
| `internal/ai/gemini_client.go`, `deepgram_client.go` | the same without barge-in | the same | the websocket, Deepgram's SDK |
| `internal/audio/adapter.go` | `buf`, `done` | `Write`, `TryRead`, `Drain`, `Close` | both loops of the downlink, barge-in |
| `internal/ai/codecs.go` | none | `NegotiateCodec` | `handleCall` |
| `internal/audio/{codec,resample,constants}.go` | none | encoding, resampling, frame sizes | Gemini, the session |
| `internal/config/config.go` | the configuration | `Load`, `WithOverride` | `handleCall` |
| `internal/metrics/metrics.go` | gauges and counters | `CallStarted`, `CallEnded`, ... | everyone |

What makes it correct: `Run` returns whenever its context is cancelled, and
leaves no connection behind; a dead provider ends the call or is replaced; audio
reaches the caller once, in order, and stops when the caller speaks; what OpenAI
is told about it is true; the shutdown waits for the calls it has; calls do not
disturb each other.

`PROJECT.json` lists under `hazards` the places where this can go wrong.

## Modules

| Module | Models | Checked by |
|---|---|---|
| `Gateway` | the SIP handlers, the registry, the sideband control and the teardown of sip2openai | `MCGateway` |
| `CallLedger` | the abstract promise of `Gateway`: an OpenAI call is opened once and released at most once | refined by `Gateway` |
| `GatewayProofs` | proofs about `Gateway` | TLAPS |
| `CallSetup` | what `onInvite` asks of OpenAI and answers its caller: header, keys, configuration, statuses | `MCCallSetup` |
| `SdpNormalize` | `EnsureBundleMid` and `StripBundleMid` | through `CallSetup` |
| `SdpNormalizeProofs`, `CallSetupProofs` | proofs about them | TLAPS |
| `Downlink` | audio from OpenAI to the caller, with barge-in | `MCDownlink` |
| `DownlinkProofs` | proofs about `Downlink` | TLAPS |
| `AudioFormats` | codecs and their negotiation, formats of the providers, frames, bytes and samples, resampling | through `CallMedia` |
| `CallMedia` | the audio of one call, both ways, with each provider | `MCCallMedia` |
| `AudioFormatsProofs`, `CallMediaProofs` | proofs about them | TLAPS |
| `CallSession` | one sip2ai call: connecting, the goroutines of `Run`, reconnecting | `MCCallSession` |
| `SipServer` | `handleCall`, the shared configuration, the registry and the shutdown of sip2ai | `MCSipServer` |
| `CallLife` | the abstract life of a call, which `CallSession` promises and `SipServer` relies on | refined by both |
| `CallSessionProofs`, `SipServerProofs` | proofs about them | TLAPS |

Conventions: a goroutine has a program counter; one action is the code between
two points at which another goroutine can be seen (a lock, a channel, a network
call, an unsynchronised read of a shared field). Network calls have outcomes,
not contents. A definition whose comment says *mutant* is a plausible bug in
the definition that follows it, and shows that the properties notice such a bug.

### Gateway

A *leg* is an INVITE that `onInvite` handles. `inv` is the place its handler has
reached, `dlg` the dialog as sipgo tracks it, `oai` whether OpenAI has a call for
it and whether the gateway knows its id (the reply may be lost, or have no
Location header: *orphan*). `calls` is `Server.calls`. `conn`, `done`, `spoke`
and `usage` are the fields of `Control`; `recv`, `keep` and `greet` its
goroutines. A *task* is a teardown asked for by one of the three goroutines;
`tpc` follows it through `onBye`, `onNotify` or `OnHangup` and then `endCall`,
whose order is `After`. `SendBye` has the outcomes of `sendByeWithHeaders`: the dialog
ends, or the call returns an error (`byeErr`), which `endCall` logs before it goes on to
`Close` and the hangup. Token counts are abstracted to the number of
`response.done` events, which is what ordering can be told from. Legs may share
a Call-ID, since a re-INVITE reaches `onInvite` and overwrites the entry.

### CallSetup and SdpNormalize

Where `Gateway` has outcomes, `CallSetup` has what is in the messages, for several
calls whose handlers interleave and share the server's configuration and its
`Client`. `invite` is a call's INVITE: the header with each field given or not
(a set of at most one value stands for Go's pointer), and the offer. `pc` follows
`onInvite`, `cfg` is the effective configuration, `own` the client that `WithAPIKey`
made, and `offered`, `dials` and `hangups` the requests with the key each carried.
Names, keys, models and prompts are model values; of a transfer destination the
scheme is kept and whether it is blank or has blanks around it, which is what
`normalizeTransfers` looks at. `Ends` is `endCall` seen as the request it makes; when
and how often it runs is `Gateway`'s business.

`SdpNormalize` has a session description as a sequence of lines, and of a line what
the two functions look at: whether it is an `m=`, an `a=mid:`, an `a=group:BUNDLE` or
another one, and the mids it names. That a section without a mid gets one no other such
section has rests on `strconv.Itoa` naming different numbers differently
(`ItoaIsInjective`), which `SetupAssumption` asks of the mids of the model. OpenAI's answer (`AnswerTo`) is external: it has
every section, a mid for each and one group, as an answer to such an offer has.

### Downlink

A byte of audio is the number of the *run* it belongs to: a maximal stretch of
deltas that `recvLoop` counts in one `currentItemBytes`. So the model can say
whose bytes were heard, dropped by barge-in, or lost. `recvPc` follows
`recvLoop` through `handleBargeIn`, one receive of the draining loop at a time,
while the pump (`RecvAudio`, `adapter.Write`) and the player (`adapter.TryRead`,
the RTP write) go on. A response speaks one item; `finished` are the runs that a
`response.done` made `recvLoop` forget. The truncate of `Report` may fail; the item is
forgotten all the same, and `unsent` has it.

### AudioFormats and CallMedia

`AudioFormats` has the arithmetic of package `audio` and the tables of package `ai`
as they are: 16-bit samples that wrap, Go's division that rounds towards zero, bytes
in either order, resampling, frame sizes, the list each provider prefers. `CallMedia`
is a call that is negotiated and then carries audio: a frame of the caller is swapped,
transcoded and sent (`up` has the frame and what was sent of it); a chunk of the
provider is transcoded, swapped, appended to the adapter's `buf` and cut into frames
elsewhere than the provider cut it (`out` is what left the adapter, `rtp` the last
frame; `told` and `chunks` are the samples the provider said, in order, and in how many
chunks). The goroutines that move the audio are `Downlink`'s; here its samples are
followed. The tables of G.711 are a library's: the laws are constants, any functions
between samples and bytes. The duration of a frame and the unit of time are constants
too, so that TLC has frames of a few samples.

### CallSession

`dialer` is `ConnectWithRetry` and `Connect`, run by `handleCall` before the call
is answered and by the health monitor later. Connections are numbered, `conn` is
the provider's `c.conn` and `open` the websockets that are open. Each successful
`Connect` starts a receive loop, which reads `c.conn` anew for every message but
closes the done channel it was started with: `done` is made once for OpenAI and
Gemini and for each connection by Deepgram. A loop, once it failed, closes its
channel and ends; a second close of one channel is a panic and ends everything.

A write to the provider may block: `SendAudio` writes with `context.Background()`, as do
the pings of Gemini and Deepgram, and `Close` is called only after `Run` has waited for
its goroutines. `SendBlocks` and `PingBlocks` start such a write and nothing has to end it
while its connection is open; `upOn` is the connection the uplink's write began on, since
the monitor may replace `c.conn` meanwhile. While it blocks, OpenAI's greeting waits for
`sendMu` (`SendMuFree`). Deepgram's SDK is taken to write like the other two. The writes of
the receive loops (barge-in, results of tool calls) are not modelled as blocking:
`Run` does not wait for those loops.

### SipServer

`pc` follows `handleCall` through its early returns and its deferred functions.
`shared` is the codec in the server's configuration, which every call without an
override uses as its own; the two assignments and the two reads are separate
steps. `dlg` is the dialog as the caller sees it, so that the failures that `handleCall`
ignores or returns on show: "unreached" is an answered call whose BYE failed, "unacked"
one that got its 200 although `AnswerOptions` returned an error. diago is not taken to
hang up anything by itself when the handler returns. A call that is in a write that
blocks is "blocked". The result of `NegotiateCodec` is part of the INVITE here, and `CallMedia`'s
subject.

### CallLife, between the two

`SipServer` has `Run` as one action, `RunReturns`; `CallSession` has its goroutines.
What the one assumes of the other is `CallLife`: a call's set-up ends, in a running
call or a failed one; a running call returns only with its context cancelled; and it
does return once the context is cancelled, unless it is blocked for ever in a write to its
provider (`Block`, `Unblock`). Both modules refine it, by `Stage` and
`LifeStage`, with its fairness (`CallLives`, `CallsLive`). Cancelling is open to
everyone, as it is in the code: the shutdown, the caller, the provider.

## Runs

| Run | Question | Bounds |
|---|---|---|
| `gateway_leg` | ownership, header, teardown, goroutines of one leg | one leg, one `response.done`, all events, both replies |
| `gateway_reinvite` | refinement of `CallLedger` | two legs, one Call-ID |
| `gateway_setup` | keys, configuration, statuses, SDP | two calls; ten headers each, or every offer of up to three lines and those of four with two sections; five statuses |
| `downlink` | accounting, barge-in and what is reported of it, playing out, ending | two responses, one interruption, chunks shorter and longer than a frame, a `recvCh` that fills |
| `session_deepgram` | reconnecting with a channel per connection; refinement of `CallLife`, no zombie | two connections, one retry |
| `session_openai` | reconnecting, the greeting, which waits for a write that blocks, transfers; refinement of `CallLife` | two connections, two requests |
| `call_media` | negotiation, speed, what is heard | three providers, seven offers, two samples for the caller, six chunks, two of them in a call |
| `server` | gauge, shutdown, isolation of overrides, with failing answers and BYEs; refinement of `CallLife` | two calls, two Call-IDs, four pairs of INVITEs (`PairSpec`) |

The other runs expect a violation; each states what a comment or the
documentation says, and `findings` in `PROJECT.json` quotes it.

* `gateway_bye_hangs_up`: a BYE that is handled before the registration leaves an
  OpenAI call that nothing ends.
* `session_no_panic`: a second connection to OpenAI closes a closed channel.
* `server_same_codec`: concurrent calls overwrite each other's codec.
* `media_gemini_rate`: Gemini's client forgets the rate of an L16 codec, so that with
  L16/24000 each side hears the other at the wrong speed. `RateIsKnown` names that one
  case, and the properties of `call_media` hold of all others.

The modules also have behaviours that differ from what a comment says and that no
run is spent on:

* `Close` before `Start` has set the connection (`control.go:188`) leaves the sideband
  that is dialled afterwards up, though "Close tears down the sideband WS" (`control.go:185`).
* `usageHeaderFor` returns a header for a call whose sideband never came up
  (`src/sip2openai/README.md:87` says it is omitted), and a `response.done` between
  the header and `Close` is in the log and not in the header (`README.md:88`).
  `HeaderWithinLog` is what does hold of the two.
* `GreeterTimer` reads `callerSpoke` before `GreeterSend` writes, so a caller who
  speaks in between is greeted all the same (`control.go:156`).
* An existing group is kept though it does not list the mids that were assigned, and
  an assigned mid may be one that the caller chose for another section, although "a
  session-level a=group:BUNDLE lists all mids" (`normalize.go:29-32`). `OfferIdiomatic`
  says what holds, and of which offers.
* `response.done` clears the current item while its audio is still being played, so an
  interruption after it drops audio of which OpenAI is not told, and the bytes of an
  older item are subtracted from the current one, against `openai_client.go:488-489`.
  `ToldUnlessFinished` is what does hold.
* After barge-in the chunk the pump holds is still played (`openai_client.go:487`);
  `StaleAtMostOneChunk` bounds it.
* `AudioAdapter.Write` has no cap (`adapter.go:45`), and `TryRead` returns `io.EOF`
  with less than a frame still buffered (`adapter.go:92`).
* While the health monitor reconnects, the uplink's write to the closed connection
  cancels the call (`session.go:300`), unless the new connection is up before that write.
* A provider is left connected when the 200 fails (`server.go:179`), and a Deepgram
  websocket when `Connect` fails after dialling: nobody calls `Close`
  (`deepgram_client.go:165-167`). `NoneLeftOpen` excludes exactly these.
* A call whose 180 or 200 fails is never taken off `sip2ai_calls_active`
  (`metrics.go:28`); `GaugeAccounted` says exactly which calls those are.
* A call that registers after the shutdown cancelled the registered ones is answered,
  waited for and not terminated (`server.go:81`); `SweptCallsEnd` is about the others.

The bounds are enough for what is asked. One leg has all three teardowns racing
each other, and two legs are what overwriting an entry takes. Two calls with
different headers are what it takes for one to use what is the other's. Offers of three
lines have a section with a mid of its own, a blank one, two, or a group before or after
it; those of four have two sections, of which one is assigned the other's mid. A second
response shows what is left over from the first, and the interruption may come before,
between or during them. A second connection is the first that can meet the remains of
another. Two calls race for the configuration. In `call_media` the unit of time is an
eighth of a millisecond and a frame has two, so a frame has 2, 4 or 6 samples (160, 320
or 480 in the code): the ratios, on which the conversions depend, are those of the code;
the chunks have each remainder by three, are shorter and longer than a frame, and have
the extreme samples whose sums overflow 16 bits. The counters that are bounded only for
TLC are `MaxUsage`, `MaxResponses`, `MaxSpeech`, `MaxDeltas`, `MaxConns`, `MaxRequests`
and `MaxChunks`. `CHECK_DEADLOCK` is off because a call ends: a state in which all of
them are over has no successor.

### Fairness

Liveness is checked under weak fairness of each goroutine: a goroutine that can
run does, and each network call the handlers make returns, because it has a
timeout (`context.WithTimeout`, sipgo's transaction timers). Nothing makes the
caller hang up, the provider answer or fail, or a ping fail. Two places need more
than that. In `CallSession` the `select` of the uplink and that of the monitor get strong
fairness for their `ctx.Done()` case, since Go picks among ready cases at random. A write
that blocks is under no fairness while its connection is open, because the code has
nothing that ends it; once the connection is gone it fails. What connecting writes is
under the timeout of `Connect`. So `CallLives` and `CallsLive` say that a cancelled call
returns unless it is blocked from some point on: in `CallLife` the fairness of `Return` is
strong and `Return` is disabled while the call is blocked, and a call that blocks again and
again, but not for ever, returns. In `SipServer` the fairness
of `RunReturns` is not assumed of the code again: it is what `CallLives` checks of
`CallSession`, and that a caller that is gone ends the call by the RTP error its
reader gets; the BYE of a wrap-up has a timeout. `CallSetup` and `CallMedia` have no liveness.

## Proofs

`GatewayProofs` is about every set of legs and Call-IDs, any assignment of one to
the other, any number of events, and any subset of events and replies, under
`LegsAssumption`, `UsageAssumption` and `ConfigAssumption`.

* `InvariantHolds`: `Spec => []IndInv`. That no call is hung up twice
  (`TeardownOnce`) is not inductive: one needs that a call in the registry has not
  been hung up and that no teardown has it (`RegistryLive`), that a call is claimed
  by at most one task and not hung up while it is (`ClaimedOnce`), that the model's
  teardown runs on the receive loop and so cannot run twice at once
  (`ModelTaskIsRecvLoop`), and where in its handler a leg is when it has an id, a
  closed control or a receive loop (`IdKnown`, `ControlAfterAnswer`). The proof has
  a lemma for each group of actions that touches the same variables.
* `NeverTwice`: the consequence for the OpenAI calls.
* `ImplementsLedger`: `Spec => LedgerSpec`. `CreateCallOk` with a known id maps to
  `Open`, `AbortAnswered` and `Hang` on a known id to `Release`, everything else to
  a stutter; that `Release` is enabled is what the invariant is needed for.

The second part of `GatewayProofs` needs `DistinctCallIds` as well: a re-INVITE overwrites
the registry's entry, and then a call has no owner, and the teardown of one leg takes the
call of another, so that its caller is cut off and its header is not what is logged. TLC
finds `Ownership`, `NeverCutLive` and `HeaderWithinLog` false of two legs with one Call-ID;
`gateway_reinvite` has that case, and checks the ledger only.

* `DistinctInvHolds`: `Spec => []DistinctInv`. Its parts are where the dialog of a leg
  can be, given its handlers (`DialogInv`, which needs no distinct Call-IDs); who owns its
  OpenAI call (`Ownership`); that a call is logged only by the teardown that took it, which
  then only hangs up (`LogInv`); that a header is a snapshot of a tally that only grows,
  and is taken before the log (`HeaderInv`); and that a teardown has its own leg and passes
  `sendBye` only with its BYE failed or the caller out of the dialog (`ByeInv`).
* `OwnershipHolds`, `HeaderIsWithinLog`: conjuncts and consequences of it.
* `LiveCallersAreNotCut`: `Spec => NeverCutLive`, an action property: an OpenAI call is hung
  up under a dialog that is still confirmed only after a BYE for it failed. `AbortAnswered` is
  safe by `DialogInv`, `Hang` by `ByeInv`, and nothing else hangs up.

`CallSetupProofs` is about every set of calls, keys, headers, offers and statuses,
under `SetupAssumption`: the configuration's destinations were normalised, as `Load` does,
and Go's `Itoa` is injective on the sections of an offer.

* `OneKeyHolds`: `Spec => []OneKey`. It needs where a call has its key from at each
  step of its handler (`KeyInv`: from the configuration until the client is picked,
  then from its own client, or from the server's if the two keys are equal), and that
  the client and the configuration the handlers share never change (`SharedInv`).
* `RefusalHolds`: `Spec => []RefusalTellsWhose`, from what a call was offered and
  answered at each step (`RefusalInv`) and `StatusOfRefusal`, the table as a lemma.
* `OwnSessionHolds`: `Spec => []OwnSession`, from the settings a call has at each step
  (`SettingsInv`), which are those of its header or else the server's. `WithOverride`
  normalises the destinations of a header and keeps the server's, which are normal already.
* `OffersAreIdiomatic`, `SymmetricAnswers`: `Spec => []OfferIdiomatic` and
  `[]AnswerSymmetric`, from where a description comes from at each step (`SdpInv`) and the
  lemmas of `SdpNormalizeProofs`.

`SdpNormalizeProofs` is about descriptions of any length. The two functions make some
lines of each line and flatten what they made, and `FlattenSeq` is recursive. So it is
first shown where the pieces are in the whole: the lengths up to a piece are a recursive
function (`UptoIs`), each place of the whole is in one piece (`PieceAt`), and two wholes
are equal if their pieces are (`PieceByPiece`). The induction this takes is over a set, as
a least counterexample (`Induction`), since the library's theorem takes an operator. From
it follow what leaving out lines does (`WithoutPieces`, `WithoutTwice`), that the lines
of the offer are kept in order with only mids and groups among them (`OnlyAddsEnsure`),
that every section has a mid and a new group lists them (`EnsureIsIdiomatic`), that they
differ (`EnsureIsDistinct`), and that a second rewriting changes nothing (`EnsureTwice`).

`DownlinkProofs` is about any number of responses, deltas and interruptions, any capacity
of `recvCh` and any sizes of chunks and frames, under `SizeAssumption`.

* `InvariantHolds`: `Spec => []Inv`, which is about how many bytes are where and not about
  their order. Bytes are counted by the positions they are at, which
  needs no induction over a sequence (`BytesConcat`, `BytesInAppend`, `BytesInTail`). The
  bytes of a run are heard, moving, in `recvCh`, lost or dropped, and `recvLoop` counted
  exactly those of the current one (`TotalInv`); barge-in subtracts what it dropped of it,
  and more only if it dropped an older one (`DropInv`); an interrupted run is reported but
  for the exceptions, of which an unwritten truncate is one (`ToldInv`); and after an interruption only the chunk that the pump
  held can be stale (`StaleInv`). `HeldInv` and `RunInv` say who holds audio at which point
  of the code, and which runs are over. Every action either moves audio and keeps the
  totals (`StepMoves`) or is a delta (`DeltaCounts`).
* `ItemIsAccounted`, `ReportIsWithinHeard`, `ToldUnlessItemIsFinished` and
  `StaleIsAtMostOneChunk` follow.

`CallSessionProofs` is about each provider, any number of retries, connections and
tool calls, under `ProviderAssumption`.

* `InvariantHolds`: `Spec => []IInv`, one lemma for each group of goroutines. `ConnInv`
  says that only the last connection dialled can be open, and that between a failure
  and the next dial none is, but with Deepgram; `MainInv` who uses the dialer;
  `TransferInv` that the watcher takes one request and is deaf to the next; `CancelInv`
  that who ends while `Run` waits has cancelled the context; `PanicInv` that with
  Deepgram a loop closes the channel of its own connection.
* `TypesHold`, `OneConnectionHolds`, `NoneIsLeftOpen`, `TransferIsTheFirst` and
  `DeepgramDoesNotPanic` follow. For OpenAI the last is false (`session_no_panic`).
* `LivesAsCallLife`: every step is one of `CallLife`'s or a stutter; that `Run` returns
  with its context cancelled rests on `CancelInv`.

`SipServerProofs` is about every finite set of calls, any Call-IDs, overrides and
negotiated codecs, under `CallsAssumption` and `CodecsAssumption` (a codec is a name
and a rate).

* `InvariantHolds`: `Spec => []IndInv`. That `wg` is a natural number, so that
  `wg.Done` never panics, and that `Start` returns on an empty server, both need
  `wg = Cardinality(InFlight)`; that the gauge is a natural number needs
  `gauge = Cardinality(Unsettled)`, which in turn needs that no call is settled
  twice, i.e. where in `handleCall` a settled call can be (`Stages`). The
  cardinality steps rest on `OneMore` and `OneLess`.
* `NobodyAbandoned`, `GaugeIsAccounted`: consequences of those counts and of
  `Stages`, which says where a call is answered and where it is hung up. When `Start` has
  returned, an answered call has ended or its hangup was tried; the property does not say
  that a caller got a BYE that failed, nor anything of one whose `AnswerOptions` failed
  after the 200 had gone out, since the code does nothing for them.
* `OverridesAreIsolated`: from `OwnCodec`, which follows the copy that an override
  makes through the two assignments and the two reads. The same claim about calls
  without an override is false (`server_same_codec`).
* `CallsLiveAsCallLife`: for each call, every step of the server, those of other calls
  and of the shutdown included, is one of `CallLife`'s or a stutter. It needs that
  `callStatus` is "failed" exactly until `Run` has returned (`StatusInv`).

`AudioFormatsProofs` is about samples and bytes of any length: they survive being
written and read (`SamplesSurvive`) and being swapped twice (`SwapTwice`);
`Resample8to16` keeps every sample and puts one between each two (`UpsamplingIsBetween`);
`Resample24to8` is every third sample, and those of `Resample24to16` lie between the two
neighbours they are made of, with the lengths each has (`DownsamplingIsBetween`). Nothing
overflows. `CallMediaProofs` builds on them, for any
offers, any duration of a frame and any companding law, under `DurationAssumption` and
`MediaAssumption`:

* `BestCodecAnswered`: `Spec => []BestCodec`. The two nested loops of `NegotiateCodec`
  find the least of the matching pairs, which exists by well-foundedness
  (`NegotiatesTheFirst`).
* `CallerHeard`: `Spec => []CallerIsHeard`, by the codec that was answered and the
  lemmas for L16 and for G.711 (`L16IsHeard`, `G711IsHeard`).
* `SpeedIsTheSame`, `ProviderHeard`: `Spec => []SameSpeed` and `[]ProviderIsHeard`, from
  `AudioInv`: there are samples, made chunk by chunk of those the provider said, that are
  what the adapter holds and what left it, on the wire (`HeardAs`); they last as long as
  what was said, but for less than a sample a chunk; and what the provider was sent of a
  frame lasts as long as the frame (`InTime`). A chunk extends those samples
  (`ChunkExtends`), since audio can be put on the wire in pieces (`OnWireOfConcat`), and a
  frame only moves bytes from one side of the concatenation to the other. At the provider's
  own rate `ProviderIsHeard` is that what left the adapter and what it holds are exactly the
  samples that were said, in order. Where they are resampled it is weaker: no sample is
  outside their range, and nothing is said of the order. Audio that barge-in drained left
  the adapter too, without being played; `Downlink` tells the two apart.

So every invariant that a run checks is proved, and the action property and the steps of
the refinements with them. Only model-checked are the liveness properties, which are out
of TLAPS's reach: `TeardownCompletes` and `GoroutinesStop` of `Gateway`, `PlayedOut` and
`DownlinkEnds` of `Downlink`, `NoZombie` of `CallSession`, `SweptCallsEnd` of `SipServer`,
and of `CallLives` and `CallsLive` the fairness of `CallLife`.

## Not modelled

Formatting and logging, the defaults, files and environment of the configuration, the
parsing of SDP and JSON, line endings, the tables of G.711, the HTTP transport of the
OpenAI client, Deepgram's SDK, counters that are only written, charts and container
images: they keep no state that another part reads, or belong to libraries. sipgo, diago
and the websocket library appear as what the code sees of them. `CallMedia` takes it
that codecs have one channel, as all of the program's own have, and that a provider
sends whole samples.

## Plan

What would come next, in this order:

1. The safety core of the liveness properties as invariants of their own: for
   `TeardownCompletes` and `GoroutinesStop`, that whoever waits has somebody left to wake
   it; then a theorem for each.
2. sip2ai's `WithOverride` in full, and `sipfragStatus`, beside `CallSetup`.

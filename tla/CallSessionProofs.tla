------------------------- MODULE CallSessionProofs -------------------------
(***************************************************************************)
(* What TLAPS proves about CallSession for every provider, every number of *)
(* reconnects and of tool calls: one connection at a time, none left open, *)
(* the first transfer, no panic with deepgram, and that a call lives as    *)
(* CallLife says.                                                          *)
(***************************************************************************)
EXTENDS CallSession, FiniteSetTheorems, TLAPS

\* Only the last connection dialled can be open.  Between a failure of Connect
\* and the next dial nothing is, but with deepgram.
ConnInv ==
  /\ open \subseteq {conn}
  /\ Provider # "deepgram" /\ dialer \in {"dial", "failed", "delay"} => open = {}
  /\ dialer = "delay" => attempt < ReconnectRetries

\* Who uses the dialer, and what is over when the call is.
MainInv ==
  /\ mon \in {"wait", "ping", "close", "reconnect"} => main = "run"
  /\ dialer # "idle" => main = "connect" \/ mon = "reconnect"
  /\ main \in {"connect", "answer"} => watch = "off"
  /\ main = "returned" => open = {}
  /\ main = "rejected" /\ Provider # "deepgram" => open = {}

\* The watcher takes one request and is then deaf to the next.
TransferInv ==
  /\ watch \in {"off", "wait"} => transfer = 0 /\ transferCh \in {0, 1}
  /\ watch \in {"off", "wait"} /\ transferCh = 0 => asked = 0
  /\ watch = "grace" => transfer = 1
  /\ transfer \in {0, 1}
  /\ why = "transfer" => transfer = 1

\* Every goroutine that ends while Run waits has cancelled the context.
CancelInv ==
  /\ up = "ended" => cancelled
  /\ main \in {"stop", "returned"} => cancelled

\* deepgram: each recvLoop closes a channel of its own.
PanicInv ==
  Provider = "deepgram" =>
    /\ ~panicked
    /\ \A c \in Conns : loop[c] # "off" => closes[c] = c /\ c <= conn
    /\ \A c \in Conns : c \in closed => loop[c] = "ended"
    /\ dialer = "setup" /\ conn \in Conns => loop[conn] = "off"

\* The inductive invariant.
IInv == TypeOK /\ ConnInv /\ MainInv /\ TransferInv /\ CancelInv /\ PanicInv

\* A session starts with no connection and nothing cancelled.
LEMMA InitInv == Init => IInv
<1> SUFFICES ASSUME Init PROVE IInv
  OBVIOUS
<1>1. TypeOK
  <2>1. /\ loop \in [Conns -> {"off", "read", "exit", "ended"}]
        /\ reads \in [Conns -> {0} \cup Conns]
        /\ closes \in [Conns -> DoneChans]
    BY DEF Init, DoneChans
  <2>2. /\ attempt \in 0 .. ReconnectRetries /\ errCh \in 0 .. 4
        /\ asked \in 0 .. MaxRequests
        /\ transferCh \in 0 .. MaxRequests /\ transfer \in 0 .. MaxRequests
    BY ProviderAssumption DEF Init
  <2>3. /\ panicked \in BOOLEAN /\ cancelled \in BOOLEAN /\ eof \in BOOLEAN
        /\ done \in DoneChans /\ pumpDone \in DoneChans
    BY DEF Init, DoneChans
  <2> QED
    BY <2>1, <2>2, <2>3 DEF Init, TypeOK, Causes
<1>2. ConnInv /\ MainInv /\ TransferInv /\ CancelInv
  BY DEF Init, ConnInv, MainInv, TransferInv, CancelInv
<1>3. PanicInv
  BY DEF Init, PanicInv, Conns
<1> QED
  BY <1>1, <1>2, <1>3 DEF IInv

-----------------------------------------------------------------------------
\* ConnectWithRetry and Connect.
LEMMA DialerStep ==
  ASSUME IInv, Dialer
  PROVE  IInv'
<1> USE ProviderAssumption
    DEF IInv, TypeOK, ConnInv, MainInv, TransferInv, CancelInv, PanicInv, Conns, DoneChans,
        Causes, Alive, CancelBy, LeftByDial, FreshDone, Connected, GivesUp, ctxVars,
        upVars, downVars, transferVars, providerVars
<1>1. CASE DialOk
  <2>0. open' \subseteq Conns
    <3>1. conn + 1 \in Conns
      BY <1>1 DEF DialOk
    <3>2. open' = LeftByDial \cup {conn + 1} /\ LeftByDial \subseteq open
      BY <1>1 DEF DialOk
    <3>3. open \subseteq Conns
      OBVIOUS
    <3> QED
      BY <3>1, <3>2, <3>3, Zenon
  <2>1. TypeOK'
    BY <1>1, <2>0 DEF DialOk
  <2>2. ConnInv'
    BY <1>1 DEF DialOk
  <2>3. MainInv'
    BY <1>1 DEF DialOk
  <2>4. TransferInv'
    BY <1>1 DEF DialOk
  <2>5. CancelInv'
    BY <1>1 DEF DialOk
  <2>6. PanicInv'
    BY <1>1 DEF DialOk
  <2> QED
    BY <2>1, <2>2, <2>3, <2>4, <2>5, <2>6
<1>2. CASE DialFails
  <2>0. open' \subseteq Conns
    BY <1>2 DEF DialFails
  <2>1. TypeOK'
    BY <1>2, <2>0 DEF DialFails
  <2>2. ConnInv'
    BY <1>2 DEF DialFails
  <2>3. MainInv'
    BY <1>2 DEF DialFails
  <2>4. TransferInv'
    BY <1>2 DEF DialFails
  <2>5. CancelInv'
    BY <1>2 DEF DialFails
  <2>6. PanicInv'
    BY <1>2 DEF DialFails
  <2> QED
    BY <2>1, <2>2, <2>3, <2>4, <2>5, <2>6
<1>3. CASE SetupOk
  BY <1>3 DEF SetupOk
<1>4. CASE SetupFails
  BY <1>4 DEF SetupFails
<1>5. CASE GreetOk
  BY <1>5 DEF GreetOk
<1>6. CASE GreetFails
  BY <1>6 DEF GreetFails
<1>7. CASE LastAttempt
  BY <1>7 DEF LastAttempt
<1>8. CASE Delay
  BY <1>8 DEF Delay
<1>9. CASE DelayOver
  BY <1>9 DEF DelayOver
<1>10. CASE DelayCancelled
  BY <1>10 DEF DelayCancelled
<1> QED
  BY <1>1, <1>2, <1>3, <1>4, <1>5, <1>6, <1>7, <1>8, <1>9, <1>10 DEF Dialer

-----------------------------------------------------------------------------
\* The receive loops and the network.
LEMMA LoopStep ==
  ASSUME IInv, NEW c \in Conns,
         ConnectionLost(c) \/ LoopAudio(c) \/ LoopRequest(c) \/ LoopFails(c) \/ LoopEnds(c)
  PROVE  IInv'
<1> USE ProviderAssumption
    DEF IInv, TypeOK, ConnInv, MainInv, TransferInv, CancelInv, PanicInv, Conns, DoneChans,
        Causes, Alive, Receives, ctxVars, dialVars, upVars, downVars, transferVars
<1>1. CASE ConnectionLost(c)
  BY <1>1 DEF ConnectionLost
<1>2. CASE LoopAudio(c)
  BY <1>2 DEF LoopAudio
<1>3. CASE LoopRequest(c)
  <2>1. TypeOK'
    BY <1>3 DEF LoopRequest
  <2>2. ConnInv'
    BY <1>3 DEF LoopRequest
  <2>3. MainInv'
    BY <1>3 DEF LoopRequest
  <2>4. TransferInv'
    BY <1>3 DEF LoopRequest
  <2>5. CancelInv'
    BY <1>3 DEF LoopRequest
  <2>6. PanicInv'
    BY <1>3 DEF LoopRequest
  <2> QED
    BY <2>1, <2>2, <2>3, <2>4, <2>5, <2>6
<1>4. CASE LoopFails(c)
  <2>0. errCh' \in 0 .. 4
    BY <1>4 DEF LoopFails
  <2>1. TypeOK'
    BY <1>4, <2>0 DEF LoopFails
  <2>2. ConnInv'
    BY <1>4 DEF LoopFails
  <2>3. MainInv'
    BY <1>4 DEF LoopFails
  <2>4. TransferInv'
    BY <1>4 DEF LoopFails
  <2>5. CancelInv'
    BY <1>4 DEF LoopFails
  <2>6. PanicInv'
    BY <1>4 DEF LoopFails
  <2> QED
    BY <2>1, <2>2, <2>3, <2>4, <2>5, <2>6
<1>5. CASE LoopEnds(c)
  <2>0. panicked' \in BOOLEAN
    <3>1. panicked' = (closes[c] \in closed)
      BY <1>5 DEF LoopEnds
    <3>2. CASE closes[c] \in closed
      BY <3>1, <3>2
    <3>3. CASE closes[c] \notin closed
      BY <3>1, <3>3
    <3> QED
      BY <3>2, <3>3
  <2>1. TypeOK'
    <3>1. loop' \in [Conns -> {"off", "read", "exit", "ended"}]
      BY <1>5 DEF LoopEnds
    <3>2. closed' \subseteq DoneChans
      <4>1. closes[c] \in DoneChans /\ closed \subseteq DoneChans
        OBVIOUS
      <4>2. closed' = closed \cup {closes[c]}
        BY <1>5 DEF LoopEnds
      <4> QED
        BY <4>1, <4>2, Zenon
    <3> QED
      BY <1>5, <2>0, <3>1, <3>2 DEF LoopEnds
  <2>2. ConnInv'
    BY <1>5 DEF LoopEnds
  <2>3. MainInv'
    BY <1>5 DEF LoopEnds
  <2>4. TransferInv'
    BY <1>5 DEF LoopEnds
  <2>5. CancelInv'
    BY <1>5 DEF LoopEnds
  <2>6. PanicInv'
    BY <1>5 DEF LoopEnds
  <2> QED
    BY <2>1, <2>2, <2>3, <2>4, <2>5, <2>6
<1> QED
  BY <1>1, <1>2, <1>3, <1>4, <1>5

-----------------------------------------------------------------------------
\* handleCall, Run, the uplink and the downlink.
LEMMA CallStep ==
  ASSUME IInv, Main \/ ShutDown \/ ReaderPuts \/ Uplink \/ PumpEnds \/ PlayEnds
  PROVE  IInv'
<1> USE ProviderAssumption
    DEF IInv, TypeOK, ConnInv, MainInv, TransferInv, CancelInv, PanicInv, Conns, DoneChans,
        Causes, Alive, CancelBy, CloseProvider, ctxVars, dialVars, upVars, downVars,
        transferVars, providerVars
<1>1. CASE AnswerFails
  BY <1>1 DEF AnswerFails
<1>2. CASE RunStarts
  <2>1. TypeOK'
    BY <1>2 DEF RunStarts
  <2>2. ConnInv'
    BY <1>2 DEF RunStarts
  <2>3. MainInv'
    BY <1>2 DEF RunStarts
  <2>4. TransferInv'
    BY <1>2 DEF RunStarts
  <2>5. CancelInv'
    BY <1>2 DEF RunStarts
  <2>6. PanicInv'
    BY <1>2 DEF RunStarts
  <2> QED
    BY <2>1, <2>2, <2>3, <2>4, <2>5, <2>6
<1>3. CASE RunStops
  <2>1. up = "ended" /\ mon = "ended" /\ watch = "ended"
    BY <1>3 DEF RunStops
  <2> QED
    BY <1>3, <2>1 DEF RunStops
<1>4. CASE RunReturns
  BY <1>4 DEF RunReturns
<1>5. CASE ShutDown
  BY <1>5 DEF ShutDown
<1>6. CASE ReaderPuts
  BY <1>6 DEF ReaderPuts
<1>7. CASE UpDone \/ UpFrame \/ UpSilence \/ SendBlocks \/ Send
  <2>1. CASE UpDone
    BY <2>1 DEF UpDone
  <2>2. CASE UpFrame
    <3>1. CASE frameCh = "err"
      BY <2>2, <3>1 DEF UpFrame
    <3>2. CASE ~(frameCh = "err")
      BY <2>2, <3>2 DEF UpFrame
    <3> QED
      BY <3>1, <3>2
  <2>3. CASE UpSilence
    BY <2>3 DEF UpSilence
  <2>4. CASE Send
    <3>1. CASE WriteFails
      BY <2>4, <3>1 DEF Send
    <3>2. CASE ~WriteFails
      BY <2>4, <3>2 DEF Send
    <3> QED
      BY <3>1, <3>2
  <2>5. CASE SendBlocks
    BY <2>5 DEF SendBlocks
  <2> QED
    BY <1>7, <2>1, <2>2, <2>3, <2>4, <2>5
<1>8. CASE PumpEnds
  BY <1>8 DEF PumpEnds
<1>9. CASE PlayEnds
  BY <1>9 DEF PlayEnds
<1> QED
  BY <1>1, <1>2, <1>3, <1>4, <1>5, <1>6, <1>7, <1>8, <1>9 DEF Main, Uplink

-----------------------------------------------------------------------------
\* The health monitor and the transfer watcher.
LEMMA WatchStep ==
  ASSUME IInv, Monitor \/ Watcher
  PROVE  IInv'
<1> USE ProviderAssumption
    DEF IInv, TypeOK, ConnInv, MainInv, TransferInv, CancelInv, PanicInv, Conns, DoneChans,
        Causes, Alive, CancelBy, CloseProvider, ctxVars, dialVars, upVars, downVars,
        transferVars, providerVars
<1>1. CASE MonDone \/ PingBlocks \/ PingReturns \/ PingFails
  <2>1. CASE MonDone
    BY <2>1 DEF MonDone
  <2>2. CASE PingFails
    <3>1. CASE ReconnectRetries = 0
      BY <2>2, <3>1 DEF PingFails
    <3>2. CASE ~(ReconnectRetries = 0)
      BY <2>2, <3>2 DEF PingFails
    <3> QED
      BY <3>1, <3>2
  <2>3. CASE PingBlocks
    BY <2>3 DEF PingBlocks
  <2>4. CASE PingReturns
    BY <2>4 DEF PingReturns
  <2> QED
    BY <1>1, <2>1, <2>2, <2>3, <2>4
<1>2. CASE Reconnect
  BY <1>2 DEF Reconnect
<1>3. CASE WatchDone \/ WatchTakes \/ GraceOver
  <2>1. CASE WatchDone
    BY <2>1 DEF WatchDone
  <2>2. CASE WatchTakes
    BY <2>2 DEF WatchTakes
  <2>3. CASE GraceOver
    BY <2>3 DEF GraceOver
  <2> QED
    BY <1>3, <2>1, <2>2, <2>3
<1> QED
  BY <1>1, <1>2, <1>3 DEF Monitor, Watcher

-----------------------------------------------------------------------------
\* A call's connections, its transfer and its goroutines are as the invariant
\* says, however the goroutines interleave.
THEOREM InvariantHolds == Spec => []IInv
<1>1. ASSUME IInv, [Next]_vars PROVE IInv'
  <2>1. CASE UNCHANGED vars
    BY <1>1, <2>1 DEF vars, IInv, TypeOK, ConnInv, MainInv, TransferInv, CancelInv, PanicInv,
                      ctxVars, dialVars, upVars, downVars, transferVars, providerVars
  <2> QED
    BY <1>1, <2>1, DialerStep, LoopStep, CallStep, WatchStep DEF Next
<1> QED
  BY InitInv, <1>1, PTL DEF Spec

\* Types; ConnectWithRetry never makes more attempts than it may.
THEOREM TypesHold == Spec => []TypeOK
<1>1. IInv => TypeOK
  BY DEF IInv
<1> QED
  BY <1>1, InvariantHolds, PTL

\* A call never holds two connections to its provider.
THEOREM OneConnectionHolds == Spec => []OneConnection
<1>1. IInv => OneConnection
  <2> SUFFICES ASSUME IInv PROVE Cardinality(open) <= 1
    BY DEF OneConnection
  <2>1. open = {} \/ open = {conn}
    BY DEF IInv, ConnInv
  <2>2. Cardinality({}) = 0 /\ Cardinality({conn}) = 1
    BY FS_EmptySet, FS_Singleton
  <2> QED
    BY <2>1, <2>2
<1> QED
  BY <1>1, InvariantHolds, PTL

\* A call that has ended, or that was rejected with no deepgram to blame, has
\* left no connection open.
THEOREM NoneIsLeftOpen == Spec => []NoneLeftOpen
<1>1. IInv => NoneLeftOpen
  BY DEF IInv, MainInv, NoneLeftOpen
<1> QED
  BY <1>1, InvariantHolds, PTL

\* Run returns the first transfer the model asked for, and has one to return when
\* a transfer ended the call.
THEOREM TransferIsTheFirst == Spec => []FirstTransfer
<1>1. IInv => FirstTransfer
  BY DEF IInv, TransferInv, FirstTransfer
<1> QED
  BY <1>1, InvariantHolds, PTL

\* With deepgram no recvLoop closes a channel that is closed.
THEOREM DeepgramDoesNotPanic ==
  ASSUME Provider = "deepgram"
  PROVE  Spec => []NoPanic
<1>1. IInv => NoPanic
  BY DEF IInv, PanicInv, NoPanic
<1> QED
  BY <1>1, InvariantHolds, PTL

-----------------------------------------------------------------------------
\* A call lives as CallLife says: each of its steps is one of CallLife's, or
\* none that CallLife sees; Run in particular returns with its context cancelled.
THEOREM LivesAsCallLife == Spec => Life!Spec
<1>1. Init => Life!Init
  BY DEF Init, Life!Init, Stage
<1>2. ASSUME IInv, [Next]_vars PROVE [Life!Next]_(Life!vars)
  <2> USE DEF Stage, CancelBy
  <2>1. ASSUME UNCHANGED <<main, cancelled, panicked, up, mon>>
        PROVE  [Life!Next]_(Life!vars)
    BY <2>1 DEF Life!vars, Blocked
  <2>w. ASSUME UNCHANGED <<main, panicked>>, ~panicked,
               cancelled' = cancelled \/ cancelled' = TRUE,
               ~Blocked /\ Blocked' => UNCHANGED cancelled
        PROVE  [Life!Next]_(Life!vars)
    <3>1. CASE Blocked' = Blocked
      BY <2>w, <3>1 DEF Life!vars, Life!Next, Life!Cancel
    <3>2. CASE ~Blocked /\ Blocked'
      BY <2>w, <3>2 DEF Life!vars, Life!Next, Life!Block
    <3>3. CASE Blocked /\ ~Blocked'
      BY <2>w, <3>3 DEF Life!vars, Life!Next, Life!Unblock, Life!Cancel
    <3>4. Blocked \in BOOLEAN /\ Blocked' \in BOOLEAN
      BY DEF Blocked
    <3> QED
      BY <3>1, <3>2, <3>3, <3>4
  <2>3. CASE Dialer
    <3>1. ASSUME Connected, ~panicked, UNCHANGED <<panicked, cancelled, up>>
          PROVE  [Life!Next]_(Life!vars)
      <4>1. CASE main = "connect"
        BY <3>1, <4>1 DEF Connected, Life!vars
      <4>2. CASE main # "connect"
        BY <2>w, <3>1, <4>2 DEF Connected, Blocked
      <4> QED
        BY <4>1, <4>2
    <3>2. ASSUME GivesUp, ~panicked, UNCHANGED <<panicked, up>>
          PROVE  [Life!Next]_(Life!vars)
      <4>1. CASE main = "connect"
        BY <3>2, <4>1 DEF GivesUp, Life!Next, Life!Fail
      <4>2. CASE main # "connect"
        BY <2>w, <3>2, <4>2 DEF GivesUp, Blocked
      <4> QED
        BY <4>1, <4>2
    <3>3. CASE DialOk \/ DialFails \/ SetupFails \/ GreetFails \/ Delay \/ DelayOver
      BY <2>1, <3>3 DEF DialOk, DialFails, SetupFails, GreetFails, Delay, DelayOver, Alive,
                        ctxVars, upVars
    <3>4. CASE SetupOk
      BY <2>1, <3>1, <3>4 DEF SetupOk, Alive, ctxVars, upVars
    <3>5. CASE GreetOk
      BY <3>1, <3>5 DEF GreetOk, Alive, ctxVars, upVars
    <3>6. CASE LastAttempt \/ DelayCancelled
      BY <3>2, <3>6 DEF LastAttempt, DelayCancelled, Alive, upVars
    <3> QED
      BY <2>3, <3>3, <3>4, <3>5, <3>6 DEF Dialer
  <2>4. CASE Main
    <3>1. CASE AnswerFails
      BY <3>1 DEF AnswerFails, Alive, Life!Next, Life!Fail
    <3>2. CASE RunStarts
      BY <3>2 DEF RunStarts, Alive, ctxVars, Life!Next, Life!Start, Blocked
    <3>3. CASE RunStops
      <4>1. up = "ended" /\ mon = "ended"
        BY <3>3 DEF RunStops
      <4> QED
        BY <3>3, <4>1 DEF RunStops, Alive, ctxVars, Life!vars, Blocked
    <3>4. CASE RunReturns
      <4>2. main \in {"stop", "returned"}
        BY <3>4 DEF RunReturns
      <4>3. cancelled
        BY <1>2, <4>2, Zenon DEF IInv, CancelInv
      <4>4. cancelled \in BOOLEAN
        BY <1>2, Zenon DEF IInv, TypeOK
      <4>1. cancelled = TRUE
        BY <4>3, <4>4, Zenon
      <4> QED
        BY <3>4, <4>1 DEF RunReturns, Alive, ctxVars, Life!Next, Life!Return
    <3> QED
      BY <2>4, <3>1, <3>2, <3>3, <3>4 DEF Main
  <2>5. ASSUME NEW c \in Conns,
               ConnectionLost(c) \/ LoopAudio(c) \/ LoopRequest(c) \/ LoopFails(c)
        PROVE  [Life!Next]_(Life!vars)
    BY <2>1, <2>5 DEF ConnectionLost, LoopAudio, LoopRequest, LoopFails, Alive, ctxVars,
                      upVars
  <2>6. ASSUME NEW c \in Conns, LoopEnds(c) PROVE [Life!Next]_(Life!vars)
    <3>1. ~panicked /\ UNCHANGED <<main, cancelled, up, mon>>
      BY <2>6 DEF LoopEnds, ctxVars, upVars
    <3>2. CASE main \in {"connect", "answer", "run", "stop"} /\ panicked'
      BY <3>1, <3>2 DEF Life!Next, Life!Die
    <3>3. CASE main \notin {"connect", "answer", "run", "stop"} \/ ~panicked'
      <4>1. main \in {"connect", "answer", "run", "stop", "returned", "rejected",
                      "unanswered"}
        BY <1>2 DEF IInv, TypeOK
      <4> QED
        BY <3>1, <3>3, <4>1 DEF Life!vars, Blocked
    <3> QED
      BY <3>2, <3>3
  <2>7. CASE ShutDown \/ ReaderPuts \/ PumpEnds \/ PlayEnds
    BY <2>1, <2>w, <2>7 DEF ShutDown, ReaderPuts, PumpEnds, PlayEnds, Alive, ctxVars,
                            upVars, Blocked
  <2>8. CASE Uplink
    <3>1. CASE UpDone
      BY <2>w, <3>1 DEF UpDone, Alive, ctxVars, Blocked
    <3>2. CASE UpFrame \/ UpSilence
      BY <2>w, <3>2 DEF UpFrame, UpSilence, Alive, ctxVars, Blocked
    <3>3. CASE SendBlocks
      BY <2>w, <3>3 DEF SendBlocks, Alive, ctxVars, Blocked
    <3>4. CASE Send
      BY <2>w, <3>4 DEF Send, Alive, ctxVars, Blocked
    <3> QED
      BY <2>8, <3>1, <3>2, <3>3, <3>4 DEF Uplink
  <2>9. CASE Monitor \/ Watcher
    <3>1. CASE MonDone \/ PingBlocks \/ PingReturns
      BY <2>w, <3>1 DEF MonDone, PingBlocks, PingReturns, Alive, ctxVars, upVars, Blocked
    <3>2. CASE PingFails \/ Reconnect
      BY <2>w, <3>2 DEF PingFails, Reconnect, Alive, ctxVars, upVars, Blocked
    <3>3. CASE Watcher
      BY <2>1, <2>w, <3>3 DEF Watcher, WatchDone, WatchTakes, GraceOver, Alive, ctxVars,
                              upVars, Blocked
    <3> QED
      BY <2>9, <3>1, <3>2, <3>3 DEF Monitor
  <2>10. CASE UNCHANGED vars
    BY <2>1, <2>10 DEF vars, ctxVars, upVars
  <2> HIDE DEF Stage, CancelBy
  <2> QED
    BY <1>2, <2>3, <2>4, <2>5, <2>6, <2>7, <2>8, <2>9, <2>10 DEF Next
<1> QED
  BY <1>1, <1>2, InvariantHolds, PTL DEF Spec, Life!Spec
=============================================================================

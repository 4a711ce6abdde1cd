----------------------------- MODULE CallSession -----------------------------
(***************************************************************************)
(* One call of sip2ai after the INVITE: ConnectWithRetry, the goroutines   *)
(* of CallSession.Run (uplink, downlink, health monitor, transfer          *)
(* watcher) and the provider client they share, whose connection the       *)
(* health monitor may replace under them.  The audio itself is Downlink's  *)
(* business; here it only keeps the goroutines going.                      *)
(* A definition marked "mutant" is a plausible bug in the definition that  *)
(* follows it; no action uses it.                                          *)
(***************************************************************************)
EXTENDS Naturals, FiniteSets

CONSTANTS
  Provider,          \* "openai", "gemini" or "deepgram"
  Greeting,          \* openai only: a greeting is configured
  ReconnectRetries,  \* AIConfig.ReconnectRetries
  MaxConns,          \* bound on the connections of a call
  MaxRequests        \* bound on the hangup/transfer tool calls of the model

ASSUME ProviderAssumption ==
  /\ Provider \in {"openai", "gemini", "deepgram"}
  /\ Greeting \in BOOLEAN
  /\ ReconnectRetries \in Nat /\ MaxConns \in Nat /\ MaxRequests \in Nat

Conns == 1 .. MaxConns

\* openai and gemini have one done channel (0) for the life of the client;
\* deepgram makes one per connection.
DoneChans == {0} \cup Conns

VARIABLES
  main,      \* handleCall from ConnectWithRetry on, and Run
  dialer,    \* ConnectWithRetry and Connect, for main or for the monitor
  attempt,   \* its attempt
  conn,      \* c.conn: the last connection dialled, 0 = nil
  open,      \* connections whose websocket is open
  loop,      \* recvLoop of each connection
  reads,     \* the connection that loop is reading
  done,      \* c.done
  closes,    \* the done channel each recvLoop will close
  closed,    \* done channels that are closed
  errCh,     \* errors waiting in errCh
  panicked,  \* a done channel was closed twice
  cancelled, \* the call's context
  why,       \* who cancelled it
  reader,    \* the RTP reader of runUplink
  frameCh,   \* what waits in frameCh
  up,        \* runUplink
  upOn,      \* the connection its blocked write is on, 0 = none
  pump,      \* inner goroutine of runDownlink
  pumpDone,  \* the done channel its RecvAudio selects on
  eof,       \* the AudioAdapter is closed
  play,      \* outer loop of runDownlink
  mon,       \* runHealthMonitor
  watch,     \* runTransferWatcher
  asked,     \* number of tool calls that ask for a hangup or a transfer
  transferCh,\* the request waiting in transferCh, 0 = none
  transfer   \* CallSession.transfer, 0 = none

providerVars == <<conn, open, loop, reads, done, closes, closed, errCh>>
dialVars     == <<dialer, attempt>>
ctxVars      == <<cancelled, why>>
upVars       == <<reader, frameCh, up, upOn>>
downVars     == <<pump, pumpDone, eof, play>>
transferVars == <<watch, asked, transferCh, transfer>>

vars == <<main, dialVars, providerVars, panicked, ctxVars, upVars, downVars,
          mon, transferVars>>

Causes == {"none", "caller", "send", "eof", "ping", "connect", "transfer"}

\* The type invariant; it bounds ConnectWithRetry's attempts.
TypeOK ==
  /\ main \in {"connect", "answer", "run", "stop", "returned",
               "rejected", "unanswered"}
  /\ dialer \in {"idle", "dial", "setup", "greet", "failed", "delay"}
  /\ attempt \in 0 .. ReconnectRetries
  /\ conn \in {0} \cup Conns /\ open \subseteq Conns
  /\ loop \in [Conns -> {"off", "read", "exit", "ended"}]
  /\ reads \in [Conns -> {0} \cup Conns]
  /\ done \in DoneChans /\ closed \subseteq DoneChans
  /\ closes \in [Conns -> DoneChans]
  /\ errCh \in 0 .. 4
  /\ panicked \in BOOLEAN /\ cancelled \in BOOLEAN /\ eof \in BOOLEAN
  /\ why \in Causes
  /\ reader \in {"off", "read", "ended"}
  /\ frameCh \in {"empty", "frame", "err"}
  /\ up \in {"off", "select", "send", "blocked", "ended"} /\ upOn \in {0} \cup Conns
  /\ pump \in {"off", "recv", "ended"} /\ pumpDone \in DoneChans
  /\ play \in {"off", "run", "ended"}
  /\ mon \in {"off", "wait", "ping", "close", "reconnect", "ended"}
  /\ watch \in {"off", "wait", "grace", "ended"}
  /\ asked \in 0 .. MaxRequests
  /\ transferCh \in 0 .. MaxRequests /\ transfer \in 0 .. MaxRequests

Init ==
  /\ main = "connect" /\ dialer = "dial" /\ attempt = 0
  /\ conn = 0 /\ open = {}
  /\ loop = [c \in Conns |-> "off"] /\ reads = [c \in Conns |-> 0]
  /\ done = 0 /\ closes = [c \in Conns |-> 0] /\ closed = {}
  /\ errCh = 0 /\ panicked = FALSE
  /\ cancelled = FALSE /\ why = "none"
  /\ reader = "off" /\ frameCh = "empty" /\ up = "off" /\ upOn = 0
  /\ pump = "off" /\ pumpDone = 0 /\ eof = FALSE /\ play = "off"
  /\ mon = "off" /\ watch = "off"
  /\ asked = 0 /\ transferCh = 0 /\ transfer = 0

\* A panic in any goroutine ends the process.
Alive == ~panicked /\ UNCHANGED panicked

\* context.CancelFunc: only the first call has an effect.
CancelBy(c) ==
  /\ cancelled' = TRUE
  /\ why' = IF cancelled THEN why ELSE c

-----------------------------------------------------------------------------
(***************************************************************************)
(* ConnectWithRetry, for main before the call is answered and for the      *)
(* health monitor afterwards.                                              *)
(***************************************************************************)

NothingReplaced == open   \* mutant: deepgram leaves the previous websocket open

\* deepgram cancels the previous websocket before it dials.
LeftByDial == IF Provider = "deepgram" THEN {} ELSE open

\* deepgram's SDK does not take the call's context.
DialOk ==
  /\ Alive
  /\ dialer = "dial"
  /\ cancelled => Provider = "deepgram"
  /\ conn < MaxConns
  /\ dialer' = "setup"
  /\ conn' = conn + 1
  /\ open' = LeftByDial \cup {conn + 1}
  /\ UNCHANGED <<main, attempt, loop, reads, done, closes, closed, errCh, ctxVars,
                 upVars, downVars, mon, transferVars>>

DialFails ==
  /\ Alive
  /\ dialer = "dial"
  /\ dialer' = "failed"
  /\ open' = LeftByDial
  /\ UNCHANGED <<main, attempt, conn, loop, reads, done, closes, closed, errCh,
                 ctxVars, upVars, downVars, mon, transferVars>>

SameDone == UNCHANGED done   \* mutant: deepgram does not make a new channel

FreshDone == done' = IF Provider = "deepgram" THEN conn ELSE done

\* What ConnectWithRetry's caller does with success ...
Connected ==
  /\ dialer' = "idle"
  /\ attempt' = 0
  /\ IF main = "connect"
     THEN main' = "answer" /\ UNCHANGED mon
     ELSE mon' = "wait" /\ UNCHANGED main

\* ... and with an error: handleCall answers 503 and returns, the monitor
\* ends the call.
GivesUp ==
  /\ dialer' = "idle"
  /\ attempt' = 0
  /\ CancelBy("connect")
  /\ IF main = "connect"
     THEN main' = "rejected" /\ UNCHANGED mon
     ELSE mon' = "ended" /\ UNCHANGED main

\* Welcome, session.update, settings: then recvLoop is started.
SetupOk ==
  /\ Alive
  /\ dialer = "setup"
  /\ conn \in open
  /\ FreshDone
  /\ loop' = [loop EXCEPT ![conn] = "read"]
  /\ reads' = [reads EXCEPT ![conn] = conn]
  /\ closes' = [closes EXCEPT ![conn] = done']
  /\ IF Provider = "openai" /\ Greeting
     THEN dialer' = "greet" /\ UNCHANGED <<attempt, main, mon>>
     ELSE Connected
  /\ UNCHANGED <<conn, open, closed, errCh, ctxVars, upVars, downVars,
                 transferVars>>

\* openai and gemini close the connection; deepgram leaves it to the next
\* Connect or to Close.
SetupFails ==
  /\ Alive
  /\ dialer = "setup"
  /\ dialer' = "failed"
  /\ open' = IF Provider = "deepgram" THEN open ELSE open \ {conn}
  /\ UNCHANGED <<main, attempt, conn, loop, reads, done, closes, closed, errCh,
                 ctxVars, upVars, downVars, mon, transferVars>>

\* The greeting is written under sendMu, which a blocked SendAudio holds.
SendMuFree == up # "blocked"

GreetOk ==
  /\ Alive
  /\ dialer = "greet" /\ SendMuFree
  /\ conn \in open
  /\ Connected
  /\ UNCHANGED <<providerVars, ctxVars, upVars, downVars, transferVars>>

\* The greeting could not be written: an error, although recvLoop runs.
GreetFails ==
  /\ Alive
  /\ dialer = "greet" /\ SendMuFree
  /\ dialer' = "failed"
  /\ open' = open \ {conn}
  /\ UNCHANGED <<main, attempt, conn, loop, reads, done, closes, closed, errCh,
                 ctxVars, upVars, downVars, mon, transferVars>>

LastAttempt ==
  /\ Alive
  /\ dialer = "failed"
  /\ attempt = ReconnectRetries
  /\ GivesUp
  /\ UNCHANGED <<providerVars, upVars, downVars, transferVars>>

DelayOnceMore ==   \* mutant: attempt <= retries
  /\ Alive
  /\ dialer = "failed"
  /\ attempt <= ReconnectRetries
  /\ dialer' = "delay"
  /\ UNCHANGED <<main, attempt, providerVars, ctxVars, upVars, downVars, mon,
                 transferVars>>

Delay ==
  /\ Alive
  /\ dialer = "failed"
  /\ attempt < ReconnectRetries
  /\ dialer' = "delay"
  /\ UNCHANGED <<main, attempt, providerVars, ctxVars, upVars, downVars, mon,
                 transferVars>>

DelayOver ==
  /\ Alive
  /\ dialer = "delay"
  /\ dialer' = "dial"
  /\ attempt' = attempt + 1
  /\ UNCHANGED <<main, providerVars, ctxVars, upVars, downVars, mon,
                 transferVars>>

DelayCancelled ==
  /\ Alive
  /\ dialer = "delay"
  /\ cancelled
  /\ GivesUp
  /\ UNCHANGED <<providerVars, upVars, downVars, transferVars>>

-----------------------------------------------------------------------------
(***************************************************************************)
(* The provider's receive loops.  A loop reads c.conn anew for every       *)
(* message; the channel it closes was fixed when it started.               *)
(***************************************************************************)

Receives(c) == loop[c] = "read" /\ reads[c] \in open

\* The server or the network ends a connection.
ConnectionLost(c) ==
  /\ Alive
  /\ c \in open
  /\ open' = open \ {c}
  /\ UNCHANGED <<main, dialVars, conn, loop, reads, done, closes, closed, errCh,
                 ctxVars, upVars, downVars, mon, transferVars>>

\* An audio message: the loop handles it, the pump takes the audio.
LoopAudio(c) ==
  /\ Alive
  /\ Receives(c)
  /\ reads' = [reads EXCEPT ![c] = conn]
  /\ pumpDone' = IF pump = "recv" THEN done ELSE pumpDone
  /\ UNCHANGED <<main, dialVars, conn, open, loop, done, closes, closed, errCh,
                 ctxVars, upVars, pump, eof, play, mon, transferVars>>

LastRequestWins(c) ==   \* mutant: a later request replaces the waiting one
  /\ Alive
  /\ Provider # "gemini"
  /\ Receives(c)
  /\ asked < MaxRequests
  /\ asked' = asked + 1
  /\ transferCh' = asked + 1
  /\ reads' = [reads EXCEPT ![c] = conn]
  /\ UNCHANGED <<main, dialVars, conn, open, loop, done, closes, closed, errCh,
                 ctxVars, upVars, downVars, mon, watch, transfer>>

\* A tool call asks for a hangup or a transfer; dropped when one is waiting.
LoopRequest(c) ==
  /\ Alive
  /\ Provider # "gemini"
  /\ Receives(c)
  /\ asked < MaxRequests
  /\ asked' = asked + 1
  /\ transferCh' = IF transferCh = 0 THEN asked + 1 ELSE transferCh
  /\ reads' = [reads EXCEPT ![c] = conn]
  /\ UNCHANGED <<main, dialVars, conn, open, loop, done, closes, closed, errCh,
                 ctxVars, upVars, downVars, mon, watch, transfer>>

\* The read fails: the connection is gone, or gemini sent goAway, or deepgram
\* sent an error or a close event.  All but the close event fill errCh.
LoopFails(c) ==
  /\ Alive
  /\ loop[c] = "read"
  /\ Provider = "openai" => reads[c] \notin open
  /\ loop' = [loop EXCEPT ![c] = "exit"]
  /\ \/ errCh < 4 /\ errCh' = errCh + 1
     \/ Provider = "deepgram" /\ UNCHANGED errCh
  /\ UNCHANGED <<main, dialVars, conn, open, reads, done, closes, closed,
                 ctxVars, upVars, downVars, mon, transferVars>>

\* The deferred close(c.done).
LoopEnds(c) ==
  /\ ~panicked
  /\ panicked' = (closes[c] \in closed)
  /\ loop[c] = "exit"
  /\ loop' = [loop EXCEPT ![c] = "ended"]
  /\ closed' = closed \cup {closes[c]}
  /\ UNCHANGED <<main, dialVars, conn, open, reads, done, closes, errCh,
                 ctxVars, upVars, downVars, mon, transferVars>>

-----------------------------------------------------------------------------
(***************************************************************************)
(* The call: answering it, Run, and its end.                               *)
(***************************************************************************)

\* The caller's phone is answered, or that fails and handleCall returns.
AnswerFails ==
  /\ Alive
  /\ main = "answer"
  /\ main' = "unanswered"
  /\ CancelBy("caller")
  /\ UNCHANGED <<dialVars, providerVars, upVars, downVars, mon, transferVars>>

RunStarts ==
  /\ Alive
  /\ main = "answer"
  /\ main' = "run"
  /\ reader' = "read" /\ up' = "select"
  /\ pump' = "recv" /\ pumpDone' = done /\ play' = "run"
  /\ mon' = "wait"
  /\ watch' = IF Provider = "gemini" THEN "ended" ELSE "wait"
  /\ UNCHANGED <<dialVars, providerVars, ctxVars, frameCh, upOn, eof, asked,
                 transferCh, transfer>>

\* Server.Start cancels the calls on shutdown.
ShutDown ==
  /\ Alive
  /\ ~cancelled
  /\ main \in {"connect", "answer", "run"}
  /\ CancelBy("caller")
  /\ UNCHANGED <<main, dialVars, providerVars, upVars, downVars, mon,
                 transferVars>>

\* wg.Wait is over; the deferred calls run: adapter.Close, then ai.Close.
RunStops ==
  /\ Alive
  /\ main = "run"
  /\ {up, play, mon, watch} = {"ended"}
  /\ main' = "stop"
  /\ eof' = TRUE
  /\ UNCHANGED <<dialVars, providerVars, ctxVars, upVars, pump, pumpDone, play,
                 mon, transferVars>>

CloseForgotten == UNCHANGED open   \* mutant: no conn.Close

\* AIProvider.Close.
CloseProvider == open' = open \ {conn}

RunReturns ==
  /\ Alive
  /\ main = "stop"
  /\ main' = "returned"
  /\ CloseProvider
  /\ UNCHANGED <<dialVars, conn, loop, reads, done, closes, closed, errCh,
                 ctxVars, upVars, downVars, mon, transferVars>>

-----------------------------------------------------------------------------
(***************************************************************************)
(* runUplink and its RTP reader.                                           *)
(***************************************************************************)

\* The reader blocks on a full frameCh, for ever if runUplink has returned.
ReaderPuts ==
  /\ Alive
  /\ reader = "read"
  /\ frameCh = "empty"
  /\ frameCh' \in {"frame", "err"}
  /\ reader' = IF frameCh' = "err" THEN "ended" ELSE "read"
  /\ UNCHANGED <<main, dialVars, providerVars, ctxVars, up, upOn, downVars, mon,
                 transferVars>>

UpDone ==
  /\ Alive
  /\ up = "select"
  /\ cancelled
  /\ up' = "ended"
  /\ UNCHANGED <<main, dialVars, providerVars, ctxVars, reader, frameCh, upOn,
                 downVars, mon, transferVars>>

UpFrame ==
  /\ Alive
  /\ up = "select"
  /\ frameCh # "empty"
  /\ frameCh' = "empty"
  /\ IF frameCh = "err"
     THEN up' = "ended" /\ CancelBy("caller")
     ELSE up' = "send" /\ UNCHANGED ctxVars
  /\ UNCHANGED <<main, dialVars, providerVars, reader, upOn, downVars, mon,
                 transferVars>>

\* 40ms without a frame: silence is sent.
UpSilence ==
  /\ Alive
  /\ up = "select"
  /\ up' = "send"
  /\ UNCHANGED <<main, dialVars, providerVars, ctxVars, reader, frameCh, upOn,
                 downVars, mon, transferVars>>

\* SendAudio writes under context.Background(): while the provider does not read
\* and its connection is open, the write neither returns nor sees the call's end.
SendBlocks ==
  /\ Alive
  /\ up = "send"
  /\ conn \in open
  /\ up' = "blocked" /\ upOn' = conn
  /\ UNCHANGED <<main, dialVars, providerVars, ctxVars, reader, frameCh,
                 downVars, mon, transferVars>>

SendIgnoresError ==   \* mutant: a failed SendAudio does not end the call
  /\ Alive
  /\ up \in {"send", "blocked"}
  /\ up' = "select" /\ upOn' = 0
  /\ UNCHANGED <<main, dialVars, providerVars, ctxVars, reader, frameCh,
                 downVars, mon, transferVars>>

\* The write goes to c.conn as it was when it began.
WriteFails == IF up = "blocked" THEN upOn \notin open ELSE conn \notin open

\* The write returns, at once or after it blocked.
Send ==
  /\ Alive
  /\ up \in {"send", "blocked"}
  /\ upOn' = 0
  /\ IF WriteFails
     THEN up' = "ended" /\ CancelBy("send")
     ELSE up' = "select" /\ UNCHANGED ctxVars
  /\ UNCHANGED <<main, dialVars, providerVars, reader, frameCh, downVars, mon,
                 transferVars>>

-----------------------------------------------------------------------------
(***************************************************************************)
(* runDownlink.                                                            *)
(***************************************************************************)

\* RecvAudio returns an error: the context, errCh, or the done channel.
PumpEnds ==
  /\ Alive
  /\ pump = "recv"
  /\ \/ (cancelled \/ pumpDone \in closed) /\ UNCHANGED errCh
     \/ errCh > 0 /\ errCh' = errCh - 1
  /\ pump' = "ended"
  /\ eof' = TRUE
  /\ UNCHANGED <<main, dialVars, conn, open, loop, reads, done, closes, closed,
                 ctxVars, upVars, pumpDone, play, mon, transferVars>>

\* TryRead returns EOF, or the RTP write fails.
PlayEnds ==
  /\ Alive
  /\ play = "run"
  /\ \E c \in {"eof", "caller"} :
       /\ c = "eof" => eof
       /\ CancelBy(c)
  /\ play' = "ended"
  /\ UNCHANGED <<main, dialVars, providerVars, upVars, pump, pumpDone, eof, mon,
                 transferVars>>

-----------------------------------------------------------------------------
(***************************************************************************)
(* runHealthMonitor.  A ping that succeeds changes nothing.                *)
(***************************************************************************)

MonDone ==
  /\ Alive
  /\ mon = "wait"
  /\ cancelled
  /\ mon' = "ended"
  /\ UNCHANGED <<main, dialVars, providerVars, ctxVars, upVars, downVars,
                 transferVars>>

\* The pings of gemini and deepgram write too, and without the call's context.
PingBlocks ==
  /\ Alive
  /\ Provider # "openai"
  /\ mon = "wait"
  /\ conn \in open
  /\ mon' = "ping"
  /\ UNCHANGED <<main, dialVars, providerVars, ctxVars, upVars, downVars,
                 transferVars>>

PingReturns ==
  /\ Alive
  /\ mon = "ping"
  /\ conn \in open
  /\ mon' = "wait"
  /\ UNCHANGED <<main, dialVars, providerVars, ctxVars, upVars, downVars,
                 transferVars>>

\* No data for 30s, a terminated recvLoop, or a failed write.  retries is 0
\* before every failure, so it exceeds ReconnectRetries only when that is 0.
PingFails ==
  /\ Alive
  /\ mon = "wait" \/ (mon = "ping" /\ conn \notin open)
  /\ IF ReconnectRetries = 0
     THEN mon' = "ended" /\ CancelBy("ping")
     ELSE mon' = "close" /\ UNCHANGED ctxVars
  /\ UNCHANGED <<main, dialVars, providerVars, upVars, downVars, transferVars>>

\* Close the old connection, then ConnectWithRetry.
Reconnect ==
  /\ Alive
  /\ mon = "close"
  /\ mon' = "reconnect"
  /\ CloseProvider
  /\ dialer' = "dial"
  /\ UNCHANGED <<main, attempt, conn, loop, reads, done, closes, closed, errCh,
                 ctxVars, upVars, downVars, transferVars>>

-----------------------------------------------------------------------------
(***************************************************************************)
(* runTransferWatcher.                                                     *)
(***************************************************************************)

WatcherDeaf ==   \* mutant: the watcher sees the context only with a request
  /\ Alive
  /\ watch = "wait"
  /\ cancelled /\ transferCh # 0
  /\ watch' = "ended"
  /\ UNCHANGED <<main, dialVars, providerVars, ctxVars, upVars, downVars, mon,
                 asked, transferCh, transfer>>

WatchDone ==
  /\ Alive
  /\ watch = "wait"
  /\ cancelled
  /\ watch' = "ended"
  /\ UNCHANGED <<main, dialVars, providerVars, ctxVars, upVars, downVars, mon,
                 asked, transferCh, transfer>>

WatchTakes ==
  /\ Alive
  /\ watch = "wait"
  /\ transferCh # 0
  /\ transfer' = transferCh
  /\ transferCh' = 0
  /\ watch' = "grace"
  /\ UNCHANGED <<main, dialVars, providerVars, ctxVars, upVars, downVars, mon,
                 asked>>

GraceOver ==
  /\ Alive
  /\ watch = "grace"
  /\ watch' = "ended"
  /\ CancelBy("transfer")
  /\ UNCHANGED <<main, dialVars, providerVars, upVars, downVars, mon, asked,
                 transferCh, transfer>>

-----------------------------------------------------------------------------
Dialer ==
  \/ DialOk \/ DialFails \/ SetupOk \/ SetupFails \/ GreetOk \/ GreetFails
  \/ LastAttempt \/ Delay \/ DelayOver \/ DelayCancelled

Uplink   == UpDone \/ UpFrame \/ UpSilence \/ SendBlocks \/ Send
Monitor  == MonDone \/ PingBlocks \/ PingReturns \/ PingFails \/ Reconnect
Watcher  == WatchDone \/ WatchTakes \/ GraceOver
Main     == AnswerFails \/ RunStarts \/ RunStops \/ RunReturns

Next ==
  \/ Dialer \/ Main \/ ShutDown
  \/ ReaderPuts \/ Uplink \/ PumpEnds \/ PlayEnds
  \/ Monitor \/ Watcher
  \/ \E c \in Conns : \/ ConnectionLost(c) \/ LoopAudio(c) \/ LoopRequest(c)
                      \/ LoopFails(c) \/ LoopEnds(c)

\* Not in a write that blocks, or its connection is gone.
Returns(blocked, c) == blocked => c \notin open

\* Each goroutine runs; Connect has a timeout, and a blocked write returns once
\* its connection is gone, but nothing makes it return before that, nor forces
\* the caller, the provider, or a ping to fail.  A select that always has two
\* ready cases does not take the same one for ever.
Fairness ==
  /\ WF_vars(Dialer) /\ WF_vars(Main)
  /\ WF_vars(Returns(up = "blocked", upOn) /\ Uplink) /\ SF_vars(UpDone)
  /\ WF_vars(PumpEnds) /\ WF_vars(eof /\ PlayEnds)
  /\ SF_vars(MonDone) /\ WF_vars(Reconnect)
  /\ WF_vars(mon = "ping" /\ PingFails)
  /\ WF_vars(Watcher)

Spec == Init /\ [][Next]_vars
FairSpec == Spec /\ Fairness

-----------------------------------------------------------------------------
(***************************************************************************)
(* Properties.                                                             *)
(***************************************************************************)

\* The call never holds two connections to its provider, whatever the
\* monitor, a failed Connect and the retries leave behind.
OneConnection == Cardinality(open) <= 1

\* When Run has returned the provider's connection is closed, also when the
\* call was cancelled in the middle of a reconnect; and a call rejected because
\* ConnectWithRetry gave up leaves none open, but with deepgram, whose Connect
\* returns an error with its websocket open for a Close that nobody calls.
NoneLeftOpen ==
  main = "returned" \/ (main = "rejected" /\ Provider # "deepgram") => open = {}

\* The transfer Run returns is the first the model asked for: transferCh has
\* room for one, a later request never replaces it, and a call that ended for
\* a transfer has one to return.
FirstTransfer ==
  /\ transfer \in {0, 1}
  /\ main = "returned" /\ why = "transfer" => transfer = 1

\* A done channel is never closed twice, so no recvLoop panics.
NoPanic == ~panicked

\* A goroutine that Run waits for is in a write that blocks.
Blocked == up = "blocked" \/ mon = "ping"

\* How far the call is, as CallLife sees it.
Stage ==
  CASE main \in {"connect", "answer"} -> IF panicked THEN "lost" ELSE "setup"
    [] main \in {"run", "stop"} ->
         IF panicked THEN "lost" ELSE IF main = "run" /\ Blocked THEN "blocked" ELSE "run"
    [] main \in {"rejected", "unanswered"} -> "failed"
    [] main = "returned" -> "returned"

Life == INSTANCE CallLife WITH stage <- Stage

\* The call keeps the promise of CallLife, on which the server relies: Run never
\* returns with its context alive, whichever goroutine ended it, and it returns
\* once the context is cancelled, wherever each goroutine was, unless a write to
\* the provider blocks for ever; the set-up ends.
CallLives == Life!FairSpec

\* A call whose provider is gone does not linger: it ends, unless the monitor
\* has connected again.
NoZombie == main = "run" /\ conn \notin open
              ~> cancelled \/ conn \in open \/ panicked
=============================================================================

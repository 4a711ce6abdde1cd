----------------------------- MODULE SipServer -----------------------------
(***************************************************************************)
(* The SIP server of sip2ai: handleCall for every INVITE, from the 180 to  *)
(* the deferred functions, the configuration the handlers share, the       *)
(* registry of calls with its WaitGroup, the call metrics, and the         *)
(* shutdown of Start.  What happens inside Run is CallSession's business.  *)
(* A definition marked "mutant" is a plausible bug in the definition that  *)
(* follows it; no action uses it.                                          *)
(***************************************************************************)
EXTENDS Integers, FiniteSets

CONSTANTS
  Calls,    \* the calls the server receives
  CallIds,  \* SIP Call-IDs
  Codecs,   \* what NegotiateCodec may return: a name and a sample rate
  NoCodec,  \* it found no match
  Invites,  \* what the model draws the INVITE of a call from
  NoCall    \* no entry in the registry

Names  == {codec.name : codec \in Codecs \cup {NoCodec}}
Rates  == {codec.rate : codec \in Codecs \cup {NoCodec}}
AnyCodec == [name : Names, rate : Rates]

\* Of an INVITE: its Call-ID, its X-Sip2ai-Config ("none" is absent or
\* malformed, "unknown" names a provider that does not exist), and what
\* NegotiateCodec makes of its offer.
AnyInvite == [id : CallIds, override : {"none", "known", "unknown"},
              codec : Codecs \cup {NoCodec}]

ASSUME CallsAssumption ==
  /\ IsFiniteSet(Calls)
  /\ NoCall \notin Calls
  /\ Invites \subseteq AnyInvite

ASSUME CodecsAssumption == Codecs \cup {NoCodec} \subseteq AnyCodec

VARIABLES
  invite,    \* the INVITE of each call
  server,    \* Start: serving, stopping (Serve has returned), waiting,
             \* returned; or crashed (os.Exit in the factory)
  pc,        \* handleCall of each call
  dlg,       \* the call's SIP dialog, as the caller sees it: unacked is answered
             \* for the caller only, unreached is an answered call whose BYE failed
  calls,     \* Server.calls, by Call-ID
  cancelled, \* the call's context
  wg,        \* Server.wg
  gauge,     \* sip2ai_calls_active
  ended,     \* calls counted in sip2ai_calls_total
  status,    \* callStatus
  shared,    \* Codec and CodecRate of the server's configuration
  own,       \* those of the copy an override makes
  dialled,   \* the codec Connect was given
  session    \* the codec NewCallSession was given

serverVars == <<server, wg>>
codecVars  == <<shared, own, dialled, session>>
metricVars == <<gauge, ended, status>>

vars == <<invite, server, pc, dlg, calls, cancelled, wg, metricVars, codecVars>>

\* A call is counted in wg between these two; it is answered inside them.
Counted == {"negotiate", "rate", "create", "connect", "connecting", "answer", "media",
            "run", "blocked", "refer", "hangup", "metrics", "unregister", "leave"}
PcStates == {"idle", "ring", "register", "count", "over"} \cup Counted

\* The type invariant.
TypeOK ==
  /\ invite \in [Calls -> AnyInvite]
  /\ server \in {"serving", "stopping", "waiting", "returned", "crashed"}
  /\ pc \in [Calls -> PcStates]
  /\ dlg \in [Calls -> {"none", "invited", "cancelled", "rejected",
                        "established", "unacked", "gone", "bye", "unreached"}]
  /\ calls \in [CallIds -> Calls \cup {NoCall}]
  /\ cancelled \in [Calls -> BOOLEAN]
  /\ {wg, gauge} \subseteq Nat   \* a negative WaitGroup panics
  /\ ended \subseteq Calls
  /\ status \in [Calls -> {"failed", "completed", "transferred"}]
  /\ shared \in AnyCodec
  /\ {own, dialled, session} \subseteq [Calls -> AnyCodec]

Init ==
  /\ invite \in [Calls -> Invites]
  /\ server = "serving"
  /\ pc = [c \in Calls |-> "idle"]
  /\ dlg = [c \in Calls |-> "none"]
  /\ calls = [id \in CallIds |-> NoCall]
  /\ cancelled = [c \in Calls |-> FALSE]
  /\ wg = 0 /\ gauge = 0 /\ ended = {}
  /\ status = [c \in Calls |-> "failed"]
  /\ shared = NoCodec
  /\ own = [c \in Calls |-> NoCodec]
  /\ dialled = [c \in Calls |-> NoCodec]
  /\ session = [c \in Calls |-> NoCodec]

CallIdOf(c)   == invite[c].id
Override(c)   == invite[c].override
Negotiated(c) == invite[c].codec

\* The handlers run as long as the process does.
Up == server \notin {"returned", "crashed"}

Goto(c, from, to) ==
  /\ Up
  /\ pc[c] = from
  /\ pc' = [pc EXCEPT ![c] = to]
  /\ UNCHANGED invite

-----------------------------------------------------------------------------
(***************************************************************************)
(* handleCall: the INVITE, the 180, the registration.                      *)
(***************************************************************************)

Invite(c) ==
  /\ server = "serving"
  /\ Goto(c, "idle", "ring")
  /\ dlg' = [dlg EXCEPT ![c] = "invited"]
  /\ gauge' = gauge + 1
  /\ UNCHANGED <<serverVars, calls, cancelled, ended, status, codecVars>>

Ring(c) ==
  /\ Goto(c, "ring", "register")
  /\ UNCHANGED <<serverVars, dlg, calls, cancelled, metricVars, codecVars>>

\* The 180 could not be sent: handleCall just returns.
RingFails(c) ==
  /\ Goto(c, "ring", "over")
  /\ UNCHANGED <<serverVars, dlg, calls, cancelled, metricVars, codecVars>>

Register(c) ==
  /\ Goto(c, "register", "count")
  /\ calls' = [calls EXCEPT ![CallIdOf(c)] = c]
  /\ UNCHANGED <<serverVars, dlg, cancelled, metricVars, codecVars>>

CountForgotten(c) ==   \* mutant: no wg.Add
  /\ Goto(c, "count", "negotiate")
  /\ UNCHANGED <<serverVars, dlg, calls, cancelled, metricVars, codecVars>>

Count(c) ==
  /\ Goto(c, "count", "negotiate")
  /\ wg' = wg + 1
  /\ UNCHANGED <<server, dlg, calls, cancelled, metricVars, codecVars>>

-----------------------------------------------------------------------------
(***************************************************************************)
(* The codec, the provider and the answer.                                 *)
(***************************************************************************)

CallEnded(c) ==
  /\ gauge' = gauge - 1
  /\ ended' = ended \cup {c}

\* A final response other than 200: too late when the caller cancelled, and the
\* error of a response that cannot be sent is ignored.
Rejected(c) ==
  \/ UNCHANGED dlg
  \/ dlg[c] = "invited" /\ dlg' = [dlg EXCEPT ![c] = "rejected"]

NoMatch(c) ==
  /\ Negotiated(c) = NoCodec
  /\ Goto(c, "negotiate", "unregister")
  /\ CallEnded(c)
  /\ Rejected(c)
  /\ UNCHANGED <<serverVars, calls, cancelled, status, codecVars>>

EveryoneShares(c) == TRUE   \* mutant: WithOverride returns cfg itself

\* callCfg is the server's own configuration, not a copy.
Shares(c) == Override(c) = "none"

\* callCfg.AI, as it is now.
ConfigOf(c) == IF Shares(c) THEN shared ELSE own[c]

SetConfig(c, codec) ==
  IF Shares(c)
  THEN shared' = codec /\ UNCHANGED own
  ELSE own' = [own EXCEPT ![c] = codec] /\ UNCHANGED shared

SetCodec(c) ==
  /\ Negotiated(c) # NoCodec
  /\ Goto(c, "negotiate", "rate")
  /\ SetConfig(c, [ConfigOf(c) EXCEPT !.name = Negotiated(c).name])
  /\ UNCHANGED <<serverVars, dlg, calls, cancelled, metricVars, dialled, session>>

SetCodecRate(c) ==
  /\ Goto(c, "rate", "create")
  /\ SetConfig(c, [ConfigOf(c) EXCEPT !.rate = Negotiated(c).rate])
  /\ UNCHANGED <<serverVars, dlg, calls, cancelled, metricVars, dialled, session>>

\* aiFactory exits the process when ai.New does not know the provider.
Create(c) ==
  /\ Goto(c, "create", "connect")
  /\ server' = IF Override(c) = "unknown" THEN "crashed" ELSE server
  /\ UNCHANGED <<dlg, calls, cancelled, wg, metricVars, codecVars>>

\* ConnectWithRetry takes callCfg.AI by value.
Connect(c) ==
  /\ Goto(c, "connect", "connecting")
  /\ dialled' = [dialled EXCEPT ![c] = ConfigOf(c)]
  /\ UNCHANGED <<serverVars, dlg, calls, cancelled, metricVars, shared, own, session>>

ConnectOk(c) ==
  /\ Goto(c, "connecting", "answer")
  /\ UNCHANGED <<serverVars, dlg, calls, cancelled, metricVars, codecVars>>

ConnectFails(c) ==
  /\ Goto(c, "connecting", "unregister")
  /\ CallEnded(c)
  /\ Rejected(c)
  /\ UNCHANGED <<serverVars, calls, cancelled, status, codecVars>>

\* 200 OK with Negotiated(c) alone.
Answer(c) ==
  /\ dlg[c] = "invited"
  /\ Goto(c, "answer", "media")
  /\ dlg' = [dlg EXCEPT ![c] = "established"]
  /\ UNCHANGED <<serverVars, calls, cancelled, metricVars, codecVars>>

\* AnswerOptions fails before the 200 is sent, or after it (no ACK comes).
\* handleCall returns: no CallEnded, no final response, no Hangup.
AnswerFails(c) ==
  /\ Goto(c, "answer", "unregister")
  /\ \/ UNCHANGED dlg
     \/ dlg[c] = "invited" /\ dlg' = [dlg EXCEPT ![c] = "unacked"]
  /\ UNCHANGED <<serverVars, calls, cancelled, metricVars, codecVars>>

MediaFails(c) ==
  /\ Goto(c, "media", "hangup")
  /\ UNCHANGED <<serverVars, dlg, calls, cancelled, metricVars, codecVars>>

NewSession(c) ==
  /\ Goto(c, "media", "run")
  /\ session' = [session EXCEPT ![c] = ConfigOf(c)]
  /\ UNCHANGED <<serverVars, dlg, calls, cancelled, metricVars, shared, own, dialled>>

-----------------------------------------------------------------------------
(***************************************************************************)
(* The end of Run, the transfer, and the deferred functions.               *)
(***************************************************************************)

RunForgets(c) ==   \* mutant: the status is set for a transfer only
  /\ \E how \in {"failed", "transferred"} :
       /\ Goto(c, "run", IF how = "transferred" THEN "refer" ELSE "hangup")
       /\ status' = [status EXCEPT ![c] = how]
  /\ cancelled' = [cancelled EXCEPT ![c] = TRUE]
  /\ UNCHANGED <<serverVars, dlg, calls, gauge, ended, codecVars>>

\* Whatever ended it, Run has cancelled the context.
RunReturns(c) ==
  /\ \E how \in {"completed", "transferred"} :
       /\ Goto(c, "run", IF how = "transferred" THEN "refer" ELSE "hangup")
       /\ status' = [status EXCEPT ![c] = how]
  /\ cancelled' = [cancelled EXCEPT ![c] = TRUE]
  /\ UNCHANGED <<serverVars, dlg, calls, gauge, ended, codecVars>>

\* A goroutine that Run waits for is in a write to the provider, which does not
\* read: the write is under context.Background(), and Close comes after it.
Blocks(c) ==
  /\ Goto(c, "run", "blocked")
  /\ UNCHANGED <<serverVars, dlg, calls, cancelled, metricVars, codecVars>>

\* The provider reads again, or the connection breaks.
Unblocks(c) ==
  /\ Goto(c, "blocked", "run")
  /\ UNCHANGED <<serverVars, dlg, calls, cancelled, metricVars, codecVars>>

\* Sent, refused, timed out or a bad URI: the status stays.
Refer(c) ==
  /\ Goto(c, "refer", "hangup")
  /\ UNCHANGED <<serverVars, dlg, calls, cancelled, metricVars, codecVars>>

HangupForgotten(c) ==   \* mutant: no dialog.Hangup
  /\ Goto(c, "hangup", "metrics")
  /\ UNCHANGED <<serverVars, dlg, calls, cancelled, metricVars, codecVars>>

\* dialog.Hangup: the BYE ends the call at the caller, or it fails or is not
\* answered in 5s, which is ignored.
Hangup(c) ==
  /\ Goto(c, "hangup", "metrics")
  /\ IF dlg[c] = "established"
     THEN \E d \in {"bye", "unreached"} : dlg' = [dlg EXCEPT ![c] = d]
     ELSE UNCHANGED dlg
  /\ UNCHANGED <<serverVars, calls, cancelled, metricVars, codecVars>>

MetricsForgotten(c) ==   \* mutant: no CallEnded after Hangup
  /\ Goto(c, "metrics", "unregister")
  /\ UNCHANGED <<serverVars, dlg, calls, cancelled, metricVars, codecVars>>

Metrics(c) ==
  /\ Goto(c, "metrics", "unregister")
  /\ CallEnded(c)
  /\ UNCHANGED <<serverVars, dlg, calls, cancelled, status, codecVars>>

\* Deletes the entry of the Call-ID, whoever's it is.
Unregister(c) ==
  /\ Goto(c, "unregister", "leave")
  /\ calls' = [calls EXCEPT ![CallIdOf(c)] = NoCall]
  /\ UNCHANGED <<serverVars, dlg, cancelled, metricVars, codecVars>>

\* wg.Done, then the deferred cancel.
Leave(c) ==
  /\ Goto(c, "leave", "over")
  /\ wg' = wg - 1
  /\ cancelled' = [cancelled EXCEPT ![c] = TRUE]
  /\ UNCHANGED <<server, dlg, calls, metricVars, codecVars>>

-----------------------------------------------------------------------------
(***************************************************************************)
(* The caller, and Start.                                                  *)
(***************************************************************************)

CallerEnds(c) ==
  /\ Up
  /\ \/ dlg[c] = "invited" /\ dlg' = [dlg EXCEPT ![c] = "cancelled"]
     \/ /\ dlg[c] \in {"established", "unacked", "unreached"}
        /\ dlg' = [dlg EXCEPT ![c] = "gone"]
  /\ UNCHANGED <<invite, serverVars, pc, calls, cancelled, metricVars, codecVars>>

\* SIGINT or SIGTERM: Serve returns.
Stop ==
  /\ server = "serving"
  /\ server' = "stopping"
  /\ UNCHANGED <<invite, pc, dlg, calls, cancelled, wg, metricVars, codecVars>>

SweepNothing ==   \* mutant: the loop over the registry is lost
  /\ server = "stopping"
  /\ server' = "waiting"
  /\ UNCHANGED <<invite, pc, dlg, calls, cancelled, wg, metricVars, codecVars>>

\* Under the lock, every call of the registry is cancelled.
Sweep ==
  /\ server = "stopping"
  /\ server' = "waiting"
  /\ cancelled' = [c \in Calls |-> cancelled[c] \/ \E id \in CallIds : calls[id] = c]
  /\ UNCHANGED <<invite, pc, dlg, calls, wg, metricVars, codecVars>>

\* wg.Wait returns, and with it Start and the process.
Return ==
  /\ server = "waiting"
  /\ wg = 0
  /\ server' = "returned"
  /\ UNCHANGED <<invite, pc, dlg, calls, cancelled, wg, metricVars, codecVars>>

-----------------------------------------------------------------------------
Setup(c) ==
  \/ Ring(c) \/ RingFails(c) \/ Register(c) \/ Count(c)
  \/ NoMatch(c) \/ SetCodec(c) \/ SetCodecRate(c) \/ Create(c)
  \/ Connect(c) \/ ConnectOk(c) \/ ConnectFails(c)
  \/ Answer(c) \/ AnswerFails(c) \/ MediaFails(c) \/ NewSession(c)

Wrapup(c) ==
  \/ Refer(c) \/ Hangup(c) \/ Metrics(c) \/ Unregister(c) \/ Leave(c)

Shutdown == Sweep \/ Return

Next ==
  \/ Stop \/ Shutdown
  \/ \E c \in Calls : \/ Invite(c) \/ Setup(c) \/ Wrapup(c) \/ CallerEnds(c)
                      \/ Blocks(c) \/ Unblocks(c) \/ RunReturns(c)

\* Each handler runs, and what it waits for has a timeout; Run returns once its
\* context is cancelled or the caller is gone, but for a write to the provider
\* that blocks: nothing makes it end.  No call has to end.
Fairness ==
  /\ WF_vars(Shutdown)
  /\ \A c \in Calls :
       /\ WF_vars(Setup(c) \/ Wrapup(c))
       /\ SF_vars((cancelled[c] \/ dlg[c] = "gone") /\ RunReturns(c))

Spec == Init /\ [][Next]_vars
FairSpec == Spec /\ Fairness

-----------------------------------------------------------------------------
(***************************************************************************)
(* Properties.                                                             *)
(***************************************************************************)

\* Calls from CallStarted to the last statement of handleCall.
Active == {c \in Calls : pc[c] \notin {"idle", "over"}}

\* The call was answered and handleCall knows it, whatever became of it.
Established == {"established", "bye", "unreached"}

\* Handlers that return before CallEnded: the 180 or the 200 failed.
Unmetered == {c \in Calls : pc[c] \in {"unregister", "leave", "over"} /\ c \notin ended}

\* Every way out of handleCall settles the gauge once, but for those that
\* never got past the 180 or the 200: what the gauge shows is the active calls
\* that have not been settled, plus the lost ones.
GaugeAccounted ==
  /\ gauge = Cardinality(Active \ ended) + Cardinality(Unmetered \ Active)
  /\ \A c \in Unmetered : dlg[c] \notin Established

\* When Start has returned, a caller is left in an answered call only if its BYE
\* was tried and failed (unreached), or if AnswerOptions failed after the 200 had
\* gone out (unacked), however late its handler registered: a call is answered
\* only after it is counted in wg, and every handler that answered hangs up.
NoCallAbandoned == server = "returned" => \A c \in Calls : dlg[c] # "established"

\* A call with its own configuration is connected, and its session built, with
\* the codec it answered, whatever other calls negotiate meanwhile.
OverrideIsolated ==
  \A c \in Calls : Override(c) # "none" /\ pc[c] = "run"
                     => session[c] = Negotiated(c) /\ dialled[c] = Negotiated(c)

\* What wg counts, and what the gauge counts.
InFlight  == {c \in Calls : pc[c] \in Counted}
Unsettled == {c \in Calls : pc[c] # "idle" /\ c \notin ended}

Unanswered == {"idle", "ring", "register", "count", "negotiate", "rate", "create",
               "connect", "connecting", "answer"}
Wrapped == {"unregister", "leave", "over"}

\* Where in handleCall a call is answered, hung up and settled.
Stages ==
  \A c \in Calls :
    /\ c \in ended => pc[c] \in Wrapped
    /\ dlg[c] = "established" => pc[c] \in {"media", "run", "blocked", "refer", "hangup"}
    /\ dlg[c] = "unacked" => c \in Unmetered
    /\ pc[c] \in Unanswered => dlg[c] \in {"none", "invited", "cancelled"}
    /\ c \in Unmetered => dlg[c] \notin Established

\* An override's copy of the configuration, once the codec is in it, and what
\* was read from it.
OwnCodec ==
  \A c \in Calls : Override(c) # "none" =>
    /\ pc[c] = "rate" => own[c].name = Negotiated(c).name
    /\ pc[c] \in {"create", "connect", "connecting", "answer", "media"}
         => own[c] = Negotiated(c)
    /\ pc[c] \in {"connecting", "answer", "media", "run", "blocked"}
         => dialled[c] = Negotiated(c)
    /\ pc[c] \in {"run", "blocked"} => session[c] = Negotiated(c)

\* The inductive invariant: types, the WaitGroup and the gauge count the calls
\* they stand for, Start returns on an empty WaitGroup, and how far each call is.
IndInv ==
  /\ TypeOK
  /\ wg = Cardinality(InFlight)
  /\ gauge = Cardinality(Unsettled)
  /\ server = "returned" => wg = 0
  /\ Stages
  /\ OwnCodec

\* A call that is registered when the shutdown cancels the calls does not
\* outlive it: its caller is gone or its BYE was tried.  Not so for a call that
\* blocks for ever in a write to the provider, nor for calls that share a
\* Call-ID: one of them overwrites or deletes the entry of the other.
SweptCallsEnd ==
  \A c \in Calls :
    []<>(pc[c] # "blocked") =>
      (server = "stopping" /\ calls[CallIdOf(c)] = c
         /\ (\A d \in Calls \ {c} : CallIdOf(d) # CallIdOf(c))
       ~> (pc[c] = "over" /\ dlg[c] # "established") \/ ~Up)

\* How far a call is, as CallLife sees it.
LifeStage(c) ==
  CASE status[c] # "failed" -> "returned"
    [] status[c] = "failed" /\ pc[c] \in {"hangup", "metrics"} \cup Wrapped -> "failed"
    [] status[c] = "failed" /\ pc[c] \in Unanswered \cup {"media", "run", "blocked"} ->
         IF ~Up THEN "lost"
         ELSE IF pc[c] = "idle" THEN "none"
         ELSE IF pc[c] \in {"run", "blocked"} THEN pc[c] ELSE "setup"

Life(c) == INSTANCE CallLife WITH stage <- LifeStage(c), cancelled <- cancelled[c]

\* handleCall keeps the promise of CallLife for every call, whatever the other
\* calls and the shutdown do: its set-up ends, and it returns once cancelled
\* unless it is blocked for ever.
CallsLive ==
  /\ \A c \in Calls : Life(c)!Init
  /\ [][\A c \in Calls : [Life(c)!Next]_(Life(c)!vars)]_vars
  /\ \A c \in Calls : Life(c)!Fairness

-----------------------------------------------------------------------------
(***************************************************************************)
(* What the comments say of the program and the code does not do.          *)
(***************************************************************************)

\* The phone is forced "to use exactly the same codec we configured the AI
\* provider with".
SameCodec == \A c \in Calls : pc[c] = "run" => dialled[c] = Negotiated(c)
=============================================================================

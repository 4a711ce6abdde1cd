-------------------------- MODULE SipServerProofs --------------------------
(***************************************************************************)
(* What TLAPS proves about SipServer for every finite set of calls and     *)
(* every choice of their INVITEs: Call-IDs, overrides and codecs.          *)
(***************************************************************************)
EXTENDS SipServer, FiniteSetTheorems, TLAPS

\* Codecs are pairs of a name and a rate; two with the same are the same.
LEMMA CodecFacts ==
  ASSUME NEW x \in AnyCodec, NEW y \in AnyCodec
  PROVE  /\ [x EXCEPT !.name = y.name] \in AnyCodec
         /\ [x EXCEPT !.rate = y.rate] \in AnyCodec
         /\ [x EXCEPT !.name = y.name].name = y.name
         /\ x.name = y.name => [x EXCEPT !.rate = y.rate] = y
  BY DEF AnyCodec

\* What NegotiateCodec returned for a call is a codec, or NoCodec.
LEMMA NegotiatedCodec ==
  ASSUME TypeOK, NEW c \in Calls
  PROVE  Negotiated(c) \in AnyCodec
  BY CodecsAssumption DEF TypeOK, AnyInvite, Negotiated

\* Cardinalities of sets of calls that differ in one call.
LEMMA OneMore ==
  ASSUME NEW S \in SUBSET Calls, NEW c \in Calls, c \notin S
  PROVE  /\ Cardinality(S) \in Nat
         /\ Cardinality(S \cup {c}) = Cardinality(S) + 1
<1>1. IsFiniteSet(S)
  BY CallsAssumption, FS_Subset
<1> QED
  BY <1>1, FS_CardinalityType, FS_AddElement

\* A set of calls without one of its elements.
LEMMA OneLess ==
  ASSUME NEW S \in SUBSET Calls, NEW c \in S
  PROVE  /\ Cardinality(S) \in Nat
         /\ Cardinality(S \ {c}) \in Nat
         /\ Cardinality(S \ {c}) = Cardinality(S) - 1
<1>1. IsFiniteSet(S) /\ IsFiniteSet(S \ {c})
  BY CallsAssumption, FS_Subset
<1> QED
  BY <1>1, FS_CardinalityType, FS_RemoveElement

\* Two sets of calls that have none in common.
LEMMA Disjoint ==
  ASSUME NEW S \in SUBSET Calls, NEW T \in SUBSET Calls, S \cap T = {}
  PROVE  Cardinality(S \cup T) = Cardinality(S) + Cardinality(T)
<1>1. IsFiniteSet(S) /\ IsFiniteSet(T)
  BY CallsAssumption, FS_Subset
<1>2. Cardinality(S \cap T) = 0
  BY FS_EmptySet
<1>3. Cardinality(S) \in Nat /\ Cardinality(T) \in Nat
  BY <1>1, FS_CardinalityType
<1>4. Cardinality(S \cup T) = Cardinality(S) + Cardinality(T) - Cardinality(S \cap T)
  BY <1>1, FS_Union
<1> QED
  BY <1>2, <1>3, <1>4

-----------------------------------------------------------------------------
\* The initial states satisfy the inductive invariant.
LEMMA InitInv == Init => IndInv
<1> SUFFICES ASSUME Init PROVE IndInv
  OBVIOUS
<1> USE DEF Init
<1>1. TypeOK
  BY CallsAssumption, CodecsAssumption DEF TypeOK, PcStates
<1>2. InFlight = {} /\ Unsettled = {}
  BY DEF InFlight, Unsettled, Counted
<1>3. Stages /\ OwnCodec
  BY DEF Stages, OwnCodec, Unmetered
<1> QED
  BY <1>1, <1>2, <1>3, FS_EmptySet DEF IndInv

-----------------------------------------------------------------------------
\* No step changes what a call asked for.
LEMMA InviteKept ==
  ASSUME [Next]_vars
  PROVE  invite' = invite
BY DEF Next, Setup, Wrapup, vars, Stop, Shutdown, Sweep, Return, CallerEnds, Invite,
       Ring, RingFails, Register, Count, NoMatch, SetCodec, SetCodecRate, Create,
       Connect, ConnectOk, ConnectFails, Answer, AnswerFails, MediaFails, NewSession,
       Blocks, Unblocks, RunReturns, Refer, Hangup, Metrics, Unregister, Leave, Goto

\* A step of a handler moves one call from one point to another.
LEMMA Moves ==
  ASSUME TypeOK, NEW c \in Calls, NEW from, NEW to, Goto(c, from, to)
  PROVE  /\ Up /\ UNCHANGED invite
         /\ pc[c] = from /\ pc'[c] = to
         /\ \A d \in Calls : d # c => pc'[d] = pc[d]
         /\ to \in PcStates => pc' \in [Calls -> PcStates]
  BY DEF Goto, TypeOK

\* wg goes on counting the calls between wg.Add and wg.Done.
LEMMA CountStep ==
  ASSUME IndInv, [Next]_vars
  PROVE  wg' = Cardinality(InFlight)' /\ wg' \in Nat
<1> USE DEF IndInv
<1>0. wg \in Nat /\ InFlight \in SUBSET Calls
  BY DEF TypeOK, InFlight
<1>1. ASSUME InFlight' = InFlight, wg' = wg
      PROVE  wg' = Cardinality(InFlight)' /\ wg' \in Nat
  BY <1>0, <1>1
<1>2. ASSUME NEW c \in Calls, Count(c)
      PROVE  wg' = Cardinality(InFlight)' /\ wg' \in Nat
  <2>1. InFlight' = InFlight \cup {c} /\ c \notin InFlight
    BY <1>2, Moves DEF Count, InFlight, Counted
  <2> QED
    BY <1>0, <1>2, <2>1, OneMore DEF Count
<1>3. ASSUME NEW c \in Calls, Leave(c)
      PROVE  wg' = Cardinality(InFlight)' /\ wg' \in Nat
  <2>1. InFlight' = InFlight \ {c} /\ c \in InFlight
    BY <1>3, Moves DEF Leave, InFlight, Counted
  <2> QED
    BY <1>0, <1>3, <2>1, OneLess DEF Leave
<1>4. ASSUME NEW c \in Calls, Ring(c) \/ RingFails(c) \/ Register(c) \/ Invite(c)
      PROVE  InFlight' = InFlight /\ wg' = wg
  BY <1>4, Moves DEF Ring, RingFails, Register, Invite, InFlight, Counted, serverVars
<1>5. ASSUME NEW c \in Calls,
             NoMatch(c) \/ SetCodec(c) \/ SetCodecRate(c) \/ Create(c) \/ Connect(c)
      PROVE  InFlight' = InFlight /\ wg' = wg
  BY <1>5, Moves DEF NoMatch, SetCodec, SetCodecRate, Create, Connect, InFlight,
                     Counted, serverVars
<1>6. ASSUME NEW c \in Calls,
             ConnectOk(c) \/ ConnectFails(c) \/ Answer(c) \/ AnswerFails(c)
               \/ MediaFails(c) \/ NewSession(c)
      PROVE  InFlight' = InFlight /\ wg' = wg
  BY <1>6, Moves DEF ConnectOk, ConnectFails, Answer, AnswerFails, MediaFails,
                     NewSession, InFlight, Counted, serverVars
<1>7. ASSUME NEW c \in Calls,
             Blocks(c) \/ Unblocks(c) \/ RunReturns(c) \/ Refer(c) \/ Hangup(c)
               \/ Metrics(c) \/ Unregister(c)
      PROVE  InFlight' = InFlight /\ wg' = wg
  <2>1. PICK to \in Counted : \E from \in Counted : Goto(c, from, to)
    BY <1>7 DEF Blocks, Unblocks, RunReturns, Refer, Hangup, Metrics, Unregister, Counted
  <2>2. InFlight' = InFlight
    BY <2>1, Moves DEF InFlight
  <2> QED
    BY <1>7, <2>2 DEF Blocks, Unblocks, RunReturns, Refer, Hangup, Metrics, Unregister,
                      serverVars
<1>8. ASSUME Stop \/ Shutdown \/ (\E c \in Calls : CallerEnds(c)) \/ UNCHANGED vars
      PROVE  InFlight' = InFlight /\ wg' = wg
  BY <1>8 DEF Stop, Shutdown, Sweep, Return, CallerEnds, vars, InFlight, serverVars
<1> QED
  BY <1>1, <1>2, <1>3, <1>4, <1>5, <1>6, <1>7, <1>8 DEF Next, Setup, Wrapup

-----------------------------------------------------------------------------
\* The gauge goes on counting the calls that are not settled.
LEMMA GaugeStep ==
  ASSUME IndInv, [Next]_vars
  PROVE  gauge' = Cardinality(Unsettled)' /\ gauge' \in Nat
<1> USE DEF IndInv
<1>0. gauge \in Nat /\ Unsettled \in SUBSET Calls
  BY DEF TypeOK, Unsettled
<1>1. ASSUME Unsettled' = Unsettled, gauge' = gauge
      PROVE  gauge' = Cardinality(Unsettled)' /\ gauge' \in Nat
  BY <1>0, <1>1
<1>2. ASSUME NEW c \in Calls, Invite(c)
      PROVE  gauge' = Cardinality(Unsettled)' /\ gauge' \in Nat
  <2>1. c \notin ended
    BY <1>2 DEF Invite, Goto, Stages, Wrapped
  <2>2. Unsettled' = Unsettled \cup {c} /\ c \notin Unsettled
    BY <1>2, <2>1, Moves DEF Invite, Unsettled
  <2> QED
    BY <1>0, <1>2, <2>2, OneMore DEF Invite
<1>3. ASSUME NEW c \in Calls, NoMatch(c) \/ ConnectFails(c) \/ Metrics(c)
      PROVE  gauge' = Cardinality(Unsettled)' /\ gauge' \in Nat
  <2>1. PICK from : Goto(c, from, "unregister") /\ from \notin Wrapped \cup {"idle"}
    BY <1>3 DEF NoMatch, ConnectFails, Metrics, Wrapped
  <2>2. CallEnded(c)
    BY <1>3 DEF NoMatch, ConnectFails, Metrics
  <2>3. pc[c] # "idle" /\ c \notin ended
    BY <2>1, Moves DEF Stages
  <2>4. Unsettled' = Unsettled \ {c} /\ c \in Unsettled
    BY <2>1, <2>2, <2>3, Moves DEF CallEnded, Unsettled
  <2> QED
    BY <1>0, <2>2, <2>4, OneLess DEF CallEnded
<1>4. ASSUME NEW c \in Calls,
             Ring(c) \/ RingFails(c) \/ Register(c) \/ Count(c) \/ SetCodec(c)
               \/ SetCodecRate(c) \/ Create(c) \/ Connect(c)
      PROVE  Unsettled' = Unsettled /\ gauge' = gauge
  <2>1. PICK from, to : Goto(c, from, to) /\ from # "idle" /\ to # "idle"
    BY <1>4 DEF Ring, RingFails, Register, Count, SetCodec, SetCodecRate, Create, Connect
  <2>2. UNCHANGED <<gauge, ended>>
    BY <1>4 DEF Ring, RingFails, Register, Count, SetCodec, SetCodecRate, Create,
                Connect, metricVars
  <2> QED
    BY <2>1, <2>2, Moves DEF Unsettled
<1>5. ASSUME NEW c \in Calls,
             ConnectOk(c) \/ Answer(c) \/ AnswerFails(c) \/ MediaFails(c)
               \/ NewSession(c) \/ Blocks(c) \/ Unblocks(c) \/ RunReturns(c)
               \/ Refer(c) \/ Hangup(c) \/ Unregister(c) \/ Leave(c)
      PROVE  Unsettled' = Unsettled /\ gauge' = gauge
  <2>1. PICK from, to : Goto(c, from, to) /\ from # "idle" /\ to # "idle"
    BY <1>5 DEF ConnectOk, Answer, AnswerFails, MediaFails, NewSession, Blocks, Unblocks,
                RunReturns, Refer, Hangup, Unregister, Leave
  <2>2. UNCHANGED <<gauge, ended>>
    BY <1>5 DEF ConnectOk, Answer, AnswerFails, MediaFails, NewSession, Blocks, Unblocks,
                RunReturns, Refer, Hangup, Unregister, Leave, metricVars
  <2> QED
    BY <2>1, <2>2, Moves DEF Unsettled
<1>6. ASSUME Stop \/ Shutdown \/ (\E c \in Calls : CallerEnds(c)) \/ UNCHANGED vars
      PROVE  Unsettled' = Unsettled /\ gauge' = gauge
  BY <1>6 DEF Stop, Shutdown, Sweep, Return, CallerEnds, vars, Unsettled, metricVars
<1> QED
  BY <1>1, <1>2, <1>3, <1>4, <1>5, <1>6 DEF Next, Setup, Wrapup

-----------------------------------------------------------------------------
\* Start returns once, on an empty WaitGroup, and no handler runs after it.
LEMMA ReturnStep ==
  ASSUME IndInv, [Next]_vars
  PROVE  (server = "returned" => wg = 0)'
<1>1. ASSUME NEW c \in Calls,
             Invite(c) \/ Setup(c) \/ Blocks(c) \/ Unblocks(c) \/ RunReturns(c)
               \/ Wrapup(c)
      PROVE  server' # "returned"
  <2>1. Up /\ server' \in {server, "crashed"}
    BY <1>1 DEF Invite, Setup, Ring, RingFails, Register, Count, NoMatch, SetCodec,
                SetCodecRate, Create, Connect, ConnectOk, ConnectFails, Answer,
                AnswerFails, MediaFails, NewSession, Blocks, Unblocks, RunReturns,
                Wrapup, Refer, Hangup, Metrics, Unregister, Leave, Goto, serverVars
  <2> QED
    BY <2>1 DEF Up
<1>2. ASSUME Stop \/ Shutdown \/ (\E c \in Calls : CallerEnds(c)) \/ UNCHANGED vars
      PROVE  (server = "returned" => wg = 0)'
  BY <1>2 DEF Stop, Shutdown, Sweep, Return, CallerEnds, vars, serverVars, IndInv
<1> QED
  BY <1>1, <1>2 DEF Next

-----------------------------------------------------------------------------
\* Every step keeps the types.
LEMMA TypeStep ==
  ASSUME IndInv, [Next]_vars
  PROVE  TypeOK'
<1>0. TypeOK
  BY DEF IndInv
<1>u. invite' = invite
  BY InviteKept
<1> USE <1>0, <1>u, CallsAssumption DEF TypeOK
<1>1. wg' \in Nat /\ gauge' \in Nat
  BY CountStep, GaugeStep
<1>2. ASSUME NEW c \in Calls, NEW from, NEW to \in PcStates, Goto(c, from, to)
      PROVE  pc' \in [Calls -> PcStates]
  BY <1>2, Moves
<1>3. ASSUME NEW c \in Calls, NEW codec \in AnyCodec, SetConfig(c, codec)
      PROVE  shared' \in AnyCodec /\ own' \in [Calls -> AnyCodec]
  BY <1>3 DEF SetConfig
<1>4. ASSUME NEW c \in Calls PROVE ConfigOf(c) \in AnyCodec
  BY DEF ConfigOf
<1>5. ASSUME NEW c \in Calls, SetCodec(c) \/ SetCodecRate(c) PROVE TypeOK'
  <2>1. shared' \in AnyCodec /\ own' \in [Calls -> AnyCodec]
    <3>1. PICK codec \in AnyCodec : SetConfig(c, codec)
      <4>0. ConfigOf(c) \in AnyCodec /\ Negotiated(c) \in AnyCodec
        BY <1>4, NegotiatedCodec
      <4>1. /\ [ConfigOf(c) EXCEPT !.name = Negotiated(c).name] \in AnyCodec
            /\ [ConfigOf(c) EXCEPT !.rate = Negotiated(c).rate] \in AnyCodec
        BY <4>0, CodecFacts
      <4> QED
        BY <1>5, <4>1 DEF SetCodec, SetCodecRate
    <3> QED
      BY <1>3, <3>1
  <2>2. pc' \in [Calls -> PcStates]
    BY <1>2, <1>5 DEF SetCodec, SetCodecRate, PcStates, Counted
  <2> QED
    BY <1>1, <1>5, <2>1, <2>2 DEF SetCodec, SetCodecRate, serverVars, metricVars
<1>6. ASSUME NEW c \in Calls, Connect(c) \/ NewSession(c) PROVE TypeOK'
  <2>1. pc' \in [Calls -> PcStates]
    BY <1>2, <1>6 DEF Connect, NewSession, PcStates, Counted
  <2> QED
    BY <1>1, <1>4, <1>6, <2>1 DEF Connect, NewSession, serverVars, metricVars
<1>7. ASSUME NEW c \in Calls,
             Invite(c) \/ Ring(c) \/ RingFails(c) \/ Register(c) \/ Count(c)
               \/ NoMatch(c) \/ Create(c) \/ ConnectOk(c) \/ ConnectFails(c)
      PROVE  TypeOK'
  <2>1. pc' \in [Calls -> PcStates]
    BY <1>2, <1>7 DEF Invite, Ring, RingFails, Register, Count, NoMatch, Create,
                      ConnectOk, ConnectFails, PcStates, Counted
  <2> QED
    BY <1>1, <1>7, <2>1 DEF Invite, Ring, RingFails, Register, Count, NoMatch, Create,
                      ConnectOk, ConnectFails, CallEnded, Rejected, serverVars,
                      metricVars, codecVars
<1>8. ASSUME NEW c \in Calls,
             Answer(c) \/ AnswerFails(c) \/ MediaFails(c) \/ Blocks(c) \/ Unblocks(c)
               \/ Refer(c) \/ Hangup(c) \/ Metrics(c) \/ Unregister(c) \/ Leave(c)
      PROVE  TypeOK'
  <2>1. pc' \in [Calls -> PcStates]
    BY <1>2, <1>8 DEF Answer, AnswerFails, MediaFails, Blocks, Unblocks, Refer, Hangup,
                      Metrics, Unregister, Leave, PcStates, Counted
  <2>2. CASE Answer(c) \/ AnswerFails(c) \/ MediaFails(c) \/ Refer(c) \/ Blocks(c)
               \/ Unblocks(c)
    BY <1>1, <2>1, <2>2 DEF Answer, AnswerFails, MediaFails, Refer, Blocks, Unblocks,
                      serverVars, metricVars, codecVars
  <2>3. CASE Hangup(c) \/ Metrics(c)
    BY <1>1, <2>1, <2>3 DEF Hangup, Metrics, CallEnded, serverVars, metricVars, codecVars
  <2>4. CASE Unregister(c)
    BY <1>1, <2>1, <2>4 DEF Unregister, serverVars, metricVars, codecVars
  <2>5. CASE Leave(c)
    BY <1>1, <2>1, <2>5 DEF Leave, metricVars, codecVars
  <2> QED
    BY <1>8, <2>2, <2>3, <2>4, <2>5
<1>9. ASSUME NEW c \in Calls, RunReturns(c) PROVE TypeOK'
  <2>1. PICK how \in {"completed", "transferred"} :
          /\ Goto(c, "run", IF how = "transferred" THEN "refer" ELSE "hangup")
          /\ status' = [status EXCEPT ![c] = how]
    BY <1>9 DEF RunReturns
  <2>2. pc' \in [Calls -> PcStates]
    BY <1>2, <2>1 DEF PcStates, Counted
  <2> QED
    BY <1>1, <1>9, <2>1, <2>2 DEF RunReturns, serverVars, codecVars
<1>10. ASSUME Stop \/ Shutdown \/ (\E c \in Calls : CallerEnds(c)) \/ UNCHANGED vars
       PROVE  TypeOK'
  BY <1>1, <1>10 DEF Stop, Shutdown, Sweep, Return, CallerEnds, vars, serverVars,
                    metricVars, codecVars
<1> QED
  BY <1>5, <1>6, <1>7, <1>8, <1>9, <1>10 DEF Next, Setup, Wrapup

-----------------------------------------------------------------------------
\* What Stages says of one call.
StageOf(c) ==
  /\ c \in ended => pc[c] \in Wrapped
  /\ dlg[c] = "established" => pc[c] \in {"media", "run", "blocked", "refer", "hangup"}
  /\ dlg[c] = "unacked" => pc[c] \in Wrapped /\ c \notin ended
  /\ pc[c] \in Unanswered => dlg[c] \in {"none", "invited", "cancelled"}
  /\ pc[c] \in Wrapped /\ c \notin ended => dlg[c] \notin Established

\* Stages is about one call at a time.
LEMMA StagesOf == Stages <=> \A c \in Calls : StageOf(c)
  BY DEF Stages, StageOf, Unmetered, Wrapped

\* Every step keeps each call answered, hung up and settled in its stage.
LEMMA StageStep ==
  ASSUME IndInv, [Next]_vars
  PROVE  Stages'
<1>0. TypeOK /\ \A d \in Calls : StageOf(d)
  BY StagesOf DEF IndInv
<1>1. SUFFICES \A d \in Calls : StageOf(d)'
  BY DEF Stages, StageOf, Unmetered, Wrapped
<1>2. ASSUME NEW c \in Calls, NEW from, NEW to, Goto(c, from, to),
             \A d \in Calls : d # c => dlg'[d] = dlg[d] /\ (d \in ended' <=> d \in ended),
             StageOf(c)'
      PROVE  \A d \in Calls : StageOf(d)'
  BY <1>0, <1>2, Moves DEF StageOf
<1>3. ASSUME NEW c \in Calls, Invite(c) PROVE \A d \in Calls : StageOf(d)'
  <2>1. StageOf(c)'
    BY <1>0, <1>3, Moves DEF Invite, StageOf, Unanswered, Wrapped, TypeOK
  <2> QED
    BY <1>0, <1>2, <1>3, <2>1 DEF Invite, TypeOK
<1>4. ASSUME NEW c \in Calls,
             Ring(c) \/ RingFails(c) \/ Register(c) \/ Count(c) \/ SetCodec(c)
               \/ SetCodecRate(c) \/ Create(c) \/ Connect(c) \/ ConnectOk(c)
      PROVE  \A d \in Calls : StageOf(d)'
  <2>1. PICK from \in Unanswered, to \in Unanswered \cup Wrapped : Goto(c, from, to)
    BY <1>4 DEF Ring, RingFails, Register, Count, SetCodec, SetCodecRate, Create,
                Connect, ConnectOk, Unanswered, Wrapped
  <2>2. UNCHANGED <<dlg, ended>>
    BY <1>4 DEF Ring, RingFails, Register, Count, SetCodec, SetCodecRate, Create,
                Connect, ConnectOk, metricVars
  <2>3. StageOf(c)'
    BY <1>0, <2>1, <2>2, Moves DEF StageOf, Unanswered, Wrapped, Established
  <2> QED
    BY <1>2, <2>1, <2>2, <2>3
<1>5. ASSUME NEW c \in Calls, NoMatch(c) \/ ConnectFails(c)
      PROVE  \A d \in Calls : StageOf(d)'
  <2>1. PICK from \in Unanswered : Goto(c, from, "unregister")
    BY <1>5 DEF NoMatch, ConnectFails, Unanswered
  <2>2. CallEnded(c) /\ Rejected(c)
    BY <1>5 DEF NoMatch, ConnectFails
  <2>3. StageOf(c)'
    BY <1>0, <2>1, <2>2, Moves
       DEF StageOf, CallEnded, Rejected, TypeOK, Unanswered, Wrapped, Established
  <2>4. \A d \in Calls : d # c => dlg'[d] = dlg[d] /\ (d \in ended' <=> d \in ended)
    BY <1>0, <2>2 DEF CallEnded, Rejected, TypeOK
  <2> QED
    BY <1>2, <2>1, <2>3, <2>4
<1>6. ASSUME NEW c \in Calls, Answer(c) \/ AnswerFails(c) \/ Hangup(c)
      PROVE  \A d \in Calls : StageOf(d)'
  <2>1. StageOf(c)'
    <3> USE <1>0, Moves DEF StageOf, TypeOK, Unanswered, Wrapped, Established, metricVars
    <3>1. CASE Answer(c)
      BY <3>1 DEF Answer
    <3>2. CASE AnswerFails(c)
      BY <3>2 DEF AnswerFails
    <3>3. CASE Hangup(c)
      BY <3>3 DEF Hangup
    <3> QED
      BY <1>6, <3>1, <3>2, <3>3
  <2>2. PICK from, to : Goto(c, from, to)
    BY <1>6 DEF Answer, AnswerFails, Hangup
  <2>3. \A d \in Calls : d # c => dlg'[d] = dlg[d] /\ (d \in ended' <=> d \in ended)
    BY <1>0, <1>6 DEF Answer, AnswerFails, Hangup, TypeOK, metricVars
  <2> QED
    BY <1>2, <2>1, <2>2, <2>3
<1>7. ASSUME NEW c \in Calls,
             MediaFails(c) \/ NewSession(c) \/ Blocks(c) \/ Unblocks(c) \/ RunReturns(c)
               \/ Refer(c)
      PROVE  \A d \in Calls : StageOf(d)'
  <2>1. PICK from \in {"media", "run", "blocked", "refer"},
             to \in {"run", "blocked", "refer", "hangup"} :
          Goto(c, from, to)
    BY <1>7 DEF MediaFails, NewSession, Blocks, Unblocks, RunReturns, Refer
  <2>2. UNCHANGED <<dlg, ended>>
    BY <1>7 DEF MediaFails, NewSession, Blocks, Unblocks, RunReturns, Refer, metricVars
  <2>3. StageOf(c)'
    BY <1>0, <2>1, <2>2, Moves DEF StageOf, Unanswered, Wrapped
  <2> QED
    BY <1>2, <2>1, <2>2, <2>3
<1>8. ASSUME NEW c \in Calls, Metrics(c) PROVE \A d \in Calls : StageOf(d)'
  <2>1. StageOf(c)'
    BY <1>0, <1>8, Moves DEF Metrics, CallEnded, StageOf, Unanswered, Wrapped, Established
  <2> QED
    BY <1>0, <1>2, <1>8, <2>1 DEF Metrics, CallEnded
<1>9. ASSUME NEW c \in Calls, Unregister(c) \/ Leave(c)
      PROVE  \A d \in Calls : StageOf(d)'
  <2>1. PICK from \in Wrapped, to \in Wrapped : Goto(c, from, to)
    BY <1>9 DEF Unregister, Leave, Wrapped
  <2>2. UNCHANGED <<dlg, ended>>
    BY <1>9 DEF Unregister, Leave, metricVars
  <2>3. StageOf(c)'
    BY <1>0, <2>1, <2>2, Moves DEF StageOf, Unanswered, Wrapped
  <2> QED
    BY <1>2, <2>1, <2>2, <2>3
<1>10. ASSUME NEW c \in Calls, CallerEnds(c) PROVE \A d \in Calls : StageOf(d)'
  BY <1>0, <1>10 DEF CallerEnds, StageOf, TypeOK, metricVars, Unanswered, Wrapped,
                     Established
<1>11. ASSUME Stop \/ Shutdown \/ UNCHANGED vars PROVE \A d \in Calls : StageOf(d)'
  BY <1>0, <1>11 DEF Stop, Shutdown, Sweep, Return, StageOf, vars, metricVars
<1> QED
  BY <1>3, <1>4, <1>5, <1>6, <1>7, <1>8, <1>9, <1>10, <1>11 DEF Next, Setup, Wrapup

-----------------------------------------------------------------------------
\* What OwnCodec says of one call.
OwnCodecOf(c) ==
  /\ pc[c] = "rate" => own[c].name = Negotiated(c).name
  /\ pc[c] \in {"create", "connect", "connecting", "answer", "media"}
       => own[c] = Negotiated(c)
  /\ pc[c] \in {"connecting", "answer", "media", "run", "blocked"}
       => dialled[c] = Negotiated(c)
  /\ pc[c] \in {"run", "blocked"} => session[c] = Negotiated(c)

\* No step of another call touches the codec of a call with an override.
LEMMA CodecStep ==
  ASSUME IndInv, [Next]_vars
  PROVE  OwnCodec'
<1> SUFFICES ASSUME NEW d \in Calls, Override(d) # "none" PROVE OwnCodecOf(d)'
  BY InviteKept DEF OwnCodec, OwnCodecOf, Override
<1>i. Negotiated(d)' = Negotiated(d)
  BY InviteKept DEF Negotiated
<1>n. ASSUME NEW c \in Calls PROVE Negotiated(c) \in AnyCodec
  BY NegotiatedCodec DEF IndInv
<1> USE <1>i
<1>0. TypeOK /\ OwnCodecOf(d) /\ ~Shares(d)
  BY DEF IndInv, OwnCodec, OwnCodecOf, Shares
<1>1. ASSUME NEW c \in Calls, c # d, NEW from, NEW to, Goto(c, from, to),
             UNCHANGED <<own[d], dialled[d], session[d]>>
      PROVE  OwnCodecOf(d)'
  BY <1>0, <1>1, Moves DEF OwnCodecOf
<1>2. ASSUME NEW c \in Calls, SetCodec(c) PROVE OwnCodecOf(d)'
  <2>1. PICK x \in AnyCodec : /\ SetConfig(c, x)
                              /\ x.name = Negotiated(c).name
    <3>1. ConfigOf(c) \in AnyCodec /\ Negotiated(c) \in AnyCodec
      BY <1>0, <1>n DEF ConfigOf, TypeOK
    <3>2. LET x == [ConfigOf(c) EXCEPT !.name = Negotiated(c).name]
          IN  x \in AnyCodec /\ x.name = Negotiated(c).name
      BY <3>1, CodecFacts
    <3> QED
      BY <1>2, <3>2 DEF SetCodec
  <2>2. UNCHANGED <<dialled, session>> /\ Goto(c, "negotiate", "rate")
    BY <1>2 DEF SetCodec
  <2>3. CASE c = d
    BY <1>0, <2>1, <2>2, <2>3, Moves DEF OwnCodecOf, SetConfig, TypeOK
  <2>4. CASE c # d
    BY <1>0, <1>1, <2>1, <2>2, <2>4 DEF SetConfig, TypeOK
  <2> QED
    BY <2>3, <2>4
<1>3. ASSUME NEW c \in Calls, SetCodecRate(c) PROVE OwnCodecOf(d)'
  <2>1. PICK x : /\ SetConfig(c, x)
                 /\ x = [ConfigOf(c) EXCEPT !.rate = Negotiated(c).rate]
    BY <1>3 DEF SetCodecRate
  <2>2. UNCHANGED <<dialled, session>> /\ Goto(c, "rate", "create")
    BY <1>3 DEF SetCodecRate
  <2>3. CASE c = d
    <3>1. own[c] \in AnyCodec /\ own[c].name = Negotiated(c).name
      BY <1>0, <2>2, <2>3, Moves DEF OwnCodecOf, TypeOK
    <3>2. x = Negotiated(c)
      BY <1>0, <1>n, <2>1, <2>3, <3>1, CodecFacts DEF ConfigOf
    <3> QED
      BY <1>0, <2>1, <2>2, <2>3, <3>2, Moves DEF OwnCodecOf, SetConfig, TypeOK
  <2>4. CASE c # d
    BY <1>0, <1>1, <2>1, <2>2, <2>4 DEF SetConfig, TypeOK
  <2> QED
    BY <2>3, <2>4
<1>4. ASSUME NEW c \in Calls, Connect(c) \/ NewSession(c) PROVE OwnCodecOf(d)'
  <2>1. CASE c = d
    BY <1>0, <1>4, <2>1, Moves DEF Connect, NewSession, ConfigOf, OwnCodecOf, TypeOK
  <2>2. CASE c # d
    BY <1>0, <1>1, <1>4, <2>2 DEF Connect, NewSession, TypeOK
  <2> QED
    BY <2>1, <2>2
<1>5. ASSUME NEW c \in Calls, NEW from, NEW to, Goto(c, from, to),
             UNCHANGED codecVars,
             to \in {"answer", "media"} => from \in {"connecting", "answer"},
             to = "connect" => from = "create",
             to \in {"run", "blocked"} => from \in {"run", "blocked"},
             to \notin {"rate", "create", "connecting"}
      PROVE  OwnCodecOf(d)'
  BY <1>0, <1>5, Moves DEF OwnCodecOf, codecVars
<1>6. ASSUME NEW c \in Calls,
             Invite(c) \/ Ring(c) \/ RingFails(c) \/ Register(c) \/ Count(c)
               \/ NoMatch(c) \/ Create(c) \/ ConnectOk(c) \/ ConnectFails(c)
      PROVE  OwnCodecOf(d)'
  BY <1>5, <1>6 DEF Invite, Ring, RingFails, Register, Count, NoMatch, Create,
                    ConnectOk, ConnectFails
<1>7. ASSUME NEW c \in Calls,
             Answer(c) \/ AnswerFails(c) \/ MediaFails(c) \/ Blocks(c) \/ Unblocks(c)
               \/ RunReturns(c) \/ Refer(c) \/ Hangup(c) \/ Metrics(c) \/ Unregister(c)
               \/ Leave(c)
      PROVE  OwnCodecOf(d)'
  BY <1>5, <1>7 DEF Answer, AnswerFails, MediaFails, Blocks, Unblocks, RunReturns, Refer,
                    Hangup, Metrics, Unregister, Leave
<1>8. ASSUME Stop \/ Shutdown \/ (\E c \in Calls : CallerEnds(c)) \/ UNCHANGED vars
      PROVE  OwnCodecOf(d)'
  BY <1>0, <1>8 DEF Stop, Shutdown, Sweep, Return, CallerEnds, vars, codecVars,
                    OwnCodecOf
<1> QED
  BY <1>2, <1>3, <1>4, <1>6, <1>7, <1>8 DEF Next, Setup, Wrapup

-----------------------------------------------------------------------------
\* The WaitGroup and the gauge count the calls they stand for, and every call is
\* answered, hung up and settled where handleCall says, whatever the interleaving.
THEOREM InvariantHolds == Spec => []IndInv
<1>1. IndInv /\ [Next]_vars => IndInv'
  BY TypeStep, CountStep, GaugeStep, ReturnStep, StageStep, CodecStep DEF IndInv
<1> QED
  BY InitInv, <1>1, PTL DEF Spec

\* When Start has returned, every call that handleCall answered has ended at its
\* caller or had its BYE tried and failed (wg.Add comes before the answer, wg.Done
\* after the hangup).  A call whose AnswerOptions failed after the 200 is not one
\* of them: its caller may be left.
THEOREM NobodyAbandoned == Spec => []NoCallAbandoned
<1>1. IndInv => NoCallAbandoned
  <2> SUFFICES ASSUME IndInv, server = "returned", NEW c \in Calls
               PROVE  dlg[c] # "established"
    BY DEF NoCallAbandoned
  <2>1. InFlight = {}
    <3>1. IsFiniteSet(InFlight)
      BY CallsAssumption, FS_Subset DEF InFlight
    <3> QED
      BY <3>1, FS_EmptySet DEF IndInv
  <2> QED
    BY <2>1 DEF IndInv, Stages, InFlight, Counted
<1> QED
  BY <1>1, InvariantHolds, PTL

\* The gauge is off by the calls whose 180 or 200 failed, and by nothing else.
THEOREM GaugeIsAccounted == Spec => []GaugeAccounted
<1>1. IndInv => GaugeAccounted
  <2> SUFFICES ASSUME IndInv PROVE GaugeAccounted
    OBVIOUS
  <2>1. /\ Active \ ended \in SUBSET Calls
        /\ Unmetered \ Active \in SUBSET Calls
        /\ (Active \ ended) \cap (Unmetered \ Active) = {}
        /\ (Active \ ended) \cup (Unmetered \ Active) = Unsettled
    BY DEF Active, Unmetered, Unsettled
  <2>2. gauge = Cardinality(Active \ ended) + Cardinality(Unmetered \ Active)
    BY <2>1, Disjoint DEF IndInv
  <2>3. ASSUME NEW c \in Unmetered PROVE dlg[c] \notin Established
    BY DEF IndInv, Stages, Unmetered
  <2> QED
    BY <2>2, <2>3 DEF GaugeAccounted
<1> QED
  BY <1>1, InvariantHolds, PTL

\* A call with an override never meets the codec of another call.
THEOREM OverridesAreIsolated == Spec => []OverrideIsolated
<1>1. IndInv => OverrideIsolated
  BY DEF IndInv, OwnCodec, OverrideIsolated
<1> QED
  BY <1>1, InvariantHolds, PTL

-----------------------------------------------------------------------------
\* callStatus is "failed" until Run returns, and a call is transferred after that.
StatusInv ==
  \A c \in Calls :
    /\ pc[c] \in Unanswered \cup {"media", "run", "blocked"} => status[c] = "failed"
    /\ pc[c] = "refer" => status[c] # "failed"

\* callStatus is "failed" until Run has returned.
LEMMA StatusStep ==
  ASSUME IndInv, StatusInv, [Next]_vars
  PROVE  StatusInv'
<1>0. TypeOK
  BY DEF IndInv
<1>1. ASSUME NEW c \in Calls, NEW from, NEW to, Goto(c, from, to), UNCHANGED status,
             to \in Unanswered \cup {"media", "run", "blocked"}
               => from \in Unanswered \cup {"media", "run", "blocked"},
             to # "refer"
      PROVE  StatusInv'
  BY <1>0, <1>1, Moves DEF StatusInv
<1>2. ASSUME NEW c \in Calls,
             Invite(c) \/ Ring(c) \/ RingFails(c) \/ Register(c) \/ Count(c)
               \/ NoMatch(c) \/ SetCodec(c) \/ SetCodecRate(c) \/ Create(c)
      PROVE  StatusInv'
  BY <1>1, <1>2 DEF Invite, Ring, RingFails, Register, Count, NoMatch, SetCodec,
                    SetCodecRate, Create, Unanswered, metricVars
<1>3. ASSUME NEW c \in Calls,
             Connect(c) \/ ConnectOk(c) \/ ConnectFails(c) \/ Answer(c)
               \/ AnswerFails(c) \/ MediaFails(c) \/ NewSession(c)
      PROVE  StatusInv'
  BY <1>1, <1>3 DEF Connect, ConnectOk, ConnectFails, Answer, AnswerFails, MediaFails,
                    NewSession, Unanswered, metricVars
<1>4. ASSUME NEW c \in Calls,
             Blocks(c) \/ Unblocks(c) \/ Refer(c) \/ Hangup(c) \/ Metrics(c)
               \/ Unregister(c) \/ Leave(c)
      PROVE  StatusInv'
  BY <1>1, <1>4 DEF Blocks, Unblocks, Refer, Hangup, Metrics, Unregister, Leave,
                    Unanswered, metricVars
<1>5. ASSUME NEW c \in Calls, RunReturns(c) PROVE StatusInv'
  <2>1. PICK how \in {"completed", "transferred"} :
          /\ Goto(c, "run", IF how = "transferred" THEN "refer" ELSE "hangup")
          /\ status' = [status EXCEPT ![c] = how]
    BY <1>5 DEF RunReturns
  <2>2. pc'[c] \in {"refer", "hangup"} /\ status'[c] # "failed"
    BY <1>0, <2>1, Moves DEF TypeOK
  <2>3. \A d \in Calls : d # c => pc'[d] = pc[d] /\ status'[d] = status[d]
    BY <1>0, <2>1, Moves DEF TypeOK
  <2> QED
    BY <2>2, <2>3 DEF StatusInv, Unanswered
<1>6. ASSUME Stop \/ Shutdown \/ (\E c \in Calls : CallerEnds(c)) \/ UNCHANGED vars
      PROVE  StatusInv'
  BY <1>6 DEF Stop, Shutdown, Sweep, Return, CallerEnds, vars, metricVars, StatusInv
<1> QED
  BY <1>2, <1>3, <1>4, <1>5, <1>6 DEF Next, Setup, Wrapup

\* A step that does not move a call: it may cancel it, or end the process.
LEMMA LifeOf ==
  ASSUME TypeOK, StatusInv, NEW d \in Calls, UNCHANGED <<pc[d], status[d]>>, Up,
         cancelled'[d] \in {cancelled[d], TRUE}
  PROVE  [Life(d)!Next]_(Life(d)!vars)
<1>1. CASE Up'
  <2>1. LifeStage(d)' = LifeStage(d)
    BY <1>1 DEF LifeStage
  <2> QED
    BY <2>1 DEF Life!vars, Life!Next, Life!Cancel
<1>2. CASE ~Up'
  <2>1. CASE LifeStage(d) \in {"none", "setup", "run", "blocked"}
    <3>1. LifeStage(d)' = "lost"
      BY <1>2, <2>1 DEF LifeStage, Wrapped, Unanswered, StatusInv, TypeOK, PcStates, Counted
    <3> QED
      BY <2>1, <3>1 DEF Life!Next, Life!Die
  <2>2. CASE LifeStage(d) \notin {"none", "setup", "run", "blocked"}
    <3>1. LifeStage(d)' = LifeStage(d)
      BY <1>2, <2>2 DEF LifeStage, Wrapped, Unanswered
    <3> QED
      BY <3>1 DEF Life!vars, Life!Next, Life!Cancel
  <2> QED
    BY <2>1, <2>2
<1> QED
  BY <1>1, <1>2

\* handleCall keeps the promise of CallLife for every call: each step of the
\* server is, for each call, a step of CallLife or one it does not see.
THEOREM CallsLiveAsCallLife ==
  ASSUME NEW d \in Calls
  PROVE  Spec => Life(d)!Spec
<1>1. Init => Life(d)!Init /\ StatusInv
  BY DEF Init, Life!Init, LifeStage, StatusInv, Unanswered, Up
<1>2. ASSUME IndInv, StatusInv, [Next]_vars PROVE [Life(d)!Next]_(Life(d)!vars)
  <2>0. /\ TypeOK
        /\ pc[d] \in Unanswered \/ pc[d] \in {"media", "run", "blocked"}
             => status[d] = "failed"
        /\ pc[d] = "refer" => status[d] # "failed"
    <3>1. TypeOK /\ StatusInv
      BY <1>2 DEF IndInv
    <3>2. /\ pc[d] \in Unanswered \cup {"media", "run", "blocked"}
               => status[d] = "failed"
          /\ pc[d] = "refer" => status[d] # "failed"
      BY <3>1 DEF StatusInv
    <3> QED
      BY <3>1, <3>2
  <2>1. ASSUME NEW c \in Calls, NEW from, NEW to, Goto(c, from, to), c # d,
               UNCHANGED <<status[d], cancelled[d]>>
        PROVE  [Life(d)!Next]_(Life(d)!vars)
    BY <1>2, <2>0, <2>1, Moves, LifeOf
  \* The steps of this call: from where, to where, and what CallLife sees.
  <2>2. ASSUME NEW from, NEW to, Goto(d, from, to), UNCHANGED <<server, status>>,
               cancelled'[d] = cancelled[d]
        PROVE  /\ from = "idle" /\ to = "ring" => Life(d)!Begin
               /\ from = "media" /\ to = "run" => Life(d)!Start
               /\ from = "run" /\ to = "blocked" => Life(d)!Block
               /\ from = "blocked" /\ to = "run" => Life(d)!Unblock
               /\ from \in Unanswered \ {"idle"} /\ to \in Unanswered \cup {"media"}
                    /\ to # "idle" => UNCHANGED LifeStage(d)
               /\ from \in (Unanswered \cup {"media"}) \ {"idle"}
                    /\ to \in {"hangup"} \cup Wrapped => Life(d)!Fail
               /\ from \in {"refer", "hangup", "metrics"} \cup Wrapped
                    /\ to \in {"hangup", "metrics"} \cup Wrapped => UNCHANGED LifeStage(d)
    <3>1. Up /\ Up' /\ pc[d] = from /\ pc'[d] = to
      BY <2>0, <2>2, Moves DEF Up
    <3> USE <2>0, <2>2, <3>1 DEF LifeStage, Unanswered, Wrapped
    <3>2. from = "idle" /\ to = "ring" => Life(d)!Begin
      BY DEF Life!Begin
    <3>3. from = "media" /\ to = "run" => Life(d)!Start
      BY DEF Life!Start
    <3>4. from \in Unanswered \ {"idle"} /\ to \in Unanswered \cup {"media"} /\ to # "idle"
            => UNCHANGED LifeStage(d)
      OBVIOUS
    <3>5. from \in (Unanswered \cup {"media"}) \ {"idle"} /\ to \in {"hangup"} \cup Wrapped
            => Life(d)!Fail
      BY DEF Life!Fail
    <3>6. from \in {"refer", "hangup", "metrics"} \cup Wrapped
            /\ to \in {"hangup", "metrics"} \cup Wrapped => UNCHANGED LifeStage(d)
      OBVIOUS
    <3>7. from = "run" /\ to = "blocked" => Life(d)!Block
      BY DEF Life!Block
    <3>8. from = "blocked" /\ to = "run" => Life(d)!Unblock
      BY DEF Life!Unblock
    <3> QED
      BY <3>2, <3>3, <3>4, <3>5, <3>6, <3>7, <3>8
  <2>3. ASSUME NEW c \in Calls, Invite(c) \/ NewSession(c) \/ Blocks(c) \/ Unblocks(c)
        PROVE  [Life(d)!Next]_(Life(d)!vars)
    BY <2>0, <2>1, <2>2, <2>3
       DEF Invite, NewSession, Blocks, Unblocks, serverVars, metricVars, Life!Next
  <2>4. ASSUME NEW c \in Calls,
               Ring(c) \/ Register(c) \/ Count(c) \/ SetCodec(c) \/ SetCodecRate(c)
                 \/ Connect(c) \/ ConnectOk(c) \/ Answer(c)
        PROVE  [Life(d)!Next]_(Life(d)!vars)
    BY <2>0, <2>1, <2>2, <2>4
       DEF Ring, Register, Count, SetCodec, SetCodecRate, Connect, ConnectOk, Answer,
           Unanswered, serverVars, metricVars, Life!vars
  <2>5. ASSUME NEW c \in Calls,
               RingFails(c) \/ NoMatch(c) \/ ConnectFails(c) \/ AnswerFails(c)
                 \/ MediaFails(c)
        PROVE  [Life(d)!Next]_(Life(d)!vars)
    BY <2>0, <2>1, <2>2, <2>5
       DEF RingFails, NoMatch, ConnectFails, AnswerFails, MediaFails, Unanswered, Wrapped,
           serverVars, metricVars, Life!Next
  <2>6. ASSUME NEW c \in Calls, Refer(c) \/ Hangup(c) \/ Metrics(c) \/ Unregister(c)
        PROVE  [Life(d)!Next]_(Life(d)!vars)
    BY <2>0, <2>1, <2>2, <2>6
       DEF Refer, Hangup, Metrics, Unregister, Wrapped, serverVars, metricVars, Life!vars
  <2>7. ASSUME NEW c \in Calls, Create(c) PROVE [Life(d)!Next]_(Life(d)!vars)
    <3>1. Goto(c, "create", "connect") /\ UNCHANGED <<cancelled, status>>
      BY <2>7 DEF Create, metricVars
    <3>2. CASE server' = server
      BY <2>0, <2>1, <2>2, <3>1, <3>2 DEF Unanswered, Life!vars
    <3>3. CASE server' # server
      <4>1. ~Up'
        BY <2>7, <3>3 DEF Create, Up
      <4>2. CASE c = d
        <5>1. LifeStage(d) = "setup" /\ LifeStage(d)' = "lost"
          BY <2>0, <3>1, <4>1, <4>2, Moves DEF LifeStage, Unanswered, Wrapped
        <5> QED
          BY <3>1, <5>1 DEF Life!Next, Life!Die
      <4> QED
        BY <2>1, <3>1, <4>2
    <3> QED
      BY <3>2, <3>3
  <2>8. ASSUME NEW c \in Calls, Leave(c) PROVE [Life(d)!Next]_(Life(d)!vars)
    <3>1. Goto(c, "leave", "over") /\ UNCHANGED <<server, status>>
      BY <2>8 DEF Leave, metricVars
    <3>2. cancelled' = [cancelled EXCEPT ![c] = TRUE]
      BY <2>8 DEF Leave
    <3>3. CASE c = d
      <4>1. LifeStage(d)' = LifeStage(d)
        BY <2>0, <3>1, <3>3, Moves DEF LifeStage, Wrapped, Unanswered, Up
      <4> QED
        BY <2>0, <3>2, <3>3, <4>1 DEF Life!Next, Life!Cancel, TypeOK
    <3> QED
      BY <2>0, <2>1, <3>1, <3>2, <3>3 DEF TypeOK
  <2>9. ASSUME NEW c \in Calls, RunReturns(c) PROVE [Life(d)!Next]_(Life(d)!vars)
    <3>1. PICK how \in {"completed", "transferred"} :
            /\ Goto(c, "run", IF how = "transferred" THEN "refer" ELSE "hangup")
            /\ status' = [status EXCEPT ![c] = how]
      BY <2>9 DEF RunReturns
    <3>2. cancelled' = [cancelled EXCEPT ![c] = TRUE]
      BY <2>9 DEF RunReturns
    <3>3. CASE c = d
      <4>1. LifeStage(d) = "run" /\ LifeStage(d)' = "returned"
        BY <2>0, <3>1, <3>3, Moves DEF LifeStage, Wrapped, Unanswered, TypeOK
      <4> QED
        BY <2>0, <3>2, <3>3, <4>1 DEF Life!Next, Life!Return, TypeOK
    <3> QED
      BY <2>0, <2>1, <3>1, <3>2, <3>3 DEF TypeOK
  <2>10. CASE Stop \/ Sweep \/ \E c \in Calls : CallerEnds(c)
    <3>1. Up /\ UNCHANGED <<pc, status>> /\ cancelled'[d] \in {cancelled[d], TRUE}
      BY <2>0, <2>10 DEF Stop, Sweep, CallerEnds, Up, metricVars, TypeOK
    <3> QED
      BY <1>2, <2>0, <3>1, LifeOf
  <2>11. CASE Return
    BY <1>2, <2>0, <2>11, LifeOf DEF Return, Up, metricVars
  <2>12. CASE UNCHANGED vars
    BY <2>12 DEF vars, metricVars, serverVars, LifeStage, Up, Life!vars
  <2> QED
    BY <1>2, <2>3, <2>4, <2>5, <2>6, <2>7, <2>8, <2>9, <2>10, <2>11, <2>12
       DEF Next, Setup, Wrapup, Shutdown
<1> QED
  BY <1>1, <1>2, InvariantHolds, StatusStep, PTL DEF Spec, Life!Spec
=============================================================================

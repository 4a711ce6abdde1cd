--------------------------- MODULE CallSetupProofs ---------------------------
(***************************************************************************)
(* What TLAPS proves about CallSetup for any number of calls, keys and     *)
(* INVITEs, whatever is offered: no call uses the API key or the settings  *)
(* of another, a refusal blames the one whose key it was, and the SDP is   *)
(* rewritten for OpenAI and restored for the caller.                       *)
(***************************************************************************)
EXTENDS CallSetup, SdpNormalizeProofs

KeyOf(c) == IF CallerKey(c) THEN The(Header(c).key).text ELSE Config.key

\* What the handlers of all calls share never changes.
SharedInv == config = Config /\ client = [key |-> Config.key, model |-> Config.model]

FunInv ==
  /\ pc = [c \in Calls |-> pc[c]] /\ cfg = [c \in Calls |-> cfg[c]]
  /\ own = [c \in Calls |-> own[c]] /\ offered = [c \in Calls |-> offered[c]]
  /\ answer = [c \in Calls |-> answer[c]] /\ control = [c \in Calls |-> control[c]]
  /\ dials = [c \in Calls |-> dials[c]] /\ hangups = [c \in Calls |-> hangups[c]]
  /\ response = [c \in Calls |-> response[c]]

Chosen == {"read", "waiting", "answered", "sideband", "up"}

\* Where a call has its key from, at each step of its handler.
KeyInv(c) ==
  /\ pc[c] \in {"invited", "client", "over"} \cup Chosen
  /\ pc[c] = "client" => cfg[c].key = KeyOf(c)
  /\ pc[c] \in {"invited", "client"} => own[c] = {}
  /\ pc[c] \in Chosen /\ own[c] = {} => KeyOf(c) = Config.key
  /\ \A x \in own[c] : x.key = KeyOf(c)
  /\ \A x \in control[c] : x.key = KeyOf(c)
  /\ pc[c] = "sideband" => control[c] # {}
  /\ \A o \in offered[c] : o.key = KeyOf(c)
  /\ dials[c] \subseteq {KeyOf(c)} /\ hangups[c] \subseteq {KeyOf(c)}

\* What a call was told, at each step of its handler.
RefusalInv(c) ==
  /\ pc[c] \in {"invited", "client", "read"} => offered[c] = {}
  /\ pc[c] \in {"invited", "client", "read", "waiting"} => answer[c] = {}
  /\ pc[c] \in {"answered", "sideband", "up"} => \A a \in answer[c] : a.status = 201
  /\ \A r \in response[c] :
       /\ r.code = 403 => CallerKey(c)
       /\ r.code = 400 => offered[c] = {}
       /\ \A a \in answer[c] :
            a.status \in {401, 403} /\ ~CallerKey(c) => r.code = 502 /\ r.detail # "openai"
  /\ pc[c] \notin {"over", "sideband", "up"} => response[c] = {}

\* The inductive invariant.
SetupInv ==
  SharedInv /\ FunInv /\ \A c \in Calls : KeyInv(c) /\ RefusalInv(c)

\* What a pointer that is not nil points to.
LEMMA TheIsIn ==
  ASSUME NEW S, S # {}
  PROVE  The(S) \in S
BY DEF The

\* Before any INVITE nothing was asked for, with any key.
LEMMA InitSetup == Init => SetupInv
BY DEF Init, SetupInv, SharedInv, FunInv, KeyInv, RefusalInv, Chosen

\* The client of a call has the key of the call, once it has been chosen.
LEMMA ClientHasKey ==
  ASSUME SetupInv, NEW c \in Calls, pc[c] \in Chosen
  PROVE  ClientOf(c).key = KeyOf(c)
<1>1. CASE own[c] = {}
  BY <1>1 DEF ClientOf, SetupInv, SharedInv, KeyInv
<1>2. CASE own[c] # {}
  BY <1>2, TheIsIn DEF ClientOf, SetupInv, KeyInv
<1> QED
  BY <1>1, <1>2

\* WithOverride puts in the caller's key, or leaves the server's.
LEMMA OverrideHasKey ==
  ASSUME SetupInv, NEW c \in Calls
  PROVE  (IF HasOverride(c) THEN WithOverride(config, Header(c)) ELSE config).key = KeyOf(c)
BY DEF SetupInv, SharedInv, KeyOf, CallerKey, WithOverride

\* createCallStatus, line by line of its table.
LEMMA StatusOfRefusal ==
  ASSUME NEW status \in Statuses, NEW callerKey \in BOOLEAN
  PROVE  LET said == CreateCallStatus(status, callerKey)
         IN  /\ said[1] = 403 => callerKey
             /\ said[1] # 400
             /\ status \in {401, 403} /\ ~callerKey => said[1] = 502 /\ said[2] # "openai"
<1>1. CASE status \in {401, 403}
  BY <1>1 DEF CreateCallStatus
<1>2. CASE status = 429
  BY <1>2 DEF CreateCallStatus
<1>3. CASE status \in 400 .. 499 \ {401, 403, 429}
  BY <1>3 DEF CreateCallStatus
<1>4. CASE status \notin 400 .. 499
  BY <1>4 DEF CreateCallStatus
<1> QED
  BY <1>1, <1>2, <1>3, <1>4

-----------------------------------------------------------------------------
\* A step of one call leaves what the others have.
LEMMA OtherCalls ==
  ASSUME SetupInv, NEW c \in Calls, NEW d \in Calls, d # c, invite' = invite,
         pc'[d] = pc[d], cfg'[d] = cfg[d], own'[d] = own[d], offered'[d] = offered[d],
         answer'[d] = answer[d], control'[d] = control[d], dials'[d] = dials[d],
         hangups'[d] = hangups[d], response'[d] = response[d]
  PROVE  KeyInv(d)' /\ RefusalInv(d)'
BY DEF SetupInv, KeyInv, RefusalInv, KeyOf, CallerKey, HasOverride, Header

Step(c) ==
  \/ Reject(c) \/ Configure(c) \/ PickClient(c)
  \/ ReadInviteFails(c) \/ Offer(c)
  \/ Created(c) \/ Refused(c) \/ Unreachable(c)
  \/ Answered(c) \/ NotAnswered(c) \/ Sideband(c) \/ Ends(c)

\* The handler of one call leaves alone what the handlers share and have.
LEMMA StepShape ==
  ASSUME SetupInv, NEW c \in Calls, Step(c)
  PROVE  /\ SharedInv' /\ FunInv' /\ invite' = invite
         /\ \A d \in Calls \ {c} :
              /\ pc'[d] = pc[d] /\ cfg'[d] = cfg[d] /\ own'[d] = own[d]
              /\ offered'[d] = offered[d] /\ answer'[d] = answer[d]
              /\ control'[d] = control[d] /\ dials'[d] = dials[d]
              /\ hangups'[d] = hangups[d] /\ response'[d] = response[d]
<1> USE DEF SetupInv, SharedInv, FunInv, shared, requests, Goto, Respond
<1>1. CASE Reject(c)
  <2>1. PICK detail \in {"header", "none"} :
          /\ pc' = [pc EXCEPT ![c] = "over"]
          /\ response' = [response EXCEPT ![c] = {[code |-> 400, detail |-> detail, sdp |-> <<>>]}]
          /\ UNCHANGED <<invite, config, client, cfg, own, offered, dials, hangups, answer, control>>
    BY <1>1 DEF Reject
  <2> QED
    BY <2>1
<1>2. CASE Configure(c)
  BY <1>2 DEF Configure
<1>3. CASE PickClient(c)
  <2>1. CASE CallerKey(c)
    BY <1>3, <2>1 DEF PickClient, WithAPIKey
  <2>2. CASE ~CallerKey(c)
    BY <1>3, <2>2 DEF PickClient
  <2> QED
    BY <2>1, <2>2
<1>4. CASE ReadInviteFails(c)
  BY <1>4 DEF ReadInviteFails
<1>5. CASE Offer(c)
  BY <1>5 DEF Offer
<1>6. CASE Created(c)
  BY <1>6 DEF Created
<1>7. CASE Refused(c)
  BY <1>7 DEF Refused
<1>8. CASE Unreachable(c)
  BY <1>8 DEF Unreachable
<1>9. CASE Answered(c)
  BY <1>9 DEF Answered
<1>10. CASE NotAnswered(c)
  BY <1>10 DEF NotAnswered, HangupOpenAI
<1>11. CASE Sideband(c)
  BY <1>11 DEF Sideband
<1>12. CASE Ends(c)
  BY <1>12 DEF Ends, HangupOpenAI
<1> QED
  BY <1>1, <1>2, <1>3, <1>4, <1>5, <1>6, <1>7, <1>8, <1>9, <1>10, <1>11, <1>12 DEF Step

\* Each step of a handler takes its key from where the step before left it.
LEMMA StepKey ==
  ASSUME SetupInv, NEW c \in Calls, Step(c)
  PROVE  KeyInv(c)'
<1>1. KeyOf(c)' = KeyOf(c)
  BY StepShape DEF KeyOf, CallerKey, HasOverride, Header
<1> USE <1>1 DEF SetupInv, FunInv, KeyInv, Chosen, shared, requests, Goto, Respond
<1> HIDE DEF KeyOf
<1>2. CASE Reject(c)
  BY <1>2 DEF Reject
<1>3. CASE Configure(c)
  BY <1>3, OverrideHasKey DEF Configure
<1>4. CASE PickClient(c)
  <2>1. CASE CallerKey(c)
    <3>1. own'[c] = IF cfg[c].key = client.key THEN {} ELSE {[client EXCEPT !.key = cfg[c].key]}
      BY <1>4, <2>1 DEF PickClient, WithAPIKey
    <3>2. cfg[c].key = KeyOf(c)
      BY <1>4 DEF PickClient
    <3>3. \A x \in own'[c] : x.key = KeyOf(c)
      BY <3>1, <3>2 DEF SharedInv
    <3>4. own'[c] = {} => KeyOf(c) = Config.key
      BY <3>1, <3>2 DEF SharedInv
    <3> QED
      BY <1>4, <3>3, <3>4 DEF PickClient
  <2>2. CASE ~CallerKey(c)
    BY <1>4, <2>2 DEF PickClient, KeyOf
  <2> QED
    BY <2>1, <2>2
<1>5. CASE ReadInviteFails(c)
  BY <1>5 DEF ReadInviteFails
<1>6. CASE Offer(c)
  <2>1. ClientOf(c).key = KeyOf(c)
    BY <1>6, ClientHasKey DEF Offer
  <2> QED
    BY <1>6, <2>1 DEF Offer
<1>7. CASE Created(c)
  BY <1>7 DEF Created
<1>8. CASE Refused(c)
  BY <1>8 DEF Refused
<1>9. CASE Unreachable(c)
  BY <1>9 DEF Unreachable
<1>10. CASE Answered(c)
  <2>1. ClientOf(c).key = KeyOf(c)
    BY <1>10, ClientHasKey DEF Answered
  <2>2. control'[c] = {[key |-> ClientOf(c).key, prompt |-> cfg[c].prompt,
                        transfers |-> cfg[c].transfers]}
    BY <1>10 DEF Answered
  <2>3. \A x \in control'[c] : x.key = KeyOf(c)
    BY <2>1, <2>2
  <2>4. /\ pc[c] = "answered" /\ pc'[c] = "sideband" /\ control'[c] # {}
        /\ UNCHANGED <<own, offered, dials, hangups>>
    BY <1>10, <2>2 DEF Answered
  <2> QED
    BY <2>3, <2>4
<1>11. CASE NotAnswered(c)
  <2>1. ClientOf(c).key = KeyOf(c)
    BY <1>11, ClientHasKey DEF NotAnswered
  <2> QED
    BY <1>11, <2>1 DEF NotAnswered, HangupOpenAI
<1>12. CASE Sideband(c)
  <2>1. The(control[c]).key = KeyOf(c)
    BY <1>12, TheIsIn DEF Sideband
  <2> QED
    BY <1>12, <2>1 DEF Sideband
<1>13. CASE Ends(c)
  <2>1. ClientOf(c).key = KeyOf(c)
    BY <1>13, ClientHasKey DEF Ends
  <2> QED
    BY <1>13, <2>1 DEF Ends, HangupOpenAI
<1> QED
  BY <1>2, <1>3, <1>4, <1>5, <1>6, <1>7, <1>8, <1>9, <1>10, <1>11, <1>12, <1>13 DEF Step

\* Each step of a handler keeps what was answered in line with what was offered.
LEMMA StepRefusal ==
  ASSUME SetupInv, NEW c \in Calls, Step(c)
  PROVE  RefusalInv(c)'
<1>1. CallerKey(c)' = CallerKey(c) /\ CallerKey(c) \in BOOLEAN
  BY StepShape DEF CallerKey, HasOverride, Header
<1> USE <1>1 DEF SetupInv, FunInv, RefusalInv, shared, requests, Goto, Respond
<1>2. CASE Reject(c)
  BY <1>2 DEF Reject
<1>3. CASE Configure(c)
  BY <1>3 DEF Configure
<1>4. CASE PickClient(c)
  BY <1>4 DEF PickClient
<1>5. CASE ReadInviteFails(c)
  BY <1>5 DEF ReadInviteFails
<1>6. CASE Offer(c)
  BY <1>6 DEF Offer
<1>7. CASE Created(c)
  BY <1>7 DEF Created
<1>8. CASE Refused(c)
  BY <1>8, StatusOfRefusal DEF Refused
<1>9. CASE Unreachable(c)
  BY <1>9 DEF Unreachable
<1>10. CASE Answered(c)
  BY <1>10 DEF Answered
<1>11. CASE NotAnswered(c)
  BY <1>11 DEF NotAnswered, HangupOpenAI
<1>12. CASE Sideband(c)
  BY <1>12 DEF Sideband
<1>13. CASE Ends(c)
  BY <1>13 DEF Ends, HangupOpenAI
<1> QED
  BY <1>2, <1>3, <1>4, <1>5, <1>6, <1>7, <1>8, <1>9, <1>10, <1>11, <1>12, <1>13 DEF Step

\* The invariant of keys and refusals is inductive.
LEMMA NextSetup == SetupInv /\ [Next]_vars => SetupInv'
<1> SUFFICES ASSUME SetupInv, [Next]_vars
             PROVE  SetupInv'
  OBVIOUS
<1>1. ASSUME NEW c \in Calls, Step(c)
      PROVE  SetupInv'
  <2>1. SharedInv' /\ FunInv'
    BY <1>1, StepShape
  <2>2. ASSUME NEW d \in Calls
        PROVE  KeyInv(d)' /\ RefusalInv(d)'
    <3>1. CASE d = c
      BY <1>1, <3>1, StepKey, StepRefusal
    <3>2. CASE d # c
      BY <1>1, <3>2, StepShape, OtherCalls
    <3> QED
      BY <3>1, <3>2
  <2> QED
    BY <2>1, <2>2 DEF SetupInv
<1>2. CASE UNCHANGED vars
  BY <1>2 DEF vars, shared, requests, SetupInv, SharedInv, FunInv, KeyInv, RefusalInv, KeyOf,
              CallerKey, HasOverride, Header
<1> QED
  BY <1>1, <1>2 DEF Next, Step

\* No call ever uses the API key of another: every request made for it carries its
\* own, or the server's if it brought none.
THEOREM OneKeyHolds == Spec => []OneKey
<1>1. SetupInv => OneKey
  BY DEF SetupInv, KeyInv, KeyOf, OneKey
<1> QED
  BY InitSetup, NextSetup, <1>1, PTL DEF Spec

\* What OpenAI refuses is told to the caller by whose key it was, for every status.
THEOREM RefusalHolds == Spec => []RefusalTellsWhose
<1>1. SetupInv => RefusalTellsWhose
  BY DEF SetupInv, RefusalInv, RefusalTellsWhose
<1> QED
  BY InitSetup, NextSetup, <1>1, PTL DEF Spec

-----------------------------------------------------------------------------
(***************************************************************************)
(* Whose settings a call gets.                                             *)
(***************************************************************************)

\* The settings of the call's header, or the server's for what it leaves out.
Wanted(c, field, default) == IF HasOverride(c) THEN OfIfGiven(field, default) ELSE default

WantedModel(c)     == Wanted(c, Header(c).model, Config.model)
WantedPrompt(c)    == Wanted(c, Header(c).prompt, Config.prompt)
WantedTransfers(c) == Wanted(c, Header(c).transfers, Config.transfers)
OfferedModel(c)    == IF WantedModel(c) = NoModel THEN Config.model ELSE WantedModel(c)

\* The settings at each step of the handler.
SettingsInv(c) ==
  /\ cfg[c].key \in Keys /\ cfg[c].model \in Models \cup {NoModel} /\ cfg[c].prompt \in Prompts
  /\ pc[c] \in {"client"} \cup Chosen =>
       /\ cfg[c].model = WantedModel(c) /\ cfg[c].prompt = WantedPrompt(c)
       /\ cfg[c].transfers = NormalizeTransfers(WantedTransfers(c))
  /\ \A x \in own[c] : x.key \in Keys /\ x.model = Config.model
  /\ \A o \in offered[c] : o.key \in Keys /\ o.model = OfferedModel(c)
  /\ \A x \in answer[c] : x.status \in {201} \cup Statuses /\ x.id \in BOOLEAN
  /\ \A x \in control[c] : /\ x.key \in Keys /\ x.prompt = WantedPrompt(c)
                           /\ x.transfers = NormalizeTransfers(WantedTransfers(c))
  /\ dials[c] \subseteq Keys /\ hangups[c] \subseteq Keys
  /\ \A x \in response[c] : x.code \in {200, 400, 403, 480, 488, 502}

OwnInv == invite \in Invites /\ SetupInv /\ \A c \in Calls : SettingsInv(c)

\* What an INVITE brings is of the sets it is drawn from.
LEMMA HeaderTypes ==
  ASSUME invite \in Invites, NEW c \in Calls
  PROVE  /\ \A k \in Header(c).key : k.text \in Keys \cup {NoKey}
         /\ Header(c).model \subseteq Models \cup {NoModel}
         /\ Header(c).prompt \subseteq Prompts
         /\ Header(c).transfers \subseteq Transfers
<1>1. invite[c] \in AnyInvite
  BY SetupAssumption
<1>2. Header(c) \in Headers
  BY <1>1 DEF AnyInvite, Header
<1>3. /\ Header(c).key \in Optional([text : Keys \cup {NoKey}, padded : BOOLEAN])
      /\ Header(c).model \in Optional(Models \cup {NoModel})
      /\ Header(c).prompt \in Optional(Prompts)
      /\ Header(c).transfers \in Optional(Transfers)
  BY <1>2 DEF Headers
<1>4. \A S : \A x \in Optional(S) : x \subseteq S
  BY DEF Optional
<1>5. Header(c).key \subseteq [text : Keys \cup {NoKey}, padded : BOOLEAN]
  BY <1>3, <1>4
<1>6. \A k \in Header(c).key : k.text \in Keys \cup {NoKey}
  BY <1>5
<1>7. /\ Header(c).model \subseteq Models \cup {NoModel}
      /\ Header(c).prompt \subseteq Prompts
      /\ Header(c).transfers \subseteq Transfers
  BY <1>3, <1>4
<1> QED
  BY <1>6, <1>7

\* The settings a call wants are of those sets too.
LEMMA WantedTypes ==
  ASSUME invite \in Invites, NEW c \in Calls
  PROVE  /\ WantedModel(c) \in Models \cup {NoModel} /\ WantedPrompt(c) \in Prompts
         /\ WantedTransfers(c) \in Transfers
<1>1. Config.model \in Models /\ Config.prompt \in Prompts /\ Config.transfers \in Transfers
  BY SetupAssumption
<1>2. ASSUME NEW S, NEW field \in SUBSET S, NEW default \in S
      PROVE  Wanted(c, field, default) \in S
  BY TheIsIn DEF Wanted, OfIfGiven
<1> QED
  BY <1>1, <1>2, HeaderTypes DEF WantedModel, WantedPrompt, WantedTransfers

\* WithOverride, field by field, and what normalizeTransfers makes of its destinations.
LEMMA OverrideHasSettings ==
  ASSUME SetupInv, invite \in Invites, NEW c \in Calls, HasOverride(c) => Valid(Header(c))
  PROVE  LET new == IF HasOverride(c) THEN WithOverride(config, Header(c)) ELSE config
         IN  /\ new.key \in Keys
             /\ new.model = WantedModel(c) /\ new.prompt = WantedPrompt(c)
             /\ new.transfers = NormalizeTransfers(WantedTransfers(c))
<1>1. config = Config /\ Config.key \in Keys
      /\ Config.transfers = NormalizeTransfers(Config.transfers)
  BY SetupAssumption DEF SetupInv, SharedInv
<1>2. CASE ~HasOverride(c)
  BY <1>1, <1>2 DEF WantedModel, WantedPrompt, WantedTransfers, Wanted
<1>3. CASE HasOverride(c)
  <2>1. Header(c).key # {} => The(Header(c).key).text \in Keys
    BY <1>3, HeaderTypes, TheIsIn DEF Valid
  <2>2. WithOverride(config, Header(c)).key \in Keys
    BY <1>1, <2>1 DEF WithOverride
  <2>3. /\ WithOverride(config, Header(c)).model = WantedModel(c)
        /\ WithOverride(config, Header(c)).prompt = WantedPrompt(c)
    BY <1>1, <1>3 DEF WithOverride, WantedModel, WantedPrompt, Wanted
  <2>4. WithOverride(config, Header(c)).transfers = NormalizeTransfers(WantedTransfers(c))
    BY <1>1, <1>3 DEF WithOverride, WantedTransfers, Wanted, OfIfGiven
  <2> QED
    BY <1>3, <2>2, <2>3, <2>4
<1> QED
  BY <1>2, <1>3

\* Before any INVITE there are no settings.
LEMMA InitOwn == Init => OwnInv
<1> SUFFICES ASSUME Init PROVE OwnInv
  OBVIOUS
<1>1. SetupInv
  BY InitSetup
<1>2. ASSUME NEW c \in Calls PROVE SettingsInv(c)
  BY SetupAssumption DEF Init, SettingsInv, Chosen
<1> QED
  BY <1>1, <1>2 DEF Init, OwnInv

\* The client of a call has a key and the server's model.
LEMMA ClientHasModel ==
  ASSUME OwnInv, NEW c \in Calls
  PROVE  ClientOf(c).key \in Keys /\ ClientOf(c).model = Config.model
<1>1. client = [key |-> Config.key, model |-> Config.model] /\ Config.key \in Keys
  BY SetupAssumption DEF OwnInv, SetupInv, SharedInv
<1>2. CASE own[c] = {}
  BY <1>1, <1>2 DEF ClientOf
<1>3. CASE own[c] # {}
  BY <1>3, TheIsIn DEF ClientOf, OwnInv, SettingsInv
<1> QED
  BY <1>2, <1>3

\* The codes of a refusal.
LEMMA CodeOfRefusal ==
  ASSUME NEW status \in Statuses, NEW callerKey \in BOOLEAN
  PROVE  CreateCallStatus(status, callerKey)[1] \in {403, 480, 488, 502}
<1>1. CASE status \in {401, 403}
  BY <1>1 DEF CreateCallStatus
<1>2. CASE status = 429
  BY <1>2 DEF CreateCallStatus
<1>3. CASE status \in 400 .. 499 \ {401, 403, 429}
  BY <1>3 DEF CreateCallStatus
<1>4. CASE status \notin 400 .. 499
  BY <1>4 DEF CreateCallStatus
<1> QED
  BY <1>1, <1>2, <1>3, <1>4

\* What OpenAI refuses with.
LEMMA RefusedType ==
  ASSUME NEW status \in Statuses, NEW x,
         x \in {[status |-> status, sdp |-> <<>>, id |-> FALSE]}
  PROVE  x.status \in {201} \cup Statuses /\ x.id \in BOOLEAN
<1>1. x = [status |-> status, sdp |-> <<>>, id |-> FALSE]
  OBVIOUS
<1>2. x.status = status
  BY <1>1
<1>3. x.id = FALSE
  BY <1>1
<1>4. x.id \in BOOLEAN
  BY <1>3
<1> QED
  BY <1>2, <1>4

\* Each step of a handler hands on the settings of its own call.
LEMMA StepSettings ==
  ASSUME OwnInv, NEW c \in Calls, Step(c)
  PROVE  SettingsInv(c)'
<1>1. /\ invite' = invite
      /\ WantedModel(c)' = WantedModel(c) /\ WantedPrompt(c)' = WantedPrompt(c)
      /\ WantedTransfers(c)' = WantedTransfers(c) /\ OfferedModel(c)' = OfferedModel(c)
  BY StepShape DEF OwnInv, WantedModel, WantedPrompt, WantedTransfers, OfferedModel, Wanted,
                   HasOverride, Header
<1>a. SetupInv /\ FunInv /\ SettingsInv(c) /\ invite \in Invites
  BY DEF OwnInv, SetupInv
<1> USE <1>1, <1>a DEF FunInv, SettingsInv, Chosen, shared, requests, Goto, Respond
<1> HIDE DEF WantedModel, WantedPrompt, WantedTransfers, OfferedModel, SetupInv
<1>2. CASE Reject(c)
  BY <1>2 DEF Reject
<1>3. CASE Configure(c)
  <2> DEFINE new == IF HasOverride(c) THEN WithOverride(config, Header(c)) ELSE config
  <2>1. /\ new.key \in Keys
        /\ new.model = WantedModel(c) /\ new.prompt = WantedPrompt(c)
        /\ new.transfers = NormalizeTransfers(WantedTransfers(c))
    BY <1>3, OverrideHasSettings DEF Configure
  <2>2. cfg'[c] = new /\ pc[c] = "invited" /\ pc'[c] = "client"
        /\ UNCHANGED <<own, offered, answer, control, dials, hangups, response>>
    BY <1>3 DEF Configure
  <2> HIDE DEF new
  <2> QED
    BY <2>1, <2>2, WantedTypes
<1>4. CASE PickClient(c)
  <2>1. \A x \in own'[c] : x.key \in Keys /\ x.model = Config.model
    <3>1. own' = own \/ own'[c] = {} \/ own'[c] = {[client EXCEPT !.key = cfg[c].key]}
      BY <1>4 DEF PickClient, WithAPIKey
    <3>2. client = [key |-> Config.key, model |-> Config.model]
      BY DEF SetupInv, SharedInv
    <3> QED
      BY <3>1, <3>2
  <2>2. pc[c] = "client" /\ pc'[c] = "read"
        /\ UNCHANGED <<cfg, offered, answer, control, dials, hangups, response>>
    BY <1>4 DEF PickClient
  <2> QED
    BY <2>1, <2>2
<1>5. CASE ReadInviteFails(c)
  BY <1>5 DEF ReadInviteFails
<1>6. CASE Offer(c)
  <2>1. ClientOf(c).key \in Keys /\ ClientOf(c).model = Config.model
    BY ClientHasModel
  <2>2. cfg[c].model = WantedModel(c)
    BY <1>6 DEF Offer
  <2>3. \A o \in offered'[c] : o.key \in Keys /\ o.model = OfferedModel(c)
    <3>1. offered'[c] =
            {[key   |-> ClientOf(c).key,
              model |-> IF cfg[c].model = NoModel THEN ClientOf(c).model ELSE cfg[c].model,
              sdp   |-> EnsureBundleMid(invite[c].offer)]}
      BY <1>6 DEF Offer
    <3> QED
      BY <2>1, <2>2, <3>1 DEF OfferedModel
  <2>4. pc[c] = "read" /\ pc'[c] = "waiting"
        /\ UNCHANGED <<cfg, own, answer, control, dials, hangups, response>>
    BY <1>6 DEF Offer
  <2> QED
    BY <2>3, <2>4
<1>7. CASE Created(c)
  BY <1>7 DEF Created
<1>8. CASE Refused(c)
  <2>1. CallerKey(c) \in BOOLEAN
    BY DEF CallerKey, HasOverride
  <2>2. PICK status \in Statuses :
          LET said == CreateCallStatus(status, CallerKey(c))
          IN  /\ Respond(c, said[1], said[2], <<>>)
              /\ answer' = [answer EXCEPT ![c] = {[status |-> status, sdp |-> <<>>, id |-> FALSE]}]
    BY <1>8 DEF Refused
  <2>3. \A x \in response'[c] : x.code = CreateCallStatus(status, CallerKey(c))[1]
    BY <2>2
  <2>4. \A x \in response'[c] : x.code \in {200, 400, 403, 480, 488, 502}
    BY <2>1, <2>3, CodeOfRefusal
  <2>5. \A x \in answer'[c] : x.status \in {201} \cup Statuses /\ x.id \in BOOLEAN
    <3>1. answer'[c] = {[status |-> status, sdp |-> <<>>, id |-> FALSE]}
      BY <2>2
    <3>2. ASSUME NEW x \in answer'[c]
          PROVE  x.status \in {201} \cup Statuses /\ x.id \in BOOLEAN
      <4>1. x \in {[status |-> status, sdp |-> <<>>, id |-> FALSE]}
        BY <3>1
      <4> QED
        BY <4>1, RefusedType
    <3> QED
      BY <3>2
  <2>6. pc[c] = "waiting" /\ pc'[c] = "over"
        /\ UNCHANGED <<cfg, own, offered, control, dials, hangups>>
    BY <1>8 DEF Refused
  <2> QED
    BY <2>4, <2>5, <2>6
<1>9. CASE Unreachable(c)
  BY <1>9 DEF Unreachable
<1>10. CASE Answered(c)
  <2>1. ClientOf(c).key \in Keys
    BY ClientHasModel
  <2>2. control'[c] = {[key |-> ClientOf(c).key, prompt |-> cfg[c].prompt,
                        transfers |-> cfg[c].transfers]}
    BY <1>10 DEF Answered
  <2>3. /\ cfg[c].prompt = WantedPrompt(c)
        /\ cfg[c].transfers = NormalizeTransfers(WantedTransfers(c))
    BY <1>10 DEF Answered
  <2>4. \A x \in control'[c] : /\ x.key \in Keys /\ x.prompt = WantedPrompt(c)
                               /\ x.transfers = NormalizeTransfers(WantedTransfers(c))
    BY <2>1, <2>2, <2>3
  <2>5. /\ \A x \in response'[c] : x.code = 200
        /\ pc[c] = "answered" /\ pc'[c] = "sideband"
        /\ UNCHANGED <<cfg, own, offered, answer, dials, hangups>>
    BY <1>10 DEF Answered
  <2> QED
    BY <2>4, <2>5
<1>11. CASE NotAnswered(c)
  BY <1>11, ClientHasModel DEF NotAnswered, HangupOpenAI
<1>12. CASE Sideband(c)
  <2>1. The(control[c]).key \in Keys
    <3>1. control[c] # {}
      BY <1>12 DEF SetupInv, KeyInv, Sideband
    <3> QED
      BY <3>1, TheIsIn
  <2> QED
    BY <1>12, <2>1 DEF Sideband
<1>13. CASE Ends(c)
  BY <1>13, ClientHasModel DEF Ends, HangupOpenAI
<1> QED
  BY <1>2, <1>3, <1>4, <1>5, <1>6, <1>7, <1>8, <1>9, <1>10, <1>11, <1>12, <1>13 DEF Step

\* The invariant of the settings is inductive.
LEMMA NextOwn == OwnInv /\ [Next]_vars => OwnInv'
<1> SUFFICES ASSUME OwnInv, [Next]_vars PROVE OwnInv'
  OBVIOUS
<1>1. SetupInv'
  BY NextSetup DEF OwnInv
<1>2. ASSUME NEW c \in Calls, Step(c) PROVE OwnInv'
  <2>1. ASSUME NEW d \in Calls PROVE SettingsInv(d)'
    <3>1. CASE d = c
      BY <1>2, <3>1, StepSettings
    <3>2. CASE d # c
      BY <1>2, <3>2, StepShape DEF OwnInv, SettingsInv, WantedModel, WantedPrompt,
         WantedTransfers, OfferedModel, Wanted, HasOverride, Header
    <3> QED
      BY <3>1, <3>2
  <2>2. invite' \in Invites
    BY <1>2, StepShape DEF OwnInv
  <2> QED
    BY <1>1, <2>1, <2>2 DEF OwnInv
<1>3. CASE UNCHANGED vars
  BY <1>1, <1>3 DEF vars, shared, requests, OwnInv, SettingsInv, WantedModel, WantedPrompt,
     WantedTransfers, OfferedModel, Wanted, HasOverride, Header
<1> QED
  BY <1>2, <1>3 DEF Next, Step

\* What normalizeTransfers makes of a destination.
LEMMA TransferIsUsable ==
  ASSUME NEW m \in Transfers
  PROVE  /\ DOMAIN NormalizeTransfers(m) = DOMAIN m
         /\ \A name \in DOMAIN m :
              LET out == NormalizeTransfers(m)[name]
              IN  IF m[name].blank THEN out = m[name]
                  ELSE out.scheme # "" /\ ~out.padded /\ m[name].scheme \in {"", out.scheme}
<1>1. \A name \in DOMAIN m : m[name] \in Destinations
  BY DEF Transfers
<1> QED
  BY <1>1 DEF NormalizeTransfers, NormalizeTransfer, Destinations

\* A call gets its own session: the model, the prompt and the destinations of its
\* header, and the server's for what that leaves out, whatever the other calls ask
\* for (Config.WithOverride, NewControl).
THEOREM OwnSessionHolds == Spec => []OwnSession
<1>1. OwnInv => OwnSession
  <2> SUFFICES ASSUME OwnInv PROVE OwnSession
    OBVIOUS
  <2>1. config = Config /\ client = [key |-> Config.key, model |-> Config.model]
        /\ Config.key \in Keys /\ Config.model \in Models /\ Config.prompt \in Prompts
    BY SetupAssumption DEF OwnInv, SetupInv, SharedInv
  <2>2. ASSUME NEW c \in Calls
        PROVE  /\ WantedModel(c) \in Models \cup {NoModel} /\ WantedPrompt(c) \in Prompts
               /\ WantedTransfers(c) \in Transfers /\ OfferedModel(c) \in Models
               /\ SettingsInv(c)
               /\ pc[c] \in {"invited", "client", "over"} \cup Chosen
    BY <2>1, WantedTypes DEF OwnInv, OfferedModel, SetupInv, KeyInv
  <2>3. TypeOK
    BY <2>1, <2>2 DEF TypeOK, SettingsInv, Chosen
  <2>4. ASSUME NEW c \in Calls, NEW session \in control[c]
        PROVE  /\ DOMAIN session.transfers = DOMAIN WantedTransfers(c)
               /\ \A name \in DOMAIN WantedTransfers(c) :
                    IF WantedTransfers(c)[name].blank
                    THEN session.transfers[name] = WantedTransfers(c)[name]
                    ELSE /\ session.transfers[name].scheme # "" /\ ~session.transfers[name].padded
                         /\ WantedTransfers(c)[name].scheme \in {"", session.transfers[name].scheme}
    <3>1. session.transfers = NormalizeTransfers(WantedTransfers(c))
      BY <2>2 DEF SettingsInv
    <3>2. WantedTransfers(c) \in Transfers
      BY <2>2
    <3> HIDE DEF WantedTransfers
    <3> QED
      BY <3>1, <3>2, TransferIsUsable
  <2>5. ASSUME NEW c \in Calls
        PROVE  /\ \A o \in offered[c] : o.model = OfferedModel(c)
               /\ \A session \in control[c] : session.prompt = WantedPrompt(c)
    BY <2>2 DEF SettingsInv
  <2> QED
    BY <2>3, <2>4, <2>5 DEF OwnSession, WantedModel, WantedPrompt, WantedTransfers, OfferedModel, Wanted
<1> QED
  BY InitOwn, NextOwn, <1>1, PTL DEF Spec

-----------------------------------------------------------------------------
(***************************************************************************)
(* The SDP that OpenAI is offered and that the caller gets.                *)
(***************************************************************************)

\* Where a description comes from, at each step of the handler.
SdpInv(c) ==
  /\ \A o \in offered[c] : o.sdp = EnsureBundleMid(invite[c].offer)
  /\ pc[c] = "waiting" => offered[c] # {}
  /\ \A a \in answer[c] :
       a.status = 201 => a.sdp = AnswerTo(EnsureBundleMid(invite[c].offer))
  /\ pc[c] = "answered" => answer[c] # {}
  /\ \A r \in response[c] :
       r.code = 200 => r.sdp = StripBundleMid(AnswerTo(EnsureBundleMid(invite[c].offer)))

OfferInv == OwnInv /\ \A c \in Calls : SdpInv(c)

\* Before any INVITE there is no description.
LEMMA InitOffer == Init => OfferInv
<1> SUFFICES ASSUME Init PROVE OfferInv
  OBVIOUS
<1>1. ASSUME NEW c \in Calls PROVE SdpInv(c)
  BY DEF Init, SdpInv
<1> QED
  BY <1>1, InitOwn DEF OfferInv

\* Each step of a handler rewrites the description the step before left.
LEMMA StepSdp ==
  ASSUME OfferInv, NEW c \in Calls, Step(c)
  PROVE  SdpInv(c)'
<1>1. SetupInv /\ FunInv /\ SdpInv(c) /\ RefusalInv(c) /\ invite' = invite
  BY StepShape DEF OfferInv, OwnInv, SetupInv
<1> USE <1>1 DEF FunInv, SdpInv, shared, requests, Goto, Respond
<1> HIDE DEF SetupInv
<1>2. CASE Reject(c)
  BY <1>2 DEF Reject
<1>3. CASE Configure(c)
  BY <1>3 DEF Configure
<1>4. CASE PickClient(c)
  BY <1>4 DEF PickClient
<1>5. CASE ReadInviteFails(c)
  BY <1>5 DEF ReadInviteFails
<1>6. CASE Offer(c)
  <2>1. offered'[c] =
          {[key   |-> ClientOf(c).key,
            model |-> IF cfg[c].model = NoModel THEN ClientOf(c).model ELSE cfg[c].model,
            sdp   |-> EnsureBundleMid(invite[c].offer)]}
    BY <1>6 DEF Offer
  <2>2. pc[c] = "read" /\ pc'[c] = "waiting" /\ UNCHANGED <<answer, response>>
    BY <1>6 DEF Offer
  <2>3. (\A o \in offered'[c] : o.sdp = EnsureBundleMid(invite[c].offer)) /\ offered'[c] # {}
    BY <2>1
  <2> QED
    BY <2>2, <2>3
<1>7. CASE Created(c)
  <2>1. The(offered[c]).sdp = EnsureBundleMid(invite[c].offer)
    BY <1>7, TheIsIn DEF Created
  <2>2. PICK id \in BOOLEAN :
          answer' = [answer EXCEPT ![c] =
            {[status |-> 201, sdp |-> AnswerTo(The(offered[c]).sdp), id |-> id]}]
    BY <1>7 DEF Created
  <2>3. answer'[c] = {[status |-> 201, sdp |-> AnswerTo(EnsureBundleMid(invite[c].offer)), id |-> id]}
    BY <2>1, <2>2
  <2>4. /\ \A a \in answer'[c] : a.sdp = AnswerTo(EnsureBundleMid(invite[c].offer))
        /\ answer'[c] # {}
    BY <2>3
  <2>5. pc[c] = "waiting" /\ pc'[c] = "answered" /\ UNCHANGED <<offered, response>>
    BY <1>7 DEF Created
  <2> QED
    BY <2>4, <2>5
<1>8. CASE Refused(c)
  <2>1. PICK status \in Statuses :
          LET said == CreateCallStatus(status, CallerKey(c))
          IN  /\ Respond(c, said[1], said[2], <<>>)
              /\ answer' = [answer EXCEPT ![c] = {[status |-> status, sdp |-> <<>>, id |-> FALSE]}]
    BY <1>8 DEF Refused
  <2>2. status # 201
    BY SetupAssumption
  <2>3. CreateCallStatus(status, CallerKey(c))[1] # 200
    <3>1. CallerKey(c) \in BOOLEAN
      BY DEF CallerKey, HasOverride
    <3> QED
      BY <3>1, CodeOfRefusal
  <2>4. \A r \in response'[c] : r.code # 200
    BY <2>1, <2>3
  <2>5. \A a \in answer'[c] : a.status # 201
    BY <2>1, <2>2
  <2>6. pc'[c] = "over" /\ UNCHANGED <<invite, offered>>
    BY <1>8 DEF Refused
  <2> QED
    BY <2>4, <2>5, <2>6
<1>9. CASE Unreachable(c)
  BY <1>9 DEF Unreachable
<1>10. CASE Answered(c)
  <2>1. The(answer[c]).sdp = AnswerTo(EnsureBundleMid(invite[c].offer))
    BY <1>10, TheIsIn DEF Answered, RefusalInv
  <2> QED
    BY <1>10, <2>1 DEF Answered
<1>11. CASE NotAnswered(c)
  BY <1>11 DEF NotAnswered, HangupOpenAI
<1>12. CASE Sideband(c)
  BY <1>12 DEF Sideband
<1>13. CASE Ends(c)
  BY <1>13 DEF Ends, HangupOpenAI
<1> QED
  BY <1>2, <1>3, <1>4, <1>5, <1>6, <1>7, <1>8, <1>9, <1>10, <1>11, <1>12, <1>13 DEF Step

\* The invariant of the descriptions is inductive.
LEMMA NextOffer == OfferInv /\ [Next]_vars => OfferInv'
<1> SUFFICES ASSUME OfferInv, [Next]_vars PROVE OfferInv'
  OBVIOUS
<1>1. OwnInv'
  BY NextOwn DEF OfferInv
<1>2. ASSUME NEW c \in Calls, Step(c) PROVE OfferInv'
  <2>1. ASSUME NEW d \in Calls PROVE SdpInv(d)'
    <3>1. CASE d = c
      BY <1>2, <3>1, StepSdp
    <3>2. CASE d # c
      BY <1>2, <3>2, StepShape DEF OfferInv, OwnInv, SdpInv
    <3> QED
      BY <3>1, <3>2
  <2> QED
    BY <1>1, <2>1 DEF OfferInv
<1>3. CASE UNCHANGED vars
  BY <1>1, <1>3 DEF vars, shared, requests, OfferInv, SdpInv
<1> QED
  BY <1>2, <1>3 DEF Next, Step

\* What the caller offered is a description.
LEMMA OfferType ==
  ASSUME OfferInv, NEW c \in Calls
  PROVE  invite[c].offer \in Seq(Lines(Mids))
<1>1. invite[c] \in AnyInvite
  BY SetupAssumption DEF OfferInv, OwnInv
<1> QED
  BY <1>1 DEF AnyInvite

\* What is put in for OpenAI, and what OpenAI puts in, is all taken out again.
LEMMA AnswerIsStripped ==
  ASSUME NEW S, NEW sdp \in Seq(S)
  PROVE  StripBundleMid(AnswerTo(EnsureBundleMid(sdp))) = StripBundleMid(sdp)
<1> DEFINE offer == EnsureBundleMid(sdp)
           W == Wider(S, sdp)
           kept == Without({"group"}, offer)
<1>1. offer \in Seq(W) /\ StripBundleMid(offer) = StripBundleMid(sdp)
  BY StripOfEnsure
<1> HIDE DEF offer, W
<1>2. kept \in Seq(W)
  BY <1>1, WithoutIs
<1>3. StripBundleMid(kept) = StripBundleMid(offer)
  <2>1. {"group"} \subseteq {"mid", "group"}
    OBVIOUS
  <2> QED
    BY <1>1, <2>1, WithoutTwice DEF StripBundleMid
<1> HIDE DEF kept
<1>4. StripBundleMid(EnsureBundleMid(kept)) = StripBundleMid(kept)
  BY <1>2, StripOfEnsure
<1> QED
  BY <1>1, <1>3, <1>4 DEF AnswerTo, kept, offer

\* The caller's answer has its own sections again, and neither a mid nor a group:
\* what the gateway and OpenAI put in for each other does not reach telephony.
THEOREM SymmetricAnswers == Spec => []AnswerSymmetric
<1>1. OfferInv => AnswerSymmetric
  <2> SUFFICES ASSUME OfferInv, NEW c \in Calls, NEW r \in response[c], r.code = 200
               PROVE  Plain(r.sdp) /\ (Plain(invite[c].offer) => r.sdp = invite[c].offer)
    BY DEF AnswerSymmetric
  <2> DEFINE in == invite[c].offer
  <2>1. in \in Seq(Lines(Mids))
    BY OfferType
  <2>2. r.sdp = StripBundleMid(AnswerTo(EnsureBundleMid(in)))
    BY DEF OfferInv, SdpInv
  <2> HIDE DEF in
  <2>3. r.sdp = Without({"mid", "group"}, in)
    BY <2>1, <2>2, AnswerIsStripped DEF StripBundleMid
  <2> QED
    BY <2>1, <2>3, WithoutIs DEF Plain, in
<1> QED
  BY InitOffer, NextOffer, <1>1, PTL DEF Spec

\* OpenAI is offered what the caller offered and nothing else, but for mids and groups
\* that make it a description WebRTC understands, however many sections it has and
\* whatever lines are in them (EnsureBundleMid).
THEOREM OffersAreIdiomatic == Spec => []OfferIdiomatic
<1>1. OfferInv => OfferIdiomatic
  <2> SUFFICES ASSUME OfferInv, NEW c \in Calls, NEW o \in offered[c]
               PROVE  LET in == invite[c].offer
                      IN  /\ OnlyAdds(in, o.sdp)
                          /\ \A i \in Sections(o.sdp) : ~Assigned(o.sdp, i)
                          /\ ~HasGroup(in) => Idiomatic(o.sdp)
                          /\ Plain(in) => Distinct(o.sdp)
                          /\ EnsureBundleMid(o.sdp) = o.sdp
    BY DEF OfferIdiomatic
  <2> DEFINE in == invite[c].offer
             L == Lines(Mids)
  <2>1. in \in Seq(L) /\ o.sdp = EnsureBundleMid(in)
    BY OfferType DEF OfferInv, SdpInv
  <2>2. ItoaIsInjective(Cardinality(Sections(in)))
    BY SetupAssumption DEF OfferInv, OwnInv
  <2> HIDE DEF in, L
  <2>3. /\ \A i \in Sections(EnsureBundleMid(in)) : ~Assigned(EnsureBundleMid(in), i)
        /\ ~HasGroup(in) => Idiomatic(EnsureBundleMid(in))
    BY <2>1, EnsureIsIdiomatic
  <2>4. Plain(in) => Distinct(EnsureBundleMid(in))
    BY <2>1, <2>2, EnsureIsDistinct
  <2>5. OnlyAdds(in, EnsureBundleMid(in)) /\ EnsureBundleMid(EnsureBundleMid(in)) = EnsureBundleMid(in)
    BY <2>1, OnlyAddsEnsure, EnsureTwice
  <2> QED
    BY <2>1, <2>3, <2>4, <2>5 DEF in
<1> QED
  BY InitOffer, NextOffer, <1>1, PTL DEF Spec
=============================================================================

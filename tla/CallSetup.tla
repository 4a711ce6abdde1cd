------------------------------ MODULE CallSetup ------------------------------
(***************************************************************************)
(* What one call of sip2openai asks of OpenAI and answers its caller:      *)
(* onInvite from the X-Sip2ai-Config header to the sideband, for several   *)
(* calls that share the server's configuration and its OpenAI client.      *)
(* Who ends a call, and when, is Gateway's business; here a call that was  *)
(* answered may end, for the request that this sends.                      *)
(* A definition marked "mutant" is a plausible bug in the definition that  *)
(* follows it; no action uses it.                                          *)
(***************************************************************************)
EXTENDS SdpNormalize

CONSTANTS
  Calls,     \* the calls the gateway receives
  Keys,      \* API keys
  NoKey,     \* a blank one
  Models,    \* model names
  NoModel,   \* the empty one
  Mids,      \* what an a=mid: of the caller may say
  Prompts,   \* prompts; they stand for voice, greeting and tool texts too
  Names,     \* names of transfer destinations
  Config,    \* the server's OpenAIConfig and transfers, as Load returned them
  Invites,   \* what the model draws an INVITE from
  Statuses   \* HTTP statuses with which OpenAI refuses a call

\* A transfer destination: a number or URI, blank or not, and what surrounds it.
Destinations == [scheme : {"", "tel", "sip"}, blank : BOOLEAN, padded : BOOLEAN]
Transfers    == UNION {[D -> Destinations] : D \in SUBSET Names}

\* A field of the header is a set of at most one value: a Go pointer.
Optional(S) == {{}} \cup {{x} : x \in S}

\* X-Sip2ai-Config: a key as it was written, blank or padded perhaps.
Headers ==
  [form : {"absent", "malformed", "override"},
   key : Optional([text : Keys \cup {NoKey}, padded : BOOLEAN]),
   model : Optional(Models \cup {NoModel}), prompt : Optional(Prompts),
   negativeDelay : BOOLEAN, transfers : Optional(Transfers)]

\* An empty body is no offer at all.
AnyInvite == [header : Headers, body : BOOLEAN, offer : Seq(Lines(Mids))]

\* Of a blank value not even the blanks are trimmed.
NormalizeTransfer(d) ==
  IF d.blank THEN d
  ELSE [d EXCEPT !.padded = FALSE, !.scheme = IF @ = "" THEN "tel" ELSE @]

NormalizeTransfers(m) == [name \in DOMAIN m |-> NormalizeTransfer(m[name])]

\* Load has normalised the server's destinations.
ASSUME SetupAssumption ==
  /\ \A i \in Invites : i \in [Calls -> AnyInvite]
  /\ Config \in [key : Keys, model : Models, prompt : Prompts, transfers : Transfers]
  /\ NormalizeTransfers(Config.transfers) = Config.transfers
  /\ NoModel \notin Models /\ NoKey \notin Keys
  /\ Statuses \subseteq 300 .. 599
  /\ \A i \in Invites, c \in Calls : ItoaIsInjective(Cardinality(Sections(i[c].offer)))

VARIABLES
  invite,    \* the INVITE of each call
  pc,        \* onInvite of each call
  config,    \* Server.oaiCfg and Server.transfers
  client,    \* Server.oai: its key and model
  cfg,       \* the effective configuration of a call
  own,       \* the client WithAPIKey made for a call, if it made one
  offered,   \* the request of CreateCall
  answer,    \* OpenAI's reply, and whether it gave an id
  control,   \* the sideband's credentials and session
  dials,     \* keys of the sidebands that were dialled
  hangups,   \* keys of the hangup requests
  response   \* the final response to the INVITE, with X-Sip2ai-Error

shared   == <<config, client>>
requests == <<offered, dials, hangups>>
vars == <<invite, pc, shared, cfg, own, requests, answer, control, response>>

\* The type invariant.  An effective model may be the empty one, the client's never.
TypeOK ==
  \A c \in Calls :
    /\ pc[c] \in {"invited", "client", "read", "waiting", "answered", "sideband", "up", "over"}
    /\ \A conf \in {config, cfg[c]} :
         conf.key \in Keys /\ conf.model \in Models \cup {NoModel} /\ conf.prompt \in Prompts
    /\ \A x \in own[c] \cup {client} : x.key \in Keys /\ x.model \in Models
    /\ \A o \in offered[c] : o.key \in Keys /\ o.model \in Models
    /\ \A x \in answer[c] : x.status \in {201} \cup Statuses /\ x.id \in BOOLEAN
    /\ \A x \in control[c] : x.key \in Keys /\ x.prompt \in Prompts
    /\ dials[c] \cup hangups[c] \subseteq Keys
    /\ \A x \in response[c] : x.code \in {200, 400, 403, 480, 488, 502}

Init ==
  /\ invite \in Invites
  /\ pc = [c \in Calls |-> "invited"]
  /\ config = Config
  /\ client = [key |-> Config.key, model |-> Config.model]
  /\ cfg = [c \in Calls |-> Config]
  /\ own = [c \in Calls |-> {}]
  /\ offered = [c \in Calls |-> {}]
  /\ answer = [c \in Calls |-> {}]
  /\ control = [c \in Calls |-> {}]
  /\ dials = [c \in Calls |-> {}]
  /\ hangups = [c \in Calls |-> {}]
  /\ response = [c \in Calls |-> {}]

Header(c) == invite[c].header
HasOverride(c) == Header(c).form = "override"
CallerKey(c) == HasOverride(c) /\ Header(c).key # {}

The(S) == CHOOSE x \in S : TRUE

\* The client of a call: WithAPIKey's, or the server's as it is now.
ClientOf(c) == IF own[c] = {} THEN client ELSE The(own[c])

Goto(c, from, to) == pc[c] = from /\ pc' = [pc EXCEPT ![c] = to]

Respond(c, code, detail, sdp) ==
  response' = [response EXCEPT ![c] = {[code |-> code, detail |-> detail, sdp |-> sdp]}]

-----------------------------------------------------------------------------
(***************************************************************************)
(* The header and the configuration of the call.                           *)
(***************************************************************************)

\* CallOverride.Validate.
Valid(o) == ~o.negativeDelay /\ \A k \in o.key : k.text # NoKey

OfIfGiven(field, default) == IF field = {} THEN default ELSE The(field)

\* Config.WithOverride: the key is trimmed, the destinations replace the
\* server's.
WithOverride(base, o) ==
  [key       |-> IF o.key = {} THEN base.key ELSE The(o.key).text,
   model     |-> OfIfGiven(o.model, base.model),
   prompt    |-> OfIfGiven(o.prompt, base.prompt),
   transfers |-> IF o.transfers = {} THEN base.transfers
                 ELSE NormalizeTransfers(The(o.transfers))]

\* No body, or a header that does not parse or is not valid.
Reject(c) ==
  /\ \/ ~invite[c].body
     \/ Header(c).form = "malformed"
     \/ HasOverride(c) /\ ~Valid(Header(c))
  /\ Goto(c, "invited", "over")
  /\ Respond(c, 400, IF invite[c].body THEN "header" ELSE "none", <<>>)
  /\ UNCHANGED <<invite, shared, cfg, own, requests, answer, control>>

ConfigureInPlace(c) ==   \* mutant: the override is written to the server's config
  /\ invite[c].body
  /\ Header(c).form # "malformed"
  /\ HasOverride(c) => Valid(Header(c))
  /\ Goto(c, "invited", "client")
  /\ config' = IF HasOverride(c) THEN WithOverride(config, Header(c)) ELSE config
  /\ cfg' = [cfg EXCEPT ![c] = config']
  /\ UNCHANGED <<invite, client, own, requests, answer, control, response>>

Configure(c) ==
  /\ invite[c].body
  /\ Header(c).form # "malformed"
  /\ HasOverride(c) => Valid(Header(c))
  /\ Goto(c, "invited", "client")
  /\ cfg' = [cfg EXCEPT ![c] = IF HasOverride(c) THEN WithOverride(config, Header(c))
                               ELSE config]
  /\ UNCHANGED <<invite, shared, own, requests, answer, control, response>>

WithAPIKeyInPlace(c, key) ==   \* mutant: the struct is not copied
  /\ client' = [client EXCEPT !.key = key]
  /\ UNCHANGED own

\* WithAPIKey: the same client when the key is the same.
WithAPIKey(c, key) ==
  /\ own' = [own EXCEPT ![c] = IF key = client.key THEN {} ELSE {[client EXCEPT !.key = key]}]
  /\ UNCHANGED client

PickClient(c) ==
  /\ Goto(c, "client", "read")
  /\ IF CallerKey(c) THEN WithAPIKey(c, cfg[c].key) ELSE UNCHANGED <<own, client>>
  /\ UNCHANGED <<invite, config, cfg, requests, answer, control, response>>

-----------------------------------------------------------------------------
(***************************************************************************)
(* The offer to OpenAI and its answer to the caller.                       *)
(***************************************************************************)

ReadInviteFails(c) ==
  /\ Goto(c, "read", "over")
  /\ UNCHANGED <<invite, shared, cfg, own, requests, answer, control, response>>

\* ReadInvite, the 100, and CreateCall's request.
Offer(c) ==
  /\ Goto(c, "read", "waiting")
  /\ offered' = [offered EXCEPT ![c] =
       {[key   |-> ClientOf(c).key,
         model |-> IF cfg[c].model = NoModel THEN ClientOf(c).model ELSE cfg[c].model,
         sdp   |-> EnsureBundleMid(invite[c].offer)]}]
  /\ UNCHANGED <<invite, shared, cfg, own, answer, control, dials, hangups, response>>

\* OpenAI answers every section, under its mid and in one group.
AnswerTo(sdp) == EnsureBundleMid(Without({"group"}, sdp))

\* A reply without a Location header gives no id.
Created(c) ==
  /\ Goto(c, "waiting", "answered")
  /\ \E id \in BOOLEAN :
       answer' = [answer EXCEPT ![c] =
         {[status |-> 201, sdp |-> AnswerTo(The(offered[c]).sdp), id |-> id]}]
  /\ UNCHANGED <<invite, shared, cfg, own, requests, control, response>>

CredentialsBlamedOnCaller(status, callerKey) ==   \* mutant: whose key it was is lost
  CASE status \in {401, 403} -> <<403, "openai">>
    [] status = 429 -> <<480, "openai">>
    [] status \in 400 .. 499 \ {401, 403, 429} -> <<488, "openai">>
    [] status \notin 400 .. 499 -> <<502, "openai">>

\* createCallStatus: the code, and whether the detail is OpenAI's message.
CreateCallStatus(status, callerKey) ==
  CASE status \in {401, 403} -> IF callerKey THEN <<403, "openai">> ELSE <<502, "reason">>
    [] status = 429 -> <<480, "openai">>
    [] status \in 400 .. 499 \ {401, 403, 429} -> <<488, "openai">>
    [] status \notin 400 .. 499 -> <<502, "openai">>

Refused(c) ==
  /\ Goto(c, "waiting", "over")
  /\ \E status \in Statuses :
       LET said == CreateCallStatus(status, CallerKey(c))
       IN  /\ Respond(c, said[1], said[2], <<>>)
           /\ answer' = [answer EXCEPT ![c] = {[status |-> status, sdp |-> <<>>, id |-> FALSE]}]
  /\ UNCHANGED <<invite, shared, cfg, own, requests, control>>

\* No reply: a timeout, a network error, or the caller's CANCEL.
Unreachable(c) ==
  /\ Goto(c, "waiting", "over")
  /\ Respond(c, 502, "network", <<>>)
  /\ UNCHANGED <<invite, shared, cfg, own, requests, answer, control>>

\* RespondSDP returns with the ACK; NewControl copies the key.
Answered(c) ==
  /\ Goto(c, "answered", "sideband")
  /\ Respond(c, 200, "none", StripBundleMid(The(answer[c]).sdp))
  /\ control' = [control EXCEPT ![c] = {[key |-> ClientOf(c).key, prompt |-> cfg[c].prompt,
                                         transfers |-> cfg[c].transfers]}]
  /\ UNCHANGED <<invite, shared, cfg, own, requests, answer>>

\* Client.Hangup: nothing without an id.
HangupOpenAI(c) ==
  hangups' = [hangups EXCEPT ![c] = IF The(answer[c]).id THEN @ \cup {ClientOf(c).key} ELSE @]

\* The 200 was sent or not, but there is no ACK.
NotAnswered(c) ==
  /\ Goto(c, "answered", "over")
  /\ HangupOpenAI(c)
  /\ UNCHANGED <<invite, shared, cfg, own, offered, dials, answer, control, response>>

\* Control.Start; without it the call goes on.
Sideband(c) ==
  /\ Goto(c, "sideband", "up")
  /\ dials' = [dials EXCEPT ![c] = @ \cup {The(control[c]).key}]
  /\ UNCHANGED <<invite, shared, cfg, own, offered, hangups, answer, control, response>>

\* endCall, as soon as the call is registered.
Ends(c) ==
  /\ pc[c] \in {"sideband", "up"}
  /\ hangups[c] = {}
  /\ HangupOpenAI(c)
  /\ UNCHANGED <<invite, pc, shared, cfg, own, offered, dials, answer, control, response>>

-----------------------------------------------------------------------------
Next ==
  \E c \in Calls :
    \/ Reject(c) \/ Configure(c) \/ PickClient(c)
    \/ ReadInviteFails(c) \/ Offer(c)
    \/ Created(c) \/ Refused(c) \/ Unreachable(c)
    \/ Answered(c) \/ NotAnswered(c) \/ Sideband(c) \/ Ends(c)

Spec == Init /\ [][Next]_vars

-----------------------------------------------------------------------------
(***************************************************************************)
(* Properties.                                                             *)
(***************************************************************************)

\* Every request made for a call (offer, sideband, hangup) carries one key: the
\* caller's, trimmed, or the one the server started with.  No call ever uses the
\* key of another, however their handlers interleave.
OneKey ==
  \A c \in Calls :
    {o.key : o \in offered[c]} \cup dials[c] \cup hangups[c]
      \subseteq {IF CallerKey(c) THEN The(Header(c).key).text ELSE Config.key}

\* A call gets the model, the prompt and the destinations of its own header, and
\* for what it leaves out those the server started with; a destination that is not
\* blank is a URI, and goes out without blanks around it.
OwnSession ==
  TypeOK /\ \A c \in Calls :
    LET Wanted(field, default) == IF HasOverride(c) THEN OfIfGiven(field, default) ELSE default
        model     == Wanted(Header(c).model, Config.model)
        transfers == Wanted(Header(c).transfers, Config.transfers)
    IN  /\ \A o \in offered[c] : o.model = IF model = NoModel THEN Config.model ELSE model
        /\ \A session \in control[c] :
             /\ session.prompt = Wanted(Header(c).prompt, Config.prompt)
             /\ DOMAIN session.transfers = DOMAIN transfers
             /\ \A name \in DOMAIN transfers :
                  IF transfers[name].blank
                  THEN session.transfers[name] = transfers[name]
                  ELSE /\ session.transfers[name].scheme # "" /\ ~session.transfers[name].padded
                       /\ transfers[name].scheme \in {"", session.transfers[name].scheme}

\* OpenAI's refusal of the server's own key is never the caller's fault, and its
\* message, which shows a part of the key, is not the caller's to see; 403 tells
\* the caller of its own key, and nothing that was refused before the offer costs
\* a request.
RefusalTellsWhose ==
  \A c \in Calls : \A r \in response[c] :
    /\ r.code = 403 => CallerKey(c)
    /\ r.code = 400 => offered[c] = {}
    /\ \A a \in answer[c] :
         a.status \in {401, 403} /\ ~CallerKey(c) => r.code = 502 /\ r.detail # "openai"

\* OpenAI is offered what the caller offered with mids and a group put in and no
\* other change: every section has a mid, the group lists them all unless the
\* caller brought one, they differ unless the caller chose some, and to rewrite
\* it again would change nothing.
OfferIdiomatic ==
  \A c \in Calls : \A o \in offered[c] :
    LET in == invite[c].offer
    IN  /\ OnlyAdds(in, o.sdp)
        /\ \A i \in Sections(o.sdp) : ~Assigned(o.sdp, i)
        /\ ~HasGroup(in) => Idiomatic(o.sdp)
        /\ Plain(in) => Distinct(o.sdp)
        /\ EnsureBundleMid(o.sdp) = o.sdp

\* A caller that offered neither mids nor a group gets an answer that is symmetric
\* to its offer: the same sections, and neither a mid nor a group.
AnswerSymmetric ==
  \A c \in Calls : \A r \in response[c] :
    r.code = 200 => /\ Plain(r.sdp)
                    /\ Plain(invite[c].offer) => r.sdp = invite[c].offer
=============================================================================

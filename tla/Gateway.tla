------------------------------ MODULE Gateway ------------------------------
(***************************************************************************)
(* The signalling gateway sip2openai: the INVITE handler, the dialog, the  *)
(* registry of active calls, the sideband control of each call and the     *)
(* three ways a call is torn down (caller BYE, final NOTIFY of a transfer, *)
(* hangup_call from the model).  Every goroutine has its own program       *)
(* counter; one action is the code between two points where another        *)
(* goroutine can be seen (a lock, a network call, a channel).              *)
(* A definition marked "mutant" is a plausible bug in the definition that  *)
(* follows it; no action uses it.                                          *)
(*                                                                         *)
(* A leg is one INVITE accepted by onInvite.  Legs with the same SIP       *)
(* Call-ID (a re-INVITE) share one entry of the registry.                  *)
(***************************************************************************)
EXTENDS Naturals

CONSTANTS
  Legs,         \* INVITEs the gateway receives
  CallIds,      \* SIP Call-IDs
  CallIdOf,     \* the Call-ID header of each leg
  NoLeg,        \* "no entry" (a nil *activeCall)
  NoUsage,      \* "no usage value" (header absent, nothing logged)
  MaxUsage,     \* bound on the response.done events of one call
  Greeting,     \* TRUE iff a greeting is configured
  Replies,      \* what OpenAI's 201 brings: "known" the call id, "orphan" no
                \* Location header, hence an empty id
  Events        \* the sideband events OpenAI sends that change the state:
                \*   "usage"     response.done
                \*   "speech"    input_audio_buffer.speech_started
                \*   "hangup"    a hangup_call item
                \*   "transfer"  a transfer_call item, known destination

ASSUME LegsAssumption ==
  /\ NoLeg \notin Legs
  /\ CallIdOf \in [Legs -> CallIds]
ASSUME UsageAssumption == MaxUsage \in Nat /\ NoUsage \notin Nat
ASSUME ConfigAssumption ==
  /\ Greeting \in BOOLEAN
  /\ Replies \subseteq {"known", "orphan"}
  /\ Events \subseteq {"usage", "speech", "hangup", "transfer"}

(***************************************************************************)
(* Teardown can be asked for by three goroutines of a leg; each is a task. *)
(***************************************************************************)
Kinds == {"bye", "notify", "model"}
Tasks == Legs \X Kinds

VARIABLES
  inv,       \* onInvite: where the handler of each leg is
  dlg,       \* the SIP dialog of each leg, as sipgo tracks it
  oai,       \* the OpenAI call: none, known (id in hand) or orphan (id lost or empty)
  hangups,   \* POST .../hangup requests issued for each leg
  calls,     \* Server.calls: Call-ID -> leg
  conn,      \* Control.conn
  done,      \* Control.done is closed
  recv,      \* Control.recvLoop
  keep,      \* Control.keepalive is running
  greet,     \* the greeter goroutine of GreetAfter
  spoke,     \* Control.callerSpoke
  usage,     \* Control.usage (number of response.done tallied)
  referred,  \* a REFER went out to the caller
  tpc,       \* where each teardown task is
  victim,    \* the activeCall a task took out of the registry
  snap,      \* usage header onBye prepared before ReadBye
  hdr,       \* usage header that went out on the BYE or on its 200 OK
  byeErr,    \* the gateway's BYE returned an error ("send BYE failed")
  logged     \* usage that Close logged ("sideband closed")

vars == <<inv, dlg, oai, hangups, calls, conn, done, recv, keep, greet,
          spoke, usage, referred, tpc, victim, snap, hdr, byeErr, logged>>

legVars  == <<inv, dlg, oai, hangups, calls>>
ctrlVars == <<conn, done, recv, keep, greet, spoke, usage, referred>>
taskVars == <<tpc, victim, snap, hdr, byeErr, logged>>

InvStates  == {"idle", "rejected", "creating", "failed", "answering", "abort",
               "acked", "dialing", "configuring", "greeting", "done"}
Registered == {"dialing", "configuring", "greeting", "done"}
DlgStates  == {"none", "early", "answered", "confirmed", "ended", "cancelled"}
OaiStates  == {"none", "known", "orphan"}
ConnStates == {"nil", "open", "closed"}
RecvStates == {"off", "read", "usage", "speech", "hangup", "ending",
               "transfer", "refering", "exit"}
GreetStates == {"off", "wait", "send", "said", "dropped"}
TaskStates == {"idle", "readbye", "take", "sendbye", "closedone",
               "closeconn", "hang", "over"}

TypeOK ==
  /\ inv      \in [Legs -> InvStates]
  /\ dlg      \in [Legs -> DlgStates]
  /\ oai      \in [Legs -> OaiStates]
  /\ hangups  \in [Legs -> Nat]
  /\ calls    \in [CallIds -> Legs \cup {NoLeg}]
  /\ conn     \in [Legs -> ConnStates]
  /\ done     \in [Legs -> BOOLEAN]
  /\ recv     \in [Legs -> RecvStates]
  /\ keep     \in [Legs -> BOOLEAN]
  /\ greet    \in [Legs -> GreetStates]
  /\ spoke    \in [Legs -> BOOLEAN]
  /\ usage    \in [Legs -> Nat]
  /\ referred \in [Legs -> BOOLEAN]
  /\ tpc      \in [Tasks -> TaskStates]
  /\ victim   \in [Tasks -> Legs \cup {NoLeg}]
  /\ snap     \in [Legs -> Nat \cup {NoUsage}]
  /\ hdr      \in [Legs -> Nat \cup {NoUsage}]
  /\ byeErr   \in [Legs -> BOOLEAN]
  /\ logged   \in [Legs -> Nat \cup {NoUsage}]

Init ==
  /\ inv      = [i \in Legs |-> "idle"]
  /\ dlg      = [i \in Legs |-> "none"]
  /\ oai      = [i \in Legs |-> "none"]
  /\ hangups  = [i \in Legs |-> 0]
  /\ calls    = [c \in CallIds |-> NoLeg]
  /\ conn     = [i \in Legs |-> "nil"]
  /\ done     = [i \in Legs |-> FALSE]
  /\ recv     = [i \in Legs |-> "off"]
  /\ keep     = [i \in Legs |-> FALSE]
  /\ greet    = [i \in Legs |-> "off"]
  /\ spoke    = [i \in Legs |-> FALSE]
  /\ usage    = [i \in Legs |-> 0]
  /\ referred = [i \in Legs |-> FALSE]
  /\ tpc      = [t \in Tasks |-> "idle"]
  /\ victim   = [t \in Tasks |-> NoLeg]
  /\ snap     = [i \in Legs |-> NoUsage]
  /\ hdr      = [i \in Legs |-> NoUsage]
  /\ byeErr   = [i \in Legs |-> FALSE]
  /\ logged   = [i \in Legs |-> NoUsage]

Step(pc, i, from, to) ==
  /\ pc[i] = from
  /\ pc' = [pc EXCEPT ![i] = to]

-----------------------------------------------------------------------------
(***************************************************************************)
(* The INVITE handler, Server.onInvite.                                    *)
(***************************************************************************)

\* An INVITE is answered 400 (no SDP offer, malformed X-Sip2ai-Config) or
\* dropped (ReadInvite fails); otherwise the dialog exists and 100 is sent.
RejectInvite(i) ==
  /\ Step(inv, i, "idle", "rejected")
  /\ UNCHANGED <<dlg, oai, hangups, calls, ctrlVars, taskVars>>

AcceptInvite(i) ==
  /\ Step(inv, i, "idle", "creating")
  /\ dlg' = [dlg EXCEPT ![i] = "early"]
  /\ UNCHANGED <<oai, hangups, calls, ctrlVars, taskVars>>

\* CreateCall returns the answer; RespondSDP sends the 200 OK on a live dialog.
CreateCallOk(i) ==
  /\ Step(inv, i, "creating", "answering")
  /\ \E o \in Replies : oai' = [oai EXCEPT ![i] = o]
  /\ dlg' = [dlg EXCEPT ![i] = IF @ = "early" THEN "answered" ELSE @]
  /\ UNCHANGED <<hangups, calls, ctrlVars, taskVars>>

\* CreateCall fails.  When the request reached OpenAI and the reply was lost
\* (dlg.Context() cancelled, connection reset) a call exists there whose id
\* the gateway never learns.
CreateCallFails(i) ==
  /\ Step(inv, i, "creating", "failed")
  /\ \E o \in {"none", "orphan"} : oai' = [oai EXCEPT ![i] = o]
  /\ dlg' = [dlg EXCEPT ![i] = "cancelled"]
  /\ UNCHANGED <<hangups, calls, ctrlVars, taskVars>>

\* RespondSDP returns nil once the caller's ACK confirmed the dialog.
AnswerAcked(i) ==
  /\ dlg[i] \in {"confirmed", "ended"}
  /\ Step(inv, i, "answering", "acked")
  /\ UNCHANGED <<dlg, oai, hangups, calls, ctrlVars, taskVars>>

\* RespondSDP fails: no ACK in time, or the dialog is gone.
AnswerFails(i) ==
  /\ dlg[i] # "confirmed"
  /\ Step(inv, i, "answering", "abort")
  /\ dlg' = [dlg EXCEPT ![i] = IF @ = "answered" THEN "cancelled" ELSE @]
  /\ UNCHANGED <<oai, hangups, calls, ctrlVars, taskVars>>

HangupForgotten(i) == UNCHANGED hangups   \* mutant

\* POST .../hangup; "an empty callID is a no-op".
HangupOpenAI(i) ==
  hangups' = [hangups EXCEPT ![i] = IF oai[i] = "known" THEN @ + 1 ELSE @]

AbortAnswered(i) ==
  /\ Step(inv, i, "abort", "failed")
  /\ HangupOpenAI(i)
  /\ UNCHANGED <<dlg, oai, calls, ctrlVars, taskVars>>

Register(i) ==
  /\ Step(inv, i, "acked", "dialing")
  /\ calls' = [calls EXCEPT ![CallIdOf[i]] = i]
  /\ UNCHANGED <<dlg, oai, hangups, ctrlVars, taskVars>>

\* Control.Start: dial, then session.update, then the two loops.
DialOk(i) ==
  /\ Step(inv, i, "dialing", "configuring")
  /\ conn' = [conn EXCEPT ![i] = "open"]
  /\ UNCHANGED <<dlg, oai, hangups, calls, done, recv, keep, greet, spoke,
                 usage, referred, taskVars>>

DialFails(i) ==
  /\ Step(inv, i, "dialing", "done")
  /\ UNCHANGED <<dlg, oai, hangups, calls, ctrlVars, taskVars>>

ConfigureOk(i) ==
  /\ conn[i] = "open"
  /\ Step(inv, i, "configuring", "greeting")
  /\ recv' = [recv EXCEPT ![i] = "read"]
  /\ keep' = [keep EXCEPT ![i] = TRUE]
  /\ UNCHANGED <<dlg, oai, hangups, calls, conn, done, greet, spoke, usage,
                 referred, taskVars>>

ConfigureFails(i) ==
  /\ Step(inv, i, "configuring", "done")
  /\ conn' = [conn EXCEPT ![i] = "closed"]
  /\ UNCHANGED <<dlg, oai, hangups, calls, done, recv, keep, greet, spoke,
                 usage, referred, taskVars>>

\* GreetAfter: no-op without a greeting, else a goroutine of its own.
GreetAfter(i) ==
  /\ Step(inv, i, "greeting", "done")
  /\ greet' = [greet EXCEPT ![i] = IF Greeting THEN "wait" ELSE @]
  /\ UNCHANGED <<dlg, oai, hangups, calls, conn, done, recv, keep, spoke,
                 usage, referred, taskVars>>

-----------------------------------------------------------------------------
(***************************************************************************)
(* The caller.                                                             *)
(***************************************************************************)

CallerCancels(i) ==
  /\ Step(dlg, i, "early", "cancelled")
  /\ UNCHANGED <<inv, oai, hangups, calls, ctrlVars, taskVars>>

Ack(i) ==
  /\ Step(dlg, i, "answered", "confirmed")
  /\ UNCHANGED <<inv, oai, hangups, calls, ctrlVars, taskVars>>

\* onBye up to ReadBye: look the call up and prepare the usage header.  The
\* BYE may overtake the ACK, or cross the gateway's own BYE.
ByeArrives(i) ==
  LET ac == calls[CallIdOf[i]] IN
  /\ dlg[i] \in {"answered", "confirmed", "ended"}
  /\ Step(tpc, <<i, "bye">>, "idle", "readbye")
  /\ snap' = [snap EXCEPT ![i] = IF ac = NoLeg THEN NoUsage ELSE usage[ac]]
  /\ UNCHANGED <<legVars, ctrlVars, victim, hdr, byeErr, logged>>

\* ReadBye answers 200 OK and ends the dialog; it fails on an ended dialog.
ReadBye(i) ==
  /\ Step(tpc, <<i, "bye">>, "readbye", "take")
  /\ IF dlg[i] \in {"answered", "confirmed"}
     THEN /\ dlg' = [dlg EXCEPT ![i] = IF @ = "confirmed" THEN "ended"
                                                          ELSE "cancelled"]
          /\ hdr' = [hdr EXCEPT ![i] = snap[i]]
     ELSE UNCHANGED <<dlg, hdr>>
  /\ snap' = [snap EXCEPT ![i] = NoUsage]
  /\ UNCHANGED <<inv, oai, hangups, calls, ctrlVars, victim, byeErr, logged>>

\* onNotify with a final sipfrag status; provisional ones change nothing.
NotifyFinal(i) ==
  /\ referred[i]
  /\ Step(tpc, <<i, "notify">>, "idle", "take")
  /\ UNCHANGED <<legVars, ctrlVars, victim, snap, hdr, byeErr, logged>>

-----------------------------------------------------------------------------
(***************************************************************************)
(* Control.recvLoop: one sideband event at a time.  An event that was read *)
(* is still handled when the socket is closed meanwhile.                   *)
(***************************************************************************)

RecvEvent(i) ==
  /\ conn[i] = "open"
  /\ \E e \in Events : /\ e = "usage" => usage[i] < MaxUsage
                       /\ Step(recv, i, "read", e)
  /\ UNCHANGED <<legVars, conn, done, keep, greet, spoke, usage, referred,
                 taskVars>>

RecvError(i) ==
  /\ Step(recv, i, "read", "exit")
  /\ UNCHANGED <<legVars, conn, done, keep, greet, spoke, usage, referred,
                 taskVars>>

ParseUsage(i) ==
  /\ Step(recv, i, "usage", "read")
  /\ usage' = [usage EXCEPT ![i] = @ + 1]
  /\ UNCHANGED <<legVars, conn, done, keep, greet, spoke, referred, taskVars>>

SpeechStarted(i) ==
  /\ Step(recv, i, "speech", "read")
  /\ spoke' = [spoke EXCEPT ![i] = TRUE]
  /\ UNCHANGED <<legVars, conn, done, keep, greet, usage, referred, taskVars>>

\* hangup_call: function result and goodbye are written, OnHangup runs
\* endCall on this goroutine.
ModelHangup(i) ==
  /\ Step(recv, i, "hangup", "ending")
  /\ tpc' = [tpc EXCEPT ![<<i, "model">>] = "take"]
  /\ UNCHANGED <<legVars, conn, done, keep, greet, spoke, usage, referred,
                 victim, snap, hdr, byeErr, logged>>

\* transfer_call with a known destination: sendRefer on a confirmed dialog.
SendRefer(i) ==
  /\ Step(recv, i, "transfer", IF dlg[i] = "confirmed" THEN "refering"
                                                       ELSE "read")
  /\ referred' = [referred EXCEPT ![i] = @ \/ dlg[i] = "confirmed"]
  /\ UNCHANGED <<legVars, conn, done, keep, greet, spoke, usage, taskVars>>

\* The REFER transaction ends: 202, another status, or the 5s timeout.
ReferEnds(i) ==
  /\ Step(recv, i, "refering", "read")
  /\ UNCHANGED <<legVars, conn, done, keep, greet, spoke, usage, referred,
                 taskVars>>

-----------------------------------------------------------------------------
(***************************************************************************)
(* The keepalive goroutine and the greeter.                                *)
(***************************************************************************)

KeepaliveOnlyPings(i) ==   \* mutant: the loop does not select on done
  /\ keep[i]
  /\ ~done[i]
  /\ keep' = [keep EXCEPT ![i] = FALSE]
  /\ UNCHANGED <<legVars, conn, done, recv, greet, spoke, usage, referred,
                 taskVars>>

\* A closed done channel or a failed ping ends the loop; a stale sideband is
\* only logged.
KeepaliveStops(i) ==
  /\ keep[i]
  /\ keep' = [keep EXCEPT ![i] = FALSE]
  /\ UNCHANGED <<legVars, conn, done, recv, greet, spoke, usage, referred,
                 taskVars>>

GreeterDone(i) ==
  /\ done[i]
  /\ Step(greet, i, "wait", "dropped")
  /\ UNCHANGED <<legVars, conn, done, recv, keep, spoke, usage, referred,
                 taskVars>>

\* The timer fired; select may take it although done is closed too.
GreeterTimer(i) ==
  /\ Step(greet, i, "wait", IF spoke[i] THEN "dropped" ELSE "send")
  /\ UNCHANGED <<legVars, conn, done, recv, keep, spoke, usage, referred,
                 taskVars>>

\* A write on a closed socket fails and is ignored.
GreeterSend(i) ==
  /\ Step(greet, i, "send", IF conn[i] = "open" THEN "said" ELSE "dropped")
  /\ UNCHANGED <<legVars, conn, done, recv, keep, spoke, usage, referred,
                 taskVars>>

-----------------------------------------------------------------------------
(***************************************************************************)
(* endCall, run by task t of leg t[1] for the reason t[2].                 *)
(***************************************************************************)

ByeAfterClose(t, s) ==   \* mutant: the control is closed before the BYE
  CASE s = "take"      -> "closedone"
    [] s = "closedone" -> "closeconn"
    [] s = "closeconn" -> IF t[2] = "bye" THEN "hang" ELSE "sendbye"
    [] s = "sendbye"   -> "hang"

ByeNeverSent(t, s) ==   \* mutant: endCall always called with sendBye = false
  CASE s = "take"      -> "closedone"
    [] s = "sendbye"   -> "closedone"
    [] s = "closedone" -> "closeconn"
    [] s = "closeconn" -> "hang"

\* The order of endCall; the BYE is left out when the caller sent one.
After(t, s) ==
  CASE s = "take"      -> IF t[2] = "bye" THEN "closedone" ELSE "sendbye"
    [] s = "sendbye"   -> "closedone"
    [] s = "closedone" -> "closeconn"
    [] s = "closeconn" -> "hang"

Advance(t, s) == Step(tpc, t, s, After(t, s))

\* The task returns: a BYE handler ends, recvLoop goes on reading.
TaskReturns(t) ==
  /\ tpc' = [tpc EXCEPT ![t] = IF t[2] = "bye" THEN "over" ELSE "idle"]
  /\ recv' = IF t[2] = "model" THEN [recv EXCEPT ![t[1]] = "read"] ELSE recv

EntryKept(c) == UNCHANGED calls   \* mutant: endCall forgets the delete

RemoveEntry(c) == calls' = [calls EXCEPT ![c] = NoLeg]

\* Take the call out of the registry, under the lock.
TakeCall(t) ==
  LET c == CallIdOf[t[1]] IN
  /\ calls[c] # NoLeg
  /\ Advance(t, "take")
  /\ victim' = [victim EXCEPT ![t] = calls[c]]
  /\ RemoveEntry(c)
  /\ UNCHANGED <<inv, dlg, oai, hangups, ctrlVars, snap, hdr, byeErr, logged>>

AlreadyTornDown(t) ==
  /\ tpc[t] = "take"
  /\ calls[CallIdOf[t[1]]] = NoLeg
  /\ TaskReturns(t)
  /\ UNCHANGED <<legVars, conn, done, keep, greet, spoke, usage, referred,
                 victim, snap, hdr, byeErr, logged>>

\* sendByeWithHeaders: nothing goes out on a dialog that is not confirmed.  On
\* one that is, the BYE ends the dialog, or an error (it cannot be sent, no
\* answer within 5s) leaves it as it was; endCall logs the error and goes on.
\* The header is missing if nothing was sent or the INVITE had no Contact.
SendBye(t) ==
  LET v == victim[t] IN
  /\ Advance(t, "sendbye")
  /\ \/ dlg[v] # "confirmed" /\ UNCHANGED <<dlg, hdr, byeErr>>
     \/ /\ dlg[v] = "confirmed"
        /\ \/ UNCHANGED hdr
           \/ hdr' = [hdr EXCEPT ![v] = usage[v]]
        /\ \/ dlg' = [dlg EXCEPT ![v] = "ended"] /\ UNCHANGED byeErr
           \/ byeErr' = [byeErr EXCEPT ![v] = TRUE] /\ UNCHANGED dlg
  /\ UNCHANGED <<inv, oai, hangups, calls, ctrlVars, victim, snap, logged>>

\* Control.Close: close(done) once ...
CloseDone(t) ==
  /\ Advance(t, "closedone")
  /\ done' = [done EXCEPT ![victim[t]] = TRUE]
  /\ UNCHANGED <<legVars, conn, recv, keep, greet, spoke, usage, referred,
                 victim, snap, hdr, byeErr, logged>>

\* ... then, if Start already set conn, log the totals and close the socket.
CloseConn(t) ==
  LET v == victim[t] IN
  /\ Advance(t, "closeconn")
  /\ IF conn[v] = "nil"
     THEN UNCHANGED <<conn, logged>>
     ELSE /\ conn' = [conn EXCEPT ![v] = "closed"]
          /\ logged' = [logged EXCEPT ![v] = usage[v]]
  /\ UNCHANGED <<legVars, done, recv, keep, greet, spoke, usage, referred,
                 victim, snap, hdr, byeErr>>

Hang(t) ==
  /\ tpc[t] = "hang"
  /\ HangupOpenAI(victim[t])
  /\ TaskReturns(t)
  /\ victim' = [victim EXCEPT ![t] = NoLeg]
  /\ UNCHANGED <<inv, dlg, oai, calls, conn, done, keep, greet, spoke, usage,
                 referred, snap, hdr, byeErr, logged>>

-----------------------------------------------------------------------------
Handler(i) ==
  \/ CreateCallOk(i) \/ CreateCallFails(i)
  \/ AnswerAcked(i) \/ AnswerFails(i) \/ AbortAnswered(i)
  \/ Register(i) \/ DialOk(i) \/ DialFails(i)
  \/ ConfigureOk(i) \/ ConfigureFails(i) \/ GreetAfter(i)

Caller(i) ==
  \/ RejectInvite(i) \/ AcceptInvite(i) \/ CallerCancels(i) \/ Ack(i)
  \/ ByeArrives(i) \/ NotifyFinal(i)

EventHandling(i) ==
  \/ ParseUsage(i) \/ SpeechStarted(i) \/ ModelHangup(i)
  \/ SendRefer(i) \/ ReferEnds(i)

Greeter(i) == GreeterDone(i) \/ GreeterTimer(i) \/ GreeterSend(i)

EndCall(t) ==
  \/ TakeCall(t) \/ AlreadyTornDown(t) \/ SendBye(t)
  \/ CloseDone(t) \/ CloseConn(t) \/ Hang(t)

Next ==
  \/ \E i \in Legs : \/ Handler(i) \/ Caller(i) \/ ReadBye(i)
                     \/ RecvEvent(i) \/ RecvError(i) \/ EventHandling(i)
                     \/ KeepaliveStops(i) \/ Greeter(i)
  \/ \E t \in Tasks : EndCall(t)

\* A goroutine that can run does run, and every network call of the handlers
\* has a timeout.  Nothing forces the caller, OpenAI, or a failing ping.
Fairness ==
  /\ \A i \in Legs :
       /\ WF_vars(Handler(i))
       /\ WF_vars(ReadBye(i))
       /\ WF_vars(EventHandling(i))
       /\ WF_vars(Greeter(i))
       /\ WF_vars(done[i] /\ KeepaliveStops(i))
       /\ WF_vars(conn[i] = "closed" /\ RecvError(i))
  /\ \A t \in Tasks : WF_vars(EndCall(t))

Spec == Init /\ [][Next]_vars
FairSpec == Spec /\ Fairness

-----------------------------------------------------------------------------
(***************************************************************************)
(* Properties.                                                             *)
(***************************************************************************)

InRegistry(i)  == calls[CallIdOf[i]] = i
Claims(t, i)   == victim[t] = i
Claimed(i)     == \E t \in Tasks : Claims(t, i)
Tearing        == {"sendbye", "closedone", "closeconn", "hang"}
InModelTask    == {"take"} \cup Tearing

\* A call in the registry is answered, filed under its own Call-ID, not hung
\* up, its control not closed, and no teardown has taken it (endCall deletes
\* the entry before it touches the call).
RegistryLive ==
  \A c \in CallIds, i \in Legs : calls[c] = i =>
    /\ CallIdOf[i] = c
    /\ inv[i] \in Registered
    /\ ~done[i]
    /\ hangups[i] = 0
    /\ ~Claimed(i)

\* At most one of onBye, onNotify and OnHangup gets a call to tear down, and
\* while it has it the call has not been hung up ("tears down a call exactly
\* once", the comment of endCall).
ClaimedOnce ==
  /\ \A t \in Tasks : victim[t] = NoLeg <=> tpc[t] \notin Tearing
  /\ \A t \in Tasks, i \in Legs : Claims(t, i) =>
       /\ inv[i] \in Registered
       /\ hangups[i] = 0
       /\ \A u \in Tasks : Claims(u, i) => u = t

\* OnHangup runs endCall on the goroutine of recvLoop.
ModelTaskIsRecvLoop ==
  \A i \in Legs : recv[i] = "ending" <=> tpc[<<i, "model">>] \in InModelTask

\* No OpenAI call is hung up twice, nor one that was never created.
TeardownOnce ==
  \A i \in Legs :
    /\ hangups[i] <= 1
    /\ hangups[i] = 1 => /\ oai[i] = "known"
                         /\ inv[i] \in Registered \cup {"failed"}

\* There is no OpenAI call before CreateCall returned; until the call is
\* registered only its INVITE handler can hang it up.
IdKnown ==
  \A i \in Legs :
    /\ inv[i] \in {"idle", "rejected", "creating"} => oai[i] = "none"
    /\ inv[i] \in {"answering", "abort", "acked"} \cup Registered
         => /\ oai[i] # "none"
            /\ inv[i] \notin Registered => hangups[i] = 0

\* A control is closed only for a registered call, and its receive loop runs
\* only once Start has succeeded.
ControlAfterAnswer ==
  \A i \in Legs : /\ done[i] => inv[i] \in Registered
                  /\ recv[i] # "off" => inv[i] \in {"greeting", "done"}

\* The invariant the proofs use: inductive, for every CallIdOf.
IndInv == /\ TypeOK
          /\ RegistryLive
          /\ ClaimedOnce
          /\ ModelTaskIsRecvLoop
          /\ TeardownOnce
          /\ IdKnown
          /\ ControlAfterAnswer

\* The gateway implements CallLedger: every OpenAI call is opened once and
\* released at most once, after it was opened.
Ledger == INSTANCE CallLedger WITH
            opened   <- {i \in Legs : oai[i] = "known"},
            releases <- hangups

LedgerSpec == Ledger!Spec

\* No two INVITEs have the same Call-ID: callers start dialogs of their own and
\* send no re-INVITE.
DistinctCallIds == \A i, j \in Legs : CallIdOf[i] = CallIdOf[j] => i = j

\* With distinct Call-IDs no OpenAI call whose id the gateway has is ever
\* without an owner: its INVITE handler, the registry, one teardown, or it was
\* hung up already (onInvite, endCall).
Ownership ==
  \A i \in Legs : oai[i] = "known" =>
    \/ inv[i] \in {"answering", "abort", "acked"}
    \/ InRegistry(i)
    \/ Claimed(i)
    \/ hangups[i] = 1

\* With distinct Call-IDs the X-Sip2ai-Usage totals sent to the caller never
\* exceed the totals Close logs (usageHeaderFor is read before Close, and the
\* tally only grows).
HeaderWithinLog ==
  \A i \in Legs : hdr[i] # NoUsage /\ logged[i] # NoUsage => hdr[i] <= logged[i]

\* With distinct Call-IDs the OpenAI call is hung up under a caller who is still
\* in the dialog only if the gateway tried to end that dialog before and the BYE
\* failed, whichever of the three goroutines tears the call down and whatever
\* the caller sends meanwhile (endCall, which only logs the failure).
NeverCutLive ==
  [][\A i \in Legs : hangups'[i] > hangups[i]
       => dlg[i] # "confirmed" \/ byeErr[i]]_vars

\* A teardown that finds its call registered ends with the control closed and
\* the hangup sent, whatever the caller, OpenAI and the sideband do.
TeardownCompletes ==
  \A t \in Tasks : LET i == t[1] IN
    (tpc[t] = "take" /\ InRegistry(i))
      ~> (done[i] /\ (oai[i] = "known" => hangups[i] = 1))

\* Once the control is closed its keepalive and greeter goroutines end for
\* good, even when Start was still bringing the sideband up.
GoroutinesStop ==
  \A i \in Legs :
    done[i] ~> [](~keep[i] /\ greet[i] \notin {"wait", "send"})

-----------------------------------------------------------------------------
(***************************************************************************)
(* What the documentation says of the program and the code does not do.    *)
(***************************************************************************)

\* Nothing of leg i is pending: its handler ended and no teardown runs.
Settled(i) ==
  /\ inv[i] = "done"
  /\ \A t \in Tasks : t[1] = i => tpc[t] \in {"idle", "over"}

\* README: "BYE -> POST /v1/realtime/calls/{call_id}/hangup".
ByeHangsUp ==
  \A i \in Legs :
    Settled(i) /\ oai[i] = "known" /\ tpc[<<i, "bye">>] = "over"
      => hangups[i] = 1
=============================================================================

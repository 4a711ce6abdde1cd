--------------------------- MODULE GatewayProofs ---------------------------
(***************************************************************************)
(* What TLAPS proves about Gateway for every set of legs, every assignment *)
(* of Call-IDs to them (shared or distinct) and every configuration; and,  *)
(* in the second part, what it proves when Call-IDs are distinct.          *)
(***************************************************************************)
EXTENDS Gateway, TLAPS

USE DEF Kinds

\* A task is a leg and a reason.
LEMMA TaskFacts ==
  /\ \A t \in Tasks : /\ t[1] \in Legs
                      /\ t[2] \in Kinds
                      /\ t = <<t[1], t[2]>>
  /\ \A i \in Legs : /\ <<i, "bye">> \in Tasks
                     /\ <<i, "notify">> \in Tasks
                     /\ <<i, "model">> \in Tasks
  BY DEF Tasks

\* An update keeps the type of a function, even outside its domain.
LEMMA ExceptType ==
  ASSUME NEW A, NEW B, NEW f \in [A -> B], NEW a, NEW b, a \in A => b \in B
  PROVE  [f EXCEPT ![a] = b] \in [A -> B]
  OBVIOUS

\* Where endCall goes from each of its points.
LEMMA AfterFacts ==
  \A t : /\ After(t, "take") = IF t[2] = "bye" THEN "closedone" ELSE "sendbye"
         /\ After(t, "sendbye") = "closedone"
         /\ After(t, "closedone") = "closeconn"
         /\ After(t, "closeconn") = "hang"
  BY DEF After

-----------------------------------------------------------------------------
\* The initial states satisfy the inductive invariant.
LEMMA InitInv == Init => IndInv
<1> SUFFICES ASSUME Init PROVE IndInv
  OBVIOUS
<1> USE LegsAssumption, UsageAssumption DEF Init
<1>1. TypeOK
  BY DEF TypeOK, InvStates, DlgStates, OaiStates, ConnStates, RecvStates,
         GreetStates, TaskStates
<1>2. RegistryLive /\ ClaimedOnce /\ ModelTaskIsRecvLoop
  BY TaskFacts DEF RegistryLive, ClaimedOnce, ModelTaskIsRecvLoop, Claimed, Claims, Tearing, InModelTask
<1>3. TeardownOnce /\ IdKnown /\ ControlAfterAnswer
  BY DEF TeardownOnce, IdKnown, ControlAfterAnswer, Registered
<1> QED
  BY <1>1, <1>2, <1>3 DEF IndInv

-----------------------------------------------------------------------------
\* Every step keeps the types.
LEMMA TypeStep == TypeOK /\ [Next]_vars => TypeOK'
<1> SUFFICES ASSUME TypeOK, [Next]_vars PROVE TypeOK'
  OBVIOUS
<1> USE LegsAssumption, UsageAssumption, ConfigAssumption, TaskFacts
    DEF TypeOK, InvStates, DlgStates, OaiStates, ConnStates, RecvStates,
        GreetStates, TaskStates, legVars, ctrlVars, taskVars, Step
<1>1. ASSUME NEW i \in Legs, Handler(i) PROVE TypeOK'
  <2>1. CASE CreateCallOk(i)
    <3>1. PICK o \in Replies : oai' = [oai EXCEPT ![i] = o]
      BY <2>1 DEF CreateCallOk
    <3>2. oai' \in [Legs -> OaiStates]
      BY <3>1
    <3>3. inv' \in [Legs -> InvStates] /\ dlg' \in [Legs -> DlgStates]
      BY <2>1 DEF CreateCallOk
    <3> QED
      BY <2>1, <3>2, <3>3 DEF CreateCallOk
  <2>2. CASE CreateCallFails(i)
    <3>1. PICK o \in {"none", "orphan"} : oai' = [oai EXCEPT ![i] = o]
      BY <2>2 DEF CreateCallFails
    <3>2. oai' \in [Legs -> OaiStates]
      BY <3>1
    <3>3. inv' \in [Legs -> InvStates] /\ dlg' \in [Legs -> DlgStates]
      BY <2>2 DEF CreateCallFails
    <3> QED
      BY <2>2, <3>2, <3>3 DEF CreateCallFails
  <2>3. CASE AnswerAcked(i) BY <2>3 DEF AnswerAcked
  <2>4. CASE AnswerFails(i) BY <2>4 DEF AnswerFails
  <2>5. CASE AbortAnswered(i)
    <3>1. hangups' \in [Legs -> Nat] /\ inv' \in [Legs -> InvStates]
      BY <2>5 DEF AbortAnswered, HangupOpenAI
    <3> QED
      BY <2>5, <3>1 DEF AbortAnswered
  <2>6. CASE Register(i) BY <2>6 DEF Register
  <2>7. CASE DialOk(i) BY <2>7 DEF DialOk
  <2>8. CASE DialFails(i) BY <2>8 DEF DialFails
  <2>9. CASE ConfigureOk(i) BY <2>9 DEF ConfigureOk
  <2>10. CASE ConfigureFails(i) BY <2>10 DEF ConfigureFails
  <2>11. CASE GreetAfter(i) BY <2>11 DEF GreetAfter
  <2> QED
    BY <1>1, <2>1, <2>2, <2>3, <2>4, <2>5, <2>6, <2>7, <2>8, <2>9, <2>10,
       <2>11 DEF Handler
<1>2. ASSUME NEW i \in Legs, Caller(i) \/ ReadBye(i) PROVE TypeOK'
  <2>1. CASE RejectInvite(i) BY <2>1 DEF RejectInvite
  <2>2. CASE AcceptInvite(i) BY <2>2 DEF AcceptInvite
  <2>3. CASE CallerCancels(i) BY <2>3 DEF CallerCancels
  <2>4. CASE Ack(i) BY <2>4 DEF Ack
  <2>5. CASE ByeArrives(i)
    <3>1. calls[CallIdOf[i]] \in Legs \cup {NoLeg}
      OBVIOUS
    <3>2. snap' \in [Legs -> Nat \cup {NoUsage}]
      BY <2>5, <3>1 DEF ByeArrives
    <3>3. tpc' \in [Tasks -> TaskStates]
      BY <2>5 DEF ByeArrives
    <3> QED
      BY <2>5, <3>2, <3>3 DEF ByeArrives
  <2>6. CASE NotifyFinal(i) BY <2>6 DEF NotifyFinal
  <2>7. CASE ReadBye(i)
    <3>1. tpc' \in [Tasks -> TaskStates]
      BY <2>7 DEF ReadBye
    <3>a. \/ UNCHANGED <<dlg, hdr>>
          \/ /\ dlg' = [dlg EXCEPT ![i] = IF @ = "confirmed" THEN "ended"
                                                             ELSE "cancelled"]
             /\ hdr' = [hdr EXCEPT ![i] = snap[i]]
      BY <2>7 DEF ReadBye
    <3>2. dlg' \in [Legs -> DlgStates]
      BY <3>a, ExceptType
    <3>3. /\ hdr' \in [Legs -> Nat \cup {NoUsage}]
          /\ snap' \in [Legs -> Nat \cup {NoUsage}]
      BY <2>7, <3>a DEF ReadBye
    <3> QED
      BY <2>7, <3>1, <3>2, <3>3 DEF ReadBye
  <2> QED
    BY <1>2, <2>1, <2>2, <2>3, <2>4, <2>5, <2>6, <2>7 DEF Caller
<1>3. ASSUME NEW i \in Legs,
             RecvEvent(i) \/ RecvError(i) \/ EventHandling(i)
      PROVE  TypeOK'
  <2>1. CASE RecvEvent(i)
    <3>1. recv' \in [Legs -> RecvStates]
      BY <2>1 DEF RecvEvent
    <3> QED
      BY <2>1, <3>1 DEF RecvEvent
  <2>2. CASE RecvError(i) BY <2>2 DEF RecvError
  <2>3. CASE ParseUsage(i)
    <3>1. usage' \in [Legs -> Nat]
      BY <2>3 DEF ParseUsage
    <3>2. recv' \in [Legs -> RecvStates]
      BY <2>3 DEF ParseUsage
    <3> QED
      BY <2>3, <3>1, <3>2 DEF ParseUsage
  <2>4. CASE SpeechStarted(i) BY <2>4 DEF SpeechStarted
  <2>5. CASE ModelHangup(i) BY <2>5 DEF ModelHangup
  <2>6. CASE SendRefer(i) BY <2>6 DEF SendRefer
  <2>7. CASE ReferEnds(i) BY <2>7 DEF ReferEnds
  <2> QED
    BY <1>3, <2>1, <2>2, <2>3, <2>4, <2>5, <2>6, <2>7 DEF EventHandling
<1>4. ASSUME NEW i \in Legs, KeepaliveStops(i) \/ Greeter(i) PROVE TypeOK'
  <2>1. CASE KeepaliveStops(i) BY <2>1 DEF KeepaliveStops
  <2>2. CASE GreeterDone(i) BY <2>2 DEF GreeterDone
  <2>3. CASE GreeterTimer(i) BY <2>3 DEF GreeterTimer
  <2>4. CASE GreeterSend(i) BY <2>4 DEF GreeterSend
  <2> QED
    BY <1>4, <2>1, <2>2, <2>3, <2>4 DEF Greeter
<1>5. ASSUME NEW t \in Tasks, EndCall(t) PROVE TypeOK'
  <2>1. CASE TakeCall(t) BY <2>1, AfterFacts DEF TakeCall, RemoveEntry, Advance
  <2>2. CASE AlreadyTornDown(t) BY <2>2 DEF AlreadyTornDown, TaskReturns
  <2>3. CASE SendBye(t)
    <3>1. tpc' \in [Tasks -> TaskStates]
      BY <2>3, AfterFacts DEF SendBye, Advance
    <3>a. /\ dlg' = dlg \/ dlg' = [dlg EXCEPT ![victim[t]] = "ended"]
          /\ hdr' = hdr \/ hdr' = [hdr EXCEPT ![victim[t]] = usage[victim[t]]]
          /\ byeErr' = byeErr \/ byeErr' = [byeErr EXCEPT ![victim[t]] = TRUE]
      BY <2>3 DEF SendBye
    <3>2. dlg' \in [Legs -> DlgStates] /\ byeErr' \in [Legs -> BOOLEAN]
      BY <3>a, ExceptType
    <3>3. hdr' \in [Legs -> Nat \cup {NoUsage}]
      <4>1. victim[t] \in Legs => usage[victim[t]] \in Nat \cup {NoUsage}
        OBVIOUS
      <4> QED
        BY <3>a, <4>1, ExceptType
    <3> QED
      BY <2>3, <3>1, <3>2, <3>3 DEF SendBye
  <2>4. CASE CloseDone(t) BY <2>4, AfterFacts DEF CloseDone, Advance
  <2>5. CASE CloseConn(t)
    <3>1. tpc' \in [Tasks -> TaskStates]
      BY <2>5, AfterFacts DEF CloseConn, Advance
    <3>a. \/ UNCHANGED <<conn, logged>>
          \/ /\ conn' = [conn EXCEPT ![victim[t]] = "closed"]
             /\ logged' = [logged EXCEPT ![victim[t]] = usage[victim[t]]]
      BY <2>5 DEF CloseConn
    <3>2. conn' \in [Legs -> ConnStates]
      BY <3>a, ExceptType
    <3>3. logged' \in [Legs -> Nat \cup {NoUsage}]
      <4>1. victim[t] \in Legs => usage[victim[t]] \in Nat \cup {NoUsage}
        OBVIOUS
      <4> QED
        BY <3>a, <4>1, ExceptType
    <3> QED
      BY <2>5, <3>1, <3>2, <3>3 DEF CloseConn
  <2>6. CASE Hang(t)
    <3> DEFINE n == IF oai[victim[t]] = "known" THEN hangups[victim[t]] + 1
                                                ELSE hangups[victim[t]]
    <3>a. hangups' = [hangups EXCEPT ![victim[t]] = n]
      BY <2>6 DEF Hang, HangupOpenAI
    <3>1. hangups' \in [Legs -> Nat]
      <4>1. victim[t] \in Legs => n \in Nat
        OBVIOUS
      <4> QED
        BY <3>a, <4>1, ExceptType
    <3>2. tpc' \in [Tasks -> TaskStates] /\ recv' \in [Legs -> RecvStates]
      BY <2>6 DEF Hang, TaskReturns
    <3>3. victim' \in [Tasks -> Legs \cup {NoLeg}]
      BY <2>6 DEF Hang
    <3> QED
      BY <2>6, <3>1, <3>2, <3>3 DEF Hang
  <2> QED
    BY <1>5, <2>1, <2>2, <2>3, <2>4, <2>5, <2>6 DEF EndCall
<1>6. CASE UNCHANGED vars
  BY <1>6 DEF vars
<1> QED
  BY <1>1, <1>2, <1>3, <1>4, <1>5, <1>6 DEF Next

-----------------------------------------------------------------------------
(***************************************************************************)
(* The invariant proper is about the variables of Ownership below.  Most   *)
(* steps leave them alone, or move a program counter inside one of the     *)
(* sets the invariant distinguishes.                                       *)
(***************************************************************************)
Core == <<inv, oai, hangups, calls, done, recv, tpc, victim>>

Rest == /\ RegistryLive
        /\ ClaimedOnce
        /\ ModelTaskIsRecvLoop
        /\ TeardownOnce
        /\ IdKnown
        /\ ControlAfterAnswer

\* A step that leaves the core alone keeps what is said of it.
LEMMA CoreUnchanged ==
  ASSUME IndInv, UNCHANGED Core
  PROVE  Rest'
  BY DEF Rest, IndInv, Core, RegistryLive, ClaimedOnce, ModelTaskIsRecvLoop, TeardownOnce,
         IdKnown, ControlAfterAnswer, Claimed, Claims

\* A step of the INVITE handler of leg i that leaves the registry, the
\* hangups and the goroutines of the control alone.
LEMMA HandlerMoves ==
  ASSUME IndInv, TypeOK', NEW i \in Legs, NEW s \in InvStates, NEW o \in OaiStates,
         inv' = [inv EXCEPT ![i] = s],
         oai' = [oai EXCEPT ![i] = o],
         UNCHANGED <<hangups, calls, done, recv, tpc, victim>>,
         recv[i] # "off" => s \in {"greeting", "done"},
         inv[i] \in Registered => s \in Registered /\ o = oai[i],
         hangups[i] = 1 => s \in Registered \cup {"failed"} /\ o = "known",
         s \in {"answering", "abort", "acked"} \cup Registered => o # "none",
         s \in {"answering", "abort", "acked"} => hangups[i] = 0,
         s \in {"idle", "rejected", "creating"} => o = "none"
  PROVE  Rest'
<1> USE DEF TypeOK
<1>1. \A j \in Legs : /\ inv'[j] = IF j = i THEN s ELSE inv[j]
                      /\ oai'[j] = IF j = i THEN o ELSE oai[j]
                      /\ inv[j] \in Registered => inv'[j] \in Registered
  BY DEF IndInv
<1>2. RegistryLive'
  BY <1>1 DEF IndInv, RegistryLive, Claimed, Claims
<1>3. ClaimedOnce'
  BY <1>1 DEF IndInv, ClaimedOnce, Claims
<1>4. ModelTaskIsRecvLoop'
  BY <1>1 DEF IndInv, ModelTaskIsRecvLoop
<1>5. TeardownOnce'
  BY <1>1 DEF IndInv, TeardownOnce
<1>6. IdKnown'
  BY <1>1 DEF IndInv, IdKnown
<1>7. ControlAfterAnswer'
  BY <1>1 DEF IndInv, ControlAfterAnswer
<1> QED
  BY <1>2, <1>3, <1>4, <1>5, <1>6, <1>7 DEF Rest

\* A BYE or NOTIFY handler moves outside the part of endCall that holds a call.
LEMMA TaskMoves ==
  ASSUME IndInv, TypeOK', NEW t \in Tasks, t[2] # "model", NEW s \in TaskStates \ Tearing,
         tpc[t] \notin Tearing, tpc' = [tpc EXCEPT ![t] = s],
         UNCHANGED <<inv, oai, hangups, calls, done, recv, victim>>
  PROVE  Rest'
<1> USE TaskFacts DEF TypeOK
<1>1. RegistryLive' /\ TeardownOnce' /\ IdKnown' /\ ControlAfterAnswer'
  BY DEF IndInv, RegistryLive, Claimed, Claims, TeardownOnce, IdKnown,
         ControlAfterAnswer
<1>2. ClaimedOnce'
  BY DEF IndInv, ClaimedOnce, Claims
<1>3. ModelTaskIsRecvLoop'
  <2>1. \A i \in Legs : tpc'[<<i, "model">>] = tpc[<<i, "model">>]
    BY DEF IndInv
  <2> QED
    BY <2>1 DEF IndInv, ModelTaskIsRecvLoop
<1> QED
  BY <1>1, <1>2, <1>3 DEF Rest

\* recvLoop moves without running OnHangup.
LEMMA RecvMoves ==
  ASSUME IndInv, TypeOK', NEW i \in Legs, NEW r \in RecvStates \ {"ending"},
         recv[i] \notin {"off", "ending"}, recv' = [recv EXCEPT ![i] = r],
         UNCHANGED <<inv, oai, hangups, calls, done, tpc, victim>>
  PROVE  Rest'
<1>1. ModelTaskIsRecvLoop'
  BY DEF IndInv, TypeOK, ModelTaskIsRecvLoop
<1>2. RegistryLive' /\ ClaimedOnce' /\ TeardownOnce' /\ IdKnown'
  BY DEF IndInv, RegistryLive, ClaimedOnce, Claimed, Claims, TeardownOnce, IdKnown
<1>3. ControlAfterAnswer'
  BY DEF IndInv, TypeOK, ControlAfterAnswer
<1> QED
  BY <1>1, <1>2, <1>3 DEF Rest

-----------------------------------------------------------------------------
\* The INVITE handler keeps the invariant.
LEMMA HandlerStep ==
  ASSUME IndInv, TypeOK', NEW i \in Legs, Handler(i) \/ RejectInvite(i) \/ AcceptInvite(i)
  PROVE  Rest'
<1> USE DEF Step, legVars, ctrlVars, taskVars
<1>t. /\ TypeOK /\ TeardownOnce /\ IdKnown /\ ControlAfterAnswer
      /\ oai[i] \in OaiStates /\ hangups[i] \in Nat
      /\ recv[i] # "off" => inv[i] \in {"greeting", "done"}
  BY DEF IndInv, TypeOK, ControlAfterAnswer
<1>1. CASE RejectInvite(i) \/ AcceptInvite(i)
  <2>1. PICK s \in {"rejected", "creating"} : inv' = [inv EXCEPT ![i] = s]
    BY <1>1 DEF RejectInvite, AcceptInvite
  <2>2. inv[i] = "idle" /\ UNCHANGED <<oai, hangups, calls, done, tpc, victim, recv>>
    BY <1>1 DEF RejectInvite, AcceptInvite
  <2>3. /\ oai' = [oai EXCEPT ![i] = oai[i]] /\ hangups[i] # 1
        /\ oai[i] = "none"
    BY <1>t, <2>2 DEF TypeOK, TeardownOnce, IdKnown, Registered
  <2> QED
    <3>1. /\ s \in InvStates /\ inv[i] \notin Registered /\ recv[i] = "off"
          /\ s \notin {"answering", "abort", "acked"} \cup Registered
      BY <1>t, <2>2 DEF InvStates, Registered
    <3> QED
      BY <1>t, <2>1, <2>2, <2>3, <3>1, HandlerMoves
<1>2. CASE CreateCallOk(i)
  <2>1. /\ inv[i] = "creating" /\ inv' = [inv EXCEPT ![i] = "answering"]
        /\ UNCHANGED <<hangups, calls, done, tpc, victim, recv>>
    BY <1>2 DEF CreateCallOk
  <2>a. PICK o \in {"known", "orphan"} : oai' = [oai EXCEPT ![i] = o]
    BY <1>2, ConfigAssumption DEF CreateCallOk
  <2>2. hangups[i] <= 1 /\ hangups[i] # 1
    BY <2>1, <1>t DEF TeardownOnce, Registered
  <2>3. hangups[i] = 0
    BY <2>2, <1>t
  <2>4. /\ "answering" \in InvStates /\ o \in OaiStates /\ o # "none"
        /\ inv[i] \notin Registered /\ recv[i] = "off" /\ hangups[i] # 1
    BY <2>1, <2>3, <1>t DEF InvStates, OaiStates, Registered
  <2> QED
    BY <2>1, <2>a, <2>3, <2>4, HandlerMoves
<1>3. CASE CreateCallFails(i)
  <2>1. hangups[i] # 1
    BY <1>3, <1>t DEF CreateCallFails, TypeOK, TeardownOnce, Registered
  <2>2. PICK o \in OaiStates : oai' = [oai EXCEPT ![i] = o]
    BY <1>3 DEF CreateCallFails, OaiStates
  <2> QED
    BY <1>3, <1>t, <2>1, <2>2, HandlerMoves DEF CreateCallFails, InvStates, Registered
<1>4. CASE AnswerAcked(i) \/ AnswerFails(i)
  <2>1. /\ inv[i] = "answering"
        /\ UNCHANGED <<oai, hangups, calls, done, tpc, victim, recv>>
    BY <1>4 DEF AnswerAcked, AnswerFails
  <2>2. PICK s \in {"acked", "abort"} : inv' = [inv EXCEPT ![i] = s]
    BY <1>4 DEF AnswerAcked, AnswerFails
  <2>3. oai' = [oai EXCEPT ![i] = oai[i]]
    BY <1>t, <2>1 DEF TypeOK
  <2>4. hangups[i] = 0 /\ oai[i] # "none"
    BY <1>t, <2>1 DEF IdKnown, Registered
  <2>5. /\ s \in InvStates /\ inv[i] \notin Registered /\ recv[i] = "off"
        /\ hangups[i] # 1
    BY <2>1, <2>4, <1>t DEF InvStates, Registered
  <2> QED
    BY <1>t, <2>1, <2>2, <2>3, <2>4, <2>5, HandlerMoves
<1>5. CASE AbortAnswered(i)
  <2>1. /\ inv[i] = "abort"
        /\ inv' = [inv EXCEPT ![i] = "failed"]
        /\ UNCHANGED <<oai, calls, done, tpc, victim, recv>>
    BY <1>5 DEF AbortAnswered
  <2>2. hangups[i] = 0 /\ oai[i] # "none"
    BY <1>t, <2>1 DEF IdKnown, Registered
  <2>3. \A j \in Legs :
          hangups'[j] = IF j = i /\ oai[i] = "known" THEN 1 ELSE hangups[j]
    BY <1>5, <2>2 DEF AbortAnswered, HangupOpenAI, IndInv, TypeOK
  <2>4. RegistryLive' /\ ClaimedOnce'
    BY <2>1, <2>2, <2>3
    DEF IndInv, TypeOK, RegistryLive, ClaimedOnce, Claimed, Claims, Registered
  <2>5. ModelTaskIsRecvLoop' /\ TeardownOnce' /\ IdKnown' /\ ControlAfterAnswer'
    BY <2>1, <2>2, <2>3
    DEF IndInv, TypeOK, ModelTaskIsRecvLoop, TeardownOnce, IdKnown,
        ControlAfterAnswer, Registered
  <2> QED
    BY <2>4, <2>5 DEF Rest
<1>6. CASE Register(i)
  <2>1. /\ inv[i] = "acked"
        /\ inv' = [inv EXCEPT ![i] = "dialing"]
        /\ calls' = [calls EXCEPT ![CallIdOf[i]] = i]
        /\ UNCHANGED <<oai, hangups, done, tpc, victim, recv>>
    BY <1>6 DEF Register
  <2>2. hangups[i] = 0 /\ oai[i] # "none" /\ ~done[i]
    BY <1>t, <2>1 DEF IdKnown, ControlAfterAnswer, Registered
  <2>3. ~Claimed(i)
    BY <2>1 DEF IndInv, Claimed, ClaimedOnce, Registered
  <2>4. RegistryLive'
    <3> SUFFICES ASSUME NEW c \in CallIds, NEW j \in Legs, calls'[c] = j
                 PROVE  /\ CallIdOf[j] = c /\ inv'[j] \in Registered
                        /\ ~done'[j] /\ hangups'[j] = 0 /\ ~Claimed(j)'
      BY DEF RegistryLive
    <3>1. CASE c = CallIdOf[i]
      <4>1. j = i
        BY <3>1, <2>1 DEF IndInv, TypeOK
      <4> QED
        BY <3>1, <4>1, <2>1, <2>2, <2>3 DEF IndInv, TypeOK, Claimed, Claims, Registered
    <3>2. CASE c # CallIdOf[i]
      BY <3>2, <2>1 DEF IndInv, TypeOK, RegistryLive, Claimed, Claims, Registered
    <3> QED
      BY <3>1, <3>2
  <2>5. ClaimedOnce'
    BY <2>1 DEF IndInv, TypeOK, ClaimedOnce, Claims, Registered
  <2>6. ModelTaskIsRecvLoop' /\ TeardownOnce' /\ IdKnown' /\ ControlAfterAnswer'
    BY <2>1, <2>2
    DEF IndInv, TypeOK, ModelTaskIsRecvLoop, TeardownOnce, IdKnown,
        ControlAfterAnswer, Registered
  <2> QED
    BY <2>4, <2>5, <2>6 DEF Rest
<1>7. CASE DialOk(i) \/ DialFails(i) \/ ConfigureFails(i) \/ GreetAfter(i)
  <2>1. /\ inv[i] \in Registered
        /\ \E s \in Registered : /\ inv' = [inv EXCEPT ![i] = s]
                                 /\ inv[i] \in {"greeting", "done"} => s = "done"
        /\ UNCHANGED <<oai, hangups, calls, done, tpc, victim, recv>>
    BY <1>7 DEF DialOk, DialFails, ConfigureFails, GreetAfter, Registered
  <2>2. oai' = [oai EXCEPT ![i] = oai[i]] /\ oai[i] # "none"
    BY <1>t, <2>1 DEF TypeOK, IdKnown
  <2> QED
    <3>1. PICK s \in Registered : /\ inv' = [inv EXCEPT ![i] = s]
                                  /\ inv[i] \in {"greeting", "done"} => s = "done"
      BY <2>1
    <3>2. /\ s \in InvStates
          /\ s \notin {"idle", "rejected", "creating", "answering", "abort", "acked"}
          /\ oai[i] \in OaiStates
      BY <1>t DEF InvStates, Registered
    <3>3. hangups[i] = 1 => oai[i] = "known"
      BY <1>t DEF TeardownOnce
    <3> QED
      BY <1>t, <2>1, <2>2, <3>1, <3>2, <3>3, HandlerMoves
<1>8. CASE ConfigureOk(i)
  <2>1. /\ inv[i] = "configuring"
        /\ inv' = [inv EXCEPT ![i] = "greeting"]
        /\ recv' = [recv EXCEPT ![i] = "read"]
        /\ UNCHANGED <<oai, hangups, calls, done, tpc, victim>>
    BY <1>8 DEF ConfigureOk
  <2>2. oai[i] # "none" /\ recv[i] = "off"
    BY <1>t, <2>1 DEF IdKnown, Registered
  <2>3. RegistryLive' /\ ClaimedOnce' /\ TeardownOnce' /\ IdKnown'
    BY <2>1, <2>2
    DEF IndInv, TypeOK, RegistryLive, ClaimedOnce, Claimed, Claims, TeardownOnce,
        IdKnown, Registered
  <2>4. ModelTaskIsRecvLoop' /\ ControlAfterAnswer'
    BY <2>1, <2>2
    DEF IndInv, TypeOK, ModelTaskIsRecvLoop, ControlAfterAnswer, Registered
  <2> QED
    BY <2>3, <2>4 DEF Rest
<1> QED
  BY <1>1, <1>2, <1>3, <1>4, <1>5, <1>6, <1>7, <1>8 DEF Handler

-----------------------------------------------------------------------------
\* endCall keeps the invariant.
LEMMA EndCallStep ==
  ASSUME IndInv, TypeOK', NEW t \in Tasks, EndCall(t)
  PROVE  Rest'
<1> USE TaskFacts, AfterFacts
    DEF Step, Advance, legVars, ctrlVars, taskVars, Tearing, InModelTask
<1>t. /\ TypeOK /\ RegistryLive /\ ClaimedOnce /\ ModelTaskIsRecvLoop
      /\ TeardownOnce /\ IdKnown /\ ControlAfterAnswer
  BY DEF IndInv
<1>1. CASE TakeCall(t)
  <2> DEFINE c == CallIdOf[t[1]]
             v == calls[c]
  <2>1. /\ v \in Legs /\ c \in CallIds
        /\ CallIdOf[v] = c /\ inv[v] \in Registered /\ ~done[v]
        /\ hangups[v] = 0 /\ ~Claimed(v)
    BY <1>1, <1>t, LegsAssumption DEF TakeCall, TypeOK, RegistryLive
  <2>2. /\ tpc[t] = "take"
        /\ tpc' = [tpc EXCEPT ![t] = IF t[2] = "bye" THEN "closedone" ELSE "sendbye"]
        /\ victim' = [victim EXCEPT ![t] = v]
        /\ calls' = [calls EXCEPT ![c] = NoLeg]
        /\ UNCHANGED <<inv, oai, hangups, done, recv>>
    BY <1>1 DEF TakeCall, RemoveEntry
  <2> HIDE DEF c, v
  <2>3. RegistryLive'
    <3> SUFFICES ASSUME NEW d \in CallIds, NEW j \in Legs, calls'[d] = j
                 PROVE  /\ CallIdOf[j] = d /\ inv'[j] \in Registered
                        /\ ~done'[j] /\ hangups'[j] = 0 /\ ~Claimed(j)'
      BY DEF RegistryLive
    <3>1. d # c /\ calls[d] = j
      BY <2>2, <1>t, LegsAssumption DEF TypeOK
    <3>2. j # v
      BY <3>1, <2>1, <1>t DEF RegistryLive
    <3>3. ~Claimed(j)'
      BY <3>1, <3>2, <2>2, <1>t DEF RegistryLive, Claimed, Claims, TypeOK
    <3> QED
      BY <3>1, <3>3, <2>2, <1>t DEF RegistryLive
  <2>4. ClaimedOnce'
    <3>1. \A u \in Tasks : victim'[u] = IF u = t THEN v ELSE victim[u]
      BY <2>2, <1>t DEF TypeOK
    <3>2. \A u \in Tasks : tpc'[u] = IF u = t THEN (IF t[2] = "bye" THEN "closedone" ELSE "sendbye")
                                             ELSE tpc[u]
      BY <2>2, <1>t DEF TypeOK
    <3>3. \A u \in Tasks : victim[u] # v
      BY <2>1 DEF Claimed, Claims
    <3>4. v # NoLeg
      BY <2>1, LegsAssumption
    <3>5. \A u \in Tasks : victim'[u] = NoLeg <=> tpc'[u] \notin Tearing
      BY <3>1, <3>2, <3>4, <1>t DEF ClaimedOnce
    <3>6. \A u \in Tasks, i \in Legs : victim'[u] = i =>
            /\ inv[i] \in Registered /\ hangups[i] = 0
            /\ \A w \in Tasks : victim'[w] = i => w = u
      BY <3>1, <3>3, <2>1, <1>t DEF ClaimedOnce, Claims
    <3> QED
      BY <3>5, <3>6, <2>2 DEF ClaimedOnce, Claims
  <2>5. ModelTaskIsRecvLoop'
    BY <2>2, <1>t DEF ModelTaskIsRecvLoop, TypeOK
  <2>6. TeardownOnce' /\ IdKnown' /\ ControlAfterAnswer'
    BY <2>2, <1>t DEF TeardownOnce, IdKnown, ControlAfterAnswer
  <2> QED
    BY <2>3, <2>4, <2>5, <2>6 DEF Rest
<1>2. CASE AlreadyTornDown(t)
  <2>1. /\ tpc[t] = "take"
        /\ tpc' = [tpc EXCEPT ![t] = IF t[2] = "bye" THEN "over" ELSE "idle"]
        /\ recv' = IF t[2] = "model" THEN [recv EXCEPT ![t[1]] = "read"] ELSE recv
        /\ UNCHANGED <<inv, oai, hangups, calls, done, victim>>
    BY <1>2 DEF AlreadyTornDown, TaskReturns
  <2>2. RegistryLive' /\ TeardownOnce' /\ IdKnown'
    BY <2>1, <1>t DEF RegistryLive, TeardownOnce, IdKnown, Claimed, Claims
  <2>3. ClaimedOnce'
    BY <2>1, <1>t DEF ClaimedOnce, Claims, TypeOK
  <2>4. ModelTaskIsRecvLoop' /\ ControlAfterAnswer'
    <3>1. CASE t[2] = "model"
      <4>1. t[1] \in Legs /\ t = <<t[1], "model">> /\ recv[t[1]] = "ending"
        BY <3>1, <2>1, <1>t DEF ModelTaskIsRecvLoop
      <4>2. \A i \in Legs : recv'[i] = IF i = t[1] THEN "read" ELSE recv[i]
        BY <3>1, <2>1, <1>t DEF TypeOK
      <4>3. \A i \in Legs : tpc'[<<i, "model">>] =
                              IF i = t[1] THEN "idle" ELSE tpc[<<i, "model">>]
        <5>1. \A u \in Tasks : tpc'[u] = IF u = t THEN "idle" ELSE tpc[u]
          BY <3>1, <2>1, <1>t DEF TypeOK
        <5>2. \A i \in Legs : <<i, "model">> = t <=> i = t[1]
          BY <4>1
        <5> QED
          BY <5>1, <5>2
      <4> QED
        BY <4>1, <4>2, <4>3, <2>1, <1>t DEF ModelTaskIsRecvLoop, ControlAfterAnswer
    <3>2. CASE t[2] # "model"
      BY <3>2, <2>1, <1>t DEF ModelTaskIsRecvLoop, ControlAfterAnswer, TypeOK
    <3> QED
      BY <3>1, <3>2
  <2> QED
    BY <2>2, <2>3, <2>4 DEF Rest
<1>3. CASE SendBye(t) \/ CloseDone(t) \/ CloseConn(t)
  <2>1. /\ tpc[t] \in Tearing
        /\ \E s \in Tearing : tpc' = [tpc EXCEPT ![t] = s]
        /\ UNCHANGED <<inv, oai, hangups, calls, recv, victim>>
        /\ done' = done \/ done' = [done EXCEPT ![victim[t]] = TRUE]
    BY <1>3 DEF SendBye, CloseDone, CloseConn
  <2>2. victim[t] \in Legs /\ inv[victim[t]] \in Registered
    BY <2>1, <1>t DEF ClaimedOnce, Claims, TypeOK
  <2>3. RegistryLive'
    <3>1. \A c \in CallIds : calls[c] # NoLeg => calls[c] # victim[t]
      BY <2>2, <1>t DEF RegistryLive, Claimed, Claims
    <3> QED
      BY <3>1, <2>1, <2>2, <1>t DEF RegistryLive, Claimed, Claims, TypeOK
  <2>4. ClaimedOnce'
    BY <2>1, <1>t DEF ClaimedOnce, Claims, TypeOK
  <2>5. ModelTaskIsRecvLoop'
    <3>1. PICK s \in Tearing : tpc' = [tpc EXCEPT ![t] = s]
      BY <2>1
    <3>2. \A i \in Legs : tpc'[<<i, "model">>] \in InModelTask
                           <=> tpc[<<i, "model">>] \in InModelTask
      BY <3>1, <2>1, <1>t DEF TypeOK
    <3> QED
      BY <3>2, <2>1, <1>t DEF ModelTaskIsRecvLoop
  <2>6. TeardownOnce' /\ IdKnown' /\ ControlAfterAnswer'
    BY <2>1, <2>2, <1>t DEF TeardownOnce, IdKnown, ControlAfterAnswer, TypeOK
  <2> QED
    BY <2>3, <2>4, <2>5, <2>6 DEF Rest
<1>4. CASE Hang(t)
  <2> DEFINE v == victim[t]
  <2>1. /\ tpc[t] = "hang"
        /\ tpc' = [tpc EXCEPT ![t] = IF t[2] = "bye" THEN "over" ELSE "idle"]
        /\ recv' = IF t[2] = "model" THEN [recv EXCEPT ![t[1]] = "read"] ELSE recv
        /\ victim' = [victim EXCEPT ![t] = NoLeg]
        /\ hangups' = [hangups EXCEPT ![v] = IF oai[v] = "known" THEN @ + 1 ELSE @]
        /\ UNCHANGED <<inv, oai, calls, done>>
    BY <1>4 DEF Hang, TaskReturns, HangupOpenAI
  <2>2. /\ v \in Legs /\ hangups[v] = 0 /\ inv[v] \in Registered
        /\ \A u \in Tasks : victim[u] = v => u = t
    BY <2>1, <1>t DEF ClaimedOnce, Claims, TypeOK
  <2>3. oai[v] # "none"
    BY <2>2, <1>t DEF IdKnown
  <2>4. \A i \in Legs :
          hangups'[i] = IF i = v /\ oai[v] = "known" THEN 1 ELSE hangups[i]
    BY <2>1, <2>2, <1>t DEF TypeOK
  <2>5. \A u \in Tasks : victim'[u] = IF u = t THEN NoLeg ELSE victim[u]
    BY <2>1, <1>t DEF TypeOK
  <2> HIDE DEF v
  <2>6. RegistryLive'
    <3>1. \A c \in CallIds : calls[c] # NoLeg => calls[c] # v
      BY <2>1, <2>2, <1>t DEF RegistryLive, Claimed, Claims, v
    <3> QED
      BY <3>1, <2>1, <2>2, <2>4, <2>5, <1>t, LegsAssumption
      DEF RegistryLive, Claimed, Claims, TypeOK
  <2>7. ClaimedOnce'
    BY <2>1, <2>2, <2>4, <2>5, <1>t, LegsAssumption DEF ClaimedOnce, Claims, TypeOK
  <2>8. ModelTaskIsRecvLoop' /\ ControlAfterAnswer'
    <3>1. CASE t[2] = "model"
      <4>1. t[1] \in Legs /\ t = <<t[1], "model">> /\ recv[t[1]] = "ending"
        BY <3>1, <2>1, <1>t DEF ModelTaskIsRecvLoop
      <4>2. \A i \in Legs : recv'[i] = IF i = t[1] THEN "read" ELSE recv[i]
        BY <3>1, <2>1, <1>t DEF TypeOK
      <4>3. \A i \in Legs : tpc'[<<i, "model">>] =
                              IF i = t[1] THEN "idle" ELSE tpc[<<i, "model">>]
        <5>1. \A u \in Tasks : tpc'[u] = IF u = t THEN "idle" ELSE tpc[u]
          BY <3>1, <2>1, <1>t DEF TypeOK
        <5>2. \A i \in Legs : <<i, "model">> = t <=> i = t[1]
          BY <4>1
        <5> QED
          BY <5>1, <5>2
      <4> QED
        BY <4>1, <4>2, <4>3, <2>1, <1>t DEF ModelTaskIsRecvLoop, ControlAfterAnswer
    <3>2. CASE t[2] # "model"
      BY <3>2, <2>1, <1>t DEF ModelTaskIsRecvLoop, ControlAfterAnswer, TypeOK
    <3> QED
      BY <3>1, <3>2
  <2>9. TeardownOnce' /\ IdKnown'
    BY <2>1, <2>2, <2>3, <2>4, <1>t DEF TeardownOnce, IdKnown, Registered
  <2> QED
    BY <2>6, <2>7, <2>8, <2>9 DEF Rest
<1> QED
  BY <1>1, <1>2, <1>3, <1>4 DEF EndCall

-----------------------------------------------------------------------------
\* The caller, the sideband and the greeter keep the invariant.
LEMMA OtherStep ==
  ASSUME IndInv, TypeOK', NEW i \in Legs,
         \/ CallerCancels(i) \/ Ack(i) \/ ByeArrives(i) \/ NotifyFinal(i)
         \/ ReadBye(i) \/ RecvEvent(i) \/ RecvError(i) \/ EventHandling(i)
         \/ KeepaliveStops(i) \/ Greeter(i)
  PROVE  Rest'
<1> USE TaskFacts DEF Step, legVars, ctrlVars, taskVars
<1>1. CASE CallerCancels(i) \/ Ack(i) \/ KeepaliveStops(i) \/ Greeter(i)
  BY <1>1, CoreUnchanged
  DEF CallerCancels, Ack, KeepaliveStops, Greeter, GreeterDone, GreeterTimer,
      GreeterSend, Core
<1>2. CASE ByeArrives(i) \/ ReadBye(i) \/ NotifyFinal(i)
  <2>1. PICK k \in {"bye", "notify"}, s \in {"readbye", "take"} :
          /\ tpc[<<i, k>>] \in {"idle", "readbye"}
          /\ tpc' = [tpc EXCEPT ![<<i, k>>] = s]
          /\ UNCHANGED <<inv, oai, hangups, calls, done, recv, victim>>
    BY <1>2 DEF ByeArrives, ReadBye, NotifyFinal
  <2>2. /\ <<i, k>> \in Tasks /\ <<i, k>>[2] # "model"
        /\ s \in TaskStates \ Tearing
        /\ tpc[<<i, k>>] \notin Tearing
    BY <2>1 DEF TaskStates, Tearing
  <2> QED
    BY <2>1, <2>2, TaskMoves
<1>3. CASE \/ RecvEvent(i) \/ RecvError(i) \/ ParseUsage(i) \/ SpeechStarted(i)
           \/ SendRefer(i) \/ ReferEnds(i)
  <2>1. /\ recv[i] \notin {"off", "ending"}
        /\ UNCHANGED <<inv, oai, hangups, calls, done, tpc, victim>>
    BY <1>3 DEF RecvEvent, RecvError, ParseUsage, SpeechStarted, SendRefer, ReferEnds
  <2>2. PICK r \in RecvStates \ {"ending"} : recv' = [recv EXCEPT ![i] = r]
    BY <1>3, ConfigAssumption
    DEF RecvEvent, RecvError, ParseUsage, SpeechStarted, SendRefer, ReferEnds,
        RecvStates
  <2> QED
    BY <2>1, <2>2, RecvMoves
<1>4. CASE ModelHangup(i)
  <2>1. /\ recv[i] = "hangup" /\ recv' = [recv EXCEPT ![i] = "ending"]
        /\ tpc' = [tpc EXCEPT ![<<i, "model">>] = "take"]
        /\ UNCHANGED <<inv, oai, hangups, calls, done, victim>>
    BY <1>4 DEF ModelHangup
  <2>2. tpc[<<i, "model">>] \notin InModelTask /\ TypeOK
    BY <2>1 DEF IndInv, ModelTaskIsRecvLoop
  <2>3. ModelTaskIsRecvLoop' /\ ControlAfterAnswer'
    BY <2>1, <2>2 DEF IndInv, TypeOK, ModelTaskIsRecvLoop, InModelTask, ControlAfterAnswer
  <2>4. ClaimedOnce'
    <3>1. \A t \in Tasks : tpc'[t] \in Tearing <=> tpc[t] \in Tearing
      BY <2>1, <2>2 DEF TypeOK, InModelTask, Tearing
    <3> QED
      BY <3>1, <2>1 DEF IndInv, ClaimedOnce, Claims
  <2>5. RegistryLive' /\ TeardownOnce' /\ IdKnown'
    BY <2>1 DEF IndInv, RegistryLive, Claimed, Claims, TeardownOnce, IdKnown
  <2> QED
    BY <2>3, <2>4, <2>5 DEF Rest
<1> QED
  BY <1>1, <1>2, <1>3, <1>4 DEF EventHandling

-----------------------------------------------------------------------------
\* In every reachable state, for every set of legs and every assignment of
\* Call-IDs: the types are right, a registered call is live, at most one
\* teardown has a call, and no OpenAI call is hung up twice (endCall).
THEOREM InvariantHolds == Spec => []IndInv
<1>1. ASSUME IndInv, [Next]_vars PROVE IndInv'
  <2>1. TypeOK'
    BY <1>1, TypeStep DEF IndInv
  <2>2. Rest'
    <3>1. CASE \E i \in Legs : Handler(i) \/ RejectInvite(i) \/ AcceptInvite(i)
      BY <3>1, <1>1, <2>1, HandlerStep
    <3>2. CASE \E t \in Tasks : EndCall(t)
      BY <3>2, <1>1, <2>1, EndCallStep
    <3>3. CASE \E i \in Legs :
                 \/ CallerCancels(i) \/ Ack(i) \/ ByeArrives(i) \/ NotifyFinal(i)
                 \/ ReadBye(i) \/ RecvEvent(i) \/ RecvError(i) \/ EventHandling(i)
                 \/ KeepaliveStops(i) \/ Greeter(i)
      BY <3>3, <1>1, <2>1, OtherStep
    <3>4. CASE UNCHANGED vars
      BY <3>4, <1>1, CoreUnchanged DEF vars, Core
    <3> QED
      BY <1>1, <3>1, <3>2, <3>3, <3>4 DEF Next, Caller
  <2> QED
    BY <2>1, <2>2 DEF IndInv, Rest
<1> QED
  BY <1>1, InitInv, PTL DEF Spec

\* endCall tears a call down at most once.
THEOREM NeverTwice == Spec => []TeardownOnce
<1>1. IndInv => TeardownOnce
  BY DEF IndInv
<1> QED
  BY <1>1, InvariantHolds, PTL

-----------------------------------------------------------------------------
\* The calls that CallLedger sees as opened.
Opened == {i \in Legs : oai[i] = "known"}

\* Each step of the gateway opens a call, releases an open one, or is a stutter.
LEMMA LedgerStep ==
  ASSUME IndInv, [Next]_vars
  PROVE  [Ledger!Next]_(Ledger!vars)
<1> USE DEF Step, legVars, ctrlVars, taskVars, Ledger!vars
<1>t. TypeOK /\ TeardownOnce /\ IdKnown /\ ClaimedOnce
  BY DEF IndInv
<1>1. ASSUME NEW i \in Legs, CreateCallOk(i)
      PROVE  Ledger!Open(i) \/ UNCHANGED Ledger!vars
  <2>1. PICK o \in {"known", "orphan"} : oai' = [oai EXCEPT ![i] = o]
    BY <1>1, ConfigAssumption DEF CreateCallOk
  <2>2. oai[i] = "none" /\ UNCHANGED hangups
    BY <1>1, <1>t DEF CreateCallOk, IdKnown
  <2>3. CASE o = "known"
    <3>1. i \notin Opened /\ Opened' = Opened \cup {i}
      BY <2>1, <2>2, <2>3, <1>t DEF Opened, TypeOK
    <3> QED
      BY <2>2, <3>1 DEF Ledger!Open, Opened
  <2>4. CASE o = "orphan"
    <3>1. Opened' = Opened
      BY <2>1, <2>2, <2>4, <1>t DEF Opened, TypeOK
    <3> QED
      BY <2>2, <3>1 DEF Opened
  <2> QED
    BY <2>3, <2>4
<1>2. ASSUME NEW i \in Legs, CreateCallFails(i) PROVE UNCHANGED Ledger!vars
  <2>1. PICK o \in {"none", "orphan"} : oai' = [oai EXCEPT ![i] = o]
    BY <1>2 DEF CreateCallFails
  <2>2. oai[i] = "none" /\ UNCHANGED hangups
    BY <1>2, <1>t DEF CreateCallFails, IdKnown
  <2>3. Opened' = Opened
    BY <2>1, <2>2, <1>t DEF Opened, TypeOK
  <2> QED
    BY <2>2, <2>3 DEF Opened
<1>h. ASSUME NEW i \in Legs, HangupOpenAI(i), UNCHANGED oai, hangups[i] = 0
      PROVE  Ledger!Release(i) \/ UNCHANGED Ledger!vars
  <2>1. CASE oai[i] = "known"
    BY <1>h, <2>1, <1>t DEF HangupOpenAI, Ledger!Release, TypeOK
  <2>2. CASE oai[i] # "known"
    <3>1. UNCHANGED hangups
      BY <1>h, <2>2, <1>t DEF HangupOpenAI, TypeOK
    <3> QED
      BY <1>h, <3>1
  <2> QED
    BY <2>1, <2>2
<1>3. ASSUME NEW i \in Legs, AbortAnswered(i)
      PROVE  Ledger!Release(i) \/ UNCHANGED Ledger!vars
  <2>1. hangups[i] = 0
    BY <1>3, <1>t DEF AbortAnswered, IdKnown, Registered
  <2> QED
    BY <1>3, <2>1, <1>h DEF AbortAnswered
<1>4. ASSUME NEW t \in Tasks, Hang(t)
      PROVE  \/ Ledger!Release(victim[t]) /\ victim[t] \in Legs
             \/ UNCHANGED Ledger!vars
  <2>1. /\ victim[t] \in Legs /\ hangups[victim[t]] = 0
        /\ inv[victim[t]] \in Registered
    BY <1>4, <1>t DEF Hang, ClaimedOnce, Claims, Tearing, TypeOK
  <2> QED
    BY <1>4, <2>1, <1>h DEF Hang
<1>5. ASSUME NEW i \in Legs, Handler(i)
      PROVE  CreateCallOk(i) \/ CreateCallFails(i) \/ AbortAnswered(i)
               \/ UNCHANGED <<oai, hangups>>
  BY <1>5
  DEF Handler, AnswerAcked, AnswerFails, Register, DialOk, DialFails, ConfigureOk,
      ConfigureFails, GreetAfter
<1>6. ASSUME NEW i \in Legs,
             \/ Caller(i) \/ ReadBye(i) \/ RecvEvent(i) \/ RecvError(i)
             \/ EventHandling(i) \/ KeepaliveStops(i) \/ Greeter(i)
      PROVE  UNCHANGED <<oai, hangups>>
  BY <1>6
  DEF Caller, RejectInvite, AcceptInvite, CallerCancels, Ack, ByeArrives, NotifyFinal,
      ReadBye, RecvEvent, RecvError, EventHandling, ParseUsage, SpeechStarted,
      ModelHangup, SendRefer, ReferEnds, KeepaliveStops, Greeter, GreeterDone,
      GreeterTimer, GreeterSend
<1>7. ASSUME NEW t \in Tasks, EndCall(t) PROVE Hang(t) \/ UNCHANGED <<oai, hangups>>
  BY <1>7 DEF EndCall, TakeCall, AlreadyTornDown, SendBye, CloseDone, CloseConn
<1>8. CASE UNCHANGED vars
  BY <1>8 DEF vars
<1> QED
  BY <1>1, <1>2, <1>3, <1>4, <1>5, <1>6, <1>7, <1>8 DEF Next, Ledger!Next

\* The gateway implements CallLedger: an OpenAI call is opened once and
\* released at most once, after it was opened (onInvite, endCall).
THEOREM ImplementsLedger == Spec => LedgerSpec
<1>1. Init => Ledger!Init
  BY DEF Init, Ledger!Init
<1> QED
  BY <1>1, LedgerStep, InvariantHolds, PTL DEF Spec, LedgerSpec, Ledger!Spec

-----------------------------------------------------------------------------
(***************************************************************************)
(* When no two legs share a Call-ID: who owns an OpenAI call, what the     *)
(* usage header may say, and that no caller is cut off without a BYE.  It  *)
(* rests on where a leg's dialog can be; that part, DialogInv, holds of    *)
(* any Call-IDs.                                                           *)
(***************************************************************************)

\* Where the SIP dialog of a leg can be, given its INVITE handler and its BYE
\* handler: a call is registered only once its dialog was confirmed, and ReadBye
\* leaves no dialog behind it.
DialogAt(i) ==
  /\ inv[i] \in {"idle", "rejected"} => dlg[i] = "none"
  /\ inv[i] = "creating" => dlg[i] \in {"early", "cancelled"}
  /\ inv[i] = "answering" => dlg[i] \notin {"none", "early"}
  /\ inv[i] \in {"failed", "abort"} => dlg[i] \in {"ended", "cancelled"}
  /\ inv[i] \in {"acked"} \cup Registered => dlg[i] \in {"confirmed", "ended"}
  /\ tpc[<<i, "bye">>] = "readbye" => dlg[i] \notin {"none", "early"}
  /\ tpc[<<i, "bye">>] \notin {"idle", "readbye"} => dlg[i] \in {"ended", "cancelled"}

DialogInv == \A i \in Legs : DialogAt(i)

\* Once Close has logged, the call is out of the registry and no task that has
\* it will send a header.
LogInv ==
  \A i \in Legs : logged[i] # NoUsage =>
    /\ inv[i] \in Registered
    /\ ~InRegistry(i)
    /\ \A t \in Tasks : Claims(t, i) => tpc[t] = "hang"

\* A header that was sent or prepared is within the tally, which only grows, and
\* within what was logged.
HeaderInv ==
  \A i \in Legs :
    /\ snap[i] # NoUsage => snap[i] <= usage[i]
    /\ hdr[i] # NoUsage => hdr[i] <= usage[i]
    /\ logged[i] # NoUsage =>
         /\ snap[i] # NoUsage => snap[i] <= logged[i]
         /\ hdr[i] # NoUsage => hdr[i] <= logged[i]

\* A task tears down its own leg, and past sendBye the caller is out of the
\* dialog or the BYE to it failed.
ByeInv ==
  \A t \in Tasks, i \in Legs : Claims(t, i) =>
    /\ i = t[1]
    /\ tpc[t] # "sendbye" => dlg[i] # "confirmed" \/ byeErr[i]

DistinctInv == DialogInv /\ Ownership /\ LogInv /\ HeaderInv /\ ByeInv

-----------------------------------------------------------------------------
\* What the steps of the INVITE handler and the caller do to leg i.
LEMMA DialogStep ==
  ASSUME IndInv, TypeOK', DialogInv, [Next]_vars
  PROVE  DialogInv'
<1> USE TaskFacts DEF Step, legVars, ctrlVars, taskVars
<1>t. TypeOK /\ ClaimedOnce /\ TypeOK'
  BY DEF IndInv
<1>p. \A i \in Legs : tpc[<<i, "bye">>] \in TaskStates
  BY <1>t DEF TypeOK
\* A step that leaves the BYE handlers alone and moves one leg.
<1>m. ASSUME NEW i \in Legs, NEW s \in InvStates, NEW d \in DlgStates,
             inv' = [inv EXCEPT ![i] = s], dlg' = [dlg EXCEPT ![i] = d],
             \A j \in Legs : tpc'[<<j, "bye">>] = tpc[<<j, "bye">>],
             s \in {"idle", "rejected"} => d = "none",
             s = "creating" => d \in {"early", "cancelled"},
             s = "answering" => d \notin {"none", "early"},
             s \in {"failed", "abort"} => d \in {"ended", "cancelled"},
             s \in {"acked"} \cup Registered => d \in {"confirmed", "ended"},
             tpc[<<i, "bye">>] = "readbye" => d \notin {"none", "early"},
             tpc[<<i, "bye">>] \notin {"idle", "readbye"} => d \in {"ended", "cancelled"}
      PROVE  DialogInv'
  <2>1. /\ inv'[i] = s /\ dlg'[i] = d
        /\ \A j \in Legs \ {i} : inv'[j] = inv[j] /\ dlg'[j] = dlg[j]
    BY <1>m, <1>t DEF TypeOK
  <2>2. \A j \in Legs \ {i} : tpc'[<<j, "bye">>] = tpc[<<j, "bye">>]
    BY <1>m
  <2>3. tpc'[<<i, "bye">>] = tpc[<<i, "bye">>]
    BY <1>m
  <2>4. ASSUME NEW j \in Legs \ {i}
        PROVE  DialogAt(j)'
    BY <2>1, <2>2, <2>4 DEF DialogInv, DialogAt
  <2>5. DialogAt(i)'
    BY <1>m, <2>1, <2>3 DEF DialogAt
  <2> QED
    BY <2>4, <2>5 DEF DialogInv, DialogAt
\* A step that leaves the dialogs and their handlers alone.
<1>u. ASSUME UNCHANGED <<inv, dlg>>,
             \A j \in Legs : tpc'[<<j, "bye">>] = tpc[<<j, "bye">>]
      PROVE  DialogInv'
  BY <1>u DEF DialogInv, DialogAt
<1>1. ASSUME NEW i \in Legs, Handler(i) PROVE DialogInv'
  <2>1. CASE CreateCallOk(i) \/ CreateCallFails(i)
    <3>1. /\ inv[i] = "creating" /\ UNCHANGED tpc
          /\ dlg[i] \in {"early", "cancelled"}
      BY <2>1, <1>1 DEF CreateCallOk, CreateCallFails, DialogInv, DialogAt
    <3>2. PICK s \in {"answering", "failed"}, d \in {"answered", "cancelled"} :
            /\ inv' = [inv EXCEPT ![i] = s] /\ dlg' = [dlg EXCEPT ![i] = d]
            /\ d = "answered" => dlg[i] = "early" /\ s = "answering"
      BY <2>1, <3>1 DEF CreateCallOk, CreateCallFails
    <3>3. /\ s \in InvStates /\ d \in DlgStates
          /\ s \notin {"acked"} \cup Registered
      BY DEF InvStates, DlgStates, Registered
    <3> QED
      BY <1>m, <3>1, <3>2, <3>3 DEF DialogInv, DialogAt
  <2>2. CASE AnswerAcked(i) \/ AnswerFails(i)
    <3>1. inv[i] = "answering" /\ UNCHANGED tpc /\ dlg[i] \in DlgStates
          /\ dlg[i] \notin {"none", "early"}
      BY <2>2, <1>t DEF AnswerAcked, AnswerFails, DialogInv, DialogAt, TypeOK
    <3>2. PICK s \in {"acked", "abort"}, d \in DlgStates :
            /\ inv' = [inv EXCEPT ![i] = s] /\ dlg' = [dlg EXCEPT ![i] = d]
            /\ s = "acked" => d = dlg[i] /\ d \in {"confirmed", "ended"}
            /\ s = "abort" => d = IF dlg[i] = "answered" THEN "cancelled" ELSE dlg[i]
            /\ s = "abort" => dlg[i] # "confirmed"
      <4>1. CASE AnswerAcked(i)
        BY <4>1, <3>1, <1>t DEF AnswerAcked, TypeOK
      <4>2. CASE AnswerFails(i)
        BY <4>2, <3>1, <1>t DEF AnswerFails, TypeOK, DlgStates
      <4> QED
        BY <2>2, <4>1, <4>2
    <3>3. s \in InvStates /\ s \notin Registered
      BY DEF InvStates, Registered
    <3> QED
      BY <1>m, <3>1, <3>2, <3>3 DEF DialogInv, DialogAt, DlgStates
  <2>3. CASE \/ AbortAnswered(i) \/ Register(i) \/ DialOk(i) \/ DialFails(i)
             \/ ConfigureOk(i) \/ ConfigureFails(i) \/ GreetAfter(i)
    <3>1. UNCHANGED <<tpc, dlg>> /\ dlg' = [dlg EXCEPT ![i] = dlg[i]]
          /\ dlg[i] \in DlgStates
      BY <2>3, <1>t
      DEF AbortAnswered, Register, DialOk, DialFails, ConfigureOk, ConfigureFails,
          GreetAfter, TypeOK
    <3>2. PICK s \in {"failed"} \cup Registered :
            /\ inv' = [inv EXCEPT ![i] = s]
            /\ s = "failed" => inv[i] = "abort"
            /\ s \in Registered => inv[i] \in {"acked"} \cup Registered
      BY <2>3
      DEF AbortAnswered, Register, DialOk, DialFails, ConfigureOk, ConfigureFails,
          GreetAfter, Registered
    <3>3. s \in InvStates
          /\ s \notin {"idle", "rejected", "creating", "answering", "abort", "acked"}
          /\ (s = "failed" => s \notin Registered)
      BY DEF InvStates, Registered
    <3> QED
      BY <1>m, <3>1, <3>2, <3>3 DEF DialogInv, DialogAt
  <2> QED
    BY <1>1, <2>1, <2>2, <2>3 DEF Handler
<1>2. ASSUME NEW i \in Legs, RejectInvite(i) \/ AcceptInvite(i) PROVE DialogInv'
  <2>1. inv[i] = "idle" /\ dlg[i] = "none" /\ UNCHANGED tpc /\ tpc[<<i, "bye">>] = "idle"
    BY <1>2 DEF RejectInvite, AcceptInvite, DialogInv, DialogAt
  <2>2. PICK s \in {"rejected", "creating"}, d \in {"none", "early"} :
          /\ inv' = [inv EXCEPT ![i] = s] /\ dlg' = [dlg EXCEPT ![i] = d]
          /\ s = "rejected" => d = "none"
          /\ s = "creating" => d = "early"
    BY <1>2, <2>1, <1>t DEF RejectInvite, AcceptInvite, TypeOK
  <2>3. s \in InvStates /\ d \in DlgStates /\ s \notin {"acked"} \cup Registered
    BY DEF InvStates, DlgStates, Registered
  <2> QED
    BY <1>m, <2>1, <2>2, <2>3
<1>3. ASSUME NEW i \in Legs, CallerCancels(i) \/ Ack(i) PROVE DialogInv'
  <2>1. UNCHANGED <<inv, tpc>> /\ inv[i] \in InvStates /\ inv' = [inv EXCEPT ![i] = inv[i]]
    BY <1>3, <1>t DEF CallerCancels, Ack, TypeOK
  <2>2. PICK d \in {"cancelled", "confirmed"} :
          /\ dlg' = [dlg EXCEPT ![i] = d]
          /\ d = "cancelled" => dlg[i] = "early"
          /\ d = "confirmed" => dlg[i] = "answered"
    BY <1>3 DEF CallerCancels, Ack
  <2>3. d \in DlgStates
    BY DEF DlgStates
  <2> QED
    BY <1>m, <2>1, <2>2, <2>3 DEF DialogInv, DialogAt
<1>4. ASSUME NEW i \in Legs, ByeArrives(i) PROVE DialogInv'
  <2>1. /\ dlg[i] \in {"answered", "confirmed", "ended"} /\ UNCHANGED <<inv, dlg>>
        /\ \A j \in Legs : tpc'[<<j, "bye">>] =
                             IF j = i THEN "readbye" ELSE tpc[<<j, "bye">>]
    BY <1>4, <1>t DEF ByeArrives, TypeOK
  <2> QED
    BY <2>1 DEF DialogInv, DialogAt
<1>5. ASSUME NEW i \in Legs, ReadBye(i) PROVE DialogInv'
  <2>1. /\ tpc[<<i, "bye">>] = "readbye" /\ UNCHANGED inv
        /\ \A j \in Legs : tpc'[<<j, "bye">>] =
                             IF j = i THEN "take" ELSE tpc[<<j, "bye">>]
    BY <1>5, <1>t DEF ReadBye, TypeOK
  <2>2. dlg[i] \in DlgStates \ {"none", "early"}
    BY <2>1, <1>t DEF DialogInv, DialogAt, TypeOK
  <2>3. PICK d \in {"ended", "cancelled"} :
          /\ \A j \in Legs : dlg'[j] = IF j = i THEN d ELSE dlg[j]
          /\ dlg[i] \in {"confirmed", "ended"} => d = "ended"
    <3>1. CASE dlg[i] \in {"answered", "confirmed"}
      <4>1. dlg' = [dlg EXCEPT ![i] = IF @ = "confirmed" THEN "ended" ELSE "cancelled"]
        BY <1>5, <3>1 DEF ReadBye
      <4> QED
        BY <4>1, <1>t, <3>1 DEF TypeOK
    <3>2. CASE dlg[i] \notin {"answered", "confirmed"}
      <4>1. dlg' = dlg
        BY <1>5, <3>2 DEF ReadBye
      <4> QED
        BY <4>1, <2>2, <3>2 DEF DlgStates
    <3> QED
      BY <3>1, <3>2
  <2>4. \A j \in Legs : j = i => inv[j] \notin {"idle", "rejected"}
                              /\ (inv[j] = "creating" => d = "cancelled")
    <3>1. inv[i] \notin {"idle", "rejected"}
      BY <2>2 DEF DialogInv, DialogAt
    <3>2. inv[i] = "creating" => dlg[i] = "cancelled"
      BY <2>2 DEF DialogInv, DialogAt
    <3>3. inv[i] = "creating" => d = "cancelled"
      <4>1. dlg[i] \notin {"answered", "confirmed"} => dlg' = dlg
        BY <1>5 DEF ReadBye
      <4> QED
        BY <3>2, <4>1, <2>3
    <3> QED
      BY <3>1, <3>3
  <2> QED
    BY <2>1, <2>3, <2>4 DEF DialogInv, DialogAt
<1>6. ASSUME NEW i \in Legs,
             \/ NotifyFinal(i) \/ RecvEvent(i) \/ RecvError(i) \/ EventHandling(i)
             \/ KeepaliveStops(i) \/ Greeter(i)
      PROVE  DialogInv'
  <2>1. UNCHANGED <<inv, dlg>>
    BY <1>6
    DEF NotifyFinal, RecvEvent, RecvError, EventHandling, ParseUsage, SpeechStarted,
        ModelHangup, SendRefer, ReferEnds, KeepaliveStops, Greeter, GreeterDone,
        GreeterTimer, GreeterSend
  <2>2. \A j \in Legs : tpc'[<<j, "bye">>] = tpc[<<j, "bye">>]
    <3>1. \/ UNCHANGED tpc
          \/ \E k \in {"notify", "model"}, s \in {"take"} : tpc' = [tpc EXCEPT ![<<i, k>>] = s]
      BY <1>6
      DEF NotifyFinal, RecvEvent, RecvError, EventHandling, ParseUsage, SpeechStarted,
          ModelHangup, SendRefer, ReferEnds, KeepaliveStops, Greeter, GreeterDone,
          GreeterTimer, GreeterSend
    <3> QED
      BY <3>1, <1>t DEF TypeOK
  <2> QED
    BY <1>u, <2>1, <2>2
<1>7. ASSUME NEW t \in Tasks, EndCall(t) PROVE DialogInv'
  <2>1. UNCHANGED inv /\ tpc[t] \in InModelTask
        /\ \E s \in TaskStates \ {"readbye"} :
              /\ tpc' = [tpc EXCEPT ![t] = s]
              /\ t[2] = "bye" => s # "idle"
    BY <1>7, AfterFacts
    DEF EndCall, TakeCall, AlreadyTornDown, SendBye, CloseDone, CloseConn, Hang,
        Advance, TaskReturns, InModelTask, Tearing, TaskStates
  <2>2. \A j \in Legs :
          /\ tpc'[<<j, "bye">>] = "readbye" => tpc[<<j, "bye">>] = "readbye"
          /\ tpc'[<<j, "bye">>] \notin {"idle", "readbye"}
               => tpc[<<j, "bye">>] \notin {"idle", "readbye"}
    BY <2>1, <1>t DEF TypeOK, InModelTask, Tearing
  <2>3. \A j \in Legs : dlg'[j] # dlg[j] => dlg[j] = "confirmed" /\ dlg'[j] = "ended"
    <3>1. CASE SendBye(t)
      <4>1. \/ UNCHANGED dlg
            \/ /\ dlg[victim[t]] = "confirmed"
               /\ dlg' = [dlg EXCEPT ![victim[t]] = "ended"]
        BY <3>1 DEF SendBye
      <4> QED
        BY <4>1, <1>t DEF TypeOK
    <3>2. CASE ~SendBye(t)
      BY <3>2, <1>7 DEF EndCall, TakeCall, AlreadyTornDown, CloseDone, CloseConn, Hang
    <3> QED
      BY <3>1, <3>2
  <2> QED
    BY <2>1, <2>2, <2>3 DEF DialogInv, DialogAt
<1>8. CASE UNCHANGED vars
  BY <1>8 DEF vars, DialogInv, DialogAt
<1> QED
  BY <1>1, <1>2, <1>3, <1>4, <1>5, <1>6, <1>7, <1>8 DEF Next, Caller

-----------------------------------------------------------------------------
\* The tasks and the registry, as one step of the invariant needs them.
LEMMA TaskState ==
  ASSUME IndInv
  PROVE  /\ TypeOK /\ ClaimedOnce /\ RegistryLive /\ IdKnown
         /\ \A t \in Tasks : tpc[t] \in Tearing =>
              /\ victim[t] \in Legs
              /\ inv[victim[t]] \in Registered
              /\ hangups[victim[t]] = 0
              /\ \A u \in Tasks : victim[u] = victim[t] => u = t
         /\ \A t \in Tasks : tpc[t] \notin Tearing => victim[t] = NoLeg
  BY DEF IndInv, ClaimedOnce, Claims, TypeOK

\* The owner of a call gives it up only to another one, or hangs it up.
LEMMA OwnershipStep ==
  ASSUME DistinctCallIds, IndInv, Ownership, [Next]_vars
  PROVE  Ownership'
<1> USE LegsAssumption, TaskFacts
    DEF Step, legVars, ctrlVars, taskVars, InRegistry, Claimed, Claims
<1>t. TypeOK /\ ClaimedOnce /\ RegistryLive /\ IdKnown
  BY TaskState
\* A step of a handler that leaves the registry, the teardowns and the hangups alone.
<1>m. ASSUME NEW i \in Legs, NEW s \in InvStates, NEW o \in OaiStates,
             inv' = [inv EXCEPT ![i] = s], oai' = [oai EXCEPT ![i] = o],
             UNCHANGED <<hangups, calls, victim>>,
             \/ s \in {"answering", "abort", "acked"}
             \/ o # "known"
             \/ o = oai[i] /\ inv[i] \notin {"answering", "abort", "acked"}
      PROVE  Ownership'
  BY <1>m, <1>t DEF Ownership, TypeOK
<1>u. ASSUME UNCHANGED <<inv, oai, hangups, calls, victim>> PROVE Ownership'
  BY <1>u DEF Ownership
<1>1. ASSUME NEW i \in Legs, Handler(i) PROVE Ownership'
  <2>o. oai[i] \in OaiStates /\ oai' = [oai EXCEPT ![i] = oai[i]] <=> oai' = oai
    BY <1>t DEF TypeOK
  <2>1. CASE CreateCallOk(i) \/ CreateCallFails(i)
    <3>1. PICK s \in {"answering", "failed"}, o \in OaiStates :
            /\ inv' = [inv EXCEPT ![i] = s] /\ oai' = [oai EXCEPT ![i] = o]
            /\ s = "failed" => o # "known"
      BY <2>1, ConfigAssumption DEF CreateCallOk, CreateCallFails, OaiStates
    <3>2. s \in InvStates /\ UNCHANGED <<hangups, calls, victim>>
      BY <2>1 DEF CreateCallOk, CreateCallFails, InvStates
    <3> QED
      BY <1>m, <3>1, <3>2
  <2>2. CASE \/ AnswerAcked(i) \/ AnswerFails(i) \/ DialOk(i) \/ DialFails(i)
             \/ ConfigureOk(i) \/ ConfigureFails(i) \/ GreetAfter(i)
    <3>1. PICK s \in InvStates :
            /\ inv' = [inv EXCEPT ![i] = s]
            /\ \/ s \in {"abort", "acked"}
               \/ inv[i] \notin {"answering", "abort", "acked"}
      BY <2>2
      DEF AnswerAcked, AnswerFails, DialOk, DialFails, ConfigureOk, ConfigureFails,
          GreetAfter, InvStates
    <3>2. UNCHANGED <<oai, hangups, calls, victim>>
      BY <2>2
      DEF AnswerAcked, AnswerFails, DialOk, DialFails, ConfigureOk, ConfigureFails,
          GreetAfter
    <3>3. oai' = [oai EXCEPT ![i] = oai[i]] /\ oai[i] \in OaiStates
      BY <3>2, <1>t DEF TypeOK
    <3> QED
      BY <1>m, <3>1, <3>2, <3>3
  <2>3. CASE AbortAnswered(i)
    <3>1. hangups[i] = 0 /\ UNCHANGED <<oai, calls, victim>>
      BY <2>3, <1>t DEF AbortAnswered, IdKnown, Registered
    <3>2. \A j \in Legs : /\ inv'[j] = IF j = i THEN "failed" ELSE inv[j]
                          /\ hangups'[j] = IF j = i /\ oai[i] = "known" THEN 1 ELSE hangups[j]
      BY <2>3, <3>1, <1>t DEF AbortAnswered, HangupOpenAI, TypeOK
    <3> QED
      BY <3>1, <3>2 DEF Ownership
  <2>4. CASE Register(i)
    <3>1. /\ UNCHANGED <<oai, hangups, victim>>
          /\ inv' = [inv EXCEPT ![i] = "dialing"]
          /\ calls' = [calls EXCEPT ![CallIdOf[i]] = i]
      BY <2>4 DEF Register
    <3>2. \A j \in Legs : j # i => CallIdOf[j] # CallIdOf[i]
      BY DEF DistinctCallIds
    <3>3. \A j \in Legs : calls'[CallIdOf[j]] = IF j = i THEN i ELSE calls[CallIdOf[j]]
      BY <3>1, <3>2, <1>t DEF TypeOK
    <3>4. \A j \in Legs : inv'[j] = IF j = i THEN "dialing" ELSE inv[j]
      BY <3>1, <1>t DEF TypeOK
    <3> QED
      BY <3>1, <3>3, <3>4 DEF Ownership
  <2> QED
    BY <1>1, <2>1, <2>2, <2>3, <2>4 DEF Handler
<1>2. ASSUME NEW i \in Legs, RejectInvite(i) \/ AcceptInvite(i) PROVE Ownership'
  <2>1. /\ inv[i] = "idle" /\ UNCHANGED <<oai, hangups, calls, victim>>
        /\ \E s \in InvStates : inv' = [inv EXCEPT ![i] = s]
    BY <1>2 DEF RejectInvite, AcceptInvite, InvStates
  <2>2. oai' = [oai EXCEPT ![i] = oai[i]] /\ oai[i] \in OaiStates
    BY <2>1, <1>t DEF TypeOK
  <2> QED
    BY <1>m, <2>1, <2>2
<1>3. ASSUME NEW i \in Legs,
             \/ CallerCancels(i) \/ Ack(i) \/ ByeArrives(i) \/ NotifyFinal(i)
             \/ ReadBye(i) \/ RecvEvent(i) \/ RecvError(i) \/ EventHandling(i)
             \/ KeepaliveStops(i) \/ Greeter(i)
      PROVE  Ownership'
  <2>1. UNCHANGED <<inv, oai, hangups, calls, victim>>
    BY <1>3
    DEF CallerCancels, Ack, ByeArrives, NotifyFinal, ReadBye, RecvEvent, RecvError,
        EventHandling, ParseUsage, SpeechStarted, ModelHangup, SendRefer, ReferEnds,
        KeepaliveStops, Greeter, GreeterDone, GreeterTimer, GreeterSend
  <2> QED
    BY <2>1, <1>u
<1>4. ASSUME NEW t \in Tasks, EndCall(t) PROVE Ownership'
  <2>1. CASE TakeCall(t)
    <3> DEFINE c == CallIdOf[t[1]]
    <3>1. /\ victim[t] = NoLeg /\ calls[c] \in Legs /\ c \in CallIds
          /\ victim' = [victim EXCEPT ![t] = calls[c]]
          /\ calls' = [calls EXCEPT ![c] = NoLeg]
          /\ UNCHANGED <<inv, oai, hangups>>
      <4>1. tpc[t] = "take" /\ calls[c] # NoLeg
        BY <2>1 DEF TakeCall, Advance
      <4>2. victim[t] = NoLeg
        BY <4>1, TaskState DEF Tearing
      <4>3. c \in CallIds /\ calls[c] \in Legs
        BY <4>1, <1>t DEF TypeOK
      <4> QED
        BY <2>1, <4>2, <4>3 DEF TakeCall, RemoveEntry
    <3>2. ASSUME NEW j \in Legs, calls[CallIdOf[j]] = j
          PROVE  calls'[CallIdOf[j]] = j \/ victim'[t] = j
      BY <3>1, <3>2, <1>t DEF TypeOK
    <3>3. ASSUME NEW j \in Legs, NEW u \in Tasks, victim[u] = j
          PROVE  victim'[u] = j
      BY <3>1, <3>3, <1>t DEF TypeOK
    <3> QED
      BY <3>1, <3>2, <3>3 DEF Ownership
  <2>2. CASE AlreadyTornDown(t) \/ SendBye(t) \/ CloseDone(t) \/ CloseConn(t)
    BY <2>2, <1>u DEF AlreadyTornDown, SendBye, CloseDone, CloseConn
  <2>3. CASE Hang(t)
    <3> DEFINE v == victim[t]
    <3>1. v \in Legs /\ hangups[v] = 0
      BY <2>3, TaskState DEF Hang, Tearing
    <3>2. /\ UNCHANGED <<inv, oai, calls>>
          /\ \A j \in Legs :
               hangups'[j] = IF j = v /\ oai[v] = "known" THEN 1 ELSE hangups[j]
      BY <2>3, <3>1, <1>t DEF Hang, HangupOpenAI, TypeOK
    <3>3. \A u \in Tasks : victim'[u] = IF u = t THEN NoLeg ELSE victim[u]
      BY <2>3, <1>t DEF Hang, TypeOK
    <3> HIDE DEF v
    <3>4. victim[t] = v
      BY DEF v
    <3> QED
      BY <3>1, <3>2, <3>3, <3>4 DEF Ownership
  <2> QED
    BY <1>4, <2>1, <2>2, <2>3 DEF EndCall
<1>5. CASE UNCHANGED vars
  BY <1>5, <1>u DEF vars
<1> QED
  BY <1>1, <1>2, <1>3, <1>4, <1>5 DEF Next, Caller

-----------------------------------------------------------------------------
\* A teardown logs after it took the entry, and then only hangs up.
LEMMA LogStep ==
  ASSUME IndInv, LogInv, [Next]_vars
  PROVE  LogInv'
<1> USE LegsAssumption, TaskFacts
    DEF Step, legVars, ctrlVars, taskVars, InRegistry, Claims
<1>t. TypeOK /\ ClaimedOnce /\ RegistryLive
  BY TaskState
\* A step that leaves the calls that are held, and those that hold them, alone.
<1>u. ASSUME \A i \in Legs : inv[i] \in Registered => inv'[i] \in Registered,
             \A t \in Tasks : victim[t] # NoLeg => tpc'[t] = tpc[t],
             UNCHANGED <<calls, victim, logged>>
      PROVE  LogInv'
  BY <1>u DEF LogInv
<1>1. ASSUME NEW i \in Legs, Handler(i) \/ RejectInvite(i) \/ AcceptInvite(i) PROVE LogInv'
  <2>1. /\ UNCHANGED <<tpc, victim, logged>>
        /\ \E s \in InvStates : /\ inv' = [inv EXCEPT ![i] = s]
                                /\ inv[i] \in Registered => s \in Registered
    BY <1>1
    DEF Handler, CreateCallOk, CreateCallFails, AnswerAcked, AnswerFails, AbortAnswered,
        Register, DialOk, DialFails, ConfigureOk, ConfigureFails, GreetAfter,
        RejectInvite, AcceptInvite, InvStates, Registered
  <2>2. \A j \in Legs : inv[j] \in Registered => inv'[j] \in Registered
    BY <2>1, <1>t DEF TypeOK
  <2>3. CASE Register(i)
    <3>1. inv[i] \notin Registered /\ calls' = [calls EXCEPT ![CallIdOf[i]] = i]
      BY <2>3 DEF Register, Registered
    <3>2. \A j \in Legs : calls'[CallIdOf[j]] = j => j = i \/ calls[CallIdOf[j]] = j
      BY <3>1, <1>t DEF TypeOK
    <3> QED
      BY <2>1, <2>2, <3>1, <3>2 DEF LogInv
  <2>4. CASE ~Register(i)
    <3>1. UNCHANGED calls
      BY <1>1, <2>4
      DEF Handler, CreateCallOk, CreateCallFails, AnswerAcked, AnswerFails,
          AbortAnswered, DialOk, DialFails, ConfigureOk, ConfigureFails, GreetAfter,
          RejectInvite, AcceptInvite
    <3> QED
      BY <2>1, <2>2, <3>1, <1>u
  <2> QED
    BY <2>3, <2>4
<1>2. ASSUME NEW i \in Legs,
             \/ CallerCancels(i) \/ Ack(i) \/ ByeArrives(i) \/ NotifyFinal(i)
             \/ ReadBye(i) \/ RecvEvent(i) \/ RecvError(i) \/ EventHandling(i)
             \/ KeepaliveStops(i) \/ Greeter(i)
      PROVE  LogInv'
  <2>1. UNCHANGED <<inv, calls, victim, logged>>
    BY <1>2
    DEF CallerCancels, Ack, ByeArrives, NotifyFinal, ReadBye, RecvEvent, RecvError,
        EventHandling, ParseUsage, SpeechStarted, ModelHangup, SendRefer, ReferEnds,
        KeepaliveStops, Greeter, GreeterDone, GreeterTimer, GreeterSend
  <2>2. \/ UNCHANGED tpc
        \/ \E k \in Kinds, s \in {"readbye", "take"} :
             tpc[<<i, k>>] \notin Tearing /\ tpc' = [tpc EXCEPT ![<<i, k>>] = s]
    <3>1. CASE ModelHangup(i)
      <4>1. tpc[<<i, "model">>] \notin InModelTask
        BY <3>1 DEF ModelHangup, IndInv, ModelTaskIsRecvLoop
      <4> QED
        BY <3>1, <4>1 DEF ModelHangup, InModelTask
    <3>2. CASE ByeArrives(i) \/ ReadBye(i) \/ NotifyFinal(i)
      BY <3>2 DEF ByeArrives, ReadBye, NotifyFinal, Tearing
    <3>3. CASE ~(ModelHangup(i) \/ ByeArrives(i) \/ ReadBye(i) \/ NotifyFinal(i))
      BY <1>2, <3>3
      DEF CallerCancels, Ack, RecvEvent, RecvError, EventHandling, ParseUsage,
          SpeechStarted, SendRefer, ReferEnds, KeepaliveStops, Greeter, GreeterDone,
          GreeterTimer, GreeterSend
    <3> QED
      BY <3>1, <3>2, <3>3
  <2>3. ASSUME NEW t \in Tasks, victim[t] # NoLeg PROVE tpc'[t] = tpc[t]
    <3>1. tpc[t] \in Tearing /\ tpc \in [Tasks -> TaskStates]
      BY <2>3, <1>t DEF ClaimedOnce, TypeOK
    <3> QED
      BY <2>2, <3>1
  <2> QED
    BY <2>1, <2>3, <1>u
<1>3. ASSUME NEW t \in Tasks, EndCall(t) PROVE LogInv'
  <2>1. CASE TakeCall(t)
    <3> DEFINE c == CallIdOf[t[1]]
    <3>1. /\ victim[t] = NoLeg /\ calls[c] \in Legs /\ c \in CallIds
          /\ victim' = [victim EXCEPT ![t] = calls[c]]
          /\ calls' = [calls EXCEPT ![c] = NoLeg]
          /\ \A u \in Tasks : u # t => tpc'[u] = tpc[u]
          /\ UNCHANGED <<inv, logged>>
      <4>1. tpc[t] = "take" /\ calls[c] # NoLeg
        BY <2>1 DEF TakeCall, Advance
      <4>2. victim[t] = NoLeg
        BY <4>1, TaskState DEF Tearing
      <4>3. c \in CallIds /\ calls[c] \in Legs
        BY <4>1, <1>t DEF TypeOK
      <4> QED
        BY <2>1, <4>2, <4>3, <1>t DEF TakeCall, Advance, RemoveEntry, TypeOK
    <3>2. logged[calls[c]] = NoUsage
      BY <3>1, <1>t DEF RegistryLive, LogInv
    <3>3. \A j \in Legs : calls'[CallIdOf[j]] = j => calls[CallIdOf[j]] = j
      BY <3>1, <1>t DEF TypeOK
    <3>4. \A u \in Tasks : victim'[u] = IF u = t THEN calls[c] ELSE victim[u]
      BY <3>1, <1>t DEF TypeOK
    <3> HIDE DEF c
    <3> QED
      BY <3>1, <3>2, <3>3, <3>4 DEF LogInv
  <2>2. CASE AlreadyTornDown(t)
    <3>1. /\ victim[t] = NoLeg /\ UNCHANGED <<inv, calls, victim, logged>>
          /\ \A u \in Tasks : u # t => tpc'[u] = tpc[u]
      BY <2>2, <1>t, TaskState DEF AlreadyTornDown, TaskReturns, TypeOK, Tearing
    <3> QED
      BY <3>1, <1>u
  <2>3. CASE SendBye(t) \/ CloseDone(t)
    <3>1. /\ tpc[t] \in Tearing \ {"hang"} /\ UNCHANGED <<inv, calls, victim, logged>>
          /\ \A u \in Tasks : u # t => tpc'[u] = tpc[u]
      BY <2>3, <1>t DEF SendBye, CloseDone, Advance, TypeOK, Tearing
    <3>2. victim[t] \in Legs /\ logged[victim[t]] = NoUsage
      BY <3>1, TaskState DEF LogInv
    <3> QED
      BY <3>1, <3>2 DEF LogInv
  <2>4. CASE CloseConn(t)
    <3> DEFINE v == victim[t]
    <3>1. /\ tpc[t] \in Tearing /\ UNCHANGED <<inv, calls, victim>>
          /\ tpc' = [tpc EXCEPT ![t] = "hang"]
      BY <2>4, AfterFacts DEF CloseConn, Advance, Tearing
    <3>2. /\ v \in Legs /\ inv[v] \in Registered /\ calls[CallIdOf[v]] # v
          /\ \A u \in Tasks : victim[u] = v => u = t
      BY <3>1, <1>t, TaskState DEF RegistryLive, Claimed
    <3>3. \A j \in Legs : j # v => logged'[j] = logged[j]
      BY <2>4, <1>t DEF CloseConn, TypeOK
    <3>4. \A u \in Tasks : tpc'[u] = IF u = t THEN "hang" ELSE tpc[u]
      BY <3>1, <1>t DEF TypeOK
    <3> HIDE DEF v
    <3> QED
      BY <3>1, <3>2, <3>3, <3>4 DEF LogInv
  <2>5. CASE Hang(t)
    <3>1. /\ UNCHANGED <<inv, calls, logged>>
          /\ \A u \in Tasks : u # t => tpc'[u] = tpc[u]
          /\ \A u \in Tasks : victim'[u] = IF u = t THEN NoLeg ELSE victim[u]
      BY <2>5, <1>t DEF Hang, TaskReturns, TypeOK
    <3> QED
      BY <3>1 DEF LogInv
  <2> QED
    BY <1>3, <2>1, <2>2, <2>3, <2>4, <2>5 DEF EndCall
<1>4. CASE UNCHANGED vars
  BY <1>4, <1>u DEF vars
<1> QED
  BY <1>1, <1>2, <1>3, <1>4 DEF Next, Caller

-----------------------------------------------------------------------------
\* The header is prepared from the tally, and the log is written of the same tally later.
LEMMA HeaderStep ==
  ASSUME DistinctCallIds, IndInv, LogInv, HeaderInv, [Next]_vars
  PROVE  HeaderInv'
<1> USE LegsAssumption, UsageAssumption, TaskFacts
    DEF Step, legVars, ctrlVars, taskVars, InRegistry, Claims
<1>t. TypeOK /\ RegistryLive
  BY TaskState
<1>u. ASSUME UNCHANGED <<usage, snap, hdr, logged>> PROVE HeaderInv'
  BY <1>u DEF HeaderInv
<1>1. ASSUME NEW i \in Legs, ByeArrives(i) PROVE HeaderInv'
  <2> DEFINE ac == calls[CallIdOf[i]]
  <2>1. /\ UNCHANGED <<usage, hdr, logged>>
        /\ snap' = [snap EXCEPT ![i] = IF ac = NoLeg THEN NoUsage ELSE usage[ac]]
    BY <1>1 DEF ByeArrives
  <2>2. CASE ac = NoLeg
    BY <2>1, <2>2, <1>t DEF HeaderInv, TypeOK
  <2>3. CASE ac # NoLeg
    <3>1. ac \in Legs /\ CallIdOf[ac] = CallIdOf[i]
      BY <2>3, <1>t DEF RegistryLive, TypeOK
    <3>2. ac = i
      BY <3>1 DEF DistinctCallIds
    <3>3. logged[i] = NoUsage
      BY <3>2 DEF LogInv
    <3> QED
      BY <2>1, <3>2, <3>3, <1>t DEF HeaderInv, TypeOK
  <2> QED
    BY <2>2, <2>3
<1>2. ASSUME NEW i \in Legs, ReadBye(i) PROVE HeaderInv'
  <2>1. /\ UNCHANGED <<usage, logged>> /\ snap' = [snap EXCEPT ![i] = NoUsage]
        /\ hdr' = hdr \/ hdr' = [hdr EXCEPT ![i] = snap[i]]
    BY <1>2 DEF ReadBye
  <2> QED
    BY <2>1, <1>t DEF HeaderInv, TypeOK
<1>3. ASSUME NEW i \in Legs, ParseUsage(i) PROVE HeaderInv'
  <2>1. UNCHANGED <<snap, hdr, logged>> /\ usage' = [usage EXCEPT ![i] = @ + 1]
    BY <1>3 DEF ParseUsage
  <2>2. \A j \in Legs : usage[j] \in Nat /\ usage'[j] \in Nat /\ usage[j] <= usage'[j]
    BY <2>1, <1>t DEF TypeOK
  <2>3. \A j \in Legs : snap[j] \in Nat \cup {NoUsage} /\ hdr[j] \in Nat \cup {NoUsage}
    BY <1>t DEF TypeOK
  <2> QED
    BY <2>1, <2>2, <2>3 DEF HeaderInv
<1>4. ASSUME NEW t \in Tasks, SendBye(t) PROVE HeaderInv'
  <2> DEFINE v == victim[t]
  <2>1. /\ tpc[t] = "sendbye" /\ UNCHANGED <<usage, snap, logged>>
        /\ hdr' = hdr \/ hdr' = [hdr EXCEPT ![v] = usage[v]]
    BY <1>4 DEF SendBye, Advance
  <2>2. v \in Legs /\ logged[v] = NoUsage
    BY <2>1, TaskState DEF LogInv, Tearing
  <2> HIDE DEF v
  <2>3. \A j \in Legs : hdr'[j] = hdr[j] \/ (j = v /\ hdr'[j] = usage[j])
    BY <2>1, <2>2, <1>t DEF TypeOK
  <2>4. \A j \in Legs : usage[j] \in Nat
    BY <1>t DEF TypeOK
  <2> QED
    BY <2>1, <2>2, <2>3, <2>4 DEF HeaderInv
<1>5. ASSUME NEW t \in Tasks, CloseConn(t) PROVE HeaderInv'
  <2> DEFINE v == victim[t]
  <2>1. /\ tpc[t] = "closeconn" /\ UNCHANGED <<usage, snap, hdr>>
        /\ logged' = logged \/ logged' = [logged EXCEPT ![v] = usage[v]]
    BY <1>5 DEF CloseConn, Advance
  <2>2. v \in Legs
    BY <2>1, TaskState DEF Tearing
  <2>3. \A j \in Legs : logged'[j] = logged[j] \/ logged'[j] = usage[j]
    BY <2>1, <1>t DEF TypeOK
  <2> HIDE DEF v
  <2> QED
    BY <2>1, <2>3 DEF HeaderInv
<1>6. ASSUME NEW i \in Legs,
             \/ Handler(i) \/ RejectInvite(i) \/ AcceptInvite(i) \/ CallerCancels(i)
             \/ Ack(i) \/ NotifyFinal(i) \/ RecvEvent(i) \/ RecvError(i)
             \/ SpeechStarted(i) \/ ModelHangup(i) \/ SendRefer(i) \/ ReferEnds(i)
             \/ KeepaliveStops(i) \/ Greeter(i)
      PROVE  HeaderInv'
  <2>1. UNCHANGED <<usage, snap, hdr, logged>>
    BY <1>6
    DEF Handler, CreateCallOk, CreateCallFails, AnswerAcked, AnswerFails, AbortAnswered,
        Register, DialOk, DialFails, ConfigureOk, ConfigureFails, GreetAfter,
        RejectInvite, AcceptInvite, CallerCancels, Ack, NotifyFinal, RecvEvent,
        RecvError, SpeechStarted, ModelHangup, SendRefer, ReferEnds, KeepaliveStops,
        Greeter, GreeterDone, GreeterTimer, GreeterSend
  <2> QED
    BY <2>1, <1>u
<1>7. ASSUME NEW t \in Tasks,
             TakeCall(t) \/ AlreadyTornDown(t) \/ CloseDone(t) \/ Hang(t)
      PROVE  HeaderInv'
  BY <1>7, <1>u DEF TakeCall, AlreadyTornDown, CloseDone, Hang
<1>8. CASE UNCHANGED vars
  BY <1>8, <1>u DEF vars
<1> QED
  BY <1>1, <1>2, <1>3, <1>4, <1>5, <1>6, <1>7, <1>8
  DEF Next, Caller, EventHandling, EndCall

-----------------------------------------------------------------------------
\* A dialog that is not confirmed once its call is registered stays that way, and
\* a BYE that failed is not forgotten.
LEMMA CallerIsTold ==
  ASSUME IndInv, DialogInv, [Next]_vars, NEW i \in Legs, inv[i] \in Registered,
         dlg[i] # "confirmed" \/ byeErr[i]
  PROVE  dlg'[i] # "confirmed" \/ byeErr'[i]
<1> USE UsageAssumption, TaskFacts DEF Step, legVars, ctrlVars, taskVars
<1>t. TypeOK /\ dlg[i] \in {"confirmed", "ended"}
  BY TaskState DEF DialogInv, DialogAt
<1>1. ASSUME NEW j \in Legs, ReadBye(j) PROVE dlg'[i] # "confirmed" \/ byeErr'[i]
  <2>1. CASE dlg[j] \in {"answered", "confirmed"}
    <3>1. /\ dlg' = [dlg EXCEPT ![j] = IF @ = "confirmed" THEN "ended" ELSE "cancelled"]
          /\ UNCHANGED byeErr
      BY <1>1, <2>1 DEF ReadBye
    <3> QED
      BY <3>1, <1>t DEF TypeOK
  <2>2. CASE dlg[j] \notin {"answered", "confirmed"}
    BY <1>1, <2>2 DEF ReadBye
  <2> QED
    BY <2>1, <2>2
<1>2. ASSUME NEW t \in Tasks, SendBye(t)
      PROVE  dlg'[i] # "confirmed" \/ byeErr'[i]
  <2> DEFINE v == victim[t]
  <2>1. /\ dlg' = dlg \/ dlg' = [dlg EXCEPT ![v] = "ended"]
        /\ byeErr' = byeErr \/ byeErr' = [byeErr EXCEPT ![v] = TRUE]
    BY <1>2 DEF SendBye
  <2> QED
    BY <2>1, <1>t DEF TypeOK
<1>3. ASSUME NEW j \in Legs,
             \/ Handler(j) \/ RejectInvite(j) \/ AcceptInvite(j) \/ CallerCancels(j)
             \/ Ack(j)
      PROVE  dlg'[i] # "confirmed" \/ byeErr'[i]
  <2>1. UNCHANGED byeErr /\ (dlg'[i] # dlg[i] => dlg[i] \notin {"confirmed", "ended"} \/ dlg'[i] # "confirmed")
    BY <1>3, <1>t
    DEF Handler, CreateCallOk, CreateCallFails, AnswerAcked, AnswerFails, AbortAnswered,
        Register, DialOk, DialFails, ConfigureOk, ConfigureFails, GreetAfter,
        RejectInvite, AcceptInvite, CallerCancels, Ack, TypeOK
  <2> QED
    BY <2>1, <1>t
<1>4. ASSUME NEW j \in Legs,
             \/ ByeArrives(j) \/ NotifyFinal(j) \/ RecvEvent(j) \/ RecvError(j)
             \/ EventHandling(j) \/ KeepaliveStops(j) \/ Greeter(j)
      PROVE  UNCHANGED <<dlg, byeErr>>
  BY <1>4
  DEF ByeArrives, NotifyFinal, RecvEvent, RecvError, EventHandling, ParseUsage,
      SpeechStarted, ModelHangup, SendRefer, ReferEnds, KeepaliveStops, Greeter,
      GreeterDone, GreeterTimer, GreeterSend
<1>5. ASSUME NEW t \in Tasks,
             \/ TakeCall(t) \/ AlreadyTornDown(t) \/ CloseDone(t) \/ CloseConn(t)
             \/ Hang(t)
      PROVE  UNCHANGED <<dlg, byeErr>>
  BY <1>5 DEF TakeCall, AlreadyTornDown, CloseDone, CloseConn, Hang
<1>6. CASE UNCHANGED vars
  BY <1>6 DEF vars
<1> QED
  BY <1>1, <1>2, <1>3, <1>4, <1>5, <1>6 DEF Next, Caller, EndCall

\* A teardown passes sendBye only with the caller gone or the BYE failed.
LEMMA ByeStep ==
  ASSUME DistinctCallIds, IndInv, DialogInv, ByeInv, [Next]_vars
  PROVE  ByeInv'
<1> USE LegsAssumption, UsageAssumption, TaskFacts
    DEF Step, legVars, ctrlVars, taskVars
<1>t. TypeOK /\ ClaimedOnce /\ RegistryLive
  BY TaskState
<1> SUFFICES ASSUME NEW t \in Tasks, NEW i \in Legs, victim'[t] = i
             PROVE  /\ i = t[1]
                    /\ tpc'[t] # "sendbye" => dlg'[i] # "confirmed" \/ byeErr'[i]
  BY DEF ByeInv, Claims
\* The task had the call already and does not send the BYE in this step.
<1>k. ASSUME victim[t] = i, tpc'[t] = tpc[t] \/ tpc[t] # "sendbye"
      PROVE  /\ i = t[1]
             /\ tpc'[t] # "sendbye" => dlg'[i] # "confirmed" \/ byeErr'[i]
  <2>1. i = t[1] /\ inv[i] \in Registered
    BY <1>k, <1>t DEF ByeInv, Claims, ClaimedOnce
  <2>2. CASE tpc[t] = "sendbye"
    BY <2>1, <2>2, <1>k
  <2>3. CASE tpc[t] # "sendbye"
    <3>1. dlg[i] # "confirmed" \/ byeErr[i]
      BY <2>3, <1>k DEF ByeInv, Claims
    <3> QED
      BY <2>1, <3>1, CallerIsTold
  <2> QED
    BY <2>2, <2>3
<1>1. ASSUME NEW u \in Tasks, TakeCall(u)
      PROVE  /\ i = t[1]
             /\ tpc'[t] # "sendbye" => dlg'[i] # "confirmed" \/ byeErr'[i]
  <2>1. CASE t # u
    BY <1>1, <2>1, <1>t, <1>k DEF TakeCall, Advance, TypeOK
  <2>2. CASE t = u
    <3>1. /\ tpc[t] = "take" /\ i = calls[CallIdOf[t[1]]] /\ UNCHANGED dlg
          /\ tpc'[t] = IF t[2] = "bye" THEN "closedone" ELSE "sendbye"
      BY <1>1, <2>2, <1>t, AfterFacts DEF TakeCall, Advance, TypeOK
    <3>2. CallIdOf[i] = CallIdOf[t[1]]
      BY <3>1, <1>t DEF RegistryLive, TypeOK
    <3>3. i = t[1]
      BY <3>2 DEF DistinctCallIds
    <3>4. t[2] = "bye" => dlg[i] \in {"ended", "cancelled"}
      BY <3>1, <3>3 DEF DialogInv, DialogAt
    <3> QED
      BY <3>1, <3>3, <3>4
  <2> QED
    BY <2>1, <2>2
<1>2. ASSUME NEW u \in Tasks, SendBye(u)
      PROVE  /\ i = t[1]
             /\ tpc'[t] # "sendbye" => dlg'[i] # "confirmed" \/ byeErr'[i]
  <2>1. CASE t # u
    BY <1>2, <2>1, <1>t, <1>k DEF SendBye, Advance, TypeOK
  <2>2. CASE t = u
    <3>1. victim[t] = i
      BY <1>2, <2>2 DEF SendBye
    <3>2. i = t[1]
      BY <3>1 DEF ByeInv, Claims
    <3>3. dlg'[i] # "confirmed" \/ byeErr'[i]
      <4>1. dlg \in [Legs -> DlgStates] /\ byeErr \in [Legs -> BOOLEAN]
        BY <1>t DEF TypeOK
      <4> QED
        BY <1>2, <2>2, <3>1, <4>1 DEF SendBye
    <3> QED
      BY <3>2, <3>3
  <2> QED
    BY <2>1, <2>2
<1>3. ASSUME NEW u \in Tasks,
             AlreadyTornDown(u) \/ CloseDone(u) \/ CloseConn(u) \/ Hang(u)
      PROVE  /\ i = t[1]
             /\ tpc'[t] # "sendbye" => dlg'[i] # "confirmed" \/ byeErr'[i]
  <2>1. victim[t] = i
    BY <1>3, <1>t DEF AlreadyTornDown, CloseDone, CloseConn, Hang, TypeOK
  <2>2. tpc[u] # "sendbye" /\ (t # u => tpc'[t] = tpc[t])
    BY <1>3, <1>t
    DEF AlreadyTornDown, CloseDone, CloseConn, Hang, Advance, TaskReturns, TypeOK
  <2> QED
    BY <2>1, <2>2, <1>k
<1>4. ASSUME NEW j \in Legs,
             \/ Handler(j) \/ RejectInvite(j) \/ AcceptInvite(j) \/ CallerCancels(j)
             \/ Ack(j) \/ NotifyFinal(j) \/ ByeArrives(j) \/ ReadBye(j)
             \/ RecvEvent(j) \/ RecvError(j) \/ EventHandling(j)
             \/ KeepaliveStops(j) \/ Greeter(j)
      PROVE  UNCHANGED victim /\ (tpc'[t] = tpc[t] \/ tpc[t] # "sendbye")
  <2>1. UNCHANGED victim
    BY <1>4
    DEF Handler, CreateCallOk, CreateCallFails, AnswerAcked, AnswerFails, AbortAnswered,
        Register, DialOk, DialFails, ConfigureOk, ConfigureFails, GreetAfter,
        RejectInvite, AcceptInvite, CallerCancels, Ack, NotifyFinal, ByeArrives,
        ReadBye, RecvEvent, RecvError, EventHandling, ParseUsage, SpeechStarted,
        ModelHangup, SendRefer, ReferEnds, KeepaliveStops, Greeter, GreeterDone,
        GreeterTimer, GreeterSend
  <2>2. CASE ModelHangup(j)
    <3>1. tpc[<<j, "model">>] \notin InModelTask
      BY <2>2 DEF ModelHangup, IndInv, ModelTaskIsRecvLoop
    <3> QED
      BY <2>1, <2>2, <3>1, <1>t DEF ModelHangup, InModelTask, Tearing, TypeOK
  <2>3. CASE ByeArrives(j) \/ ReadBye(j) \/ NotifyFinal(j)
    BY <2>1, <2>3, <1>t DEF ByeArrives, ReadBye, NotifyFinal, TypeOK
  <2>4. CASE ~(ModelHangup(j) \/ ByeArrives(j) \/ ReadBye(j) \/ NotifyFinal(j))
    <3>1. UNCHANGED tpc
      BY <1>4, <2>4
      DEF Handler, CreateCallOk, CreateCallFails, AnswerAcked, AnswerFails,
          AbortAnswered, Register, DialOk, DialFails, ConfigureOk, ConfigureFails,
          GreetAfter, RejectInvite, AcceptInvite, CallerCancels, Ack, RecvEvent,
          RecvError, EventHandling, ParseUsage, SpeechStarted, SendRefer, ReferEnds,
          KeepaliveStops, Greeter, GreeterDone, GreeterTimer, GreeterSend
    <3> QED
      BY <2>1, <3>1
  <2> QED
    BY <2>2, <2>3, <2>4
<1>5. CASE UNCHANGED vars
  BY <1>5, <1>k DEF vars
<1> QED
  BY <1>1, <1>2, <1>3, <1>4, <1>5, <1>k DEF Next, Caller, EndCall

-----------------------------------------------------------------------------
\* In every reachable state, when no two legs share a Call-ID: where a dialog can
\* be, who owns an OpenAI call, and that headers, log and BYE come in the order
\* of endCall and onBye.
THEOREM DistinctInvHolds == ASSUME DistinctCallIds PROVE Spec => []DistinctInv
<1>1. Init => DistinctInv
  <2> SUFFICES ASSUME Init PROVE DistinctInv
    OBVIOUS
  <2> USE LegsAssumption, TaskFacts DEF Init
  <2>1. DialogInv
    BY DEF DialogInv, DialogAt, Registered
  <2>2. Ownership /\ LogInv /\ HeaderInv /\ ByeInv
    BY DEF Ownership, LogInv, HeaderInv, ByeInv, Claims
  <2> QED
    BY <2>1, <2>2 DEF DistinctInv
<1>2. ASSUME IndInv, TypeOK', DistinctInv, [Next]_vars PROVE DistinctInv'
  BY <1>2, DialogStep, OwnershipStep, LogStep, HeaderStep, ByeStep DEF DistinctInv
<1>3. IndInv => TypeOK
  BY DEF IndInv
<1> QED
  BY <1>1, <1>2, <1>3, InvariantHolds, PTL DEF Spec

\* No OpenAI call the gateway knows is ever without an owner (onInvite, endCall).
THEOREM OwnershipHolds == ASSUME DistinctCallIds PROVE Spec => []Ownership
<1>1. DistinctInv => Ownership
  BY DEF DistinctInv
<1> QED
  BY <1>1, DistinctInvHolds, PTL

\* The header the caller gets never says more than the log (usageHeaderFor, Close).
THEOREM HeaderIsWithinLog == ASSUME DistinctCallIds PROVE Spec => []HeaderWithinLog
<1>1. DistinctInv => HeaderWithinLog
  BY DEF DistinctInv, HeaderInv, HeaderWithinLog
<1> QED
  BY <1>1, DistinctInvHolds, PTL

\* Whoever hangs an OpenAI call up finds the caller's dialog over, ended it with a
\* BYE, or tried to and was told that the BYE failed (endCall, onInvite).
THEOREM LiveCallersAreNotCut == ASSUME DistinctCallIds PROVE Spec => NeverCutLive
<1>1. ASSUME IndInv, DistinctInv, [Next]_vars
      PROVE  [\A i \in Legs : hangups'[i] > hangups[i]
                => dlg[i] # "confirmed" \/ byeErr[i]]_vars
  <2> SUFFICES ASSUME Next, NEW i \in Legs, hangups'[i] > hangups[i]
               PROVE  dlg[i] # "confirmed" \/ byeErr[i]
    BY <1>1
  <2>t. TypeOK /\ hangups[i] \in Nat
    BY <1>1, TaskState DEF TypeOK
  <2>u. ~UNCHANGED hangups
    BY <2>t
  <2>1. ASSUME NEW j \in Legs, AbortAnswered(j)
        PROVE  dlg[i] # "confirmed" \/ byeErr[i]
    <3>1. i = j
      BY <2>1, <2>t DEF AbortAnswered, HangupOpenAI, TypeOK
    <3>2. inv[i] = "abort"
      BY <2>1, <3>1 DEF AbortAnswered, Step
    <3>3. dlg[i] \in {"ended", "cancelled"}
      BY <1>1, <3>2 DEF DistinctInv, DialogInv, DialogAt
    <3> QED
      BY <3>3
  <2>2. ASSUME NEW t \in Tasks, Hang(t)
        PROVE  dlg[i] # "confirmed" \/ byeErr[i]
    <3>1. victim[t] = i /\ tpc[t] = "hang"
      BY <2>2, <2>t DEF Hang, HangupOpenAI, TypeOK
    <3> QED
      BY <3>1, <1>1 DEF DistinctInv, ByeInv, Claims
  <2>3. ASSUME NEW j \in Legs, Handler(j) PROVE AbortAnswered(j)
    BY <2>3, <2>u
    DEF Handler, CreateCallOk, CreateCallFails, AnswerAcked, AnswerFails, Register,
        DialOk, DialFails, ConfigureOk, ConfigureFails, GreetAfter
  <2>4. ASSUME NEW j \in Legs,
               \/ Caller(j) \/ ReadBye(j) \/ RecvEvent(j) \/ RecvError(j)
               \/ EventHandling(j) \/ KeepaliveStops(j) \/ Greeter(j)
        PROVE  FALSE
    BY <2>4, <2>u
    DEF Caller, RejectInvite, AcceptInvite, CallerCancels, Ack, ByeArrives,
        NotifyFinal, ReadBye, RecvEvent, RecvError, EventHandling, ParseUsage,
        SpeechStarted, ModelHangup, SendRefer, ReferEnds, KeepaliveStops, Greeter,
        GreeterDone, GreeterTimer, GreeterSend, legVars
  <2>5. ASSUME NEW t \in Tasks, EndCall(t) PROVE Hang(t)
    BY <2>5, <2>u
    DEF EndCall, TakeCall, AlreadyTornDown, SendBye, CloseDone, CloseConn, legVars
  <2> QED
    BY <2>1, <2>2, <2>3, <2>4, <2>5 DEF Next
<1> QED
  BY <1>1, DistinctInvHolds, InvariantHolds, PTL DEF Spec, NeverCutLive
=============================================================================

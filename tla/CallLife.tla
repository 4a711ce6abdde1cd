----------------------------- MODULE CallLife -----------------------------
(***************************************************************************)
(* The life of one call of sip2ai, as its SIP handler and its media        *)
(* session both promise it: the interface between SipServer and            *)
(* CallSession.  A call is set up or fails, runs, and returns once its     *)
(* context is cancelled, unless a write to its provider blocks for ever;   *)
(* the process may die under it.                                           *)
(***************************************************************************)
VARIABLES
  stage,     \* none, setup, run, blocked (in a write to the provider),
             \* returned, failed, or lost with the process
  cancelled  \* the call's context

vars == <<stage, cancelled>>

Init ==
  /\ stage \in {"none", "setup"}
  /\ cancelled = FALSE

Begin ==
  /\ stage = "none"
  /\ stage' = "setup"
  /\ UNCHANGED cancelled

\* Answered, with a provider connected.
Start ==
  /\ stage = "setup"
  /\ stage' = "run"
  /\ UNCHANGED cancelled

\* The context may or may not be cancelled in the same step.
Fail ==
  /\ stage = "setup"
  /\ stage' = "failed"
  /\ cancelled' \in {cancelled, TRUE}

\* Run does not return with its context alive.
Return ==
  /\ stage = "run"
  /\ stage' = "returned"
  /\ cancelled' = TRUE

\* The provider stops reading what a goroutine of the call writes to it; it may
\* read on later, or the connection breaks, which cancels the call.
Block ==
  /\ stage = "run"
  /\ stage' = "blocked"
  /\ UNCHANGED cancelled

Unblock ==
  /\ stage = "blocked"
  /\ stage' = "run"
  /\ cancelled' \in {cancelled, TRUE}

Cancel == cancelled' = TRUE /\ UNCHANGED stage

Die ==
  /\ stage \in {"none", "setup", "run", "blocked"}
  /\ stage' = "lost"
  /\ cancelled' \in {cancelled, TRUE}

Next == Begin \/ Start \/ Fail \/ Return \/ Block \/ Unblock \/ Cancel \/ Die

Spec == Init /\ [][Next]_vars

\* The set-up comes to an end, and a cancelled call returns unless it is blocked
\* from some point on: nothing promises that a blocked call goes on.
Fairness == WF_vars(Start \/ Fail) /\ SF_vars(cancelled /\ Return)

FairSpec == Spec /\ Fairness
=============================================================================

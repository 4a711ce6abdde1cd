----------------------------- MODULE CallLedger -----------------------------
(***************************************************************************)
(* What the gateway promises about the OpenAI calls it pays for: a call is *)
(* opened at most once, and released at most once, after it was opened.    *)
(* How it is decided who releases it is Gateway's business.                *)
(***************************************************************************)
EXTENDS Naturals

CONSTANT Legs

VARIABLES
  opened,    \* legs whose OpenAI call id the gateway got
  releases   \* number of hangup requests per leg

vars == <<opened, releases>>

Init ==
  /\ opened = {}
  /\ releases = [i \in Legs |-> 0]

Open(i) ==
  /\ i \notin opened
  /\ opened' = opened \cup {i}
  /\ UNCHANGED releases

Release(i) ==
  /\ i \in opened
  /\ releases[i] = 0
  /\ releases' = [releases EXCEPT ![i] = 1]
  /\ UNCHANGED opened

Next == \E i \in Legs : Open(i) \/ Release(i)

Spec == Init /\ [][Next]_vars
=============================================================================

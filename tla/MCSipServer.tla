---------------------------- MODULE MCSipServer ----------------------------
(***************************************************************************)
(* SipServer for TLC: two calls, whose INVITEs are drawn from a few that   *)
(* differ in Call-ID, configuration and codec.                             *)
(***************************************************************************)
EXTENDS SipServer

CONSTANTS a, b, i1, i2

Ulaw == [name |-> "PCMU", rate |-> 8000]
L16  == [name |-> "L16", rate |-> 24000]
None == [name |-> "", rate |-> 0]

TwoCodecs == {Ulaw, L16}

Request(id, override, codec) == [id |-> id, override |-> override, codec |-> codec]

Plain   == Request(i1, "none", L16)
Own(id) == Request(id, "known", Ulaw)
Wrong   == Request(i2, "unknown", Ulaw)
Silent  == Request(i2, "none", None)

\* With and without a configuration of its own, with a wrong one, and without a
\* codec.
SomeInvites == {Plain, Own(i1), Own(i2), Wrong, Silent}

\* Both calls run, with two Call-IDs or with one; one takes the process down; one
\* is rejected.  The calls are interchangeable, so each pair is taken once.
Pairs == {<<Plain, Own(i2)>>, <<Plain, Own(i1)>>, <<Plain, Wrong>>, <<Own(i2), Silent>>}

PairInit == Init /\ <<invite[a], invite[b]>> \in Pairs
PairSpec == PairInit /\ [][Next]_vars /\ Fairness

PlainInvites == {Plain, Request(i2, "none", Ulaw)}
=============================================================================

---------------------------- MODULE MCCallSession ----------------------------
(***************************************************************************)
(* CallSession for TLC: the first connection and one or two reconnects.    *)
(***************************************************************************)
EXTENDS CallSession
=============================================================================

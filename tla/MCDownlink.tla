----------------------------- MODULE MCDownlink -----------------------------
(***************************************************************************)
(* Downlink for TLC: chunks shorter and longer than a frame, so that audio *)
(* is left over in the adapter.                                            *)
(***************************************************************************)
EXTENDS Downlink
=============================================================================

----------------------------- MODULE MCGateway -----------------------------
(***************************************************************************)
(* Gateway for TLC: one leg with everything switched on, or two legs that  *)
(* share a Call-ID.                                                        *)
(***************************************************************************)
EXTENDS Gateway, TLC

CONSTANTS l1, l2, c1

OneLeg    == l1 :> c1
SameCid   == l1 :> c1 @@ l2 :> c1
AllEvents == {"usage", "speech", "hangup", "transfer"}
=============================================================================

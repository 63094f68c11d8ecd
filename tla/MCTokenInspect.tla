--------------------------- MODULE MCTokenInspect ---------------------------
(***************************************************************************)
(* TokenInspect for TLC: two slots and two tokens with different PINs.     *)
(***************************************************************************)
EXTENDS TokenInspect, TLC

CONSTANTS s1, s2, t1, t2, p1, p2

MCPinOf == (t1 :> p1) @@ (t2 :> p2)
=============================================================================

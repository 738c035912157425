---------------------------- MODULE MCGatewayToken ----------------------------
(***************************************************************************)
(* Three lost calls, a grace period of two ticks.  At most three Gateways  *)
(* are orphans or named by a stray request, so four IDs suffice, and eight *)
(* secrets are never all in use.                                           *)
(***************************************************************************)
EXTENDS GatewayToken

MCGateways == {"g1", "g2", "g3", "g4"}
MCTokens == {"t1", "t2", "t3", "t4", "t5", "t6", "t7", "t8"}
MCNone == "none"
=============================================================================

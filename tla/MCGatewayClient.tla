-------------------------- MODULE MCGatewayClient --------------------------
(***************************************************************************)
(* Values of GatewayClient's constants for TLC.                            *)
(***************************************************************************)
EXTENDS GatewayClient, TLC

CONSTANTS a, b

Symmetry == Permutations(Slots)
=============================================================================

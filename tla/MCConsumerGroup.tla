--------------------------- MODULE MCConsumerGroup ---------------------------
(***************************************************************************)
(* Values of ConsumerGroup's constants for TLC.                            *)
(***************************************************************************)
EXTENDS ConsumerGroup

CONSTANTS a, b
=============================================================================

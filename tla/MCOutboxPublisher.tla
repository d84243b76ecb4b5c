-------------------------- MODULE MCOutboxPublisher --------------------------
(***************************************************************************)
(* Values of OutboxPublisher's constants for TLC.                          *)
(***************************************************************************)
EXTENDS OutboxPublisher, TLC

CONSTANTS a, b

Symmetry == Permutations(Publishers)
=============================================================================

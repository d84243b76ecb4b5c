--------------------------- MODULE MCRateLimiter ---------------------------
(***************************************************************************)
(* Values of RateLimiter's constants for TLC.                              *)
(***************************************************************************)
EXTENDS RateLimiter, TLC

CONSTANTS a, b

Symmetry == Permutations(Slots)
=============================================================================

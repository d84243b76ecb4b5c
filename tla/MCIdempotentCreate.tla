------------------------- MODULE MCIdempotentCreate -------------------------
(***************************************************************************)
(* Values of IdempotentCreate's constants for TLC: three requests share    *)
(* the key kShared, the last of them with an invalid body.                 *)
(***************************************************************************)
EXTENDS IdempotentCreate

CONSTANTS r1, r2, rInvalid, kShared

MCKeyOf == [r \in Requests |-> kShared]

MCValid == Requests \ {rInvalid}
=============================================================================

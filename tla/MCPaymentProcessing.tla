------------------------ MODULE MCPaymentProcessing ------------------------
(***************************************************************************)
(* Values of PaymentProcessing's constants for TLC.                        *)
(***************************************************************************)
EXTENDS PaymentProcessing, TLC

CONSTANTS p1, p2, w1, w2, w3, h1, h2, eSuccess, eFailed

MCAllDisruptions == DisruptionKinds

MCEventPayment == [e \in Events |-> p1]

MCEventStatus == [e \in Events |-> IF e = eFailed THEN "FAILED" ELSE "SUCCESS"]

Symmetry == Permutations(Workers) \cup Permutations(Hooks)
=============================================================================

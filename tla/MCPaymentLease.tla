---------------------------- MODULE MCPaymentLease ----------------------------
(***************************************************************************)
(* Values of PaymentLease's constants for TLC.                             *)
(***************************************************************************)
EXTENDS PaymentLease, TLC

CONSTANTS a, b, t1, t2, t3, t4
=============================================================================

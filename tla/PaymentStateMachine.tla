------------------------ MODULE PaymentStateMachine ------------------------
(***************************************************************************)
(* The statuses of a payment and the pure functions the services share:    *)
(* the transition table and the terminal test of                           *)
(* paymentStateMachine.service.ts, the precedence of                       *)
(* paymentStatus.enum.ts and the decision of webhookConflict.service.ts.   *)
(***************************************************************************)
EXTENDS Naturals

PaymentStatus == {"PENDING", "PROCESSING", "SUCCESS", "FAILED"}

Terminal == {"SUCCESS", "FAILED"}

(* The table behind assertTransition.  No handler of the program calls     *)
(* assertTransition: only the unit tests do.                               *)
transitions ==
  [PENDING    |-> {"PROCESSING"},
   PROCESSING |-> Terminal,
   SUCCESS    |-> {},
   FAILED     |-> {}]

isTerminal(s) == s \in Terminal

(* assertWebhookTerminal does not throw.                                   *)
assertWebhookTerminal(from, to) ==
  /\ ~isTerminal(from)
  /\ from \in {"PENDING", "PROCESSING"}
  /\ to \in Terminal

STATUS_PRECEDENCE ==
  [SUCCESS |-> 4, FAILED |-> 3, PROCESSING |-> 2, PENDING |-> 1]

shouldApply(current, incoming) ==
  STATUS_PRECEDENCE[incoming] >= STATUS_PRECEDENCE[current]
=============================================================================

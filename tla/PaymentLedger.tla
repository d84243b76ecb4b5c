--------------------------- MODULE PaymentLedger ---------------------------
(***************************************************************************)
(* What the payment service promises, with no worker, lock, queue or       *)
(* webhook in sight: a payment is created once, may be taken up, is        *)
(* settled at most once, and the step that settles it is also the step     *)
(* that commits its announcement to the rest of the system - exactly one   *)
(* success or failure event, and a customer notification exactly when it   *)
(* succeeded.  PaymentProcessing is shown to implement this.               *)
(***************************************************************************)
EXTENDS PaymentStateMachine

CONSTANT Payments

VARIABLES status,      \* status[p]: PaymentStatus, or "ABSENT" before creation
          announced    \* announced[p]: events committed about p's settlement

ledgerVars == <<status, announced>>

Nothing == [success |-> 0, failed |-> 0, notification |-> 0]

Announcement(s) ==
  IF s = "SUCCESS" THEN [success |-> 1, failed |-> 0, notification |-> 1]
                   ELSE [success |-> 0, failed |-> 1, notification |-> 0]

Init ==
  /\ status = [p \in Payments |-> "ABSENT"]
  /\ announced = [p \in Payments |-> Nothing]

Create(p) ==
  /\ status[p] = "ABSENT"
  /\ status' = [status EXCEPT ![p] = "PENDING"]
  /\ UNCHANGED announced

Start(p) ==
  /\ status[p] = "PENDING"
  /\ status' = [status EXCEPT ![p] = "PROCESSING"]
  /\ UNCHANGED announced

Settle(p, s) ==
  /\ status[p] \in {"PENDING", "PROCESSING"}
  /\ status' = [status EXCEPT ![p] = s]
  /\ announced' = [announced EXCEPT ![p] = Announcement(s)]

SettleSomehow(p) == \E s \in Terminal : Settle(p, s)

Next == \E p \in Payments : Create(p) \/ Start(p) \/ SettleSomehow(p)

(* What may happen.                                                        *)
Safe == Init /\ [][Next]_ledgerVars

(* What must happen: a payment that was created is settled.                *)
Spec == Safe /\ \A p \in Payments : WF_ledgerVars(SettleSomehow(p))
=============================================================================

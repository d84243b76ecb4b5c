--------------------------- MODULE IdempotentPost ---------------------------
(***************************************************************************)
(* What POST /payments promises its clients, with no cache, table, replica *)
(* or await in sight: a key is a register that is written once, by the     *)
(* request whose payment it then stands for, and every 201 is what the     *)
(* register says.  IdempotentCreate is shown to implement this.            *)
(***************************************************************************)
CONSTANTS Requests, Keys, KeyOf, Valid, NoPayment

VARIABLES
  payments,   \* the requests that have created a payment
  bound,      \* bound[k]: the payment of key k
  answer      \* answer[r]: the payment that r's 201 names

vars == <<payments, bound, answer>>

Init ==
  /\ payments = {}
  /\ bound = [k \in Keys |-> NoPayment]
  /\ answer = [r \in Requests |-> NoPayment]

(* The payment and the meaning of its key come into being at once.         *)
Bind(r) ==
  /\ r \in Valid
  /\ bound[KeyOf[r]] = NoPayment
  /\ bound' = [bound EXCEPT ![KeyOf[r]] = r]
  /\ payments' = payments \cup {r}
  /\ UNCHANGED answer

Answer(r) ==
  /\ answer[r] = NoPayment
  /\ bound[KeyOf[r]] # NoPayment
  /\ answer' = [answer EXCEPT ![r] = bound[KeyOf[r]]]
  /\ UNCHANGED <<payments, bound>>

Next == \E r \in Requests : Bind(r) \/ Answer(r)

Spec == Init /\ [][Next]_vars
=============================================================================

----------------------------- MODULE AtLeastOnce -----------------------------
(***************************************************************************)
(* What each leg of a message's way promises, the outbox as much as a      *)
(* consumer group: what has been accepted may be delivered, once or        *)
(* several times, and is struck off the books only when it has been.       *)
(* Nothing else is delivered, and nothing comes back onto the books.       *)
(* OutboxPublisher and ConsumerGroup are shown to implement this.          *)
(***************************************************************************)
CONSTANT Messages

VARIABLES
  accepted,    \* messages that somebody relies on
  delivered,   \* those that have arrived at least once
  settled      \* those that will not be delivered for want of a record

vars == <<accepted, delivered, settled>>

Init ==
  /\ accepted = {}
  /\ delivered = {}
  /\ settled = {}

Accept(m) ==
  /\ m \notin accepted
  /\ accepted' = accepted \cup {m}
  /\ UNCHANGED <<delivered, settled>>

(* Some of what had been delivered before is struck off, or nothing.       *)
Settle ==
  /\ settled \subseteq settled'
  /\ settled' \subseteq delivered

Deliver(m) ==
  /\ m \in accepted
  /\ delivered' = delivered \cup {m}
  /\ Settle
  /\ UNCHANGED accepted

Next ==
  \/ \E m \in Messages : Accept(m) \/ Deliver(m)
  \/ Settle /\ UNCHANGED <<accepted, delivered>>

Spec == Init /\ [][Next]_vars
=============================================================================

-------------------------- MODULE OutboxPublisher --------------------------
(***************************************************************************)
(* The outbox (outbox.repository.ts, outboxPublisher.service.ts): business *)
(* transactions commit rows, and any number of publishers poll the table,  *)
(* send each row they have claimed to Kafka and mark it.  A claim takes    *)
(* no lock and leaves no trace: publishers may claim the same row.         *)
(*                                                                         *)
(* Each publisher's process has one Kafka producer (kafka.producer.ts),     *)
(* which the first send of the process creates and connects, and which it  *)
(* shares with the retry relay and the dead letters.                       *)
(*                                                                         *)
(* One action is one await.  A row is named by its place in the order of   *)
(* created_at, which is when its transaction began: rows may be committed  *)
(* in any other order.  The columns attempts and last_error, which are     *)
(* written after a failure and read by nobody, are left out.               *)
(***************************************************************************)
EXTENDS Naturals, FiniteSets

CONSTANTS
  Rows,            \* outbox rows, numbered by created_at
  Publishers,      \* worker processes, one runLoop in each
  Limit,           \* the batch size, 50 in the code
  Refused,         \* rows that Kafka does not take (their topic is down)
  Disruptions,     \* the kinds of disruption that may happen
  MaxDisruptions   \* how many of them one behaviour has at most

ASSUME RowAssumption == Rows \subseteq Nat

ASSUME PublisherAssumption == IsFiniteSet(Publishers)

ASSUME RefusedAssumption == Refused \subseteq Rows

ASSUME BoundAssumption ==
  /\ Limit \in Nat \ {0}
  /\ MaxDisruptions \in Nat
  /\ Disruptions \subseteq {"throw", "crash", "outage"}

VARIABLES
  committed,     \* rows of the outbox table
  published,     \* those with published = true
  sent,          \* sent[r]: messages in Kafka that carry r
  batch,         \* batch[p]: claimed rows that p has not finished
  pc,            \* p's next await
  conn,          \* the state of the producer of p's process
  disruptions

vars == <<committed, published, sent, batch, pc, conn, disruptions>>

Steps == {"claim", "connect", "send", "mark", "fail"}

Connections == {"none", "connecting", "connected", "broken"}

TypeOK ==
  /\ committed \subseteq Rows
  /\ published \subseteq committed
  /\ sent \in [Rows -> Nat]
  /\ batch \in [Publishers -> SUBSET committed]
  /\ pc \in [Publishers -> Steps]
  /\ conn \in [Publishers -> Connections]
  /\ disruptions \in 0 .. MaxDisruptions

-----------------------------------------------------------------------------
At(p, step) == pc[p] = step

Goto(p, step) == pc' = [pc EXCEPT ![p] = step]

(* The n oldest rows of a set.                                             *)
Oldest(n, rows) == {r \in rows : Cardinality({q \in rows : q < r}) < n}

(* p works on row r: a batch is worked off in the order of created_at.     *)
WorksOn(p, r) == r \in batch[p] /\ \A q \in batch[p] : r <= q

(* The loop leaves r and goes on with the next row, or sleeps until the    *)
(* next poll.                                                              *)
Leave(p, r) ==
  /\ batch' = [batch EXCEPT ![p] = @ \ {r}]
  /\ Goto(p, IF batch[p] = {r} THEN "claim" ELSE "send")

(* The batch is given up.                                                  *)
Abort(p) ==
  /\ batch' = [batch EXCEPT ![p] = {}]
  /\ Goto(p, "claim")

Disrupt(kind) ==
  /\ kind \in Disruptions
  /\ disruptions < MaxDisruptions
  /\ disruptions' = disruptions + 1

Init ==
  /\ committed = {}
  /\ published = {}
  /\ sent = [r \in Rows |-> 0]
  /\ batch = [p \in Publishers |-> {}]
  /\ pc = [p \in Publishers |-> "claim"]
  /\ conn = [p \in Publishers |-> "none"]
  /\ disruptions = 0

(* enqueue: the transaction of r commits.                                  *)
Enqueue(r) ==
  /\ r \notin committed
  /\ committed' = committed \cup {r}
  /\ UNCHANGED <<published, sent, batch, pc, conn, disruptions>>

(* claimBatch: the oldest unpublished rows, up to the limit.               *)
ClaimBatch(p) ==
  LET rows == committed \ published
  IN /\ At(p, "claim")
     /\ rows # {}
     /\ batch' = [batch EXCEPT ![p] = Oldest(Limit, rows)]
     /\ Goto(p, "send")
     /\ UNCHANGED <<committed, published, sent, conn, disruptions>>

(* getProducer, in a process that has no producer yet: the variable is set *)
(* before the await of connect.                                            *)
Connect(p) ==
  /\ At(p, "send")
  /\ conn[p] = "none"
  /\ conn' = [conn EXCEPT ![p] = "connecting"]
  /\ Goto(p, "connect")
  /\ UNCHANGED <<committed, published, sent, batch, disruptions>>

(* The retry relay or a dead letter sends first.                           *)
ConnectElsewhere(p) ==
  /\ conn[p] = "none"
  /\ conn' = [conn EXCEPT ![p] = "connecting"]
  /\ UNCHANGED <<committed, published, sent, batch, pc, disruptions>>

(* connect returns.                                                        *)
Connected(p) ==
  /\ conn[p] = "connecting"
  /\ conn' = [conn EXCEPT ![p] = "connected"]
  /\ Goto(p, IF At(p, "connect") THEN "send" ELSE pc[p])
  /\ UNCHANGED <<committed, published, sent, batch, disruptions>>

(* publishMessage returns: Kafka has the message.                          *)
Publish(p, r) ==
  /\ At(p, "send") /\ WorksOn(p, r)
  /\ conn[p] = "connected"
  /\ r \notin Refused
  /\ sent' = [sent EXCEPT ![r] = @ + 1]
  /\ Goto(p, "mark")
  /\ UNCHANGED <<committed, published, batch, conn, disruptions>>

(* publishMessage throws, for as long as the topic is down, or because the *)
(* producer that getProducer has returned is not, or not yet, connected.   *)
Refuse(p, r) ==
  /\ At(p, "send") /\ WorksOn(p, r)
  /\ \/ conn[p] = "connected" /\ r \in Refused
     \/ conn[p] \in {"connecting", "broken"}
  /\ Goto(p, "fail")
  /\ UNCHANGED <<committed, published, sent, batch, conn, disruptions>>

(* The published flag is forgotten.                                        *)
MarkNothing(p, r) ==
  /\ At(p, "mark") /\ WorksOn(p, r)
  /\ Leave(p, r)
  /\ UNCHANGED <<committed, published, sent, conn, disruptions>>

MarkPublished(p, r) ==
  /\ At(p, "mark") /\ WorksOn(p, r)
  /\ published' = published \cup {r}
  /\ Leave(p, r)
  /\ UNCHANGED <<committed, sent, conn, disruptions>>

(* A failed row is given up like a published one.                          *)
MarkFailureAsPublished(p, r) ==
  /\ At(p, "fail") /\ WorksOn(p, r)
  /\ published' = published \cup {r}
  /\ Leave(p, r)
  /\ UNCHANGED <<committed, sent, conn, disruptions>>

(* The first failure ends the batch.                                       *)
MarkFailureAborting(p, r) ==
  /\ At(p, "fail") /\ WorksOn(p, r)
  /\ Abort(p)
  /\ UNCHANGED <<committed, published, sent, conn, disruptions>>

(* The row stays unpublished and the loop goes on with the next one.       *)
MarkFailure(p, r) ==
  /\ At(p, "fail") /\ WorksOn(p, r)
  /\ Leave(p, r)
  /\ UNCHANGED <<committed, published, sent, conn, disruptions>>

-----------------------------------------------------------------------------
(* Disruptions.                                                            *)

(* The send fails, or its acknowledgement is lost.                         *)
PublishThrows(p, r) ==
  /\ Disrupt("throw")
  /\ At(p, "send") /\ WorksOn(p, r)
  /\ conn[p] = "connected"
  /\ \/ UNCHANGED sent
     \/ r \notin Refused /\ sent' = [sent EXCEPT ![r] = @ + 1]
  /\ Goto(p, "fail")
  /\ UNCHANGED <<committed, published, batch, conn>>

(* The update of the flag fails, or its answer is lost: the row counts as  *)
(* failed although it has been sent.                                       *)
MarkPublishedThrows(p, r) ==
  /\ Disrupt("throw")
  /\ At(p, "mark") /\ WorksOn(p, r)
  /\ \/ UNCHANGED published
     \/ published' = published \cup {r}
  /\ Goto(p, "fail")
  /\ UNCHANGED <<committed, sent, batch, conn>>

(* The update of the catch block fails: the error ends the batch, and      *)
(* runLoop logs it and polls again.                                        *)
MarkFailureThrows(p) ==
  /\ Disrupt("throw")
  /\ At(p, "fail")
  /\ Abort(p)
  /\ UNCHANGED <<committed, published, sent, conn>>

(* connect gives up after its retries.  The producer stays where it is:    *)
(* getProducer will return it again and never connect it.                  *)
ConnectFails(p) ==
  /\ Disrupt("outage")
  /\ conn[p] = "connecting"
  /\ conn' = [conn EXCEPT ![p] = "broken"]
  /\ Goto(p, IF At(p, "connect") THEN "fail" ELSE pc[p])
  /\ UNCHANGED <<committed, published, sent, batch>>

(* The process dies between two awaits and is started again.               *)
Crash(p) ==
  /\ Disrupt("crash")
  /\ ~At(p, "claim") \/ conn[p] # "none"
  /\ Abort(p)
  /\ conn' = [conn EXCEPT ![p] = "none"]
  /\ UNCHANGED <<committed, published, sent>>

-----------------------------------------------------------------------------
PublisherStep(p) ==
  \/ ClaimBatch(p)
  \/ Connect(p)
  \/ \E r \in Rows :
       Publish(p, r) \/ Refuse(p, r) \/ MarkPublished(p, r) \/ MarkFailure(p, r)

Next ==
  \/ \E r \in Rows : Enqueue(r)
  \/ \E p \in Publishers :
       \/ PublisherStep(p)
       \/ ConnectElsewhere(p) \/ Connected(p) \/ ConnectFails(p)
       \/ \E r \in Rows : PublishThrows(p, r) \/ MarkPublishedThrows(p, r)
       \/ MarkFailureThrows(p) \/ Crash(p)

Spec == Init /\ [][Next]_vars

(* Every publisher keeps looping: runLoop catches whatever its batch       *)
(* throws.  A connection that is not given up is made.                     *)
FairSpec ==
  /\ Spec
  /\ \A p \in Publishers :
       /\ WF_vars(PublisherStep(p))
       /\ WF_vars(Connected(p))

-----------------------------------------------------------------------------
(* A row is only taken off the list when Kafka has its message: no crash,  *)
(* failed update or second publisher makes an event disappear.             *)
PublishedWasSent == \A r \in published : sent[r] > 0

(* Kafka only ever hears of committed business writes.                     *)
OnlyCommittedSent == \A r \in Rows : sent[r] > 0 => r \in committed

(* A row that is about to be marked has been sent.                         *)
MarkedAfterSending ==
  \A p \in Publishers, r \in Rows :
    pc[p] = "mark" /\ WorksOn(p, r) => sent[r] > 0

(* Publishers that are about to mark a row, and those that may still send  *)
(* it out of a batch they have claimed.                                    *)
Marking(r) == {p \in Publishers : pc[p] = "mark" /\ WorksOn(p, r)}

Yet(r) ==
  {p \in Publishers :
     r \in batch[p] /\ ~(pc[p] \in {"mark", "fail"} /\ WorksOn(p, r))}

(* Each message has a publisher that is about to mark its row, or a        *)
(* disruption that kept one from it; afterwards nobody claims the row, so  *)
(* that only the others may still send it.                                 *)
MessagesCounted ==
  \A r \in Rows :
    /\ r \notin published =>
         sent[r] <= disruptions + Cardinality(Marking(r))
    /\ r \in published =>
         sent[r] + Cardinality(Yet(r))
           <= disruptions + Cardinality(Publishers)

(* These and what they need, in one inductive invariant.                   *)
IInv ==
  /\ TypeOK
  /\ PublishedWasSent
  /\ OnlyCommittedSent
  /\ MarkedAfterSending
  /\ MessagesCounted

(* What the outbox accepts is a committed row, what it delivers a message   *)
(* in Kafka, and what it settles a row marked published.                   *)
Outbox == INSTANCE AtLeastOnce WITH
  Messages <- Rows,
  accepted <- committed,
  delivered <- {r \in Rows : sent[r] > 0},
  settled <- published

(* A row is only taken off the list when Kafka has its message, and is     *)
(* never put back: no crash, failed update or second publisher makes an    *)
(* event disappear, and Kafka only hears of committed writes.              *)
OutboxDelivers == Outbox!Spec

(* At-least-once delivery, and how much more than once: each publisher may *)
(* send a row it claimed before another one marked it, and each disruption *)
(* may cost one more.                                                      *)
DuplicatesBounded ==
  \A r \in Rows : sent[r] <= Cardinality(Publishers) + disruptions

(* A committed row that Kafka would take is published, however late its    *)
(* transaction committed and whatever happens to other rows - as long as   *)
(* fewer than a whole batch of rows is being refused, because the oldest   *)
(* rows are always claimed first and never given up, and as long as some   *)
(* process has not lost its producer for good.                             *)
EventuallyPublished ==
  /\ Cardinality(Refused) < Limit
  /\ []<>(\E p \in Publishers : conn[p] # "broken")
  => \A r \in Rows \ Refused : r \in committed ~> r \in published

(* README.md:114: committed state survives broker outages, at-least-once   *)
(* eventual publish.                                                       *)
OutageSurvived ==
  \A r \in Rows \ Refused : r \in committed ~> r \in published

=============================================================================

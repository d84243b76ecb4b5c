------------------------- MODULE PaymentProcessing -------------------------
(***************************************************************************)
(* The life of a payment after POST /payments: the payment workers that    *)
(* consume payment.initiated (payment.worker.ts), the per-payment Redis    *)
(* lock, the gateway call, the retry budget, the dead-letter topic, and    *)
(* the gateway's webhooks (webhook.service.ts), all changing one row of    *)
(* the payments table and the outbox beside it.                            *)
(*                                                                         *)
(* One action is one await of the code: a Redis command, a database        *)
(* transaction (atomic, because it holds the row lock of SELECT ... FOR    *)
(* UPDATE), a Kafka send or the gateway call.  Between two actions any     *)
(* other process may move.  The webhook's transaction takes no row lock    *)
(* when it reads the payment, so it is two actions: the read, and the      *)
(* commit that the version column guards.                                  *)
(*                                                                         *)
(* What the infrastructure may do wrong is a set of Disruptions, each an   *)
(* action of its own; a behaviour has at most MaxDisruptions of them.      *)
(***************************************************************************)
EXTENDS PaymentStateMachine, FiniteSets

CONSTANTS
  Payments,        \* payment ids
  Workers,         \* executions of handlePaymentInitiated
  Hooks,           \* executions of webhookService.handleStructured
  Events,          \* external ids of webhook deliveries
  EventPayment,    \* EventPayment[e]: the payment event e is about
  EventStatus,     \* EventStatus[e]: "SUCCESS" or "FAILED"
  MaxAttempts,     \* MAX_RETRY_ATTEMPTS
  Disruptions,     \* the kinds of disruption that may happen
  MaxDisruptions,  \* how many of them one behaviour has at most
  NoWorker, Orphan, NoPayment, NoEvent   \* values that are none of the above

DisruptionKinds ==
  {"duplicate", "rebalance", "crash", "lease", "throw", "circuit", "replay"}

ASSUME SentinelAssumption ==
  /\ {NoWorker, Orphan} \cap Workers = {}
  /\ NoWorker # Orphan
  /\ NoPayment \notin Payments
  /\ NoEvent \notin Events

ASSUME EventAssumption ==
  /\ EventPayment \in [Events -> Payments]
  /\ EventStatus \in [Events -> Terminal]

ASSUME WorkerAssumption == IsFiniteSet(Workers)

ASSUME BoundAssumption ==
  /\ MaxAttempts \in Nat
  /\ MaxDisruptions \in Nat
  /\ Disruptions \subseteq DisruptionKinds

VARIABLES
  \* the payments table and the outbox rows written beside it
  status,          \* PaymentStatus, or "ABSENT" before the row exists
  version,         \* the optimistic lock column
  retryCount,      \* retry_count
  failureReason,   \* failure_reason, up to its kind
  emitted,         \* emitted[p][t]: outbox rows of topic t committed for p
  recorded,        \* events with a committed webhook_events row
  \* Kafka, the outbox publisher and the retry relay included
  initiated,       \* payment.initiated messages of p not yet acknowledged
  retries,         \* payment.retry (and replay) messages of p not yet relayed
  dlq,             \* payment.dlq messages of p
  replayed,        \* payments the operator has replayed from the DLQ
  consumer,        \* the worker that owns p's partition and is handling p
  \* Redis
  lock,            \* lock:payment:{p}: a worker's token, Orphan or NoWorker
  \* the processes
  pc, job,         \* of a worker: its next await, and its payment
  hpc, hevent,     \* of a webhook request: its next await, and its event
  seen,            \* the payment row a webhook's transaction has read
  \* the gateway
  calls, captures,
  \* the disruptions so far: how many, and of which kinds
  disruptions, suffered

payVars   == <<status, version, retryCount, failureReason, emitted>>
kafkaVars == <<initiated, retries, dlq, replayed, consumer>>
hookVars  == <<recorded, hpc, hevent, seen>>
gateVars  == <<calls, captures>>
faultVars == <<disruptions, suffered>>
vars == <<payVars, kafkaVars, lock, pc, job, hookVars, gateVars, faultVars>>

Topics == {"processing", "success", "failed", "notification", "audit"}

Reasons == {"null", "declined", "max_retries", "webhook"}

WorkerSteps ==
  {"idle", "acquire", "promote", "recheck", "charge", "succeed", "decline",
   "bump", "budget", "exhaust", "dlq", "schedule", "ack", "nack"}

(* The steps between tryLockPayment and the release of the finally block.  *)
Critical == WorkerSteps \ {"idle", "acquire"}

(* The steps that await the database or Kafka, and so may throw.           *)
Fallible == Critical \ {"charge", "ack", "nack"}

Snapshots == [status : PaymentStatus \cup {"ABSENT"}, version : Nat]

Nowhere == [status |-> "ABSENT", version |-> 0]

TypeOK ==
  /\ status \in [Payments -> PaymentStatus \cup {"ABSENT"}]
  /\ version \in [Payments -> Nat]
  /\ retryCount \in [Payments -> Nat]
  /\ failureReason \in [Payments -> Reasons]
  /\ emitted \in [Payments -> [Topics -> Nat]]
  /\ recorded \subseteq Events
  /\ initiated \in [Payments -> Nat]
  /\ retries \in [Payments -> Nat]
  /\ dlq \in [Payments -> Nat]
  /\ replayed \subseteq Payments
  /\ consumer \in [Payments -> Workers \cup {NoWorker}]
  /\ lock \in [Payments -> Workers \cup {NoWorker, Orphan}]
  /\ pc \in [Workers -> WorkerSteps]
  /\ job \in [Workers -> Payments \cup {NoPayment}]
  /\ \A w \in Workers : pc[w] # "idle" => job[w] \in Payments
  /\ hpc \in [Hooks -> {"idle", "insert", "decide"}]
  /\ hevent \in [Hooks -> Events \cup {NoEvent}]
  /\ \A h \in Hooks : hpc[h] # "idle" => hevent[h] \in Events
  /\ seen \in [Hooks -> Snapshots]
  /\ calls \in [Payments -> Nat]
  /\ captures \in [Payments -> Nat]
  /\ disruptions \in Nat
  /\ suffered \subseteq DisruptionKinds

-----------------------------------------------------------------------------
(* Building blocks.                                                        *)

Zero == [p \in Payments |-> 0]

One(condition) == IF condition THEN 1 ELSE 0

(* outboxRepository.enqueue, once for each topic of S, in the transaction  *)
(* that changes the payment.                                               *)
Emit(p, S) ==
  emitted' = [emitted EXCEPT ![p] = [t \in Topics |-> @[t] + One(t \in S)]]

(* paymentRepository.updateStatus, once its version check has passed.      *)
UpdateStatus(p, s, reason) ==
  /\ status' = [status EXCEPT ![p] = s]
  /\ failureReason' = [failureReason EXCEPT ![p] = reason]
  /\ version' = [version EXCEPT ![p] = @ + 1]

At(w, step) == pc[w] = step

Goto(w, step) ==
  /\ pc' = [pc EXCEPT ![w] = step]
  /\ UNCHANGED job

(* The worker's execution ends.                                            *)
Rest(w) ==
  /\ pc' = [pc EXCEPT ![w] = "idle"]
  /\ job' = [job EXCEPT ![w] = NoPayment]

(* w gives up the message it handles without acknowledging it.             *)
Relinquish(w, p) ==
  consumer' = [consumer EXCEPT ![p] = IF @ = w THEN NoWorker ELSE @]

Disrupt(kind) ==
  /\ kind \in Disruptions
  /\ disruptions < MaxDisruptions
  /\ disruptions' = disruptions + 1
  /\ suffered' = suffered \cup {kind}

Init ==
  /\ status = [p \in Payments |-> "ABSENT"]
  /\ version = Zero
  /\ retryCount = Zero
  /\ failureReason = [p \in Payments |-> "null"]
  /\ emitted = [p \in Payments |-> [t \in Topics |-> 0]]
  /\ recorded = {}
  /\ initiated = Zero
  /\ retries = Zero
  /\ dlq = Zero
  /\ replayed = {}
  /\ consumer = [p \in Payments |-> NoWorker]
  /\ lock = [p \in Payments |-> NoWorker]
  /\ pc = [w \in Workers |-> "idle"]
  /\ job = [w \in Workers |-> NoPayment]
  /\ hpc = [h \in Hooks |-> "idle"]
  /\ hevent = [h \in Hooks |-> NoEvent]
  /\ seen = [h \in Hooks |-> Nowhere]
  /\ calls = Zero
  /\ captures = Zero
  /\ disruptions = 0
  /\ suffered = {}

-----------------------------------------------------------------------------
(* The payment worker.                                                     *)

(* paymentService.createPayment: one transaction inserts the payment and   *)
(* the payment.initiated outbox row.                                       *)
Create(p) ==
  /\ status[p] = "ABSENT"
  /\ status' = [status EXCEPT ![p] = "PENDING"]
  /\ initiated' = [initiated EXCEPT ![p] = @ + 1]
  /\ UNCHANGED <<version, retryCount, failureReason, emitted, retries, dlq,
                 replayed, consumer, lock, pc, job, hookVars, gateVars,
                 faultVars>>

(* The owner of p's partition is handed the next message of p.  A payment  *)
(* id is the message key, so the messages of p are handled one by one.     *)
Deliver(w, p) ==
  /\ At(w, "idle")
  /\ initiated[p] > 0
  /\ consumer[p] = NoWorker
  /\ consumer' = [consumer EXCEPT ![p] = w]
  /\ pc' = [pc EXCEPT ![w] = "acquire"]
  /\ job' = [job EXCEPT ![w] = p]
  /\ UNCHANGED <<payVars, initiated, retries, dlq, replayed, lock, hookVars,
                 gateVars, faultVars>>

(* SET NX without the NX.                                                  *)
AcquireLockByForce(w) ==
  /\ At(w, "acquire")
  /\ lock' = [lock EXCEPT ![job[w]] = w]
  /\ Goto(w, "promote")
  /\ UNCHANGED <<payVars, kafkaVars, hookVars, gateVars, faultVars>>

(* One of the 18 tries of SET NX succeeds.                                 *)
AcquireLock(w) ==
  /\ At(w, "acquire")
  /\ lock[job[w]] = NoWorker
  /\ lock' = [lock EXCEPT ![job[w]] = w]
  /\ Goto(w, "promote")
  /\ UNCHANGED <<payVars, kafkaVars, hookVars, gateVars, faultVars>>

(* The release of the finally block, although nothing was acquired, and    *)
(* without the comparison of tokens.                                       *)
LockContentionReleasing(w) ==
  /\ At(w, "acquire")
  /\ lock[job[w]] # NoWorker
  /\ lock' = [lock EXCEPT ![job[w]] = NoWorker]
  /\ Relinquish(w, job[w])
  /\ Rest(w)
  /\ UNCHANGED <<payVars, initiated, retries, dlq, replayed, hookVars,
                 gateVars, faultVars>>

(* None does: lock_contention is thrown before the try block, so nothing   *)
(* is released and the message is not acknowledged.                        *)
LockContention(w) ==
  /\ At(w, "acquire")
  /\ lock[job[w]] # NoWorker
  /\ Relinquish(w, job[w])
  /\ Rest(w)
  /\ UNCHANGED <<payVars, initiated, retries, dlq, replayed, lock, hookVars,
                 gateVars, faultVars>>

(* The first transaction: PENDING becomes PROCESSING, any other status is  *)
(* left alone.                                                             *)
Promote(w) ==
  /\ At(w, "promote")
  /\ \/ /\ status[job[w]] = "PENDING"
        /\ UpdateStatus(job[w], "PROCESSING", failureReason[job[w]])
        /\ Emit(job[w], {"processing"})
     \/ /\ status[job[w]] # "PENDING"
        /\ UNCHANGED <<status, version, failureReason, emitted>>
  /\ Goto(w, "recheck")
  /\ UNCHANGED <<retryCount, kafkaVars, lock, hookVars, gateVars, faultVars>>

(* No look at the status between the first transaction and the gateway.    *)
RecheckNothing(w) ==
  /\ At(w, "recheck")
  /\ Goto(w, "charge")
  /\ UNCHANGED <<payVars, kafkaVars, lock, hookVars, gateVars, faultVars>>

(* beforeGateway: a read outside any transaction.                          *)
Recheck(w) ==
  /\ At(w, "recheck")
  /\ Goto(w, IF status[job[w]] = "PROCESSING" THEN "charge" ELSE "ack")
  /\ UNCHANGED <<payVars, kafkaVars, lock, hookVars, gateVars, faultVars>>

(* The gateway answers: it has captured the money, declines for good, or   *)
(* fails in a way worth a retry.                                           *)
Charge(w) ==
  /\ At(w, "charge")
  /\ calls' = [calls EXCEPT ![job[w]] = @ + 1]
  /\ \E reply \in {"succeed", "decline", "bump"} :
       /\ captures' = [captures EXCEPT ![job[w]] = @ + One(reply = "succeed")]
       /\ Goto(w, reply)
  /\ UNCHANGED <<payVars, kafkaVars, lock, hookVars, faultVars>>

(* The three transactions that settle a payment lock its row, re-read it   *)
(* and do nothing unless it is PROCESSING.                                 *)
ConcludeUnchecked(p, s, reason, topics) ==
  /\ UpdateStatus(p, s, reason)
  /\ Emit(p, topics)

Conclude(p, s, reason, topics) ==
  \/ /\ status[p] = "PROCESSING"
     /\ UpdateStatus(p, s, reason)
     /\ Emit(p, topics)
  \/ /\ status[p] # "PROCESSING"
     /\ UNCHANGED <<status, version, failureReason, emitted>>

Succeed(w) ==
  /\ At(w, "succeed")
  /\ Conclude(job[w], "SUCCESS", "null", {"success", "notification", "audit"})
  /\ Goto(w, "ack")
  /\ UNCHANGED <<retryCount, kafkaVars, lock, hookVars, gateVars, faultVars>>

(* markPermanentFailureDbOnly.                                             *)
Decline(w) ==
  /\ At(w, "decline")
  /\ Conclude(job[w], "FAILED", "declined", {"failed"})
  /\ Goto(w, "ack")
  /\ UNCHANGED <<retryCount, kafkaVars, lock, hookVars, gateVars, faultVars>>

(* A transient failure is counted whatever the status is by now, and       *)
(* without touching the version.                                           *)
Bump(w) ==
  /\ At(w, "bump")
  /\ retryCount' = [retryCount EXCEPT ![job[w]] = @ + 1]
  /\ Goto(w, "budget")
  /\ UNCHANGED <<status, version, failureReason, emitted, kafkaVars, lock,
                 hookVars, gateVars, faultVars>>

(* attempt > maxAttempts: one try too many.                                *)
BudgetTooLarge(w) ==
  /\ At(w, "budget")
  /\ Goto(w, IF retryCount[job[w]] > MaxAttempts THEN "exhaust" ELSE "schedule")
  /\ UNCHANGED <<payVars, kafkaVars, lock, hookVars, gateVars, faultVars>>

(* attempt >= maxAttempts - 1: the last try is never made.                 *)
BudgetTooSmall(w) ==
  /\ At(w, "budget")
  /\ Goto(w, IF retryCount[job[w]] + 1 >= MaxAttempts
               THEN "exhaust" ELSE "schedule")
  /\ UNCHANGED <<payVars, kafkaVars, lock, hookVars, gateVars, faultVars>>

(* The count is read back in a query of its own and compared with the      *)
(* budget.                                                                 *)
Budget(w) ==
  /\ At(w, "budget")
  /\ Goto(w, IF retryCount[job[w]] >= MaxAttempts
               THEN "exhaust" ELSE "schedule")
  /\ UNCHANGED <<payVars, kafkaVars, lock, hookVars, gateVars, faultVars>>

Exhaust(w) ==
  /\ At(w, "exhaust")
  /\ Conclude(job[w], "FAILED", "max_retries", {"failed"})
  /\ Goto(w, "dlq")
  /\ UNCHANGED <<retryCount, kafkaVars, lock, hookVars, gateVars, faultVars>>

(* A direct Kafka send, outside the outbox, whatever Exhaust has found.    *)
SendToDlq(w) ==
  /\ At(w, "dlq")
  /\ dlq' = [dlq EXCEPT ![job[w]] = @ + 1]
  /\ Goto(w, "ack")
  /\ UNCHANGED <<payVars, initiated, retries, replayed, consumer, lock,
                 hookVars, gateVars, faultVars>>

(* The payment.retry row does not make it into the outbox.                 *)
ScheduleNothing(w) ==
  /\ At(w, "schedule")
  /\ Goto(w, "ack")
  /\ UNCHANGED <<payVars, kafkaVars, lock, hookVars, gateVars, faultVars>>

(* retryScheduler.scheduleRetry: a retry_events row and a payment.retry    *)
(* outbox row in one transaction.                                          *)
ScheduleRetry(w) ==
  /\ At(w, "schedule")
  /\ retries' = [retries EXCEPT ![job[w]] = @ + 1]
  /\ Goto(w, "ack")
  /\ UNCHANGED <<payVars, initiated, dlq, replayed, consumer, lock, hookVars,
                 gateVars, faultVars>>

(* The consumer's catch block logs and does not rethrow.                   *)
ReleaseSwallowing(w) ==
  /\ pc[w] \in {"ack", "nack"}
  /\ lock' = [lock EXCEPT ![job[w]] = IF @ = w THEN NoWorker ELSE @]
  /\ initiated' = [initiated EXCEPT
                     ![job[w]] = IF consumer[job[w]] = w THEN @ - 1 ELSE @]
  /\ Relinquish(w, job[w])
  /\ Rest(w)
  /\ UNCHANGED <<payVars, retries, dlq, replayed, hookVars, gateVars,
                 faultVars>>

(* The finally block: the Lua script deletes the lock only if it still     *)
(* holds this execution's token.  Then the handler returns ("ack") or      *)
(* throws ("nack"), and the offset is committed in the first case, unless  *)
(* the partition has been given to another consumer meanwhile.             *)
Release(w) ==
  /\ pc[w] \in {"ack", "nack"}
  /\ lock' = [lock EXCEPT ![job[w]] = IF @ = w THEN NoWorker ELSE @]
  /\ initiated' = [initiated EXCEPT
                     ![job[w]] = IF At(w, "ack") /\ consumer[job[w]] = w
                                   THEN @ - 1 ELSE @]
  /\ Relinquish(w, job[w])
  /\ Rest(w)
  /\ UNCHANGED <<payVars, retries, dlq, replayed, hookVars, gateVars,
                 faultVars>>

(* The outbox publisher and the retry consumer between them turn a         *)
(* payment.retry row into a payment.initiated message, after the backoff.  *)
Relay(p) ==
  /\ retries[p] > 0
  /\ retries' = [retries EXCEPT ![p] = @ - 1]
  /\ initiated' = [initiated EXCEPT ![p] = @ + 1]
  /\ UNCHANGED <<payVars, dlq, replayed, consumer, lock, pc, job, hookVars,
                 gateVars, faultVars>>

(* The TTL of a lock nobody renews any more runs out.                      *)
OrphanExpires(p) ==
  /\ lock[p] = Orphan
  /\ lock' = [lock EXCEPT ![p] = NoWorker]
  /\ UNCHANGED <<payVars, kafkaVars, pc, job, hookVars, gateVars, faultVars>>

-----------------------------------------------------------------------------
(* Webhooks.                                                               *)

HookRests(h) ==
  /\ hpc' = [hpc EXCEPT ![h] = "idle"]
  /\ hevent' = [hevent EXCEPT ![h] = NoEvent]
  /\ seen' = [seen EXCEPT ![h] = Nowhere]

(* A delivery of e, the first or a repeated one, whose event is not yet in *)
(* webhook_events.  (If it is, the request answers and changes nothing.)   *)
WebhookReceive(h, e) ==
  /\ hpc[h] = "idle"
  /\ e \notin recorded
  /\ hpc' = [hpc EXCEPT ![h] = "insert"]
  /\ hevent' = [hevent EXCEPT ![h] = e]
  /\ UNCHANGED <<payVars, kafkaVars, lock, pc, job, recorded, seen, gateVars,
                 faultVars>>

(* The transaction inserts its webhook_events row, waiting for any open    *)
(* transaction that has inserted the same external id; a committed one is  *)
(* a unique violation.  Then it reads the payment, without a row lock.     *)
WebhookInsert(h) ==
  /\ hpc[h] = "insert"
  /\ \A g \in Hooks : hpc[g] = "decide" => hevent[g] # hevent[h]
  /\ \/ /\ hevent[h] \in recorded
        /\ HookRests(h)
     \/ /\ hevent[h] \notin recorded
        /\ hpc' = [hpc EXCEPT ![h] = "decide"]
        /\ seen' = [seen EXCEPT ![h] =
                      [status  |-> status[EventPayment[hevent[h]]],
                       version |-> version[EventPayment[hevent[h]]]]]
        /\ UNCHANGED hevent
  /\ UNCHANGED <<payVars, kafkaVars, lock, pc, job, recorded, gateVars,
                 faultVars>>

(* The event settles the payment unless there is no such payment, its      *)
(* status outranks the event's, or it is settled already: such an event is *)
(* kept and changes nothing.                                               *)
Applies(row, s) ==
  /\ row.status # "ABSENT"
  /\ shouldApply(row.status, s)
  /\ ~isTerminal(row.status)

WebhookTopics(s) ==
  IF s = "SUCCESS" THEN {"success", "notification", "audit"}
                   ELSE {"failed", "audit"}

WebhookReason(s) == IF s = "FAILED" THEN "webhook" ELSE "null"

(* The update does not compare the version.                                *)
WebhookCommitUnguarded(h) ==
  LET e == hevent[h]
      p == EventPayment[e]
      s == EventStatus[e]
  IN /\ hpc[h] = "decide"
     /\ \/ /\ ~Applies(seen[h], s)
           /\ recorded' = recorded \cup {e}
           /\ UNCHANGED <<status, version, failureReason, emitted>>
        \/ /\ Applies(seen[h], s)
           /\ recorded' = recorded \cup {e}
           /\ UpdateStatus(p, s, WebhookReason(s))
           /\ Emit(p, WebhookTopics(s))
     /\ HookRests(h)
     /\ UNCHANGED <<retryCount, kafkaVars, lock, pc, job, gateVars, faultVars>>

(* optimistic_lock_conflict is caught and the transaction commits.         *)
WebhookCommitSwallowing(h) ==
  LET e == hevent[h]
      p == EventPayment[e]
      s == EventStatus[e]
  IN /\ hpc[h] = "decide"
     /\ recorded' = recorded \cup {e}
     /\ \/ /\ ~Applies(seen[h], s) \/ version[p] # seen[h].version
           /\ UNCHANGED <<status, version, failureReason, emitted>>
        \/ /\ Applies(seen[h], s)
           /\ version[p] = seen[h].version
           /\ UpdateStatus(p, s, WebhookReason(s))
           /\ Emit(p, WebhookTopics(s))
     /\ HookRests(h)
     /\ UNCHANGED <<retryCount, kafkaVars, lock, pc, job, gateVars, faultVars>>

(* The rest of the transaction, decided on the row it has read.  If that   *)
(* row has changed since, updateStatus throws and everything is rolled     *)
(* back, the webhook_events row too, so that a later delivery may retry.   *)
WebhookCommit(h) ==
  LET e == hevent[h]
      p == EventPayment[e]
      s == EventStatus[e]
  IN /\ hpc[h] = "decide"
     /\ \/ /\ ~Applies(seen[h], s)
           /\ recorded' = recorded \cup {e}
           /\ UNCHANGED <<status, version, failureReason, emitted>>
        \/ /\ Applies(seen[h], s)
           /\ assertWebhookTerminal(seen[h].status, s)
           /\ version[p] = seen[h].version
           /\ recorded' = recorded \cup {e}
           /\ UpdateStatus(p, s, WebhookReason(s))
           /\ Emit(p, WebhookTopics(s))
        \/ /\ Applies(seen[h], s)
           /\ version[p] # seen[h].version
           /\ UNCHANGED <<status, version, failureReason, emitted, recorded>>
     /\ HookRests(h)
     /\ UNCHANGED <<retryCount, kafkaVars, lock, pc, job, gateVars, faultVars>>

-----------------------------------------------------------------------------
(* Disruptions.                                                            *)

(* A payment.initiated message is delivered again: the outbox row or the   *)
(* retry message was published twice, or a committed offset was lost.      *)
Duplicate(p) ==
  /\ Disrupt("duplicate")
  /\ status[p] # "ABSENT"
  /\ initiated' = [initiated EXCEPT ![p] = @ + 1]
  /\ UNCHANGED <<payVars, retries, dlq, replayed, consumer, lock, pc, job,
                 hookVars, gateVars>>

(* The partition moves to another consumer (the session times out while    *)
(* the handler sleeps, say).  The old one does not notice and carries on.  *)
Rebalance(p) ==
  /\ Disrupt("rebalance")
  /\ consumer[p] # NoWorker
  /\ consumer' = [consumer EXCEPT ![p] = NoWorker]
  /\ UNCHANGED <<payVars, initiated, retries, dlq, replayed, lock, pc, job,
                 hookVars, gateVars>>

(* A lock of w outlives the execution that took it.                        *)
Abandon(w, p) ==
  lock' = [lock EXCEPT ![p] = IF @ = w THEN Orphan ELSE @]

(* The process dies; its lock stays in Redis until the TTL runs out.       *)
Crash(w) ==
  /\ Disrupt("crash")
  /\ ~At(w, "idle")
  /\ Abandon(w, job[w])
  /\ Relinquish(w, job[w])
  /\ Rest(w)
  /\ UNCHANGED <<payVars, initiated, retries, dlq, replayed, hookVars,
                 gateVars>>

(* The lock of a live execution runs out: a heartbeat failed (its error is *)
(* swallowed) or came too late.  The holder does not notice.               *)
LeaseLost(p) ==
  /\ Disrupt("lease")
  /\ lock[p] \in Workers
  /\ lock' = [lock EXCEPT ![p] = NoWorker]
  /\ UNCHANGED <<payVars, kafkaVars, pc, job, hookVars, gateVars>>

(* The awaited statement or send fails, and the finally block is next.     *)
Throw(w) ==
  /\ Disrupt("throw")
  /\ pc[w] \in Fallible
  /\ Goto(w, "nack")
  /\ UNCHANGED <<payVars, kafkaVars, lock, hookVars, gateVars>>

(* SET NX fails, before or after Redis has executed it.                    *)
AcquireThrows(w) ==
  /\ Disrupt("throw")
  /\ At(w, "acquire")
  /\ \/ /\ lock[job[w]] = NoWorker
        /\ lock' = [lock EXCEPT ![job[w]] = Orphan]
     \/ UNCHANGED lock
  /\ Relinquish(w, job[w])
  /\ Rest(w)
  /\ UNCHANGED <<payVars, initiated, retries, dlq, replayed, hookVars,
                 gateVars>>

(* The release script fails; the heartbeat has been stopped already.  The  *)
(* error replaces the handler's result, so nothing is acknowledged.        *)
ReleaseThrows(w) ==
  /\ Disrupt("throw")
  /\ pc[w] \in {"ack", "nack"}
  /\ Abandon(w, job[w])
  /\ Relinquish(w, job[w])
  /\ Rest(w)
  /\ UNCHANGED <<payVars, initiated, retries, dlq, replayed, hookVars,
                 gateVars>>

(* gatewayClient asks the gateway before it asks the circuit breaker: an   *)
(* open breaker turns an answer of success into a transient failure.       *)
ChargeRejected(w) ==
  /\ Disrupt("circuit")
  /\ At(w, "charge")
  /\ calls' = [calls EXCEPT ![job[w]] = @ + 1]
  /\ captures' = [captures EXCEPT ![job[w]] = @ + 1]
  /\ Goto(w, "bump")
  /\ UNCHANGED <<payVars, kafkaVars, lock, hookVars>>

(* A webhook request fails or its process dies: the transaction is rolled  *)
(* back.                                                                   *)
WebhookThrow(h) ==
  /\ Disrupt("throw")
  /\ hpc[h] # "idle"
  /\ HookRests(h)
  /\ UNCHANGED <<payVars, kafkaVars, lock, pc, job, recorded, gateVars>>

(* The operator replays a dead letter (enqueueReplayForManualTooling).     *)
Replay(p) ==
  /\ Disrupt("replay")
  /\ dlq[p] > 0
  /\ retries' = [retries EXCEPT ![p] = @ + 1]
  /\ replayed' = replayed \cup {p}
  /\ UNCHANGED <<payVars, initiated, dlq, consumer, lock, pc, job, hookVars,
                 gateVars>>

-----------------------------------------------------------------------------
WorkerStep(w) ==
  \/ AcquireLock(w) \/ LockContention(w) \/ Promote(w) \/ Recheck(w)
  \/ Charge(w) \/ Succeed(w) \/ Decline(w) \/ Bump(w) \/ Budget(w)
  \/ Exhaust(w) \/ SendToDlq(w) \/ ScheduleRetry(w) \/ Release(w)

WorkerDisruption(w) ==
  \/ Crash(w) \/ Throw(w) \/ AcquireThrows(w) \/ ReleaseThrows(w)
  \/ ChargeRejected(w)

PaymentStep(p) ==
  \/ Create(p) \/ Relay(p) \/ OrphanExpires(p) \/ Duplicate(p) \/ Rebalance(p)
  \/ LeaseLost(p) \/ Replay(p) \/ \E w \in Workers : Deliver(w, p)

HookStep(h) ==
  \/ WebhookInsert(h) \/ WebhookCommit(h) \/ WebhookThrow(h)
  \/ \E e \in Events : WebhookReceive(h, e)

Next ==
  \/ \E w \in Workers : WorkerStep(w) \/ WorkerDisruption(w)
  \/ \E p \in Payments : PaymentStep(p)
  \/ \E h \in Hooks : HookStep(h)

Spec == Init /\ [][Next]_vars

(* A started execution goes on, a pending message is delivered, a retry is *)
(* relayed and a TTL runs out.  Nothing is assumed of clients, of webhooks *)
(* or of disruptions.                                                      *)
Fairness ==
  /\ \A w \in Workers : WF_vars(WorkerStep(w))
  /\ \A p \in Payments :
       /\ WF_vars(\E w \in Workers : Deliver(w, p))
       /\ WF_vars(Relay(p))
       /\ WF_vars(OrphanExpires(p))

FairSpec == Spec /\ Fairness

-----------------------------------------------------------------------------
(* Safety.                                                                 *)

Settled(p) == isTerminal(status[p])

(* Whatever workers and webhooks do in whatever order, the outbox tells    *)
(* one story about a payment and it is the story of its row: one success   *)
(* event and one notification if it is SUCCESS, one failure event if it is *)
(* FAILED, none before; and the version has counted every status change    *)
(* that was announced (updateStatus and enqueue share their transaction).  *)
AnnouncementsMatchStatus ==
  \A p \in Payments :
    LET out == emitted[p]
    IN /\ out["success"] = One(status[p] = "SUCCESS")
       /\ out["notification"] = out["success"]
       /\ out["failed"] = One(status[p] = "FAILED")
       /\ out["processing"] <= 1
       /\ status[p] = "PROCESSING" => out["processing"] = 1
       /\ version[p] = out["processing"] + out["success"] + out["failed"]

(* A payment that is not settled is still on its way: some message that    *)
(* will make a worker look at it has not been acknowledged, through every  *)
(* crash, failed statement, rebalance and retry (the offset is committed   *)
(* after the handler, and the retry row before it).                        *)
NeverStranded ==
  \A p \in Payments :
    status[p] \in {"PENDING", "PROCESSING"} => initiated[p] + retries[p] > 0

(* As long as no lease has run out under its holder, two workers are never *)
(* between tryLockPayment and release for the same payment.                *)
MutualExclusion ==
  "lease" \notin suffered =>
    \A v, w \in Workers :
      pc[v] \in Critical /\ pc[w] \in Critical /\ job[v] = job[w] => v = w

Gentle == suffered \cap {"crash", "lease", "throw", "circuit"} = {}

(* The customer is charged at most once, whatever is redelivered or        *)
(* rebalanced and whatever webhooks arrive, as long as no execution has    *)
(* been cut off, no lease has run out and the circuit breaker has stayed   *)
(* closed.                                                                 *)
ChargedAtMostOnce ==
  Gentle => \A p \in Payments : captures[p] <= 1

(* A failure is counted before the count is compared, so a budget of zero  *)
(* lets one call through.                                                  *)
Allowed == IF MaxAttempts = 0 THEN 1 ELSE MaxAttempts

(* The retry budget bounds the calls to the gateway: each disruption costs *)
(* at most one call more.                                                  *)
GatewayCallsBounded ==
  \A p \in Payments : calls[p] <= Allowed + disruptions

Told(p, s) == \E e \in recorded : EventPayment[e] = p /\ EventStatus[e] = s

(* Every outcome has its cause on record: a success was captured or told   *)
(* by a stored webhook, a failure was told, was declined, or has used up   *)
(* the retry budget; and a dead letter is only written about a payment     *)
(* that has used up its budget and is settled.                             *)
OutcomeJustified ==
  \A p \in Payments :
    /\ status[p] = "SUCCESS" => captures[p] > 0 \/ Told(p, "SUCCESS")
    /\ status[p] = "FAILED" =>
         \/ failureReason[p] = "declined" /\ calls[p] > captures[p]
         \/ failureReason[p] = "max_retries" /\ retryCount[p] >= MaxAttempts
         \/ failureReason[p] = "webhook" /\ Told(p, "FAILED")
    /\ dlq[p] > 0 => Settled(p) /\ retryCount[p] >= MaxAttempts

(* The lock of a live holder is only given up by the holder's own release, *)
(* or by a disruption: the release of an execution that has lost its lease *)
(* never frees the lock of the next holder (the Lua script compares the    *)
(* token).                                                                 *)
LockFreedByHolder ==
  [][\A p \in Payments, w \in Workers :
       lock[p] = w /\ lock'[p] # w =>
         \/ pc[w] \in {"ack", "nack"} /\ pc'[w] = "idle"
         \/ disruptions' > disruptions]_vars

(* What the webhook makes of the row it has read: an unsettled payment     *)
(* gets the event's status, the outcome of a settled one stands.           *)
Verdict(h) ==
  IF isTerminal(seen[h].status) THEN seen[h].status ELSE EventStatus[hevent[h]]

(* The first event to be stored about an unsettled payment decides it,     *)
(* PENDING or PROCESSING, and a later one that contradicts the outcome is  *)
(* stored without effect, SUCCESS after FAILED too: when a webhook's row   *)
(* is committed, the payment's status is its verdict, whatever workers and *)
(* other webhooks have done since it read the row.  Events that found no   *)
(* payment are excepted: handleStructured stores them and does nothing.    *)
AcknowledgedWebhookSettles ==
  [][\A h \in Hooks :
       /\ hpc[h] = "decide"
       /\ seen[h].status # "ABSENT"
       /\ hevent[h] \in recorded' \ recorded
       => status'[EventPayment[hevent[h]]] = Verdict(h)]_vars

-----------------------------------------------------------------------------
(* What makes the safety properties inductive.                             *)

(* The owner of a partition is handling the payment it was handed, and the *)
(* message it handles is still there to be acknowledged.                   *)
Ownership ==
  \A p \in Payments, w \in Workers :
    consumer[p] = w => pc[w] # "idle" /\ job[w] = p /\ initiated[p] >= 1

(* payment.processing is not announced before a worker has taken up the    *)
(* payment.                                                                *)
ProcessingNotEarly ==
  \A p \in Payments :
    status[p] \in {"ABSENT", "PENDING"} => emitted[p]["processing"] = 0

(* The row a webhook has read is no newer than the stored one, and equal   *)
(* versions mean equal statuses - but for a row that was not there.        *)
SeenCoherent ==
  \A h \in Hooks :
    hpc[h] = "decide" =>
      LET p == EventPayment[hevent[h]]
      IN /\ seen[h].version <= version[p]
         /\ seen[h].status # "ABSENT" => status[p] # "ABSENT"
         /\ seen[h].status # "ABSENT" /\ seen[h].version = version[p]
              => seen[h].status = status[p]

(* The steps after the first transaction.                                  *)
Taken ==
  {"recheck", "charge", "succeed", "decline", "bump", "budget", "exhaust",
   "dlq", "schedule"}

(* Messages and executions are about payments that exist; an execution     *)
(* past its first transaction is about one that is no longer PENDING; and  *)
(* one about to acknowledge without having settled has left a second       *)
(* message behind.                                                         *)
WorkInProgress ==
  /\ \A p \in Payments :
       initiated[p] + retries[p] + dlq[p] > 0 => status[p] # "ABSENT"
  /\ \A w \in Workers :
       /\ pc[w] # "idle" => status[job[w]] # "ABSENT"
       /\ pc[w] \in Taken => status[job[w]] # "PENDING"
       /\ pc[w] = "dlq" => Settled(job[w])
       /\ pc[w] = "ack" /\ consumer[job[w]] = w /\ ~Settled(job[w])
            => initiated[job[w]] + retries[job[w]] >= 2

(* A worker in its critical section holds the lock.                        *)
LockHeld ==
  "lease" \notin suffered =>
    \A w \in Workers : pc[w] \in Critical => lock[job[w]] = w

(* A captured payment is settled, or about to be by the worker that        *)
(* captured it; and the gateway is only called for one not yet captured.   *)
CaptureKept ==
  Gentle =>
    /\ \A p \in Payments :
         captures[p] > 0 /\ ~Settled(p) =>
           \E w \in Workers : pc[w] = "succeed" /\ job[w] = p
    /\ \A w \in Workers : pc[w] = "charge" => captures[job[w]] = 0

(* The safety properties and what they need, in one inductive invariant.   *)
IInv ==
  /\ TypeOK
  /\ Ownership
  /\ AnnouncementsMatchStatus
  /\ ProcessingNotEarly
  /\ SeenCoherent
  /\ NeverStranded
  /\ WorkInProgress
  /\ LockHeld
  /\ ChargedAtMostOnce
  /\ CaptureKept

-----------------------------------------------------------------------------
(* Refinement and liveness.                                                *)

Ledger == INSTANCE PaymentLedger WITH
  announced <- [p \in Payments |->
                  [success      |-> emitted[p]["success"],
                   failed       |-> emitted[p]["failed"],
                   notification |-> emitted[p]["notification"]]]

(* Workers, webhooks and disruptions together do no more than the ledger   *)
(* allows: one settlement per payment, announced in the same step.         *)
LedgerSafe == Ledger!Safe

(* ... and they do as much: every payment that is created gets settled,    *)
(* however often it is retried, as long as the disruptions cease.          *)
LedgerSpec == Ledger!Spec

(* The executions between tryLockPayment and the release of p's lock.      *)
Inside(p) == {w \in Workers : pc[w] \in Critical /\ job[w] = p}

Contract(p) == INSTANCE LockContract WITH
  Tokens <- Workers \cup {Orphan},
  Nobody <- NoWorker,
  lock <- lock[p],
  holders <- Inside(p),
  lapsed <- "lease" \in suffered

(* The lock of every payment is used as PaymentLease keeps it: an          *)
(* execution enters only with the lock it has just taken, one that is over *)
(* gives up its own lock or none, and what a holder has lost by expiry it  *)
(* does not get back.                                                      *)
LockUsedAsKept ==
  /\ \A p \in Payments : Contract(p)!Init
  /\ [][\A p \in Payments : [Contract(p)!Next]_(Contract(p)!vars)]_vars

-----------------------------------------------------------------------------
(* What the documentation says and the code does not do: each is refuted   *)
(* by a run of its own.                                                    *)

(* README.md:127, an exhausted payment goes to payment.dlq: refuted,       *)
(* because the dead letter is a send of its own after the commit, and a    *)
(* redelivery finds the payment FAILED and does nothing.                   *)
ExhaustedReachesDlq ==
  \A p \in Payments : failureReason[p] = "max_retries" ~> dlq[p] > 0

(* README.md:61, the replay topic supports manual recovery: refuted,       *)
(* because a replayed payment is FAILED and the worker skips it.           *)
ReplayRecovers ==
  \A p \in Payments : p \in replayed ~> status[p] # "FAILED"

(* README.md:126-127, the gateway is called through a circuit breaker and  *)
(* its success makes the payment SUCCESS: refuted, because the breaker is  *)
(* asked after the gateway and an open one discards the answer.            *)
CapturedIsSuccess ==
  \A p \in Payments : captures[p] > 0 /\ Settled(p) => status[p] = "SUCCESS"
=============================================================================

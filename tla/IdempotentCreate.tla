-------------------------- MODULE IdempotentCreate --------------------------
(***************************************************************************)
(* POST /payments: any number of requests with any number of idempotency   *)
(* keys, on any number of API replicas (idempotency.middleware.ts,         *)
(* payment.controller.ts, payment.service.ts), sharing the Redis cache of  *)
(* responses and the idempotency_keys table.                               *)
(*                                                                         *)
(* One action is one await: a Redis command, a query or the transaction.   *)
(* A request creates at most one payment, so the payment is named by the   *)
(* request that created it.  A response body is kept down to the payment   *)
(* it names and the status it reports.                                     *)
(***************************************************************************)
EXTENDS PaymentStateMachine, FiniteSets

CONSTANTS
  Requests,        \* POST /payments requests, the client's retries included
  Keys,            \* trimmed Idempotency-Key headers
  KeyOf,           \* KeyOf[r]: the key request r carries
  Valid,           \* the requests whose body passes the validation
  Disruptions,     \* the kinds of disruption that may happen
  MaxDisruptions,  \* how many of them one behaviour has at most
  NoPayment        \* a value that is no request

ASSUME KeyAssumption == KeyOf \in [Requests -> Keys]

ASSUME ValidAssumption == Valid \subseteq Requests

ASSUME SentinelAssumption == NoPayment \notin Requests

ASSUME BoundAssumption ==
  /\ MaxDisruptions \in Nat
  /\ Disruptions \subseteq {"expire", "throw", "crash"}

VARIABLES
  payment,     \* payments: PaymentStatus, or "ABSENT" before the row exists
  row,         \* idempotency_keys: the stored response of each key
  cache,       \* Redis idem:{key}
  pc,          \* of a request: its next await, or how it has ended
  held,        \* the response a request has in hand; its answer at the end
  disruptions

vars == <<payment, row, cache, pc, held, disruptions>>

Responses == [payment : Requests, status : PaymentStatus]

Nothing == [payment |-> NoPayment, status |-> "ABSENT"]

Waiting == {"new", "cached", "stored", "fill", "create", "reread", "put"}

(* 201; 422; 500 after a unique violation; 500 after any other error; no   *)
(* answer at all.                                                          *)
Ended == {"created", "rejected", "conflict", "failed", "lost"}

TypeOK ==
  /\ payment \in [Requests -> PaymentStatus \cup {"ABSENT"}]
  /\ row \in [Keys -> Responses \cup {Nothing}]
  /\ cache \in [Keys -> Responses \cup {Nothing}]
  /\ pc \in [Requests -> Waiting \cup Ended]
  /\ held \in [Requests -> Responses \cup {Nothing}]
  /\ \A r \in Requests :
       pc[r] \in {"fill", "put", "created"} => held[r] # Nothing
  /\ disruptions \in 0 .. MaxDisruptions

-----------------------------------------------------------------------------
At(r, step) == pc[r] = step

Goto(r, step) == pc' = [pc EXCEPT ![r] = step]

Hold(r, response) == held' = [held EXCEPT ![r] = response]

(* findByKey and create of the idempotency repository.                     *)
Row(r) == row[KeyOf[r]]

InsertKey(r, response) == row' = [row EXCEPT ![KeyOf[r]] = response]

Snapshot(p, s) == [payment |-> p, status |-> s]

(* setCachedResponse.                                                      *)
SetCached(r, response) == cache' = [cache EXCEPT ![KeyOf[r]] = response]

Disrupt(kind) ==
  /\ kind \in Disruptions
  /\ disruptions < MaxDisruptions
  /\ disruptions' = disruptions + 1

Init ==
  /\ payment = [r \in Requests |-> "ABSENT"]
  /\ row = [k \in Keys |-> Nothing]
  /\ cache = [k \in Keys |-> Nothing]
  /\ pc = [r \in Requests |-> "new"]
  /\ held = [r \in Requests |-> Nothing]
  /\ disruptions = 0

(* The request arrives with a key and asks Redis.                          *)
Arrive(r) ==
  /\ At(r, "new")
  /\ Goto(r, "cached")
  /\ UNCHANGED <<payment, row, cache, held, disruptions>>

(* getCachedResponse: a hit is the answer.                                 *)
LookupCache(r) ==
  /\ At(r, "cached")
  /\ \/ /\ cache[KeyOf[r]] # Nothing
        /\ Hold(r, cache[KeyOf[r]])
        /\ Goto(r, "created")
     \/ /\ cache[KeyOf[r]] = Nothing
        /\ Goto(r, "stored")
        /\ UNCHANGED held
  /\ UNCHANGED <<payment, row, cache, disruptions>>

(* The middleware trusts the cache alone.                                  *)
LookupRowNot(r) ==
  /\ At(r, "stored")
  /\ Goto(r, IF r \in Valid THEN "create" ELSE "rejected")
  /\ UNCHANGED <<payment, row, cache, held, disruptions>>

(* idempotencyRepository.findByKey.  A row is the answer, once it is       *)
(* cached; without one the body is validated and the payment created.      *)
LookupRow(r) ==
  /\ At(r, "stored")
  /\ \/ /\ Row(r) # Nothing
        /\ Hold(r, Row(r))
        /\ Goto(r, "fill")
     \/ /\ Row(r) = Nothing
        /\ Goto(r, IF r \in Valid THEN "create" ELSE "rejected")
        /\ UNCHANGED held
  /\ UNCHANGED <<payment, row, cache, disruptions>>

FillCache(r) ==
  /\ At(r, "fill")
  /\ SetCached(r, held[r])
  /\ Goto(r, "created")
  /\ UNCHANGED <<payment, row, held, disruptions>>

(* The key column has no unique index: an upsert, or a plain insert.       *)
CreatePaymentUpserting(r) ==
  /\ At(r, "create")
  /\ payment' = [payment EXCEPT ![r] = "PENDING"]
  /\ InsertKey(r, Snapshot(r, "PENDING"))
  /\ Goto(r, "reread")
  /\ UNCHANGED <<cache, held, disruptions>>

(* The response is cached before the transaction that makes it true.       *)
CreatePaymentCachingFirst(r) ==
  /\ At(r, "create")
  /\ SetCached(r, Snapshot(r, "PENDING"))
  /\ \/ /\ Row(r) = Nothing
        /\ payment' = [payment EXCEPT ![r] = "PENDING"]
        /\ InsertKey(r, Snapshot(r, "PENDING"))
        /\ Goto(r, "reread")
     \/ /\ Row(r) # Nothing
        /\ Goto(r, "conflict")
        /\ UNCHANGED <<payment, row>>
  /\ UNCHANGED <<held, disruptions>>

(* The transaction inserts the payment, its event, its outbox row and the  *)
(* key with the response as of now.  A second row with the same key is a   *)
(* unique violation: everything is rolled back and the error, which no     *)
(* handler knows, is answered with 500.                                    *)
CreatePayment(r) ==
  /\ At(r, "create")
  /\ \/ /\ Row(r) = Nothing
        /\ payment' = [payment EXCEPT ![r] = "PENDING"]
        /\ InsertKey(r, Snapshot(r, "PENDING"))
        /\ Goto(r, "reread")
     \/ /\ Row(r) # Nothing
        /\ Goto(r, "conflict")
        /\ UNCHANGED <<payment, row>>
  /\ UNCHANGED <<cache, held, disruptions>>

(* The payment is read again through its key, as it is by now.             *)
Reread(r) ==
  /\ At(r, "reread")
  /\ Hold(r, Snapshot(Row(r).payment, payment[Row(r).payment]))
  /\ Goto(r, "put")
  /\ UNCHANGED <<payment, row, cache, disruptions>>

PutCache(r) ==
  /\ At(r, "put")
  /\ SetCached(r, held[r])
  /\ Goto(r, "created")
  /\ UNCHANGED <<payment, row, held, disruptions>>

(* Meanwhile workers and webhooks move the payment (PaymentProcessing).    *)
Advance(p) ==
  /\ \/ /\ payment[p] = "PENDING"
        /\ payment' = [payment EXCEPT ![p] = "PROCESSING"]
     \/ \E s \in Terminal :
          /\ assertWebhookTerminal(payment[p], s)
          /\ payment' = [payment EXCEPT ![p] = s]
  /\ UNCHANGED <<row, cache, pc, held, disruptions>>

-----------------------------------------------------------------------------
(* Disruptions.                                                            *)

(* The TTL of a cached response runs out, or Redis evicts or loses it.     *)
Expire(k) ==
  /\ Disrupt("expire")
  /\ cache[k] # Nothing
  /\ cache' = [cache EXCEPT ![k] = Nothing]
  /\ UNCHANGED <<payment, row, pc, held>>

(* The command, query or commit fails, or its answer does not arrive: a    *)
(* commit and a SETEX may have been executed all the same.                 *)
Fails(r, ending) ==
  /\ Goto(r, ending)
  /\ \/ UNCHANGED <<payment, row, cache>>
     \/ /\ At(r, "create")
        /\ Row(r) = Nothing
        /\ payment' = [payment EXCEPT ![r] = "PENDING"]
        /\ InsertKey(r, Snapshot(r, "PENDING"))
        /\ UNCHANGED cache
     \/ /\ pc[r] \in {"fill", "put"}
        /\ SetCached(r, held[r])
        /\ UNCHANGED <<payment, row>>
  /\ UNCHANGED held

(* The error reaches the error middleware: 500.                            *)
Throw(r) ==
  /\ Disrupt("throw")
  /\ pc[r] \in Waiting \ {"new"}
  /\ Fails(r, "failed")

(* The replica dies, and the client gets no answer.                        *)
Crash(r) ==
  /\ Disrupt("crash")
  /\ pc[r] \in Waiting \ {"new"}
  /\ Fails(r, "lost")

-----------------------------------------------------------------------------
RequestStep(r) ==
  \/ LookupCache(r) \/ LookupRow(r) \/ FillCache(r) \/ CreatePayment(r)
  \/ Reread(r) \/ PutCache(r)

Next ==
  \/ \E r \in Requests :
       Arrive(r) \/ RequestStep(r) \/ Advance(r) \/ Throw(r) \/ Crash(r)
  \/ \E k \in Keys : Expire(k)

Spec == Init /\ [][Next]_vars

(* A request that has arrived is carried on.  Clients need not send any    *)
(* and no payment need ever be processed.                                  *)
FairSpec == Spec /\ \A r \in Requests : WF_vars(RequestStep(r))

-----------------------------------------------------------------------------
(* However many requests with one key run at once, on however many         *)
(* replicas, with whatever crash in between, at most one payment is ever   *)
(* created for the key, and it is the one the key's row names.             *)
OnePaymentPerKey ==
  \A r \in Requests :
    payment[r] # "ABSENT" => Row(r) # Nothing /\ Row(r).payment = r

(* Every 201 names the payment that is committed under the key and the     *)
(* same one as any other 201 of the key, whether it comes from the cache,  *)
(* the table or the transaction.                                           *)
AnswersAgree ==
  \A q, r \in Requests :
    pc[q] = "created" /\ pc[r] = "created" /\ KeyOf[q] = KeyOf[r] =>
      /\ held[q].payment = held[r].payment
      /\ payment[held[r].payment] # "ABSENT"

(* A response in Redis or in a request's hands never runs ahead of the     *)
(* database: it names the payment of the committed row, and a status that  *)
(* the payment has reached and, if it is a final one, still has.           *)
Truthful(k, response) ==
  response # Nothing =>
    LET now == payment[response.payment]
    IN /\ row[k].payment = response.payment
       /\ now # "ABSENT"
       /\ \/ response.status \in {now, "PENDING"}
          \/ response.status = "PROCESSING" /\ now \in Terminal

ResponsesTruthful ==
  /\ \A k \in Keys : Truthful(k, row[k]) /\ Truthful(k, cache[k])
  /\ \A r \in Requests : Truthful(KeyOf[r], held[r])

(* A request past its commit finds the row it has written.                 *)
CommittedBehind ==
  \A r \in Requests : pc[r] = "reread" => Row(r) # Nothing

(* Only a request whose body has passed the validation creates a payment.  *)
ValidatedBehind == \A r \in Requests : pc[r] = "create" => r \in Valid

(* The safety properties and what they need, in one inductive invariant.   *)
IInv ==
  /\ TypeOK
  /\ OnePaymentPerKey
  /\ ResponsesTruthful
  /\ CommittedBehind
  /\ ValidatedBehind

-----------------------------------------------------------------------------
(* Refinement.                                                             *)

Post == INSTANCE IdempotentPost WITH
  payments <- {r \in Requests : payment[r] # "ABSENT"},
  bound <- [k \in Keys |-> row[k].payment],
  answer <- [r \in Requests |->
               IF pc[r] = "created" THEN held[r].payment ELSE NoPayment]

(* Cache, table and re-read together are a register that is written once:  *)
(* a payment appears in the step that gives its key its meaning, only for  *)
(* a valid body, and from then on every 201 of the key, whichever way it   *)
(* takes, names that payment and is not taken back.                        *)
KeyWrittenOnce == Post!Spec

-----------------------------------------------------------------------------
(* A retry that arrives after the first attempt's commit is answered 201   *)
(* from the cache or the row - never a second payment, a 422 or a          *)
(* conflict - unless it is itself cut off, even if the first attempt was   *)
(* cut off before it could answer or the cache has lost the key.           *)
RetryAnswered ==
  \A r \in Requests :
    pc[r] = "cached" /\ Row(r) # Nothing ~>
      pc[r] \in {"created", "failed", "lost"}
=============================================================================

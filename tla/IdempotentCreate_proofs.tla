----------------------- MODULE IdempotentCreate_proofs -----------------------
(***************************************************************************)
(* Proofs, for any number of requests and keys, that a key gets at most    *)
(* one payment and that every answer tells the truth about it.             *)
(***************************************************************************)
EXTENDS IdempotentCreate, TLAPS

(* A record of a payment and a status is a response, never Nothing.        *)
LEMMA ResponseForms ==
  /\ Nothing \notin Responses
  /\ \A p \in Requests, s \in PaymentStatus :
       /\ Snapshot(p, s) \in Responses
       /\ Snapshot(p, s) # Nothing
       /\ Snapshot(p, s).payment = p
       /\ Snapshot(p, s).status = s
BY SentinelAssumption DEF Nothing, Responses, Snapshot

(* In every state an execution reaches, the parts of IInv hold.            *)
LEMMA InitIInv == Init => IInv
BY KeyAssumption, BoundAssumption
   DEF Init, IInv, TypeOK, OnePaymentPerKey, ResponsesTruthful, Truthful,
       CommittedBehind, ValidatedBehind, Row, Waiting, Ended

(* The type invariant is preserved by every step.                          *)
LEMMA TypeNext ==
  /\ TypeOK /\ OnePaymentPerKey /\ ResponsesTruthful /\ CommittedBehind
  /\ [Next]_vars
  => TypeOK'
<1> SUFFICES ASSUME TypeOK, CommittedBehind, OnePaymentPerKey, ResponsesTruthful, [Next]_vars
             PROVE  TypeOK'
    OBVIOUS
<1> USE KeyAssumption, BoundAssumption
    DEF TypeOK, Waiting, Ended, At, Goto, Hold, SetCached
<1>1. ASSUME NEW r \in Requests, Arrive(r) PROVE TypeOK'
  BY <1>1 DEF Arrive
<1>2. ASSUME NEW r \in Requests, LookupCache(r) PROVE TypeOK'
  <2>1. KeyOf[r] \in Keys /\ cache[KeyOf[r]] \in Responses \cup {Nothing}
    OBVIOUS
  <2>2. CASE cache[KeyOf[r]] # Nothing
    BY <1>2, <2>1, <2>2 DEF LookupCache
  <2>3. CASE cache[KeyOf[r]] = Nothing
    BY <1>2, <2>3 DEF LookupCache
  <2> QED BY <2>2, <2>3
<1>3. ASSUME NEW r \in Requests, LookupRow(r) PROVE TypeOK'
  <2>1. KeyOf[r] \in Keys /\ row[KeyOf[r]] \in Responses \cup {Nothing}
    OBVIOUS
  <2>2. CASE row[KeyOf[r]] # Nothing
    BY <1>3, <2>1, <2>2 DEF LookupRow, Row
  <2>3. CASE row[KeyOf[r]] = Nothing
    BY <1>3, <2>3 DEF LookupRow, Row
  <2> QED BY <2>2, <2>3
<1>4. ASSUME NEW r \in Requests, FillCache(r) PROVE TypeOK'
  <2>1. KeyOf[r] \in Keys /\ held[r] \in Responses \cup {Nothing} /\ held[r] # Nothing
    BY <1>4 DEF FillCache
  <2>2. cache' \in [Keys -> Responses \cup {Nothing}]
    BY <1>4, <2>1 DEF FillCache
  <2>3. pc' = [pc EXCEPT ![r] = "created"]
    BY <1>4 DEF FillCache
  <2> QED BY <1>4, <2>1, <2>2, <2>3 DEF FillCache
<1>5. ASSUME NEW r \in Requests, CreatePayment(r) PROVE TypeOK'
  <2>1. KeyOf[r] \in Keys /\ Snapshot(r, "PENDING") \in Responses
    BY ResponseForms DEF PaymentStatus
  <2>2. CASE Row(r) = Nothing
    BY <1>5, <2>1, <2>2 DEF CreatePayment, InsertKey, PaymentStatus
  <2>3. CASE Row(r) # Nothing
    BY <1>5, <2>3 DEF CreatePayment, InsertKey
  <2> QED BY <2>2, <2>3
<1>6. ASSUME NEW r \in Requests, Reread(r) PROVE TypeOK'
  <2> DEFINE p == Row(r).payment
  <2>1. Row(r) \in Responses /\ KeyOf[r] \in Keys
    BY <1>6 DEF Reread, CommittedBehind, Row
  <2>2. p \in Requests /\ payment[p] # "ABSENT"
    BY <2>1, <1>6 DEF Reread, CommittedBehind, ResponsesTruthful, Truthful, Row, Responses
  <2>3. payment[p] \in PaymentStatus
    BY <2>2
  <2>4. Snapshot(p, payment[p]) \in Responses /\ Snapshot(p, payment[p]) # Nothing
    BY <2>2, <2>3, ResponseForms
  <2> HIDE DEF p
  <2>5. held' = [held EXCEPT ![r] = Snapshot(p, payment[p])]
    BY <1>6 DEF Reread, p
  <2> QED BY <1>6, <2>4, <2>5 DEF Reread
<1>7. ASSUME NEW r \in Requests, PutCache(r) PROVE TypeOK'
  BY <1>7 DEF PutCache
<1>8. ASSUME NEW r \in Requests, Advance(r) PROVE TypeOK'
  <2> PICK s \in PaymentStatus : payment' = [payment EXCEPT ![r] = s]
    BY <1>8 DEF Advance, Terminal, PaymentStatus
  <2> QED BY <1>8 DEF Advance
<1>9. ASSUME NEW r \in Requests, Throw(r) \/ Crash(r) PROVE TypeOK'
  <2>1. PICK ending \in {"failed", "lost"} : Fails(r, ending)
    BY <1>9 DEF Throw, Crash
  <2>2. disruptions' \in 0 .. MaxDisruptions
    BY <1>9 DEF Throw, Crash, Disrupt
  <2>3. pc' \in [Requests -> Waiting \cup Ended]
    BY <2>1 DEF Fails, InsertKey
  <2>4. UNCHANGED held /\ \A q \in Requests : pc'[q] \in {pc[q], "failed", "lost"}
    BY <2>1 DEF Fails, InsertKey
  <2>5. payment' \in [Requests -> PaymentStatus \cup {"ABSENT"}]
    BY <2>1 DEF Fails, InsertKey, PaymentStatus
  <2>6. row' \in [Keys -> Responses \cup {Nothing}]
    BY <2>1, ResponseForms DEF Fails, InsertKey, PaymentStatus
  <2>7. cache' \in [Keys -> Responses \cup {Nothing}]
    BY <2>1 DEF Fails, InsertKey
  <2> QED BY <2>2, <2>3, <2>4, <2>5, <2>6, <2>7
<1>10. ASSUME NEW k \in Keys, Expire(k) PROVE TypeOK'
  BY <1>10 DEF Expire, Disrupt
<1>11. CASE UNCHANGED vars
  BY <1>11 DEF vars
<1> QED BY <1>1, <1>2, <1>3, <1>4, <1>5, <1>6, <1>7, <1>8, <1>9, <1>10, <1>11
        DEF Next, RequestStep

(* The transaction of r commits: the payment and its key appear together.  *)
Commits(r) ==
  /\ Row(r) = Nothing
  /\ payment' = [payment EXCEPT ![r] = "PENDING"]
  /\ row' = [row EXCEPT ![KeyOf[r]] = Snapshot(r, "PENDING")]

(* A step leaves the tables alone, commits a creation, or moves a payment. *)
LEMMA StoreStep ==
  [Next]_vars =>
    \/ UNCHANGED <<payment, row>>
    \/ \E r \in Requests : Commits(r) /\ UNCHANGED cache /\ UNCHANGED held
    \/ \E r \in Requests : Advance(r)
BY DEF Next, RequestStep, Arrive, LookupCache, LookupRow, FillCache,
       CreatePayment, InsertKey, Reread, PutCache, Throw, Crash, Fails, Expire, vars,
       Commits, SetCached

(* Keys and payments are never forgotten, and a payment only moves on.     *)
LEMMA TruthKept ==
  ASSUME TypeOK, OnePaymentPerKey, [Next]_vars, NEW k \in Keys,
         NEW response \in Responses \cup {Nothing}, Truthful(k, response)
  PROVE  response # Nothing =>
           /\ row'[k].payment = response.payment
           /\ payment'[response.payment] # "ABSENT"
           /\ \/ response.status \in {payment'[response.payment], "PENDING"}
              \/ /\ response.status = "PROCESSING"
                 /\ payment'[response.payment] \in Terminal
<1> SUFFICES ASSUME response # Nothing
             PROVE  /\ row'[k].payment = response.payment
                    /\ payment'[response.payment] # "ABSENT"
                    /\ \/ response.status \in {payment'[response.payment], "PENDING"}
                       \/ /\ response.status = "PROCESSING"
                          /\ payment'[response.payment] \in Terminal
    OBVIOUS
<1>1. response \in Responses /\ response.payment \in Requests
  BY DEF Responses
<1>2. row[k] # Nothing
  BY <1>1, SentinelAssumption DEF Truthful, Nothing
<1>3. CASE UNCHANGED <<payment, row>>
  BY <1>3 DEF Truthful
<1>4. ASSUME NEW r \in Requests, Commits(r)
      PROVE  row'[k] = row[k] /\ payment'[response.payment] = payment[response.payment]
  <2>1. k # KeyOf[r]
    BY <1>2, <1>4 DEF Commits, Row
  <2>2. response.payment # r
    BY <1>1, <1>4 DEF Commits, Truthful, OnePaymentPerKey
  <2> QED BY <1>1, <1>4, <2>1, <2>2 DEF Commits, TypeOK
<1>5. CASE \E r \in Requests : Commits(r)
  BY <1>1, <1>4, <1>5 DEF Truthful
<1>6. ASSUME NEW r \in Requests, Advance(r)
      PROVE  /\ UNCHANGED row
             /\ \/ payment'[r] \in Terminal
                \/ payment[r] = "PENDING" /\ payment'[r] = "PROCESSING"
             /\ payment[r] \in {"PENDING", "PROCESSING"}
             /\ \A q \in Requests : q # r => payment'[q] = payment[q]
  <2>1. UNCHANGED row /\ payment \in [Requests -> PaymentStatus \cup {"ABSENT"}]
    BY <1>6 DEF Advance, TypeOK
  <2>2. CASE payment[r] = "PENDING" /\ payment' = [payment EXCEPT ![r] = "PROCESSING"]
    BY <2>1, <2>2
  <2>3. ASSUME NEW s \in Terminal, assertWebhookTerminal(payment[r], s),
               payment' = [payment EXCEPT ![r] = s]
        PROVE  /\ payment'[r] \in Terminal
               /\ payment[r] \in {"PENDING", "PROCESSING"}
               /\ \A q \in Requests : q # r => payment'[q] = payment[q]
    BY <2>1, <2>3 DEF assertWebhookTerminal
  <2>4. CASE \E s \in Terminal : /\ assertWebhookTerminal(payment[r], s)
                                 /\ payment' = [payment EXCEPT ![r] = s]
    BY <2>1, <2>3, <2>4
  <2> QED BY <1>6, <2>2, <2>4 DEF Advance
<1>7. CASE \E r \in Requests : Advance(r)
  <2> PICK r \in Requests : Advance(r)
    BY <1>7
  <2>1. CASE response.payment = r
    BY <1>1, <1>6, <2>1 DEF Truthful, Terminal
  <2>2. CASE response.payment # r
    BY <1>1, <1>6, <2>2 DEF Truthful
  <2> QED BY <2>1, <2>2
<1> QED BY <1>3, <1>5, <1>7, StoreStep

(* OnePaymentPerKey is preserved by every step.                            *)
LEMMA OnePaymentNext ==
  TypeOK /\ OnePaymentPerKey /\ [Next]_vars => OnePaymentPerKey'
<1> SUFFICES ASSUME TypeOK, OnePaymentPerKey, [Next]_vars,
                    NEW q \in Requests, payment'[q] # "ABSENT"
             PROVE  row'[KeyOf[q]] # Nothing /\ row'[KeyOf[q]].payment = q
    BY DEF OnePaymentPerKey, Row
<1>1. CASE UNCHANGED <<payment, row>>
  BY <1>1 DEF OnePaymentPerKey, Row
<1>2. ASSUME NEW r \in Requests, Commits(r)
      PROVE  row'[KeyOf[q]] # Nothing /\ row'[KeyOf[q]].payment = q
  <2>0. KeyOf[q] \in Keys /\ KeyOf[r] \in Keys
    BY KeyAssumption
  <2>1. CASE q = r
    BY <1>2, <2>0, <2>1, ResponseForms DEF Commits, TypeOK, PaymentStatus
  <2>2. CASE q # r
    BY <1>2, <2>0, <2>2 DEF Commits, TypeOK, OnePaymentPerKey, Row
  <2> QED BY <2>1, <2>2
<1>3. ASSUME NEW r \in Requests, Advance(r)
      PROVE  UNCHANGED row /\ payment[q] # "ABSENT"
  BY <1>3 DEF Advance, assertWebhookTerminal, TypeOK
<1>4. CASE \E r \in Requests : Advance(r)
  BY <1>3, <1>4 DEF OnePaymentPerKey, Row
<1> QED BY <1>1, <1>2, <1>4, StoreStep

(* A request past its commit keeps finding its row.                        *)
LEMMA CommittedNext ==
  TypeOK /\ OnePaymentPerKey /\ ResponsesTruthful /\ CommittedBehind
  /\ [Next]_vars => CommittedBehind'
<1> SUFFICES ASSUME TypeOK, OnePaymentPerKey, ResponsesTruthful,
                    CommittedBehind, [Next]_vars,
                    NEW q \in Requests, pc'[q] = "reread"
             PROVE  row'[KeyOf[q]] # Nothing
    BY DEF CommittedBehind, Row
<1>0. KeyOf[q] \in Keys
  BY KeyAssumption
<1>1. CASE Row(q) # Nothing
  <2>1. Row(q) \in Responses /\ Truthful(KeyOf[q], Row(q))
    BY <1>0, <1>1 DEF Row, TypeOK, ResponsesTruthful
  <2>2. row'[KeyOf[q]].payment = Row(q).payment /\ Row(q).payment \in Requests
    BY <1>0, <1>1, <2>1, TruthKept DEF Responses
  <2> QED BY <2>2, SentinelAssumption DEF Nothing
<1>2. CASE Row(q) = Nothing
  <2>1. pc[q] # "reread"
    BY <1>2 DEF CommittedBehind
  <2>2. PICK r \in Requests : CreatePayment(r) /\ Row(r) = Nothing /\ r = q
    BY <2>1 DEF Next, RequestStep, Arrive, LookupCache, LookupRow, FillCache,
         CreatePayment, InsertKey, Reread, PutCache, Advance, Throw, Crash, Fails, Expire,
         vars, Goto, TypeOK
  <2>3. row'[KeyOf[q]] = Snapshot(q, "PENDING")
    BY <1>0, <2>2 DEF CreatePayment, InsertKey, TypeOK
  <2> QED BY <2>3, ResponseForms DEF PaymentStatus
<1> QED BY <1>1, <1>2

(* A response that is in the hands of a request or in Redis after a step   *)
(* was there before, under the same key, or is fresh from the tables.      *)
LEMMA ResponseStep ==
  ASSUME TypeOK, [Next]_vars
  PROVE  /\ \A k \in Keys :
              \/ cache'[k] \in {cache[k], Nothing}
              \/ \E r \in Requests : KeyOf[r] = k /\ cache'[k] = held[r]
         /\ \A r \in Requests :
              \/ held'[r] \in {held[r], cache[KeyOf[r]], row[KeyOf[r]]}
              \/ /\ pc[r] = "reread"
                 /\ UNCHANGED <<payment, row>>
                 /\ held'[r] = Snapshot(Row(r).payment, payment[Row(r).payment])
<1> DEFINE Fresh(k) ==
             \/ cache'[k] \in {cache[k], Nothing}
             \/ \E r \in Requests : KeyOf[r] = k /\ cache'[k] = held[r]
           Known(q) ==
             \/ held'[q] \in {held[q], cache[KeyOf[q]], row[KeyOf[q]]}
             \/ /\ pc[q] = "reread"
                /\ UNCHANGED <<payment, row>>
                /\ held'[q] = Snapshot(Row(q).payment, payment[Row(q).payment])
<1>1. ASSUME NEW k \in Keys PROVE Fresh(k)
  <2>1. ASSUME NEW r \in Requests, SetCached(r, held[r]) PROVE Fresh(k)
    BY <2>1, KeyAssumption DEF SetCached, TypeOK
  <2>2. ASSUME NEW j \in Keys, Expire(j) PROVE Fresh(k)
    BY <2>2 DEF Expire, TypeOK
  <2>3. CASE UNCHANGED cache
    BY <2>3
  <2> HIDE DEF Fresh
  <2> QED BY <2>1, <2>2, <2>3
          DEF Next, RequestStep, Arrive, LookupCache, LookupRow, FillCache,
              CreatePayment, InsertKey, Reread, PutCache, Advance, Throw, Crash, Fails, vars
<1>2. ASSUME NEW q \in Requests PROVE Known(q)
  <2>1. ASSUME NEW r \in Requests, LookupCache(r) PROVE Known(q)
    BY <2>1 DEF LookupCache, Hold, TypeOK
  <2>2. ASSUME NEW r \in Requests, LookupRow(r) PROVE Known(q)
    BY <2>2 DEF LookupRow, Hold, Row, TypeOK
  <2>3. ASSUME NEW r \in Requests, Reread(r) PROVE Known(q)
    BY <2>3 DEF Reread, Hold, At, TypeOK
  <2>4. CASE UNCHANGED held
    BY <2>4
  <2> HIDE DEF Known
  <2> QED BY <2>1, <2>2, <2>3, <2>4
          DEF Next, RequestStep, Arrive, FillCache, CreatePayment, InsertKey, PutCache,
              Advance, Throw, Crash, Fails, Expire, vars
<1> QED BY <1>1, <1>2

(* ResponsesTruthful is preserved by every step.                           *)
LEMMA TruthNext ==
  TypeOK /\ OnePaymentPerKey /\ ResponsesTruthful /\ CommittedBehind
  /\ [Next]_vars => ResponsesTruthful'
<1> SUFFICES ASSUME TypeOK, OnePaymentPerKey, ResponsesTruthful,
                    CommittedBehind, [Next]_vars
             PROVE  ResponsesTruthful'
    OBVIOUS
<1> DEFINE TruthfulNext(k, response) ==
             response # Nothing =>
               /\ row'[k].payment = response.payment
               /\ payment'[response.payment] # "ABSENT"
               /\ \/ response.status \in {payment'[response.payment], "PENDING"}
                  \/ /\ response.status = "PROCESSING"
                     /\ payment'[response.payment] \in Terminal
<1>0. \A r \in Requests : KeyOf[r] \in Keys
  BY KeyAssumption
<1>1. \A k \in Keys, response \in Responses \cup {Nothing} :
        Truthful(k, response) => TruthfulNext(k, response)
  BY TruthKept
<1>2. ASSUME NEW k \in Keys PROVE TruthfulNext(k, cache'[k])
  <2>1. ASSUME NEW r \in Requests, KeyOf[r] = k
        PROVE  held[r] \in Responses \cup {Nothing} /\ Truthful(k, held[r])
    BY <2>1 DEF TypeOK, ResponsesTruthful
  <2>2. cache[k] \in Responses \cup {Nothing} /\ Truthful(k, cache[k])
    BY DEF TypeOK, ResponsesTruthful
  <2>3. TruthfulNext(k, Nothing)
    OBVIOUS
  <2> HIDE DEF TruthfulNext
  <2> QED BY <1>1, <2>1, <2>2, <2>3, ResponseStep
<1>3. ASSUME NEW k \in Keys PROVE TruthfulNext(k, row'[k])
  <2>1. row[k] \in Responses \cup {Nothing} /\ Truthful(k, row[k])
    BY DEF TypeOK, ResponsesTruthful
  <2>2. CASE row'[k] = row[k]
    BY <1>1, <2>1, <2>2
  <2>3. ASSUME NEW r \in Requests, Commits(r), row'[k] # row[k]
        PROVE  TruthfulNext(k, row'[k])
    <3>1. KeyOf[r] = k /\ row'[k] = Snapshot(r, "PENDING") /\ payment'[r] = "PENDING"
      BY <2>3, <1>0 DEF Commits, TypeOK
    <3> QED BY <3>1, ResponseForms DEF PaymentStatus
  <2> HIDE DEF TruthfulNext
  <2> QED BY <2>2, <2>3, StoreStep DEF Advance
<1>4. ASSUME NEW r \in Requests PROVE TruthfulNext(KeyOf[r], held'[r])
  <2> DEFINE k == KeyOf[r]
  <2>1. /\ {held[r], cache[k], row[k]} \subseteq Responses \cup {Nothing}
        /\ Truthful(k, held[r]) /\ Truthful(k, cache[k]) /\ Truthful(k, row[k])
    BY <1>0 DEF TypeOK, ResponsesTruthful
  <2>2. ASSUME pc[r] = "reread", UNCHANGED <<payment, row>>,
               held'[r] = Snapshot(Row(r).payment, payment[Row(r).payment])
        PROVE  TruthfulNext(k, held'[r])
    <3>1. row[k] \in Responses /\ Truthful(k, row[k])
      BY <1>0, <2>1, <2>2 DEF CommittedBehind, Row
    <3>2. row[k].payment \in Requests /\ payment[row[k].payment] # "ABSENT"
      BY <3>1, ResponseForms DEF Truthful, Responses
    <3>3. payment[row[k].payment] \in PaymentStatus
      BY <3>2 DEF TypeOK
    <3> QED BY <2>2, <3>2, <3>3, ResponseForms DEF Row
  <2> HIDE DEF TruthfulNext
  <2> QED BY <1>0, <1>1, <2>1, <2>2, ResponseStep
<1> QED BY <1>2, <1>3, <1>4 DEF ResponsesTruthful, Truthful

(* A request on its way to the transaction has a valid body.               *)
LEMMA ValidatedNext ==
  TypeOK /\ ValidatedBehind /\ [Next]_vars => ValidatedBehind'
BY DEF TypeOK, ValidatedBehind, Next, RequestStep, Arrive, LookupCache, LookupRow,
       FillCache, CreatePayment, Reread, PutCache, Advance, Throw, Crash, Fails,
       Expire, vars, Goto

(* In every reachable state the invariant holds, whatever the number of    *)
(* requests, keys and disruptions.                                         *)
THEOREM Invariance == Spec => []IInv
<1>1. IInv /\ [Next]_vars => IInv'
  BY TypeNext, OnePaymentNext, TruthNext, CommittedNext, ValidatedNext DEF IInv
<1> QED BY <1>1, InitIInv, PTL DEF Spec

(* What a request holds fits the await it stands before, and neither the   *)
(* cache nor the table holds anything but responses.                       *)
THEOREM TypeCorrect == Spec => []TypeOK
BY Invariance, PTL DEF IInv

(* POST /payments never creates two payments for one Idempotency-Key.      *)
THEOREM OnePayment == Spec => []OnePaymentPerKey
BY Invariance, PTL DEF IInv

(* Nothing in Redis, in the idempotency_keys table or in a request's hands *)
(* runs ahead of the payments table.                                       *)
THEOREM Truth == Spec => []ResponsesTruthful
BY Invariance, PTL DEF IInv

(* Any two 201 answers for a key name the same, committed payment.         *)
THEOREM Agreement == Spec => []AnswersAgree
<1>1. IInv => AnswersAgree
  <2> SUFFICES ASSUME IInv, NEW q \in Requests, NEW r \in Requests,
                      pc[q] = "created", pc[r] = "created", KeyOf[q] = KeyOf[r]
               PROVE  /\ held[q].payment = held[r].payment
                      /\ payment[held[r].payment] # "ABSENT"
      BY DEF AnswersAgree
  <2>1. held[q] # Nothing /\ held[r] # Nothing
    BY DEF IInv, TypeOK
  <2> QED BY <2>1 DEF IInv, ResponsesTruthful, Truthful
<1> QED BY <1>1, Invariance, PTL

-----------------------------------------------------------------------------
(* The abstract state: what IdempotentPost sees of the tables and the      *)
(* answers.                                                                *)
Created == {r \in Requests : payment[r] # "ABSENT"}

Bound == [k \in Keys |-> row[k].payment]

Named == [r \in Requests |->
            IF pc[r] = "created" THEN held[r].payment ELSE NoPayment]

(* What IdempotentPost says of one step.                                   *)
PostStep == [Post!Next]_(Post!vars)

(* A key without a row is an unwritten register.                           *)
LEMMA Unwritten ==
  ASSUME TypeOK, NEW k \in Keys
  PROVE  (row[k].payment = NoPayment) <=> (row[k] = Nothing)
BY SentinelAssumption DEF TypeOK, Nothing, Responses

(* The commit of a request's transaction writes the register.              *)
LEMMA CommitBinds ==
  ASSUME TypeOK, NEW r \in Requests, r \in Valid, Commits(r), Named' = Named
  PROVE  Post!Bind(r)
<1>0. KeyOf[r] \in Keys
  BY KeyAssumption
<1>1. Bound[KeyOf[r]] = NoPayment
  BY <1>0, Unwritten DEF Commits, Row, Bound
<1>2. Bound' = [Bound EXCEPT ![KeyOf[r]] = r]
  BY <1>0, ResponseForms DEF Commits, Bound, TypeOK, PaymentStatus
<1>3. Created' = Created \cup {r}
  BY DEF Commits, Created, TypeOK
<1> QED BY <1>1, <1>2, <1>3 DEF Post!Bind, Bound, Created, Named

(* A 201 reads the register: the response in hand is that of the row.      *)
LEMMA AnswerReads ==
  ASSUME TypeOK, ResponsesTruthful, NEW r \in Requests,
         pc[r] # "created", Goto(r, "created"), UNCHANGED <<payment, row>>,
         held'[r] # Nothing, held'[r] \in {held[r], cache[KeyOf[r]]},
         \A q \in Requests : q # r => held'[q] = held[q]
  PROVE  Post!Answer(r)
<1>0. KeyOf[r] \in Keys
  BY KeyAssumption
<1>1. held'[r] \in Responses /\ Truthful(KeyOf[r], held'[r])
  BY <1>0 DEF TypeOK, ResponsesTruthful
<1>2. held'[r].payment = row[KeyOf[r]].payment /\ held'[r].payment # NoPayment
  BY <1>1, SentinelAssumption DEF Truthful, Responses
<1>3. Named[r] = NoPayment /\ Bound[KeyOf[r]] # NoPayment
  BY <1>0, <1>2 DEF Named, Bound
<1>4. Named' = [Named EXCEPT ![r] = Bound[KeyOf[r]]]
  BY <1>0, <1>2 DEF Named, Bound, Goto, TypeOK
<1>5. Bound' = Bound /\ Created' = Created
  BY DEF Bound, Created
<1> QED BY <1>3, <1>4, <1>5 DEF Post!Answer, Bound, Created, Named

(* A step that neither commits nor answers is none of the register's.      *)
LEMMA OthersStutter ==
  ASSUME Created' = Created, Bound' = Bound, Named' = Named
  PROVE  PostStep
BY DEF PostStep, Post!vars, Created, Bound, Named

(* An answer stays as it is when another request moves on, and as long as  *)
(* nobody is answered the answers are the same.                            *)
LEMMA NamedKept ==
  ASSUME TypeOK, NEW r \in Requests, NEW step, step # "created", Goto(r, step),
         pc[r] # "created", \A q \in Requests : q # r => held'[q] = held[q]
  PROVE  Named' = Named
BY DEF Named, Goto, TypeOK

(* A payment that moves on does exist, before and after.                   *)
LEMMA AdvanceKeeps ==
  ASSUME TypeOK, NEW r \in Requests, Advance(r)
  PROVE  Created' = Created
BY DEF Advance, assertWebhookTerminal, Terminal, Created, TypeOK

LEMMA StepImplements == IInv /\ [Next]_vars => PostStep
<1> SUFFICES ASSUME IInv, [Next]_vars PROVE PostStep
  OBVIOUS
<1> USE DEF IInv, At
<1>0. TypeOK /\ ResponsesTruthful /\ ValidatedBehind
  OBVIOUS
<1>1. ASSUME NEW r \in Requests, Arrive(r) PROVE PostStep
  BY <1>1, NamedKept, OthersStutter DEF Arrive, Created, Bound
<1>2. ASSUME NEW r \in Requests, LookupCache(r) PROVE PostStep
  <2>1. CASE cache[KeyOf[r]] # Nothing
    <3>1. /\ held' = [held EXCEPT ![r] = cache[KeyOf[r]]]
          /\ Goto(r, "created") /\ pc[r] = "cached" /\ UNCHANGED <<payment, row>>
      BY <1>2, <2>1 DEF LookupCache, Hold
    <3>2. /\ held'[r] = cache[KeyOf[r]]
          /\ \A q \in Requests : q # r => held'[q] = held[q]
      BY <3>1 DEF TypeOK
    <3>3. Post!Answer(r)
      BY <2>1, <3>1, <3>2, AnswerReads
    <3> QED BY <3>3 DEF PostStep, Post!Next
  <2>2. CASE cache[KeyOf[r]] = Nothing
    BY <1>2, <2>2, NamedKept, OthersStutter DEF LookupCache, Created, Bound
  <2> QED BY <2>1, <2>2
<1>3. ASSUME NEW r \in Requests, LookupRow(r) PROVE PostStep
  <2>1. PICK step \in {"fill", "create", "rejected"} : Goto(r, step)
    BY <1>3 DEF LookupRow
  <2>2. /\ pc[r] = "stored" /\ UNCHANGED <<payment, row>>
        /\ \A q \in Requests : q # r => held'[q] = held[q]
    BY <1>3 DEF LookupRow, Hold, TypeOK
  <2> QED BY <2>1, <2>2, NamedKept, OthersStutter DEF Created, Bound
<1>4. ASSUME NEW r \in Requests, FillCache(r) \/ PutCache(r) PROVE PostStep
  <2>1. /\ pc[r] \in {"fill", "put"} /\ Goto(r, "created")
        /\ UNCHANGED <<payment, row, held>>
    BY <1>4 DEF FillCache, PutCache
  <2>2. held[r] # Nothing
    BY <2>1 DEF TypeOK
  <2>3. Post!Answer(r)
    BY <2>1, <2>2, AnswerReads
  <2> QED BY <2>3 DEF PostStep, Post!Next
<1>5. ASSUME NEW r \in Requests, CreatePayment(r) PROVE PostStep
  <2>1. CASE Row(r) = Nothing
    <3>1. Commits(r) /\ Goto(r, "reread") /\ pc[r] = "create" /\ UNCHANGED held
      BY <1>5, <2>1 DEF CreatePayment, Commits, InsertKey
    <3>2. r \in Valid /\ Named' = Named
      BY <3>1, NamedKept DEF ValidatedBehind
    <3>3. Post!Bind(r)
      BY <3>1, <3>2, CommitBinds
    <3> QED BY <3>3 DEF PostStep, Post!Next
  <2>2. CASE Row(r) # Nothing
    BY <1>5, <2>2, NamedKept, OthersStutter DEF CreatePayment, Created, Bound
  <2> QED BY <2>1, <2>2
<1>6. ASSUME NEW r \in Requests, Reread(r) PROVE PostStep
  <2>1. /\ pc[r] = "reread" /\ Goto(r, "put") /\ UNCHANGED <<payment, row>>
        /\ \A q \in Requests : q # r => held'[q] = held[q]
    BY <1>6 DEF Reread, Hold, TypeOK
  <2> QED BY <2>1, NamedKept, OthersStutter DEF Created, Bound
<1>7. ASSUME NEW r \in Requests, Advance(r) PROVE PostStep
  <2>1. Created' = Created
    BY <1>7, AdvanceKeeps
  <2> QED BY <1>7, <2>1, OthersStutter DEF Advance, Bound, Named
<1>8. ASSUME NEW r \in Requests, Throw(r) \/ Crash(r) PROVE PostStep
  <2>1. PICK ending \in {"failed", "lost"} : Fails(r, ending)
    BY <1>8 DEF Throw, Crash
  <2>2. pc[r] \in Waiting /\ Goto(r, ending) /\ UNCHANGED held
    BY <1>8, <2>1 DEF Throw, Crash, Fails
  <2>3. Named' = Named
    BY <2>2, NamedKept DEF Waiting
  <2>4. CASE UNCHANGED <<payment, row>>
    BY <2>3, <2>4, OthersStutter DEF Created, Bound
  <2>5. CASE pc[r] = "create" /\ Commits(r)
    <3>1. Post!Bind(r)
      BY <2>3, <2>5, CommitBinds DEF ValidatedBehind
    <3> QED BY <3>1 DEF PostStep, Post!Next
  <2> QED BY <2>1, <2>4, <2>5 DEF Fails, Commits, InsertKey
<1>9. ASSUME NEW k \in Keys, Expire(k) PROVE PostStep
  BY <1>9, OthersStutter DEF Expire, Created, Bound, Named
<1>10. CASE UNCHANGED vars
  BY <1>10, OthersStutter DEF vars, Created, Bound, Named
<1> QED BY <1>1, <1>2, <1>3, <1>4, <1>5, <1>6, <1>7, <1>8, <1>9, <1>10
        DEF Next, RequestStep

(* POST /payments is a write-once register per key: cache, table, re-read, *)
(* failures and retries together do no more than IdempotentPost allows.    *)
THEOREM ImplementsPost == Spec => KeyWrittenOnce
<1>1. Init => Post!Init
  BY DEF Init, Post!Init, Nothing
<1>2. IInv /\ [Next]_vars => [Post!Next]_(Post!vars)
  BY StepImplements DEF PostStep
<1> QED BY <1>1, <1>2, Invariance, PTL DEF Spec, KeyWrittenOnce, Post!Spec
=============================================================================

------------------------ MODULE PaymentOutcome_proofs ------------------------
(***************************************************************************)
(* More proofs about PaymentProcessing: that a stored webhook decides an   *)
(* unsettled payment, that every outcome has a cause on record, and that   *)
(* the retry budget bounds the calls to the gateway.  Each rests on the    *)
(* invariant IInv of PaymentProcessing_proofs and on a strengthening of    *)
(* its own.                                                                *)
(***************************************************************************)
EXTENDS PaymentProcessing_proofs, FiniteSetTheorems

-----------------------------------------------------------------------------
(* What a step may do to a payment and to the requests about it.           *)

(* The steps of the worker that the arguments below look at one by one.    *)
Notable(w) ==
  \/ Promote(w) \/ Recheck(w) \/ Charge(w) \/ ChargeRejected(w)
  \/ Succeed(w) \/ Decline(w) \/ Bump(w) \/ Budget(w) \/ Exhaust(w)
  \/ SendToDlq(w)

(* The others of the worker, of Kafka and of Redis: no payment row, no     *)
(* count and no webhook changes, and whatever a worker does next, it is    *)
(* not something that needs a cause.                                       *)
Aside ==
  /\ UNCHANGED <<payVars, dlq, gateVars, hookVars>>
  /\ \A w \in Workers :
       \/ pc'[w] = pc[w] /\ job'[w] = job[w]
       \/ pc'[w] \in {"idle", "acquire", "promote", "ack", "nack"}

(* Every step is one of these, the creation of a payment, or a webhook's.  *)
LEMMA StepKinds ==
  ASSUME TypeOK, [Next]_vars
  PROVE  \/ Aside
         \/ \E w \in Workers : Notable(w)
         \/ \E p \in Payments : Create(p)
         \/ \E h \in Hooks : HookStep(h)
<1> DEFINE Goal == \/ Aside
                   \/ \E w \in Workers : Notable(w)
                   \/ \E p \in Payments : Create(p)
                   \/ \E h \in Hooks : HookStep(h)
<1>0. /\ pc \in [Workers -> WorkerSteps]
      /\ job \in [Workers -> Payments \cup {NoPayment}]
  BY DEF TypeOK
<1>1. ASSUME NEW w \in Workers, AcquireLock(w) PROVE Goal
  BY <1>0, <1>1 DEF AcquireLock, Goto, Rest, At, Aside, vars, payVars,
     gateVars, hookVars, kafkaVars, faultVars
<1>2. ASSUME NEW w \in Workers, LockContention(w) PROVE Goal
  BY <1>0, <1>2 DEF LockContention, Goto, Rest, At, Aside, vars, payVars,
     gateVars, hookVars, kafkaVars, faultVars
<1>3. ASSUME NEW w \in Workers, Promote(w) PROVE Goal
  BY <1>3 DEF Notable
<1>4. ASSUME NEW w \in Workers, Recheck(w) PROVE Goal
  BY <1>4 DEF Notable
<1>5. ASSUME NEW w \in Workers, Charge(w) PROVE Goal
  BY <1>5 DEF Notable
<1>6. ASSUME NEW w \in Workers, Succeed(w) PROVE Goal
  BY <1>6 DEF Notable
<1>7. ASSUME NEW w \in Workers, Decline(w) PROVE Goal
  BY <1>7 DEF Notable
<1>8. ASSUME NEW w \in Workers, Bump(w) PROVE Goal
  BY <1>8 DEF Notable
<1>9. ASSUME NEW w \in Workers, Budget(w) PROVE Goal
  BY <1>9 DEF Notable
<1>10. ASSUME NEW w \in Workers, Exhaust(w) PROVE Goal
  BY <1>10 DEF Notable
<1>11. ASSUME NEW w \in Workers, SendToDlq(w) PROVE Goal
  BY <1>11 DEF Notable
<1>12. ASSUME NEW w \in Workers, ScheduleRetry(w) PROVE Goal
  BY <1>0, <1>12 DEF ScheduleRetry, Goto, Rest, At, Aside, vars, payVars,
     gateVars, hookVars, kafkaVars, faultVars
<1>13. ASSUME NEW w \in Workers, Release(w) PROVE Goal
  BY <1>0, <1>13 DEF Release, Goto, Rest, At, Aside, vars, payVars,
     gateVars, hookVars, kafkaVars, faultVars
<1>14. ASSUME NEW w \in Workers, Crash(w) PROVE Goal
  BY <1>0, <1>14 DEF Crash, Goto, Rest, At, Aside, vars, payVars,
     gateVars, hookVars, kafkaVars, faultVars
<1>15. ASSUME NEW w \in Workers, Throw(w) PROVE Goal
  BY <1>0, <1>15 DEF Throw, Goto, Rest, At, Aside, vars, payVars,
     gateVars, hookVars, kafkaVars, faultVars
<1>16. ASSUME NEW w \in Workers, AcquireThrows(w) PROVE Goal
  BY <1>0, <1>16 DEF AcquireThrows, Goto, Rest, At, Aside, vars, payVars,
     gateVars, hookVars, kafkaVars, faultVars
<1>17. ASSUME NEW w \in Workers, ReleaseThrows(w) PROVE Goal
  BY <1>0, <1>17 DEF ReleaseThrows, Goto, Rest, At, Aside, vars, payVars,
     gateVars, hookVars, kafkaVars, faultVars
<1>18. ASSUME NEW w \in Workers, ChargeRejected(w) PROVE Goal
  BY <1>18 DEF Notable
<1>19. ASSUME NEW p \in Payments, Create(p) PROVE Goal
  BY <1>19
<1>20. ASSUME NEW p \in Payments, Relay(p) PROVE Goal
  BY <1>0, <1>20 DEF Relay, Aside, payVars, gateVars, hookVars, kafkaVars
<1>21. ASSUME NEW p \in Payments, OrphanExpires(p) PROVE Goal
  BY <1>0, <1>21 DEF OrphanExpires, Aside, payVars, gateVars, hookVars, kafkaVars
<1>22. ASSUME NEW p \in Payments, Duplicate(p) PROVE Goal
  BY <1>0, <1>22 DEF Duplicate, Aside, payVars, gateVars, hookVars, kafkaVars
<1>23. ASSUME NEW p \in Payments, Rebalance(p) PROVE Goal
  BY <1>0, <1>23 DEF Rebalance, Aside, payVars, gateVars, hookVars, kafkaVars
<1>24. ASSUME NEW p \in Payments, LeaseLost(p) PROVE Goal
  BY <1>0, <1>24 DEF LeaseLost, Aside, payVars, gateVars, hookVars, kafkaVars
<1>25. ASSUME NEW p \in Payments, Replay(p) PROVE Goal
  BY <1>0, <1>25 DEF Replay, Aside, payVars, gateVars, hookVars, kafkaVars
<1>26. ASSUME NEW w \in Workers, NEW p \in Payments, Deliver(w, p)
      PROVE Goal
  BY <1>0, <1>26 DEF Deliver, Aside, payVars, gateVars, hookVars
<1>27. ASSUME NEW h \in Hooks, WebhookInsert(h) PROVE Goal
  BY <1>27 DEF HookStep
<1>28. ASSUME NEW h \in Hooks, WebhookCommit(h) PROVE Goal
  BY <1>28 DEF HookStep
<1>29. ASSUME NEW h \in Hooks, WebhookThrow(h) PROVE Goal
  BY <1>29 DEF HookStep
<1>30. ASSUME NEW h \in Hooks, NEW e \in Events, WebhookReceive(h, e)
      PROVE Goal
  BY <1>30 DEF HookStep
<1>31. CASE UNCHANGED vars
  BY <1>31 DEF vars, Aside, payVars, gateVars, hookVars, kafkaVars
<1> QED
  BY <1>1, <1>2, <1>3, <1>4, <1>5, <1>6, <1>7, <1>8, <1>9, <1>10, <1>11,
     <1>12, <1>13, <1>14, <1>15, <1>16, <1>17, <1>18, <1>19, <1>20,
     <1>21, <1>22, <1>23, <1>24, <1>25, <1>26, <1>27, <1>28, <1>29,
     <1>30, <1>31
  DEF Next, WorkerStep, WorkerDisruption, PaymentStep, HookStep

(* What a step may do to the row of p: leave it alone, take it up, or      *)
(* settle it for good.                                                     *)
RowStep(p) ==
  \/ status'[p] = status[p] /\ failureReason'[p] = failureReason[p]
  \/ status[p] \in {"ABSENT", "PENDING"} /\ status'[p] \in {"PENDING", "PROCESSING"}
  \/ status[p] \in {"PENDING", "PROCESSING"} /\ status'[p] \in Terminal

(* Settling transactions of the worker.                                    *)
LEMMA ConcludeRow ==
  ASSUME TypeOK, NEW p \in Payments, NEW s \in Terminal, NEW reason, NEW S,
         Conclude(p, s, reason, S)
  PROVE  \A q \in Payments : RowStep(q)
  BY DEF Conclude, UpdateStatus, RowStep, TypeOK

(* The commit of a webhook: it settles only what it has seen unsettled,    *)
(* and what has not changed since.                                         *)
LEMMA WebhookRow ==
  ASSUME IInv, NEW h \in Hooks, WebhookCommit(h)
  PROVE  /\ hevent[h] \in Events
         /\ EventPayment[hevent[h]] \in Payments
         /\ EventStatus[hevent[h]] \in Terminal
         /\ \/ UNCHANGED <<status, failureReason>>
            \/ /\ status[EventPayment[hevent[h]]] \in {"PENDING", "PROCESSING"}
               /\ status' = [status EXCEPT ![EventPayment[hevent[h]]] =
                               EventStatus[hevent[h]]]
               /\ failureReason' =
                    [failureReason EXCEPT ![EventPayment[hevent[h]]] =
                       WebhookReason(EventStatus[hevent[h]])]
               /\ recorded' = recorded \cup {hevent[h]}
<1> DEFINE p == EventPayment[hevent[h]]
           s == EventStatus[hevent[h]]
<1>1. hpc[h] = "decide" /\ hevent[h] \in Events /\ seen[h] \in Snapshots
  BY DEF WebhookCommit, IInv, TypeOK
<1>2. p \in Payments /\ s \in Terminal
  BY <1>1, EventAssumption
<1>3. CASE UNCHANGED <<status, version, failureReason, emitted>>
  BY <1>1, <1>2, <1>3
<1>4. CASE /\ Applies(seen[h], s)
           /\ version[p] = seen[h].version
           /\ recorded' = recorded \cup {hevent[h]}
           /\ UpdateStatus(p, s, WebhookReason(s))
  <2>1. status[p] = seen[h].status
    BY <1>1, <1>4 DEF IInv, SeenCoherent, Applies
  <2>2. seen[h].status \in {"PENDING", "PROCESSING"}
    BY <1>1, <1>4 DEF Applies, isTerminal, Snapshots, PaymentStatus, Terminal
  <2> QED BY <1>1, <1>2, <1>4, <2>1, <2>2 DEF UpdateStatus
<1> QED BY <1>3, <1>4 DEF WebhookCommit

(* Every step is a RowStep of every payment.                               *)
LEMMA RowNext ==
  ASSUME IInv, [Next]_vars
  PROVE  \A p \in Payments : RowStep(p)
<1> DEFINE Goal == \A p \in Payments : RowStep(p)
<1>0. TypeOK
  BY DEF IInv
<1>1. CASE UNCHANGED <<status, failureReason>>
  BY <1>1 DEF RowStep
<1>2. ASSUME NEW w \in Workers, Notable(w) PROVE Goal
  <2>0. pc[w] # "idle" => job[w] \in Payments
    BY <1>0 DEF TypeOK
  <2>1. CASE Promote(w)
    BY <1>0, <1>1, <2>0, <2>1 DEF Promote, At, UpdateStatus, RowStep, TypeOK
  <2>2. CASE Succeed(w)
    BY <1>0, <2>0, <2>2, ConcludeRow DEF Succeed, At, Terminal
  <2>3. CASE Decline(w)
    BY <1>0, <2>0, <2>3, ConcludeRow DEF Decline, At, Terminal
  <2>4. CASE Exhaust(w)
    BY <1>0, <2>0, <2>4, ConcludeRow DEF Exhaust, At, Terminal
  <2>5. CASE \/ Recheck(w) \/ Charge(w) \/ ChargeRejected(w) \/ Bump(w)
             \/ Budget(w) \/ SendToDlq(w)
    BY <1>1, <2>5 DEF Recheck, Charge, ChargeRejected, Bump, Budget,
       SendToDlq, payVars
  <2> QED BY <1>2, <2>1, <2>2, <2>3, <2>4, <2>5 DEF Notable
<1>3. ASSUME NEW p \in Payments, Create(p) PROVE Goal
  BY <1>0, <1>3 DEF Create, RowStep, TypeOK
<1>4. ASSUME NEW h \in Hooks, HookStep(h) PROVE Goal
  <2>1. CASE WebhookCommit(h)
    BY <1>0, <2>1, WebhookRow DEF RowStep, TypeOK
  <2>2. CASE \/ WebhookInsert(h) \/ WebhookThrow(h)
             \/ \E e \in Events : WebhookReceive(h, e)
    BY <1>1, <2>2 DEF WebhookInsert, WebhookThrow, WebhookReceive, payVars
  <2> QED BY <1>4, <2>1, <2>2 DEF HookStep
<1>5. CASE Aside
  BY <1>1, <1>5 DEF Aside, payVars
<1> QED BY <1>0, <1>2, <1>3, <1>4, <1>5, StepKinds

-----------------------------------------------------------------------------
(* Webhooks.                                                               *)

(* Two transactions past their insert are about different events, and not  *)
(* about one that is recorded: the unique index makes the second one wait. *)
WebhooksApart ==
  /\ \A g, h \in Hooks :
       hpc[g] = "decide" /\ hpc[h] = "decide" /\ hevent[g] = hevent[h] => g = h
  /\ \A h \in Hooks : hpc[h] = "decide" => hevent[h] \notin recorded

(* A payment that a webhook has seen settled still has that outcome.       *)
SeenSettled ==
  \A h \in Hooks :
    hpc[h] = "decide" /\ isTerminal(seen[h].status)
      => status[EventPayment[hevent[h]]] = seen[h].status

WebhookInv == WebhooksApart /\ SeenSettled

(* A settled payment keeps its outcome.                                    *)
LEMMA SettledStays ==
  ASSUME IInv, [Next]_vars, NEW p \in Payments, Settled(p)
  PROVE  status'[p] = status[p]
  BY RowNext DEF RowStep, Settled, isTerminal, Terminal

(* A request is past its insert only if it was there before or has just    *)
(* inserted.                                                               *)
LEMMA WebhookNext ==
  IInv /\ WebhookInv /\ [Next]_vars => WebhookInv'
<1> SUFFICES ASSUME IInv, WebhookInv, [Next]_vars PROVE WebhookInv'
    OBVIOUS
<1>0. TypeOK
  BY DEF IInv
<1>1. ASSUME NEW h \in Hooks, hpc[h] = "decide"
      PROVE  hevent[h] \in Events /\ EventPayment[hevent[h]] \in Payments
  BY <1>0, <1>1, EventAssumption DEF TypeOK
<1>2. ASSUME NEW h \in Hooks, hpc[h] = "decide", isTerminal(seen[h].status)
      PROVE  status'[EventPayment[hevent[h]]] = seen[h].status
  <2>1. /\ status[EventPayment[hevent[h]]] = seen[h].status
        /\ Settled(EventPayment[hevent[h]])
    BY <1>2 DEF WebhookInv, SeenSettled, Settled
  <2> QED BY <1>1, <1>2, <2>1, SettledStays
<1>3. CASE UNCHANGED hookVars
  <2>1. WebhooksApart'
    BY <1>3 DEF hookVars, WebhookInv, WebhooksApart
  <2>2. SeenSettled'
    BY <1>2, <1>3 DEF hookVars, SeenSettled
  <2> QED BY <2>1, <2>2 DEF WebhookInv
<1>4. ASSUME NEW h \in Hooks, WebhookInsert(h), hevent[h] \notin recorded,
             ~HookRests(h)
      PROVE  WebhookInv'
  <2>1. /\ hpc' = [hpc EXCEPT ![h] = "decide"]
        /\ hevent' = hevent /\ recorded' = recorded /\ status' = status
        /\ seen' = [seen EXCEPT ![h] =
                      [status  |-> status[EventPayment[hevent[h]]],
                       version |-> version[EventPayment[hevent[h]]]]]
        /\ \A g \in Hooks : hpc[g] = "decide" => hevent[g] # hevent[h]
    BY <1>4 DEF WebhookInsert, payVars
  <2>2. WebhooksApart'
    BY <1>0, <1>4, <2>1 DEF WebhookInv, WebhooksApart, TypeOK
  <2>3. SeenSettled'
    <3> SUFFICES ASSUME NEW g \in Hooks, hpc'[g] = "decide",
                        isTerminal(seen'[g].status)
                 PROVE  status'[EventPayment[hevent'[g]]] = seen'[g].status
        BY DEF SeenSettled, isTerminal
    <3>1. CASE g = h
      <4>1. seen'[h].status = status[EventPayment[hevent[h]]]
        BY <1>0, <2>1 DEF TypeOK
      <4> QED BY <2>1, <3>1, <4>1
    <3>2. CASE g # h
      <4>1. hpc[g] = "decide" /\ seen'[g] = seen[g]
        BY <1>0, <2>1, <3>2 DEF TypeOK
      <4> QED BY <2>1, <3>2, <4>1 DEF WebhookInv, SeenSettled
    <3> QED BY <3>1, <3>2
  <2> QED BY <2>2, <2>3 DEF WebhookInv
<1>5. ASSUME NEW h \in Hooks, HookRests(h),
             recorded' \in {recorded, recorded \cup {hevent[h]}},
             hpc[h] = "decide" \/ recorded' = recorded
      PROVE  WebhookInv'
  <2>1. \A g \in Hooks : hpc'[g] = "decide" =>
          /\ g # h /\ hpc[g] = "decide" /\ hevent'[g] = hevent[g]
          /\ seen'[g] = seen[g]
    BY <1>0, <1>5 DEF HookRests, TypeOK
  <2>2. WebhooksApart'
    BY <1>5, <2>1 DEF WebhookInv, WebhooksApart
  <2>3. SeenSettled'
    BY <1>2, <2>1 DEF SeenSettled, Settled
  <2> QED BY <2>2, <2>3 DEF WebhookInv
<1>6. ASSUME NEW h \in Hooks, NEW e \in Events, WebhookReceive(h, e)
      PROVE  WebhookInv'
  <2>1. \A g \in Hooks : hpc'[g] = "decide" =>
          /\ hpc[g] = "decide" /\ hevent'[g] = hevent[g]
          /\ seen'[g] = seen[g]
    BY <1>0, <1>6 DEF WebhookReceive, TypeOK
  <2>2. recorded' = recorded
    BY <1>6 DEF WebhookReceive
  <2>3. WebhooksApart'
    BY <2>1, <2>2 DEF WebhookInv, WebhooksApart
  <2>4. SeenSettled'
    BY <1>2, <2>1 DEF SeenSettled, Settled
  <2> QED BY <2>3, <2>4 DEF WebhookInv
<1>7. ASSUME NEW h \in Hooks, HookStep(h) PROVE WebhookInv'
  <2>1. CASE WebhookCommit(h)
    BY <1>5, <2>1 DEF WebhookCommit
  <2>2. CASE WebhookThrow(h)
    BY <1>5, <2>2 DEF WebhookThrow
  <2>3. CASE WebhookInsert(h)
    BY <1>4, <1>5, <2>3 DEF WebhookInsert
  <2> QED BY <1>6, <1>7, <2>1, <2>2, <2>3 DEF HookStep
<1>8. ASSUME NEW w \in Workers, Notable(w) PROVE UNCHANGED hookVars
  BY <1>8 DEF Notable, Promote, Recheck, Charge, ChargeRejected, Succeed,
     Decline, Bump, Budget, Exhaust, SendToDlq
<1> QED BY <1>0, <1>3, <1>7, <1>8, StepKinds DEF Create, Aside

(* What AcknowledgedWebhookSettles says of one step.                       *)
AckStep ==
  \A h \in Hooks :
    /\ hpc[h] = "decide"
    /\ seen[h].status # "ABSENT"
    /\ hevent[h] \in recorded' \ recorded
    => status'[EventPayment[hevent[h]]] = Verdict(h)

(* An event that does not apply to an existing payment has found it        *)
(* settled: its own status is terminal, and only SUCCESS outranks that.    *)
LEMMA NotApplying ==
  ASSUME NEW row \in Snapshots, row.status # "ABSENT", NEW s \in Terminal,
         ~Applies(row, s)
  PROVE  isTerminal(row.status)
  BY DEF Snapshots, PaymentStatus, Terminal, Applies, shouldApply,
     STATUS_PRECEDENCE, isTerminal

(* Every step satisfies AckStep.                                           *)
LEMMA AckNext ==
  IInv /\ WebhookInv /\ [Next]_vars => AckStep
<1> SUFFICES ASSUME IInv, WebhookInv, [Next]_vars,
                    NEW h \in Hooks, hpc[h] = "decide",
                    seen[h].status # "ABSENT",
                    hevent[h] \in recorded' \ recorded
             PROVE  status'[EventPayment[hevent[h]]] = Verdict(h)
    BY DEF AckStep
<1>0. TypeOK
  BY DEF IInv
<1>1. ASSUME recorded' = recorded PROVE FALSE
  BY <1>1
<1>2. ASSUME NEW g \in Hooks, WebhookCommit(g)
      PROVE  status'[EventPayment[hevent[h]]] = Verdict(h)
  <2>1. g = h
    BY <1>2 DEF WebhookCommit, WebhookInv, WebhooksApart
  <2>2. /\ EventPayment[hevent[h]] \in Payments
        /\ EventStatus[hevent[h]] \in Terminal
    BY <1>2, <2>1, WebhookRow
  <2>3. CASE Applies(seen[h], EventStatus[hevent[h]])
    BY <1>0, <1>1, <1>2, <2>1, <2>2, <2>3
    DEF WebhookCommit, UpdateStatus, Applies, Verdict, TypeOK
  <2>4. CASE ~Applies(seen[h], EventStatus[hevent[h]])
    <3>1. isTerminal(seen[h].status)
      BY <1>0, <2>2, <2>4, NotApplying DEF TypeOK
    <3>2. /\ status[EventPayment[hevent[h]]] = seen[h].status
          /\ Settled(EventPayment[hevent[h]])
      BY <3>1 DEF WebhookInv, SeenSettled, Settled
    <3> QED BY <2>2, <3>1, <3>2, SettledStays DEF Verdict
  <2> QED BY <2>3, <2>4
<1>3. ASSUME NEW g \in Hooks, HookStep(g)
      PROVE  status'[EventPayment[hevent[h]]] = Verdict(h)
  BY <1>1, <1>2, <1>3 DEF HookStep, WebhookInsert, WebhookThrow,
     WebhookReceive
<1>4. ASSUME NEW w \in Workers, Notable(w) PROVE FALSE
  BY <1>1, <1>4 DEF Notable, Promote, Recheck, Charge, ChargeRejected, Succeed,
     Decline, Bump, Budget, Exhaust, SendToDlq, hookVars
<1> QED BY <1>0, <1>1, <1>3, <1>4, StepKinds DEF Create, Aside, hookVars

(* WebhookInv holds in every reachable state.                              *)
LEMMA WebhookInvariance == Spec => []WebhookInv
<1>1. Init => WebhookInv
  BY DEF Init, WebhookInv, WebhooksApart, SeenSettled
<1> QED BY <1>1, WebhookNext, Invariance, PTL DEF Spec

(* The first event stored about an unsettled payment decides it, and no    *)
(* later one changes the outcome (handleStructured rolls back its          *)
(* webhook_events row with a version conflict, and ignores what comes for  *)
(* a terminal payment).  Events that found no payment are excepted.        *)
THEOREM WebhookSettles == Spec => AcknowledgedWebhookSettles
<1>1. IInv /\ WebhookInv /\ [Next]_vars => [AckStep]_vars
  BY AckNext
<1>2. Spec => [][AckStep]_vars
  BY <1>1, Invariance, WebhookInvariance, PTL DEF Spec
<1> QED BY <1>2 DEF AcknowledgedWebhookSettles, AckStep

-----------------------------------------------------------------------------
(* Causes.                                                                 *)

(* What OutcomeJustified says of one payment.                              *)
Justified(p) ==
  /\ status[p] = "SUCCESS" => captures[p] > 0 \/ Told(p, "SUCCESS")
  /\ status[p] = "FAILED" =>
       \/ failureReason[p] = "declined" /\ calls[p] > captures[p]
       \/ failureReason[p] = "max_retries" /\ retryCount[p] >= MaxAttempts
       \/ failureReason[p] = "webhook" /\ Told(p, "FAILED")
  /\ dlq[p] > 0 => Settled(p) /\ retryCount[p] >= MaxAttempts

(* A worker that is about to settle has the cause in its hands.            *)
CauseOf(w) ==
  /\ pc[w] = "succeed" => captures[job[w]] > 0
  /\ pc[w] = "decline" => calls[job[w]] > captures[job[w]]
  /\ pc[w] \in {"exhaust", "dlq"} => retryCount[job[w]] >= MaxAttempts

CauseInv ==
  /\ \A p \in Payments : Justified(p)
  /\ \A p \in Payments : captures[p] <= calls[p]
  /\ \A w \in Workers : CauseOf(w)

(* What has happened stays so: captures, refused calls, counted failures   *)
(* and recorded events.                                                    *)
Grows ==
  /\ \A p \in Payments :
       /\ captures[p] <= captures'[p]
       /\ calls[p] - captures[p] <= calls'[p] - captures'[p]
       /\ retryCount[p] <= retryCount'[p]
  /\ recorded \subseteq recorded'

(* Numbers, for every payment.                                             *)
LEMMA Numbers ==
  ASSUME TypeOK, NEW p \in Payments
  PROVE  /\ calls[p] \in Nat /\ captures[p] \in Nat
         /\ retryCount[p] \in Nat /\ dlq[p] \in Nat
         /\ MaxAttempts \in Nat
  BY BoundAssumption DEF TypeOK

(* A step that leaves counts and events alone grows nothing.               *)
LEMMA NothingGrows ==
  ASSUME TypeOK, UNCHANGED <<calls, captures, retryCount>>,
         recorded \subseteq recorded'
  PROVE  Grows
<1> SUFFICES ASSUME NEW p \in Payments
             PROVE  /\ captures[p] <= captures'[p]
                    /\ calls[p] - captures[p] <= calls'[p] - captures'[p]
                    /\ retryCount[p] <= retryCount'[p]
    BY DEF Grows
<1> QED BY Numbers

(* One call more, captured or not, or one failure more.                    *)
LEMMA CallGrows ==
  ASSUME TypeOK, TypeOK', NEW p \in Payments, recorded' = recorded,
         \A q \in Payments \ {p} : /\ calls'[q] = calls[q]
                                   /\ captures'[q] = captures[q]
                                   /\ retryCount'[q] = retryCount[q],
         \/ /\ calls'[p] = calls[p] + 1
            /\ captures'[p] \in {captures[p], captures[p] + 1}
            /\ retryCount'[p] = retryCount[p]
         \/ /\ calls'[p] = calls[p]
            /\ captures'[p] = captures[p]
            /\ retryCount'[p] = retryCount[p] + 1
  PROVE  Grows
<1> SUFFICES ASSUME NEW q \in Payments
             PROVE  /\ captures[q] <= captures'[q]
                    /\ calls[q] - captures[q] <= calls'[q] - captures'[q]
                    /\ retryCount[q] <= retryCount'[q]
    BY DEF Grows
<1>1. /\ calls[q] \in Nat /\ captures[q] \in Nat /\ retryCount[q] \in Nat
  BY Numbers
<1>2. CASE q = p
  BY <1>1, <1>2
<1>3. CASE q # p
  BY <1>1, <1>3
<1> QED BY <1>2, <1>3

(* What a call does to the counts.                                         *)
LEMMA ChargeCounts ==
  ASSUME TypeOK, NEW w \in Workers, Charge(w) \/ ChargeRejected(w)
  PROVE  /\ job[w] \in Payments
         /\ calls'[job[w]] = calls[job[w]] + 1
         /\ captures'[job[w]] \in {captures[job[w]], captures[job[w]] + 1}
         /\ \E reply \in {"succeed", "decline", "bump"} :
              pc' = [pc EXCEPT ![w] = reply]
         /\ pc'[w] = "succeed" => captures'[job[w]] = captures[job[w]] + 1
         /\ pc'[w] = "decline" => captures'[job[w]] = captures[job[w]]
         /\ \A q \in Payments \ {job[w]} : /\ calls'[q] = calls[q]
                                           /\ captures'[q] = captures[q]
         /\ UNCHANGED <<payVars, dlq, recorded, job>>
<1>1. job[w] \in Payments /\ captures[job[w]] \in Nat
  BY DEF Charge, ChargeRejected, At, TypeOK
<1>2. CASE ChargeRejected(w)
  BY <1>1, <1>2 DEF ChargeRejected, Goto, payVars, kafkaVars, hookVars, TypeOK
<1>3. CASE Charge(w)
  <2>1. PICK reply \in {"succeed", "decline", "bump"} :
          /\ captures' = [captures EXCEPT ![job[w]] = @ + One(reply = "succeed")]
          /\ Goto(w, reply)
    BY <1>3 DEF Charge
  <2>2. pc' = [pc EXCEPT ![w] = reply] /\ pc'[w] = reply /\ job' = job
    BY <2>1 DEF Goto, TypeOK
  <2>3. captures'[job[w]] = captures[job[w]] + One(reply = "succeed")
    BY <1>1, <2>1 DEF TypeOK
  <2>4. /\ calls'[job[w]] = calls[job[w]] + 1
        /\ \A q \in Payments \ {job[w]} : /\ calls'[q] = calls[q]
                                          /\ captures'[q] = captures[q]
    BY <1>1, <1>3, <2>1 DEF Charge, TypeOK
  <2>5. /\ captures'[job[w]] \in {captures[job[w]], captures[job[w]] + 1}
        /\ reply = "succeed" => captures'[job[w]] = captures[job[w]] + 1
        /\ reply = "decline" => captures'[job[w]] = captures[job[w]]
    BY <1>1, <2>3 DEF One
  <2>6. UNCHANGED <<payVars, dlq, recorded>>
    BY <1>3 DEF Charge, payVars, kafkaVars, hookVars
  <2> QED
    BY <1>1, <2>2, <2>4, <2>5, <2>6
<1> QED BY <1>2, <1>3

(* Every step grows, or leaves alone.                                      *)
LEMMA GrowsNext ==
  ASSUME IInv, [Next]_vars
  PROVE  Grows
<1>0. TypeOK /\ TypeOK'
  BY IInvNext DEF IInv
<1>1. ASSUME NEW w \in Workers, Charge(w) \/ ChargeRejected(w) PROVE Grows
  <2>1. retryCount' = retryCount
    BY <1>1 DEF Charge, ChargeRejected, payVars
  <2> QED BY <1>0, <1>1, <2>1, ChargeCounts, CallGrows
<1>2. ASSUME NEW w \in Workers, Bump(w) PROVE Grows
  <2>1. job[w] \in Payments
    BY <1>0, <1>2 DEF Bump, At, TypeOK
  <2>2. /\ retryCount'[job[w]] = retryCount[job[w]] + 1
        /\ \A q \in Payments \ {job[w]} : retryCount'[q] = retryCount[q]
    BY <1>0, <1>2, <2>1 DEF Bump, TypeOK
  <2> QED
    BY <1>0, <1>2, <2>1, <2>2, CallGrows DEF Bump, gateVars, hookVars
<1>3. ASSUME NEW w \in Workers,
             \/ Promote(w) \/ Recheck(w) \/ Succeed(w) \/ Decline(w)
             \/ Budget(w) \/ Exhaust(w) \/ SendToDlq(w)
      PROVE  Grows
  BY <1>0, <1>3, NothingGrows DEF Promote, Recheck, Succeed, Decline, Budget,
     Exhaust, SendToDlq, payVars, gateVars, hookVars
<1>4. ASSUME NEW h \in Hooks, HookStep(h) PROVE Grows
  BY <1>0, <1>4, NothingGrows DEF HookStep, WebhookInsert, WebhookCommit,
     WebhookThrow, WebhookReceive, payVars, gateVars
<1>5. ASSUME NEW p \in Payments, Create(p) PROVE Grows
  BY <1>0, <1>5, NothingGrows DEF Create, gateVars, hookVars
<1>6. CASE Aside
  BY <1>0, <1>6, NothingGrows DEF Aside, payVars, gateVars, hookVars
<1> QED BY <1>0, <1>1, <1>2, <1>3, <1>4, <1>5, <1>6, StepKinds DEF Notable

(* An outcome keeps its cause.                                             *)
LEMMA JustifiedStays ==
  ASSUME TypeOK, TypeOK', Grows, NEW p \in Payments, Justified(p),
         status'[p] = status[p], failureReason'[p] = failureReason[p],
         dlq'[p] = dlq[p]
  PROVE  Justified(p)'
<1>1. /\ calls[p] \in Nat /\ captures[p] \in Nat /\ retryCount[p] \in Nat
      /\ calls'[p] \in Nat /\ captures'[p] \in Nat /\ retryCount'[p] \in Nat
      /\ MaxAttempts \in Nat
  BY BoundAssumption DEF TypeOK
<1>2. /\ captures[p] <= captures'[p]
      /\ calls[p] - captures[p] <= calls'[p] - captures'[p]
      /\ retryCount[p] <= retryCount'[p]
  BY DEF Grows
<1>3. \A s : Told(p, s) => Told(p, s)'
  BY DEF Told, Grows
<1>4. /\ captures[p] > 0 => captures'[p] > 0
      /\ calls[p] > captures[p] => calls'[p] > captures'[p]
      /\ retryCount[p] >= MaxAttempts => retryCount'[p] >= MaxAttempts
  BY <1>1, <1>2
<1>5. Told(p, "SUCCESS") => Told(p, "SUCCESS")'
  BY <1>3
<1>6. Told(p, "FAILED") => Told(p, "FAILED")'
  BY <1>3
<1> QED BY <1>4, <1>5, <1>6 DEF Justified, Settled

(* A payment that is not settled has no dead letter and needs no cause.    *)
LEMMA UnsettledJustified ==
  ASSUME TypeOK, NEW p \in Payments, Justified(p), ~Settled(p),
         dlq'[p] = dlq[p], status'[p] \in {"PENDING", "PROCESSING"}
  PROVE  Justified(p)'
<1>1. ~(dlq'[p] > 0)
  BY DEF Justified
<1> QED BY <1>1 DEF Justified

(* The worker's settling transactions record the cause that CauseOf knows. *)
LEMMA ConcludeJustified ==
  ASSUME TypeOK, TypeOK', Grows, CauseInv, NEW p \in Payments,
         NEW s \in Terminal, NEW reason, NEW S, Conclude(p, s, reason, S),
         dlq' = dlq,
         s = "SUCCESS" => captures'[p] > 0,
         s = "FAILED" =>
           \/ reason = "declined" /\ calls'[p] > captures'[p]
           \/ reason = "max_retries" /\ retryCount'[p] >= MaxAttempts
  PROVE  \A q \in Payments : Justified(q)'
<1> SUFFICES ASSUME NEW q \in Payments PROVE Justified(q)'
    OBVIOUS
<1>1. Justified(q)
  BY DEF CauseInv
<1>2. CASE status'[q] = status[q] /\ failureReason'[q] = failureReason[q]
  BY <1>1, <1>2, JustifiedStays
<1>3. CASE ~(status'[q] = status[q] /\ failureReason'[q] = failureReason[q])
  <2>1. /\ q = p /\ status[p] = "PROCESSING"
        /\ UpdateStatus(p, s, reason)
    BY <1>3 DEF Conclude, UpdateStatus, TypeOK
  <2>2. status'[q] = s /\ failureReason'[q] = reason
    BY <2>1 DEF UpdateStatus, TypeOK
  <2>3. ~(dlq'[q] > 0)
    BY <1>1, <2>1 DEF Justified, Settled, isTerminal, Terminal
  <2> QED BY <2>1, <2>2, <2>3 DEF Justified, Terminal
<1> QED BY <1>2, <1>3

(* The row stays as it is, and so does the dead-letter topic.              *)
LEMMA RowJustified ==
  ASSUME TypeOK, TypeOK', Grows, CauseInv,
         UNCHANGED <<status, failureReason, dlq>>
  PROVE  \A q \in Payments : Justified(q)'
  BY JustifiedStays DEF CauseInv

(* Every outcome is justified after every step.                            *)
LEMMA JustifiedNext ==
  ASSUME IInv, CauseInv, [Next]_vars
  PROVE  \A q \in Payments : Justified(q)'
<1> DEFINE Goal == \A q \in Payments : Justified(q)'
<1>0. TypeOK /\ TypeOK' /\ Grows
  BY IInvNext, GrowsNext DEF IInv
<1>1. ASSUME NEW w \in Workers, Promote(w) PROVE Goal
  <2>1. job[w] \in Payments /\ dlq' = dlq
    BY <1>0, <1>1 DEF Promote, At, TypeOK, kafkaVars
  <2> SUFFICES ASSUME NEW q \in Payments PROVE Justified(q)'
      OBVIOUS
  <2>2. Justified(q)
    BY DEF CauseInv
  <2>3. CASE status'[q] = status[q] /\ failureReason'[q] = failureReason[q]
    BY <1>0, <2>1, <2>2, <2>3, JustifiedStays
  <2>4. CASE ~(status'[q] = status[q] /\ failureReason'[q] = failureReason[q])
    <3>1. status[q] = "PENDING" /\ status'[q] = "PROCESSING"
      BY <1>0, <1>1, <2>1, <2>4 DEF Promote, UpdateStatus, TypeOK
    <3>2. ~Settled(q)
      BY <3>1 DEF Settled, isTerminal, Terminal
    <3> QED BY <1>0, <2>1, <2>2, <3>1, <3>2, UnsettledJustified
  <2> QED BY <2>3, <2>4
<1>2. ASSUME NEW w \in Workers, Succeed(w) PROVE Goal
  <2>1. job[w] \in Payments /\ dlq' = dlq /\ captures' = captures
    BY <1>0, <1>2 DEF Succeed, At, TypeOK, kafkaVars, gateVars
  <2>2. captures[job[w]] > 0
    BY <1>2 DEF Succeed, At, CauseInv, CauseOf
  <2>3. Conclude(job[w], "SUCCESS", "null", {"success", "notification", "audit"})
    BY <1>2 DEF Succeed
  <2>4. "SUCCESS" \in Terminal
    BY DEF Terminal
  <2> QED BY <1>0, <2>1, <2>2, <2>3, <2>4, ConcludeJustified
<1>3. ASSUME NEW w \in Workers, Decline(w) PROVE Goal
  <2>1. job[w] \in Payments /\ dlq' = dlq /\ UNCHANGED <<calls, captures>>
    BY <1>0, <1>3 DEF Decline, At, TypeOK, kafkaVars, gateVars
  <2>2. calls[job[w]] > captures[job[w]]
    BY <1>3 DEF Decline, At, CauseInv, CauseOf
  <2>3. Conclude(job[w], "FAILED", "declined", {"failed"})
    BY <1>3 DEF Decline
  <2>4. "FAILED" \in Terminal
    BY DEF Terminal
  <2> QED BY <1>0, <2>1, <2>2, <2>3, <2>4, ConcludeJustified
<1>4. ASSUME NEW w \in Workers, Exhaust(w) PROVE Goal
  <2>1. job[w] \in Payments /\ dlq' = dlq /\ UNCHANGED retryCount
    BY <1>0, <1>4 DEF Exhaust, At, TypeOK, kafkaVars
  <2>2. retryCount[job[w]] >= MaxAttempts
    BY <1>4 DEF Exhaust, At, CauseInv, CauseOf
  <2>3. Conclude(job[w], "FAILED", "max_retries", {"failed"})
    BY <1>4 DEF Exhaust
  <2>4. "FAILED" \in Terminal
    BY DEF Terminal
  <2> QED BY <1>0, <2>1, <2>2, <2>3, <2>4, ConcludeJustified
<1>5. ASSUME NEW w \in Workers, SendToDlq(w) PROVE Goal
  <2>1. /\ job[w] \in Payments /\ UNCHANGED <<status, failureReason, retryCount>>
        /\ pc[w] = "dlq"
    BY <1>0, <1>5 DEF SendToDlq, At, TypeOK, payVars
  <2>2. Settled(job[w]) /\ retryCount[job[w]] >= MaxAttempts
    BY <2>1 DEF IInv, WorkInProgress, CauseInv, CauseOf
  <2> SUFFICES ASSUME NEW q \in Payments PROVE Justified(q)'
      OBVIOUS
  <2>3. CASE q # job[w]
    <3>1. dlq'[q] = dlq[q]
      BY <1>0, <1>5, <2>1, <2>3 DEF SendToDlq, TypeOK
    <3> QED BY <1>0, <2>1, <3>1, JustifiedStays DEF CauseInv
  <2>4. CASE q = job[w]
    <3>1. Justified(q)
      BY DEF CauseInv
    <3>2. UNCHANGED <<calls, captures, recorded>>
      BY <1>5 DEF SendToDlq, gateVars, hookVars
    <3>3. Told(q, "SUCCESS")' = Told(q, "SUCCESS")
          /\ Told(q, "FAILED")' = Told(q, "FAILED")
      BY <3>2 DEF Told
    <3> QED BY <2>1, <2>2, <2>4, <3>1, <3>2, <3>3 DEF Justified, Settled
  <2> QED BY <2>3, <2>4
<1>6. ASSUME NEW p \in Payments, Create(p) PROVE Goal
  <2>1. /\ status' = [status EXCEPT ![p] = "PENDING"] /\ status[p] = "ABSENT"
        /\ UNCHANGED <<failureReason, dlq>>
    BY <1>6 DEF Create
  <2>2. ~Settled(p)
    BY <2>1 DEF Settled, isTerminal, Terminal
  <2> SUFFICES ASSUME NEW q \in Payments PROVE Justified(q)'
      OBVIOUS
  <2>3. Justified(q)
    BY DEF CauseInv
  <2>4. CASE q = p
    <3>1. status'[q] = "PENDING"
      BY <1>0, <2>1, <2>4 DEF TypeOK
    <3> QED BY <1>0, <2>1, <2>2, <2>3, <2>4, <3>1, UnsettledJustified
  <2>5. CASE q # p
    BY <1>0, <2>1, <2>3, <2>5, JustifiedStays DEF TypeOK
  <2> QED BY <2>4, <2>5
<1>7. ASSUME NEW h \in Hooks, WebhookCommit(h) PROVE Goal
  <2>0. dlq' = dlq
    BY <1>7 DEF WebhookCommit, kafkaVars
  <2>1. CASE UNCHANGED <<status, failureReason>>
    BY <1>0, <2>0, <2>1, RowJustified
  <2>2. CASE ~UNCHANGED <<status, failureReason>>
    <3>1. PICK e \in Events, p \in Payments, s \in Terminal :
          /\ EventPayment[e] = p /\ EventStatus[e] = s
          /\ status[p] \in {"PENDING", "PROCESSING"}
          /\ status' = [status EXCEPT ![p] = s]
          /\ failureReason' = [failureReason EXCEPT ![p] = WebhookReason(s)]
          /\ recorded' = recorded \cup {e}
      BY <1>7, <2>2, WebhookRow
    <3>2. Told(p, s)'
      BY <3>1 DEF Told
    <3> SUFFICES ASSUME NEW q \in Payments PROVE Justified(q)'
        OBVIOUS
    <3>3. Justified(q)
      BY DEF CauseInv
    <3>4. CASE q # p
      BY <1>0, <2>0, <3>1, <3>3, <3>4, JustifiedStays DEF TypeOK
    <3>5. CASE q = p
      <4>1. status'[q] = s /\ failureReason'[q] = WebhookReason(s)
        BY <1>0, <3>1, <3>5 DEF TypeOK
      <4>2. ~(dlq'[q] > 0)
        BY <2>0, <3>1, <3>3, <3>5 DEF Justified, Settled, isTerminal, Terminal
      <4>3. CASE s = "SUCCESS"
        <5>1. Told(q, "SUCCESS")'
          BY <3>2, <3>5, <4>3
        <5> QED BY <4>1, <4>2, <4>3, <5>1 DEF Justified
      <4>4. CASE s = "FAILED"
        <5>1. Told(q, "FAILED")'
          BY <3>2, <3>5, <4>4
        <5> QED BY <4>1, <4>2, <4>4, <5>1 DEF Justified, WebhookReason
      <4> QED BY <3>1, <4>3, <4>4 DEF Terminal
    <3> QED BY <3>4, <3>5
  <2> QED BY <2>1, <2>2
<1>8. ASSUME NEW h \in Hooks,
             \/ WebhookInsert(h) \/ WebhookThrow(h)
             \/ \E e \in Events : WebhookReceive(h, e)
      PROVE  Goal
  BY <1>0, <1>8, RowJustified DEF WebhookInsert, WebhookThrow, WebhookReceive,
     payVars, kafkaVars
<1>9. ASSUME NEW w \in Workers,
             Recheck(w) \/ Charge(w) \/ ChargeRejected(w) \/ Bump(w) \/ Budget(w)
      PROVE  Goal
  BY <1>0, <1>9, RowJustified DEF Recheck, Charge, ChargeRejected, Bump,
     Budget, payVars, kafkaVars
<1>10. CASE Aside
  BY <1>0, <1>10, RowJustified DEF Aside, payVars
<1> QED
  BY <1>0, <1>1, <1>2, <1>3, <1>4, <1>5, <1>6, <1>7, <1>8, <1>9, <1>10,
     StepKinds DEF Notable, HookStep

(* A worker that stays where it was, or goes where no cause is needed,     *)
(* needs no new one.                                                       *)
LEMMA CauseStays ==
  ASSUME TypeOK, TypeOK', Grows, CauseInv, NEW w \in Workers,
         \/ pc'[w] = pc[w] /\ job'[w] = job[w]
         \/ pc'[w] \notin {"succeed", "decline", "exhaust", "dlq"}
         \/ /\ pc'[w] = "dlq" /\ pc[w] = "exhaust" /\ job'[w] = job[w]
  PROVE  CauseOf(w)'
<1>1. CASE pc'[w] \notin {"succeed", "decline", "exhaust", "dlq"}
  BY <1>1 DEF CauseOf
<1>2. CASE /\ pc'[w] \in {"succeed", "decline", "exhaust", "dlq"}
           /\ job'[w] = job[w]
           /\ \/ pc'[w] = pc[w]
              \/ pc'[w] = "dlq" /\ pc[w] = "exhaust"
  <2>1. job[w] \in Payments
    BY <1>2 DEF TypeOK
  <2> DEFINE p == job[w]
  <2>2. /\ calls[p] \in Nat /\ captures[p] \in Nat /\ retryCount[p] \in Nat
        /\ calls'[p] \in Nat /\ captures'[p] \in Nat /\ retryCount'[p] \in Nat
        /\ MaxAttempts \in Nat
    BY <2>1, BoundAssumption DEF TypeOK
  <2>3. /\ captures[p] <= captures'[p]
        /\ calls[p] - captures[p] <= calls'[p] - captures'[p]
        /\ retryCount[p] <= retryCount'[p]
    BY <2>1 DEF Grows
  <2>4. CauseOf(w)
    BY DEF CauseInv
  <2>5. job'[w] = p
    BY <1>2
  <2>6. /\ pc[w] = "succeed" => captures[p] > 0
        /\ pc[w] = "decline" => calls[p] > captures[p]
        /\ pc[w] \in {"exhaust", "dlq"} => retryCount[p] >= MaxAttempts
    BY <2>4 DEF CauseOf
  <2> HIDE DEF p
  <2>7. /\ pc'[w] = "succeed" => captures'[p] > 0
        /\ pc'[w] = "decline" => calls'[p] > captures'[p]
        /\ pc'[w] \in {"exhaust", "dlq"} => retryCount'[p] >= MaxAttempts
    BY <1>2, <2>2, <2>3, <2>6
  <2> QED BY <2>5, <2>7 DEF CauseOf
<1> QED BY <1>1, <1>2

(* Every worker has its cause after every step.                            *)
LEMMA CauseNext ==
  ASSUME IInv, CauseInv, [Next]_vars
  PROVE  \A v \in Workers : CauseOf(v)'
<1>0. TypeOK /\ TypeOK' /\ Grows
  BY IInvNext, GrowsNext DEF IInv
<1>a. /\ pc \in [Workers -> WorkerSteps]
      /\ job \in [Workers -> Payments \cup {NoPayment}]
  BY <1>0 DEF TypeOK
<1> SUFFICES ASSUME NEW v \in Workers PROVE CauseOf(v)'
    OBVIOUS
<1>1. ASSUME NEW w \in Workers, Charge(w) \/ ChargeRejected(w)
      PROVE  CauseOf(v)'
  <2>1. CASE v # w
    <3>1. PICK reply \in {"succeed", "decline", "bump"} :
            pc' = [pc EXCEPT ![w] = reply]
      BY <1>0, <1>1, ChargeCounts
    <3>2. job' = job
      BY <1>0, <1>1, ChargeCounts
    <3>3. pc'[v] = pc[v] /\ job'[v] = job[v]
      BY <1>a, <2>1, <3>1, <3>2
    <3> QED BY <1>0, <3>3, CauseStays
  <2>2. CASE v = w
    <3> DEFINE p == job[w]
    <3>1. /\ p \in Payments /\ job'[w] = p
          /\ calls'[p] = calls[p] + 1
          /\ pc'[w] = "succeed" => captures'[p] = captures[p] + 1
          /\ pc'[w] = "decline" => captures'[p] = captures[p]
      BY <1>0, <1>1, ChargeCounts
    <3>2. pc'[w] \in {"succeed", "decline", "bump"}
      BY <1>0, <1>1, ChargeCounts DEF TypeOK
    <3> HIDE DEF p
    <3>3. calls[p] \in Nat /\ captures[p] \in Nat /\ captures[p] <= calls[p]
      BY <1>0, <3>1, Numbers DEF CauseInv
    <3>4. /\ pc'[w] = "succeed" => captures'[p] > 0
          /\ pc'[w] = "decline" => calls'[p] > captures'[p]
      BY <3>1, <3>3
    <3> QED BY <2>2, <3>1, <3>2, <3>4 DEF CauseOf
  <2> QED BY <2>1, <2>2
<1>2. ASSUME NEW w \in Workers, Budget(w) PROVE CauseOf(v)'
  <2>1. CASE v # w
    BY <1>0, <1>2, <2>1, CauseStays DEF Budget, Goto, TypeOK
  <2>2. CASE v = w
    <3>1. /\ job' = job /\ retryCount' = retryCount
          /\ pc'[w] = IF retryCount[job[w]] >= MaxAttempts
                        THEN "exhaust" ELSE "schedule"
      BY <1>0, <1>2 DEF Budget, Goto, payVars, TypeOK
    <3> QED BY <2>2, <3>1 DEF CauseOf
  <2> QED BY <2>1, <2>2
<1>3. ASSUME NEW w \in Workers,
             \/ Promote(w) \/ Recheck(w) \/ Succeed(w) \/ Decline(w) \/ Bump(w)
             \/ Exhaust(w) \/ SendToDlq(w)
      PROVE  CauseOf(v)'
  <2>1. \/ pc'[v] = pc[v] /\ job'[v] = job[v]
        \/ pc'[v] \notin {"succeed", "decline", "exhaust", "dlq"}
        \/ /\ pc'[v] = "dlq" /\ pc[v] = "exhaust" /\ job'[v] = job[v]
    <3>1. PICK step \in {"recheck", "charge", "ack", "budget", "dlq"} :
            /\ Goto(w, step)
            /\ step = "dlq" => pc[w] = "exhaust"
      BY <1>3 DEF Promote, Recheck, Succeed, Decline, Bump, Exhaust, SendToDlq,
         At
    <3>2. /\ v # w => pc'[v] = pc[v] /\ job'[v] = job[v]
          /\ v = w => pc'[v] = step /\ job'[v] = job[v]
      BY <1>a, <3>1 DEF Goto
    <3> QED BY <3>1, <3>2
  <2> QED BY <1>0, <2>1, CauseStays
<1>4. ASSUME UNCHANGED <<pc, job>> PROVE CauseOf(v)'
  BY <1>0, <1>4, CauseStays
<1>5. ASSUME NEW h \in Hooks, HookStep(h) PROVE CauseOf(v)'
  BY <1>4, <1>5 DEF HookStep, WebhookInsert, WebhookCommit, WebhookThrow,
     WebhookReceive
<1>6. ASSUME NEW p \in Payments, Create(p) PROVE CauseOf(v)'
  BY <1>4, <1>6 DEF Create
<1>7. CASE Aside
  <2>1. \/ pc'[v] = pc[v] /\ job'[v] = job[v]
        \/ pc'[v] \in {"idle", "acquire", "promote", "ack", "nack"}
    BY <1>7 DEF Aside
  <2> QED BY <1>0, <2>1, CauseStays
<1> QED BY <1>0, <1>1, <1>2, <1>3, <1>5, <1>6, <1>7, StepKinds DEF Notable

(* Every step keeps CauseInv.                                              *)
LEMMA CauseInvNext ==
  IInv /\ CauseInv /\ [Next]_vars => CauseInv'
<1> SUFFICES ASSUME IInv, CauseInv, [Next]_vars PROVE CauseInv'
    OBVIOUS
<1>0. TypeOK /\ TypeOK' /\ Grows
  BY IInvNext, GrowsNext DEF IInv
<1>1. ASSUME NEW p \in Payments PROVE captures'[p] <= calls'[p]
  <2>1. /\ calls[p] \in Nat /\ captures[p] \in Nat
        /\ calls'[p] \in Nat /\ captures'[p] \in Nat
    BY <1>0 DEF TypeOK
  <2>2. /\ calls[p] - captures[p] <= calls'[p] - captures'[p]
        /\ captures[p] <= calls[p]
    BY <1>0 DEF Grows, CauseInv
  <2> QED BY <2>1, <2>2
<1> QED BY <1>1, JustifiedNext, CauseNext DEF CauseInv

(* CauseInv holds in every reachable state.                                *)
LEMMA CauseInvariance == Spec => []CauseInv
<1>1. Init => CauseInv
  <2> SUFFICES ASSUME Init PROVE CauseInv
      OBVIOUS
  <2>1. \A p \in Payments : Justified(p)
    BY DEF Init, Zero, Justified
  <2>2. \A p \in Payments : captures[p] <= calls[p]
    BY DEF Init, Zero
  <2>3. \A w \in Workers : CauseOf(w)
    BY DEF Init, CauseOf
  <2> QED BY <2>1, <2>2, <2>3 DEF CauseInv
<1> QED BY <1>1, CauseInvNext, Invariance, PTL DEF Spec

(* Every outcome, and every dead letter, has its cause on record, whoever  *)
(* settles the payment and whatever fails in between.                      *)
THEOREM OutcomesJustified == Spec => []OutcomeJustified
<1>1. CauseInv => OutcomeJustified
  BY DEF CauseInv, OutcomeJustified, Justified
<1> QED BY <1>1, CauseInvariance, PTL

-----------------------------------------------------------------------------
(* The retry budget.  Each pass of a worker through its critical section   *)
(* costs one call at most, and ends in a counted failure, a settlement or  *)
(* a disruption.  What makes this a bound is the lock: of the workers      *)
(* between their first transaction and the count of their failure, all but *)
(* the holder of the lock have cost a disruption already.                  *)

(* The steps before the gateway's answer, those before the failure is      *)
(* counted, and those before the budget has decided.                       *)
Before == {"promote", "recheck", "charge"}

Asking == Before \cup {"succeed", "decline", "bump"}

Deciding == Asking \cup {"budget", "exhaust"}

Charging(p) == {w \in Workers : job[w] = p /\ pc[w] = "charge"}

Waiting(p) == {w \in Workers : job[w] = p /\ pc[w] \in Before}

(* The holder of p's lock is at one of these steps.                        *)
HolderAsks(p) ==
  \E w \in Workers : lock[p] = w /\ job[w] = p /\ pc[w] \in Asking

HolderDecides(p) ==
  \E w \in Workers : lock[p] = w /\ job[w] = p /\ pc[w] \in Deciding

(* Calls made and still to be made are paid for: by a counted failure, by  *)
(* a disruption, or by the holder of the lock, who has yet to count his.   *)
Counted(p) ==
  /\ Settled(p) =>
       calls[p] + Cardinality(Charging(p)) <= Allowed + disruptions
  /\ ~Settled(p) =>
       /\ calls[p] + Cardinality(Waiting(p))
            <= retryCount[p] + disruptions + One(HolderAsks(p))
       /\ calls[p] + Cardinality(Waiting(p)) + 1
            <= Allowed + disruptions + One(HolderDecides(p))

CallsCounted == \A p \in Payments : Counted(p)

(* Sets of workers have sizes.                                             *)
LEMMA WorkerSets ==
  ASSUME NEW S, S \subseteq Workers, NEW T, T \subseteq S
  PROVE  /\ IsFiniteSet(S) /\ IsFiniteSet(T)
         /\ Cardinality(S) \in Nat /\ Cardinality(T) \in Nat
         /\ Cardinality(T) <= Cardinality(S)
<1>1. IsFiniteSet(S)
  BY WorkerAssumption, FS_Subset
<1>2. IsFiniteSet(T) /\ Cardinality(T) <= Cardinality(S)
  BY <1>1, FS_Subset
<1> QED BY <1>1, <1>2, FS_CardinalityType

(* Numbers, before and after a step.                                       *)
LEMMA CountTypes ==
  ASSUME TypeOK, TypeOK', NEW q \in Payments
  PROVE  /\ calls[q] \in Nat /\ calls'[q] \in Nat
         /\ retryCount[q] \in Nat /\ retryCount'[q] \in Nat
         /\ disruptions \in Nat /\ disruptions' \in Nat
         /\ Allowed \in Nat /\ Allowed >= 1 /\ Allowed >= MaxAttempts
         /\ MaxAttempts \in Nat
         /\ Charging(q) \subseteq Waiting(q) /\ Waiting(q) \subseteq Workers
         /\ Charging(q)' \subseteq Workers /\ Waiting(q)' \subseteq Workers
<1>1. /\ calls[q] \in Nat /\ calls'[q] \in Nat
      /\ retryCount[q] \in Nat /\ retryCount'[q] \in Nat
      /\ disruptions \in Nat /\ disruptions' \in Nat
  BY DEF TypeOK
<1>2. /\ Allowed \in Nat /\ Allowed >= 1 /\ Allowed >= MaxAttempts
      /\ MaxAttempts \in Nat
  BY BoundAssumption DEF Allowed
<1>3. /\ Charging(q) \subseteq Waiting(q) /\ Waiting(q) \subseteq Workers
      /\ Charging(q)' \subseteq Workers /\ Waiting(q)' \subseteq Workers
  BY DEF Charging, Waiting, Before
<1> QED BY <1>1, <1>2, <1>3

(* A settled payment is called for by those only that are at the gateway.  *)
LEMMA SettledCount ==
  ASSUME TypeOK, TypeOK', NEW q \in Payments, Counted(q),
         isTerminal(status'[q]), calls'[q] = calls[q],
         disruptions <= disruptions',
         Charging(q)' \subseteq Charging(q)
  PROVE  Counted(q)'
<1> DEFINE c == Cardinality(Charging(q))
           cc == Cardinality(Charging(q)')
           n == Cardinality(Waiting(q))
<1>1. /\ c \in Nat /\ cc \in Nat /\ n \in Nat
      /\ cc <= c /\ c <= n
  BY CountTypes, WorkerSets
<1>2. /\ calls[q] \in Nat /\ disruptions \in Nat /\ disruptions' \in Nat
      /\ Allowed \in Nat
  BY CountTypes
<1>3. \/ calls[q] + c <= Allowed + disruptions
      \/ calls[q] + n + 1 <= Allowed + disruptions + One(HolderDecides(q))
  BY DEF Counted
<1> HIDE DEF c, cc, n
<1>4. calls[q] + cc <= Allowed + disruptions'
  BY <1>1, <1>2, <1>3 DEF One
<1>5. calls'[q] + Cardinality(Charging(q)') <= Allowed + disruptions'
  BY <1>4 DEF cc
<1> QED BY <1>5 DEF Counted, Settled

(* A payment that stays unsettled, and for which no call is added: either  *)
(* a disruption pays for the holder's step, or the holder stays.           *)
LEMMA UnsettledCount ==
  ASSUME TypeOK, TypeOK', NEW q \in Payments, Counted(q),
         ~Settled(q), ~isTerminal(status'[q]), calls'[q] = calls[q],
         retryCount[q] <= retryCount'[q],
         Waiting(q)' \subseteq Waiting(q),
         \/ disruptions < disruptions'
         \/ /\ disruptions <= disruptions'
            /\ HolderAsks(q) => HolderAsks(q)'
            /\ HolderDecides(q) => HolderDecides(q)'
  PROVE  Counted(q)'
<1> DEFINE n == Cardinality(Waiting(q))
           nn == Cardinality(Waiting(q)')
           a == HolderAsks(q)
           aa == HolderAsks(q)'
           b == HolderDecides(q)
           bb == HolderDecides(q)'
<1>1. n \in Nat /\ nn \in Nat /\ nn <= n
  BY CountTypes, WorkerSets
<1>2. /\ calls[q] \in Nat /\ disruptions \in Nat /\ disruptions' \in Nat
      /\ Allowed \in Nat /\ retryCount[q] \in Nat /\ retryCount'[q] \in Nat
  BY CountTypes
<1>3. /\ calls[q] + n <= retryCount[q] + disruptions + One(a)
      /\ calls[q] + n + 1 <= Allowed + disruptions + One(b)
  BY DEF Counted
<1>4. \/ disruptions < disruptions'
      \/ disruptions <= disruptions' /\ (a => aa) /\ (b => bb)
  OBVIOUS
<1>5. \/ disruptions < disruptions'
      \/ disruptions <= disruptions' /\ One(a) <= One(aa) /\ One(b) <= One(bb)
  BY <1>4 DEF One
<1>6. /\ One(a) \in 0 .. 1 /\ One(aa) \in 0 .. 1
      /\ One(b) \in 0 .. 1 /\ One(bb) \in 0 .. 1
  BY DEF One
<1> DEFINE oa == One(a)
           oaa == One(aa)
           ob == One(b)
           obb == One(bb)
<1>7. /\ calls[q] + n <= retryCount[q] + disruptions + oa
      /\ calls[q] + n + 1 <= Allowed + disruptions + ob
      /\ \/ disruptions < disruptions'
         \/ disruptions <= disruptions' /\ oa <= oaa /\ ob <= obb
      /\ oa \in 0 .. 1 /\ oaa \in 0 .. 1 /\ ob \in 0 .. 1 /\ obb \in 0 .. 1
  BY <1>3, <1>5, <1>6
<1> HIDE DEF n, nn, oa, oaa, ob, obb
<1>8. /\ calls[q] + nn <= retryCount'[q] + disruptions' + oaa
      /\ calls[q] + nn + 1 <= Allowed + disruptions' + obb
  BY <1>1, <1>2, <1>7
<1>9. /\ calls'[q] + Cardinality(Waiting(q)')
           <= retryCount'[q] + disruptions' + One(HolderAsks(q)')
      /\ calls'[q] + Cardinality(Waiting(q)') + 1
           <= Allowed + disruptions' + One(HolderDecides(q)')
  BY <1>8 DEF nn, oaa, obb
<1> QED BY <1>9 DEF Counted, Settled, One

(* A step that neither asks the gateway nor disrupts, and leaves the       *)
(* holder of the lock among those who ask and decide.                      *)
LEMMA QuietCount ==
  ASSUME TypeOK, TypeOK', NEW q \in Payments, Counted(q),
         ~Settled(q), ~isTerminal(status'[q]), calls'[q] = calls[q],
         retryCount'[q] = retryCount[q], disruptions' = disruptions,
         \A v \in Workers :
           /\ job'[v] = q /\ pc'[v] \in Before
                => job[v] = q /\ pc[v] \in Before
           /\ lock[q] = v /\ job[v] = q /\ pc[v] \in Asking
                => lock'[q] = v /\ job'[v] = q /\ pc'[v] \in Asking
           /\ lock[q] = v /\ job[v] = q /\ pc[v] \in Deciding
                => lock'[q] = v /\ job'[v] = q /\ pc'[v] \in Deciding
  PROVE  Counted(q)'
<1>1. Waiting(q)' \subseteq Waiting(q)
  BY DEF Waiting
<1>2. HolderAsks(q) => HolderAsks(q)'
  BY DEF HolderAsks
<1>3. HolderDecides(q) => HolderDecides(q)'
  BY DEF HolderDecides
<1>4. /\ retryCount[q] <= retryCount'[q]
      /\ disruptions <= disruptions'
  BY CountTypes
<1> QED BY <1>1, <1>2, <1>3, <1>4, UnsettledCount

(* A disruption that asks nobody.                                          *)
LEMMA DisruptedCount ==
  ASSUME TypeOK, TypeOK', NEW q \in Payments, Counted(q),
         ~Settled(q), ~isTerminal(status'[q]), calls'[q] = calls[q],
         retryCount'[q] = retryCount[q], disruptions' = disruptions + 1,
         \A v \in Workers :
           job'[v] = q /\ pc'[v] \in Before => job[v] = q /\ pc[v] \in Before
  PROVE  Counted(q)'
<1>1. Waiting(q)' \subseteq Waiting(q)
  BY DEF Waiting
<1>2. /\ retryCount[q] <= retryCount'[q]
      /\ disruptions < disruptions'
  BY CountTypes
<1> QED BY <1>1, <1>2, UnsettledCount

(* The gateway is asked: one worker fewer waits for it.  An open breaker   *)
(* makes the call a disruption.                                            *)
LEMMA CalledCount ==
  ASSUME TypeOK, TypeOK', NEW q \in Payments, NEW w \in Workers,
         Counted(q), job[w] = q, pc[w] = "charge",
         Charging(q)' = Charging(q) \ {w}, Waiting(q)' = Waiting(q) \ {w},
         calls'[q] = calls[q] + 1, retryCount'[q] = retryCount[q],
         isTerminal(status'[q]) <=> Settled(q),
         \/ disruptions' = disruptions + 1
         \/ /\ disruptions' = disruptions
            /\ HolderAsks(q) => HolderAsks(q)'
            /\ HolderDecides(q) => HolderDecides(q)'
  PROVE  Counted(q)'
<1> DEFINE c == Cardinality(Charging(q))
           cc == Cardinality(Charging(q)')
           n == Cardinality(Waiting(q))
           nn == Cardinality(Waiting(q)')
<1>1. w \in Charging(q) /\ w \in Waiting(q)
  BY DEF Charging, Waiting, Before
<1>2. /\ IsFiniteSet(Charging(q)) /\ IsFiniteSet(Waiting(q))
      /\ c \in Nat /\ n \in Nat
  BY CountTypes, WorkerSets
<1>3. cc = c - 1 /\ nn = n - 1
  BY <1>1, <1>2, FS_RemoveElement
<1>4. /\ calls[q] \in Nat /\ disruptions \in Nat /\ disruptions' \in Nat
      /\ Allowed \in Nat /\ retryCount[q] \in Nat
  BY CountTypes
<1>5. CASE Settled(q)
  <2>1. calls[q] + c <= Allowed + disruptions
    BY <1>5 DEF Counted
  <2>2. disruptions <= disruptions'
    BY <1>4
  <2> HIDE DEF c, cc, n, nn
  <2>3. calls[q] + 1 + cc <= Allowed + disruptions'
    BY <1>2, <1>3, <1>4, <2>1, <2>2
  <2>4. calls'[q] + Cardinality(Charging(q)') <= Allowed + disruptions'
    BY <2>3 DEF cc
  <2> QED BY <1>5, <2>4 DEF Counted, Settled
<1>6. CASE ~Settled(q)
  <2> DEFINE oa == One(HolderAsks(q))
             oaa == One(HolderAsks(q)')
             ob == One(HolderDecides(q))
             obb == One(HolderDecides(q)')
  <2>1. /\ calls[q] + n <= retryCount[q] + disruptions + oa
        /\ calls[q] + n + 1 <= Allowed + disruptions + ob
    BY <1>6 DEF Counted
  <2>2. \/ disruptions' = disruptions + 1
        \/ disruptions' = disruptions /\ oa <= oaa /\ ob <= obb
    BY DEF One
  <2>3. oa \in 0 .. 1 /\ oaa \in 0 .. 1 /\ ob \in 0 .. 1 /\ obb \in 0 .. 1
    BY DEF One
  <2> HIDE DEF c, cc, n, nn, oa, oaa, ob, obb
  <2>4. /\ calls[q] + 1 + nn <= retryCount[q] + disruptions' + oaa
        /\ calls[q] + 1 + nn + 1 <= Allowed + disruptions' + obb
    BY <1>2, <1>3, <1>4, <2>1, <2>2, <2>3
  <2>5. /\ calls'[q] + Cardinality(Waiting(q)')
             <= retryCount'[q] + disruptions' + One(HolderAsks(q)')
        /\ calls'[q] + Cardinality(Waiting(q)') + 1
             <= Allowed + disruptions' + One(HolderDecides(q)')
    BY <2>4 DEF nn, oaa, obb
  <2> QED BY <1>6, <2>5 DEF Counted, Settled, One
<1> QED BY <1>5, <1>6

(* A worker takes the free lock: one more waits, and the holder asks.      *)
LEMMA AcquiredCount ==
  ASSUME TypeOK, TypeOK', NEW w \in Workers, AcquireLock(w),
         NEW q \in Payments, q = job[w], Counted(q), ~Settled(q)
  PROVE  Counted(q)'
<1> DEFINE n == Cardinality(Waiting(q))
           nn == Cardinality(Waiting(q)')
<1>0. /\ pc[w] = "acquire" /\ pc' = [pc EXCEPT ![w] = "promote"]
      /\ job' = job /\ lock[q] = NoWorker /\ lock'[q] = w
      /\ UNCHANGED <<status, calls, retryCount, disruptions>>
  BY DEF AcquireLock, At, Goto, payVars, gateVars, faultVars, TypeOK
<1>1. w \notin Waiting(q) /\ Waiting(q)' = Waiting(q) \cup {w}
  BY <1>0 DEF Waiting, Before, TypeOK
<1>2. IsFiniteSet(Waiting(q)) /\ n \in Nat
  BY CountTypes, WorkerSets
<1>3. nn = n + 1
  BY <1>1, <1>2, FS_AddElement
<1>4. ~HolderAsks(q) /\ ~HolderDecides(q)
  BY <1>0, SentinelAssumption DEF HolderAsks, HolderDecides
<1>5. HolderAsks(q)' /\ HolderDecides(q)'
  BY <1>0 DEF HolderAsks, HolderDecides, Asking, Deciding, Before, TypeOK
<1>6. /\ calls[q] \in Nat /\ disruptions \in Nat
      /\ Allowed \in Nat /\ retryCount[q] \in Nat
  BY CountTypes
<1>7. /\ calls[q] + n <= retryCount[q] + disruptions
      /\ calls[q] + n + 1 <= Allowed + disruptions
  BY <1>2, <1>4, <1>6 DEF Counted, One
<1> HIDE DEF n, nn
<1>8. /\ calls[q] + nn <= retryCount[q] + disruptions + 1
      /\ calls[q] + nn + 1 <= Allowed + disruptions + 1
  BY <1>2, <1>3, <1>6, <1>7
<1>9. /\ calls'[q] + Cardinality(Waiting(q)')
           <= retryCount'[q] + disruptions' + 1
      /\ calls'[q] + Cardinality(Waiting(q)') + 1
           <= Allowed + disruptions' + 1
  BY <1>0, <1>8 DEF nn
<1>10. ~isTerminal(status'[q])
  BY <1>0 DEF Settled
<1> QED BY <1>5, <1>9, <1>10 DEF Counted, Settled, One

(* A failure is counted, and pays for the call.                            *)
LEMMA BumpedCount ==
  ASSUME TypeOK, TypeOK', NEW w \in Workers, Bump(w),
         NEW q \in Payments, q = job[w], Counted(q), ~Settled(q)
  PROVE  Counted(q)'
<1> DEFINE n == Cardinality(Waiting(q))
           nn == Cardinality(Waiting(q)')
<1>0. /\ pc[w] = "bump" /\ pc' = [pc EXCEPT ![w] = "budget"]
      /\ job' = job /\ lock' = lock
      /\ retryCount'[q] = retryCount[q] + 1
      /\ UNCHANGED <<status, calls, disruptions>>
  BY DEF Bump, At, Goto, payVars, gateVars, faultVars, TypeOK
<1>1. Waiting(q)' \subseteq Waiting(q)
  BY <1>0 DEF Waiting, Before, TypeOK
<1>2. n \in Nat /\ nn \in Nat /\ nn <= n
  BY <1>1, CountTypes, WorkerSets
<1>3. HolderDecides(q) => HolderDecides(q)'
  BY <1>0 DEF HolderDecides, Asking, Deciding, Before, TypeOK
<1>4. /\ calls[q] \in Nat /\ disruptions \in Nat
      /\ Allowed \in Nat /\ retryCount[q] \in Nat
  BY CountTypes
<1> DEFINE oa == One(HolderAsks(q))
           oaa == One(HolderAsks(q)')
           ob == One(HolderDecides(q))
           obb == One(HolderDecides(q)')
<1>5. /\ calls[q] + n <= retryCount[q] + disruptions + oa
      /\ calls[q] + n + 1 <= Allowed + disruptions + ob
  BY DEF Counted
<1>6. /\ oa \in 0 .. 1 /\ oaa \in 0 .. 1 /\ ob \in 0 .. 1 /\ obb \in 0 .. 1
      /\ ob <= obb
  BY <1>3 DEF One
<1> HIDE DEF n, nn, oa, oaa, ob, obb
<1>7. /\ calls[q] + nn <= retryCount[q] + 1 + disruptions + oaa
      /\ calls[q] + nn + 1 <= Allowed + disruptions + obb
  BY <1>2, <1>4, <1>5, <1>6
<1>8. /\ calls'[q] + Cardinality(Waiting(q)')
           <= retryCount'[q] + disruptions' + One(HolderAsks(q)')
      /\ calls'[q] + Cardinality(Waiting(q)') + 1
           <= Allowed + disruptions' + One(HolderDecides(q)')
  BY <1>0, <1>7 DEF nn, oaa, obb
<1>9. ~isTerminal(status'[q])
  BY <1>0 DEF Settled
<1> QED BY <1>8, <1>9 DEF Counted, Settled, One

(* The budget decides: within it, the counted failures leave room for one  *)
(* more call, so that the holder may stop deciding.                        *)
LEMMA BudgetedCount ==
  ASSUME TypeOK, TypeOK', NEW w \in Workers, Budget(w),
         NEW q \in Payments, q = job[w], Counted(q), ~Settled(q)
  PROVE  Counted(q)'
<1>0. /\ pc[w] = "budget" /\ job' = job /\ lock' = lock
      /\ pc' = [pc EXCEPT ![w] = IF retryCount[q] >= MaxAttempts
                                   THEN "exhaust" ELSE "schedule"]
      /\ UNCHANGED <<status, calls, retryCount, disruptions>>
  BY DEF Budget, At, Goto, payVars, gateVars, faultVars, TypeOK
<1>1. Waiting(q)' \subseteq Waiting(q)
  BY <1>0 DEF Waiting, Before, TypeOK
<1>2. HolderAsks(q) => HolderAsks(q)'
  BY <1>0 DEF HolderAsks, Asking, Before, TypeOK
<1>3. ~isTerminal(status'[q])
  BY <1>0 DEF Settled
<1>4. /\ retryCount[q] <= retryCount'[q]
      /\ disruptions <= disruptions'
  BY <1>0, CountTypes
<1>5. CASE retryCount[q] >= MaxAttempts \/ lock[q] # w
  <2>1. HolderDecides(q) => HolderDecides(q)'
    BY <1>0, <1>5 DEF HolderDecides, Asking, Deciding, Before, TypeOK
  <2> QED BY <1>0, <1>1, <1>2, <1>3, <1>4, <2>1, UnsettledCount
<1>6. CASE ~(retryCount[q] >= MaxAttempts) /\ lock[q] = w
  <2> DEFINE n == Cardinality(Waiting(q))
             nn == Cardinality(Waiting(q)')
             oaa == One(HolderAsks(q)')
             obb == One(HolderDecides(q)')
  <2>1. ~HolderAsks(q)
    BY <1>0, <1>6 DEF HolderAsks, Asking, Before
  <2>2. n \in Nat /\ nn \in Nat /\ nn <= n
    BY <1>1, CountTypes, WorkerSets
  <2>3. /\ calls[q] \in Nat /\ disruptions \in Nat /\ Allowed \in Nat
        /\ retryCount[q] \in Nat /\ MaxAttempts \in Nat
        /\ Allowed >= MaxAttempts
    BY CountTypes
  <2>4. calls[q] + n <= retryCount[q] + disruptions
    BY <2>1, <2>2, <2>3 DEF Counted, One
  <2>5. oaa \in 0 .. 1 /\ obb \in 0 .. 1
    BY DEF One
  <2> HIDE DEF n, nn, oaa, obb
  <2>6. /\ calls[q] + nn <= retryCount[q] + disruptions + oaa
        /\ calls[q] + nn + 1 <= Allowed + disruptions + obb
    BY <1>6, <2>2, <2>3, <2>4, <2>5
  <2>7. /\ calls'[q] + Cardinality(Waiting(q)')
             <= retryCount'[q] + disruptions' + One(HolderAsks(q)')
        /\ calls'[q] + Cardinality(Waiting(q)') + 1
             <= Allowed + disruptions' + One(HolderDecides(q)')
    BY <1>0, <2>6 DEF nn, oaa, obb
  <2> QED BY <1>3, <2>7 DEF Counted, Settled, One
<1> QED BY <1>5, <1>6

(* Disruptions are only added.                                             *)
LEMMA DisruptionsGrow ==
  ASSUME TypeOK, [Next]_vars
  PROVE  disruptions <= disruptions'
<1>0. disruptions \in Nat
  BY DEF TypeOK
<1>1. ASSUME NEW w \in Workers, AcquireLock(w) PROVE disruptions <= disruptions'
  BY <1>0, <1>1 DEF AcquireLock, Disrupt, faultVars
<1>2. ASSUME NEW w \in Workers, LockContention(w) PROVE disruptions <= disruptions'
  BY <1>0, <1>2 DEF LockContention, Disrupt, faultVars
<1>3. ASSUME NEW w \in Workers, Promote(w) PROVE disruptions <= disruptions'
  BY <1>0, <1>3 DEF Promote, Disrupt, faultVars
<1>4. ASSUME NEW w \in Workers, Recheck(w) PROVE disruptions <= disruptions'
  BY <1>0, <1>4 DEF Recheck, Disrupt, faultVars
<1>5. ASSUME NEW w \in Workers, Charge(w) PROVE disruptions <= disruptions'
  BY <1>0, <1>5 DEF Charge, Disrupt, faultVars
<1>6. ASSUME NEW w \in Workers, Succeed(w) PROVE disruptions <= disruptions'
  BY <1>0, <1>6 DEF Succeed, Disrupt, faultVars
<1>7. ASSUME NEW w \in Workers, Decline(w) PROVE disruptions <= disruptions'
  BY <1>0, <1>7 DEF Decline, Disrupt, faultVars
<1>8. ASSUME NEW w \in Workers, Bump(w) PROVE disruptions <= disruptions'
  BY <1>0, <1>8 DEF Bump, Disrupt, faultVars
<1>9. ASSUME NEW w \in Workers, Budget(w) PROVE disruptions <= disruptions'
  BY <1>0, <1>9 DEF Budget, Disrupt, faultVars
<1>10. ASSUME NEW w \in Workers, Exhaust(w) PROVE disruptions <= disruptions'
  BY <1>0, <1>10 DEF Exhaust, Disrupt, faultVars
<1>11. ASSUME NEW w \in Workers, SendToDlq(w) PROVE disruptions <= disruptions'
  BY <1>0, <1>11 DEF SendToDlq, Disrupt, faultVars
<1>12. ASSUME NEW w \in Workers, ScheduleRetry(w) PROVE disruptions <= disruptions'
  BY <1>0, <1>12 DEF ScheduleRetry, Disrupt, faultVars
<1>13. ASSUME NEW w \in Workers, Release(w) PROVE disruptions <= disruptions'
  BY <1>0, <1>13 DEF Release, Disrupt, faultVars
<1>14. ASSUME NEW w \in Workers, Crash(w) PROVE disruptions <= disruptions'
  BY <1>0, <1>14 DEF Crash, Disrupt, faultVars
<1>15. ASSUME NEW w \in Workers, Throw(w) PROVE disruptions <= disruptions'
  BY <1>0, <1>15 DEF Throw, Disrupt, faultVars
<1>16. ASSUME NEW w \in Workers, AcquireThrows(w) PROVE disruptions <= disruptions'
  BY <1>0, <1>16 DEF AcquireThrows, Disrupt, faultVars
<1>17. ASSUME NEW w \in Workers, ReleaseThrows(w) PROVE disruptions <= disruptions'
  BY <1>0, <1>17 DEF ReleaseThrows, Disrupt, faultVars
<1>18. ASSUME NEW w \in Workers, ChargeRejected(w) PROVE disruptions <= disruptions'
  BY <1>0, <1>18 DEF ChargeRejected, Disrupt, faultVars
<1>19. ASSUME NEW p \in Payments, Create(p) PROVE disruptions <= disruptions'
  BY <1>0, <1>19 DEF Create, Disrupt, faultVars
<1>20. ASSUME NEW p \in Payments, Relay(p) PROVE disruptions <= disruptions'
  BY <1>0, <1>20 DEF Relay, Disrupt, faultVars
<1>21. ASSUME NEW p \in Payments, OrphanExpires(p) PROVE disruptions <= disruptions'
  BY <1>0, <1>21 DEF OrphanExpires, Disrupt, faultVars
<1>22. ASSUME NEW p \in Payments, Duplicate(p) PROVE disruptions <= disruptions'
  BY <1>0, <1>22 DEF Duplicate, Disrupt, faultVars
<1>23. ASSUME NEW p \in Payments, Rebalance(p) PROVE disruptions <= disruptions'
  BY <1>0, <1>23 DEF Rebalance, Disrupt, faultVars
<1>24. ASSUME NEW p \in Payments, LeaseLost(p) PROVE disruptions <= disruptions'
  BY <1>0, <1>24 DEF LeaseLost, Disrupt, faultVars
<1>25. ASSUME NEW p \in Payments, Replay(p) PROVE disruptions <= disruptions'
  BY <1>0, <1>25 DEF Replay, Disrupt, faultVars
<1>26. ASSUME NEW w \in Workers, NEW p \in Payments, Deliver(w, p)
      PROVE disruptions <= disruptions'
  BY <1>0, <1>26 DEF Deliver, Disrupt, faultVars
<1>27. ASSUME NEW h \in Hooks, WebhookInsert(h) PROVE disruptions <= disruptions'
  BY <1>0, <1>27 DEF WebhookInsert, Disrupt, faultVars
<1>28. ASSUME NEW h \in Hooks, WebhookCommit(h) PROVE disruptions <= disruptions'
  BY <1>0, <1>28 DEF WebhookCommit, Disrupt, faultVars
<1>29. ASSUME NEW h \in Hooks, WebhookThrow(h) PROVE disruptions <= disruptions'
  BY <1>0, <1>29 DEF WebhookThrow, Disrupt, faultVars
<1>30. ASSUME NEW h \in Hooks, NEW e \in Events, WebhookReceive(h, e)
      PROVE disruptions <= disruptions'
  BY <1>0, <1>30 DEF WebhookReceive, Disrupt, faultVars
<1>31. CASE UNCHANGED vars
  BY <1>0, <1>31 DEF vars, faultVars
<1> QED
  BY <1>1, <1>2, <1>3, <1>4, <1>5, <1>6, <1>7, <1>8, <1>9, <1>10, <1>11,
     <1>12, <1>13, <1>14, <1>15, <1>16, <1>17, <1>18, <1>19, <1>20,
     <1>21, <1>22, <1>23, <1>24, <1>25, <1>26, <1>27, <1>28, <1>29,
     <1>30, <1>31
  DEF Next, WorkerStep, WorkerDisruption, PaymentStep, HookStep

(* A call, whatever it is answered.                                        *)
LEMMA CalledNext ==
  ASSUME IInv, TypeOK', NEW w \in Workers, Charge(w) \/ ChargeRejected(w),
         NEW q \in Payments, q = job[w], Counted(q)
  PROVE  Counted(q)'
<1>0. TypeOK
  BY DEF IInv
<1>1. PICK reply \in {"succeed", "decline", "bump"} :
        pc' = [pc EXCEPT ![w] = reply]
  BY <1>0, ChargeCounts
<1>2. /\ calls'[q] = calls[q] + 1 /\ job' = job /\ lock' = lock
      /\ UNCHANGED <<status, retryCount>> /\ pc[w] = "charge"
  BY <1>0, ChargeCounts DEF payVars, Charge, ChargeRejected, At
<1>3. Charging(q)' = Charging(q) \ {w} /\ Waiting(q)' = Waiting(q) \ {w}
  BY <1>0, <1>1, <1>2 DEF Charging, Waiting, Before, TypeOK
<1>4. \/ disruptions' = disruptions + 1
      \/ disruptions' = disruptions
  BY DEF Charge, ChargeRejected, Disrupt, faultVars
<1>5. HolderAsks(q) => HolderAsks(q)'
  BY <1>0, <1>1, <1>2 DEF HolderAsks, Asking, Before, TypeOK
<1>6. HolderDecides(q) => HolderDecides(q)'
  BY <1>0, <1>1, <1>2 DEF HolderDecides, Deciding, Asking, Before, TypeOK
<1>7. isTerminal(status'[q]) <=> Settled(q)
  BY <1>2 DEF Settled
<1> QED
  BY <1>0, <1>2, <1>3, <1>4, <1>5, <1>6, <1>7, CalledCount

(* A payment that is settled after the step, but for the gateway's answer. *)
LEMMA SettledCountNext ==
  ASSUME IInv, TypeOK', [Next]_vars, NEW q \in Payments, Counted(q),
         isTerminal(status'[q]),
         \A w \in Workers : job[w] = q => ~Charge(w) /\ ~ChargeRejected(w)
  PROVE  Counted(q)'
<1>0. /\ TypeOK
      /\ pc \in [Workers -> WorkerSteps]
      /\ job \in [Workers -> Payments \cup {NoPayment}]
  BY DEF IInv, TypeOK
<1>1. disruptions <= disruptions'
  BY <1>0, DisruptionsGrow
<1> SUFFICES /\ calls'[q] = calls[q]
             /\ \A v \in Workers : job'[v] = q /\ pc'[v] = "charge"
                                     => job[v] = q /\ pc[v] = "charge"
  <2>1. ASSUME \A v \in Workers : job'[v] = q /\ pc'[v] = "charge"
                                     => job[v] = q /\ pc[v] = "charge"
        PROVE  Charging(q)' \subseteq Charging(q)
    BY <2>1 DEF Charging
  <2> QED BY <1>0, <1>1, <2>1, SettledCount
<1> DEFINE Goal == /\ calls'[q] = calls[q]
                   /\ \A v \in Workers : job'[v] = q /\ pc'[v] = "charge"
                                           => job[v] = q /\ pc[v] = "charge"
<1>2. ASSUME NEW w \in Workers, Charge(w) \/ ChargeRejected(w) PROVE Goal
  <2>1. job[w] # q
    BY <1>2
  <2>2. PICK reply \in {"succeed", "decline", "bump"} :
          pc' = [pc EXCEPT ![w] = reply]
    BY <1>0, <1>2, ChargeCounts
  <2>3. calls'[q] = calls[q] /\ job' = job
    BY <1>0, <1>2, <2>1, ChargeCounts
  <2> QED BY <1>0, <2>2, <2>3
<1>3. ASSUME NEW w \in Workers, Recheck(w) PROVE Goal
  <2>1. /\ calls' = calls /\ job' = job /\ status' = status
        /\ pc' = [pc EXCEPT ![w] = IF status[job[w]] = "PROCESSING"
                                     THEN "charge" ELSE "ack"]
    BY <1>3 DEF Recheck, Goto, payVars, gateVars
  <2>2. job[w] = q => status[job[w]] # "PROCESSING"
    BY <2>1 DEF isTerminal, Terminal
  <2> QED BY <1>0, <2>1, <2>2
<1>4. ASSUME NEW w \in Workers,
             \/ Promote(w) \/ Succeed(w) \/ Decline(w) \/ Bump(w) \/ Budget(w)
             \/ Exhaust(w) \/ SendToDlq(w)
      PROVE  Goal
  <2>1. PICK step \in {"recheck", "ack", "budget", "exhaust", "schedule", "dlq"} :
          Goto(w, step)
    BY <1>4 DEF Promote, Succeed, Decline, Bump, Budget, Exhaust, SendToDlq
  <2>2. calls' = calls
    BY <1>4 DEF Promote, Succeed, Decline, Bump, Budget, Exhaust, SendToDlq,
       gateVars
  <2> QED BY <1>0, <2>1, <2>2 DEF Goto
<1>5. ASSUME NEW h \in Hooks, HookStep(h) PROVE Goal
  BY <1>5 DEF HookStep, WebhookInsert, WebhookCommit, WebhookThrow,
     WebhookReceive, gateVars
<1>6. ASSUME NEW p \in Payments, Create(p) PROVE Goal
  BY <1>6 DEF Create, gateVars
<1>7. CASE Aside
  BY <1>7 DEF Aside, gateVars
<1> QED BY <1>0, <1>2, <1>3, <1>4, <1>5, <1>6, <1>7, StepKinds DEF Notable

(* The settling transactions settle, or find the payment settled.          *)
LEMMA ConcludeSettles ==
  ASSUME IInv, NEW w \in Workers, Succeed(w) \/ Decline(w) \/ Exhaust(w)
  PROVE  isTerminal(status'[job[w]])
<1>0. TypeOK
  BY DEF IInv
<1>1. /\ pc[w] \in Taken /\ pc[w] # "idle" /\ job[w] \in Payments
  BY <1>0 DEF Succeed, Decline, Exhaust, At, Taken, TypeOK
<1>2. status[job[w]] \notin {"ABSENT", "PENDING"}
  BY <1>1 DEF IInv, WorkInProgress
<1>3. status[job[w]] \in PaymentStatus \cup {"ABSENT"}
  BY <1>0, <1>1 DEF TypeOK
<1>4. PICK s \in Terminal, reason \in Reasons, S \in SUBSET Topics :
        Conclude(job[w], s, reason, S)
  BY DEF Succeed, Decline, Exhaust, Terminal, Reasons, Topics
<1>5. CASE status[job[w]] = "PROCESSING"
  BY <1>0, <1>1, <1>4, <1>5 DEF Conclude, UpdateStatus, isTerminal, TypeOK
<1>6. CASE status[job[w]] # "PROCESSING"
  BY <1>2, <1>3, <1>4, <1>6 DEF Conclude, isTerminal, PaymentStatus, Terminal
<1> QED BY <1>5, <1>6

(* A payment that is not settled by the step, but for the gateway's        *)
(* answer.                                                                 *)
LEMMA UnsettledCountNext ==
  ASSUME IInv, TypeOK', [Next]_vars, NEW q \in Payments, Counted(q),
         ~isTerminal(status'[q]),
         \A w \in Workers : job[w] = q => ~Charge(w) /\ ~ChargeRejected(w)
  PROVE  Counted(q)'
<1>0. /\ TypeOK
      /\ pc \in [Workers -> WorkerSteps]
      /\ job \in [Workers -> Payments \cup {NoPayment}]
      /\ lock \in [Payments -> Workers \cup {NoWorker, Orphan}]
      /\ \A w \in Workers : pc[w] # "idle" => job[w] \in Payments
      /\ q # NoPayment
  BY SentinelAssumption DEF IInv, TypeOK
<1>u. ~Settled(q)
  BY SettledStays DEF Settled
<1> DEFINE Quiet ==
             /\ calls'[q] = calls[q] /\ retryCount'[q] = retryCount[q]
             /\ disruptions' = disruptions
             /\ \A v \in Workers :
                  /\ job'[v] = q /\ pc'[v] \in Before
                       => job[v] = q /\ pc[v] \in Before
                  /\ lock[q] = v /\ job[v] = q /\ pc[v] \in Asking
                       => lock'[q] = v /\ job'[v] = q /\ pc'[v] \in Asking
                  /\ lock[q] = v /\ job[v] = q /\ pc[v] \in Deciding
                       => lock'[q] = v /\ job'[v] = q /\ pc'[v] \in Deciding
<1> DEFINE Disrupted ==
             /\ calls'[q] = calls[q] /\ retryCount'[q] = retryCount[q]
             /\ disruptions' = disruptions + 1
             /\ \A v \in Workers :
                  job'[v] = q /\ pc'[v] \in Before
                    => job[v] = q /\ pc[v] \in Before
<1>q. Quiet => Counted(q)'
  BY <1>0, <1>u, QuietCount
<1>d. Disrupted => Counted(q)'
  BY <1>0, <1>u, DisruptedCount
<1>1. ASSUME NEW w \in Workers, AcquireLock(w) PROVE Counted(q)'
  <2>1. CASE q = job[w]
    BY <1>0, <1>u, <1>1, <2>1, AcquiredCount
  <2>2. CASE q # job[w]
    <3>1. Quiet
      BY <1>0, <1>1, <2>2, SentinelAssumption DEF AcquireLock, Goto, Rest, At, payVars, gateVars,
         kafkaVars, faultVars, Before, Asking, Deciding
    <3> QED BY <1>q, <3>1
  <2> QED BY <2>1, <2>2
<1>2. ASSUME NEW w \in Workers, LockContention(w) PROVE Counted(q)'
  <2>1. Quiet
    BY <1>0, <1>2 DEF LockContention, Goto, Rest, At, payVars, gateVars,
       kafkaVars, faultVars, Before, Asking, Deciding
  <2> QED BY <1>q, <2>1
<1>3. ASSUME NEW w \in Workers, Promote(w) PROVE Counted(q)'
  <2>1. Quiet
    BY <1>0, <1>3 DEF Promote, Goto, Rest, At, payVars, gateVars,
       kafkaVars, faultVars, Before, Asking, Deciding
  <2> QED BY <1>q, <2>1
<1>4. ASSUME NEW w \in Workers, Recheck(w) PROVE Counted(q)'
  <2>1. job[w] = q => status[q] = "PROCESSING"
    <3>1. job[w] = q => status[q] \notin {"ABSENT", "PENDING"}
      BY <1>4 DEF Recheck, At, Taken, IInv, WorkInProgress
    <3>2. status[q] \in PaymentStatus \cup {"ABSENT"}
      BY <1>0 DEF TypeOK
    <3> QED BY <1>u, <3>1, <3>2 DEF Settled, isTerminal, PaymentStatus, Terminal
  <2>2. Quiet
    BY <1>0, <1>4, <2>1 DEF Recheck, Goto, Rest, At, payVars, gateVars,
       kafkaVars, faultVars, Before, Asking, Deciding
  <2> QED BY <1>q, <2>2
<1>5. ASSUME NEW w \in Workers, Charge(w) PROVE Counted(q)'
  <2>1. job[w] # q
    BY <1>5
  <2>2. PICK reply \in {"succeed", "decline", "bump"} :
          pc' = [pc EXCEPT ![w] = reply]
    BY <1>0, <1>5, ChargeCounts
  <2>3. calls'[q] = calls[q] /\ job' = job
    BY <1>0, <1>5, <2>1, ChargeCounts
  <2>4. Quiet
    BY <1>0, <1>5, <2>1, <2>2, <2>3 DEF Charge, payVars, faultVars, Before,
       Asking, Deciding
  <2> QED BY <1>q, <2>4
<1>6. ASSUME NEW w \in Workers, Succeed(w) PROVE Counted(q)'
  <2>1. q # job[w]
    BY <1>6, ConcludeSettles
  <2>2. Quiet
    BY <1>0, <1>6, <2>1 DEF Succeed, Goto, Rest, At, payVars, gateVars,
       kafkaVars, faultVars, Before, Asking, Deciding
  <2> QED BY <1>q, <2>2
<1>7. ASSUME NEW w \in Workers, Decline(w) PROVE Counted(q)'
  <2>1. q # job[w]
    BY <1>7, ConcludeSettles
  <2>2. Quiet
    BY <1>0, <1>7, <2>1 DEF Decline, Goto, Rest, At, payVars, gateVars,
       kafkaVars, faultVars, Before, Asking, Deciding
  <2> QED BY <1>q, <2>2
<1>8. ASSUME NEW w \in Workers, Bump(w) PROVE Counted(q)'
  <2>1. CASE q = job[w]
    BY <1>0, <1>u, <1>8, <2>1, BumpedCount
  <2>2. CASE q # job[w]
    <3>1. Quiet
      BY <1>0, <1>8, <2>2, SentinelAssumption DEF Bump, Goto, Rest, At, payVars, gateVars,
         kafkaVars, faultVars, Before, Asking, Deciding
    <3> QED BY <1>q, <3>1
  <2> QED BY <2>1, <2>2
<1>9. ASSUME NEW w \in Workers, Budget(w) PROVE Counted(q)'
  <2>1. CASE q = job[w]
    BY <1>0, <1>u, <1>9, <2>1, BudgetedCount
  <2>2. CASE q # job[w]
    <3>1. Quiet
      BY <1>0, <1>9, <2>2, SentinelAssumption DEF Budget, Goto, Rest, At, payVars, gateVars,
         kafkaVars, faultVars, Before, Asking, Deciding
    <3> QED BY <1>q, <3>1
  <2> QED BY <2>1, <2>2
<1>10. ASSUME NEW w \in Workers, Exhaust(w) PROVE Counted(q)'
  <2>1. q # job[w]
    BY <1>10, ConcludeSettles
  <2>2. Quiet
    BY <1>0, <1>10, <2>1 DEF Exhaust, Goto, Rest, At, payVars, gateVars,
       kafkaVars, faultVars, Before, Asking, Deciding
  <2> QED BY <1>q, <2>2
<1>11. ASSUME NEW w \in Workers, SendToDlq(w) PROVE Counted(q)'
  <2>1. Quiet
    BY <1>0, <1>11 DEF SendToDlq, Goto, Rest, At, payVars, gateVars,
       kafkaVars, faultVars, Before, Asking, Deciding
  <2> QED BY <1>q, <2>1
<1>12. ASSUME NEW w \in Workers, ScheduleRetry(w) PROVE Counted(q)'
  <2>1. Quiet
    BY <1>0, <1>12 DEF ScheduleRetry, Goto, Rest, At, payVars, gateVars,
       kafkaVars, faultVars, Before, Asking, Deciding
  <2> QED BY <1>q, <2>1
<1>13. ASSUME NEW w \in Workers, Release(w) PROVE Counted(q)'
  <2>1. Quiet
    BY <1>0, <1>13, SentinelAssumption DEF Release, Goto, Rest, At, payVars, gateVars,
       kafkaVars, faultVars, Before, Asking, Deciding
  <2> QED BY <1>q, <2>1
<1>14. ASSUME NEW w \in Workers, Crash(w) PROVE Counted(q)'
  <2>1. Disrupted
    BY <1>0, <1>14 DEF Crash, Goto, Rest, At, Disrupt, payVars, gateVars,
       kafkaVars, faultVars, Before
  <2> QED BY <1>d, <2>1
<1>15. ASSUME NEW w \in Workers, Throw(w) PROVE Counted(q)'
  <2>1. Disrupted
    BY <1>0, <1>15 DEF Throw, Goto, Rest, At, Disrupt, payVars, gateVars,
       kafkaVars, faultVars, Before
  <2> QED BY <1>d, <2>1
<1>16. ASSUME NEW w \in Workers, AcquireThrows(w) PROVE Counted(q)'
  <2>1. Disrupted
    BY <1>0, <1>16 DEF AcquireThrows, Goto, Rest, At, Disrupt, payVars, gateVars,
       kafkaVars, faultVars, Before
  <2> QED BY <1>d, <2>1
<1>17. ASSUME NEW w \in Workers, ReleaseThrows(w) PROVE Counted(q)'
  <2>1. Disrupted
    BY <1>0, <1>17 DEF ReleaseThrows, Goto, Rest, At, Disrupt, payVars, gateVars,
       kafkaVars, faultVars, Before
  <2> QED BY <1>d, <2>1
<1>18. ASSUME NEW w \in Workers, ChargeRejected(w) PROVE Counted(q)'
  <2>1. job[w] # q
    BY <1>18
  <2>2. Disrupted
    BY <1>0, <1>18, <2>1 DEF ChargeRejected, Goto, Rest, At, Disrupt, payVars, gateVars,
       kafkaVars, faultVars, Before
  <2> QED BY <1>d, <2>2
<1>19. ASSUME NEW p \in Payments, Create(p) PROVE Counted(q)'
  <2>1. Quiet
    BY <1>0, <1>19 DEF Create, Goto, Rest, At, payVars, gateVars,
       kafkaVars, faultVars, Before, Asking, Deciding
  <2> QED BY <1>q, <2>1
<1>20. ASSUME NEW p \in Payments, Relay(p) PROVE Counted(q)'
  <2>1. Quiet
    BY <1>0, <1>20 DEF Relay, Goto, Rest, At, payVars, gateVars,
       kafkaVars, faultVars, Before, Asking, Deciding
  <2> QED BY <1>q, <2>1
<1>21. ASSUME NEW p \in Payments, OrphanExpires(p) PROVE Counted(q)'
  <2>1. Quiet
    BY <1>0, <1>21, SentinelAssumption DEF OrphanExpires, Goto, Rest, At, payVars, gateVars,
       kafkaVars, faultVars, Before, Asking, Deciding
  <2> QED BY <1>q, <2>1
<1>22. ASSUME NEW p \in Payments, Duplicate(p) PROVE Counted(q)'
  <2>1. Disrupted
    BY <1>0, <1>22 DEF Duplicate, Goto, Rest, At, Disrupt, payVars, gateVars,
       kafkaVars, faultVars, Before
  <2> QED BY <1>d, <2>1
<1>23. ASSUME NEW p \in Payments, Rebalance(p) PROVE Counted(q)'
  <2>1. Disrupted
    BY <1>0, <1>23 DEF Rebalance, Goto, Rest, At, Disrupt, payVars, gateVars,
       kafkaVars, faultVars, Before
  <2> QED BY <1>d, <2>1
<1>24. ASSUME NEW p \in Payments, LeaseLost(p) PROVE Counted(q)'
  <2>1. Disrupted
    BY <1>0, <1>24 DEF LeaseLost, Goto, Rest, At, Disrupt, payVars, gateVars,
       kafkaVars, faultVars, Before
  <2> QED BY <1>d, <2>1
<1>25. ASSUME NEW p \in Payments, Replay(p) PROVE Counted(q)'
  <2>1. Disrupted
    BY <1>0, <1>25 DEF Replay, Goto, Rest, At, Disrupt, payVars, gateVars,
       kafkaVars, faultVars, Before
  <2> QED BY <1>d, <2>1
<1>26. ASSUME NEW w \in Workers, NEW p \in Payments, Deliver(w, p)
      PROVE Counted(q)'
  <2>1. Quiet
    BY <1>0, <1>26 DEF Deliver, Goto, Rest, At, payVars, gateVars,
       kafkaVars, faultVars, Before, Asking, Deciding
  <2> QED BY <1>q, <2>1
<1>27. ASSUME NEW h \in Hooks, WebhookInsert(h) PROVE Counted(q)'
  <2>1. Quiet
    BY <1>0, <1>27 DEF WebhookInsert, Goto, Rest, At, payVars, gateVars,
       kafkaVars, faultVars, Before, Asking, Deciding
  <2> QED BY <1>q, <2>1
<1>28. ASSUME NEW h \in Hooks, WebhookCommit(h) PROVE Counted(q)'
  <2>1. Quiet
    BY <1>0, <1>28 DEF WebhookCommit, Goto, Rest, At, payVars, gateVars,
       kafkaVars, faultVars, Before, Asking, Deciding
  <2> QED BY <1>q, <2>1
<1>29. ASSUME NEW h \in Hooks, WebhookThrow(h) PROVE Counted(q)'
  <2>1. Disrupted
    BY <1>0, <1>29 DEF WebhookThrow, Goto, Rest, At, Disrupt, payVars, gateVars,
       kafkaVars, faultVars, Before
  <2> QED BY <1>d, <2>1
<1>30. ASSUME NEW h \in Hooks, NEW e \in Events, WebhookReceive(h, e)
      PROVE Counted(q)'
  <2>1. Quiet
    BY <1>0, <1>30 DEF WebhookReceive, Goto, Rest, At, payVars, gateVars,
       kafkaVars, faultVars, Before, Asking, Deciding
  <2> QED BY <1>q, <2>1
<1>31. CASE UNCHANGED vars
  <2>1. Quiet
    BY <1>31 DEF vars, payVars, gateVars, kafkaVars, faultVars
  <2> QED BY <1>q, <2>1
<1> QED
  BY <1>1, <1>2, <1>3, <1>4, <1>5, <1>6, <1>7, <1>8, <1>9, <1>10, <1>11,
     <1>12, <1>13, <1>14, <1>15, <1>16, <1>17, <1>18, <1>19, <1>20,
     <1>21, <1>22, <1>23, <1>24, <1>25, <1>26, <1>27, <1>28, <1>29,
     <1>30, <1>31
  DEF Next, WorkerStep, WorkerDisruption, PaymentStep, HookStep

(* Every step keeps the count.                                             *)
LEMMA CallsCountedNext ==
  IInv /\ CallsCounted /\ [Next]_vars => CallsCounted'
<1> SUFFICES ASSUME IInv, CallsCounted, [Next]_vars, NEW q \in Payments
             PROVE  Counted(q)'
    BY DEF CallsCounted
<1>1. TypeOK' /\ Counted(q)
  BY IInvNext DEF IInv, CallsCounted
<1>2. CASE \E w \in Workers : job[w] = q /\ (Charge(w) \/ ChargeRejected(w))
  BY <1>1, <1>2, CalledNext
<1>3. CASE \A w \in Workers : job[w] = q => ~Charge(w) /\ ~ChargeRejected(w)
  BY <1>1, <1>3, SettledCountNext, UnsettledCountNext
<1> QED BY <1>2, <1>3

(* The count holds initially: there is room for one call.                  *)
LEMMA CallsCountedInit == Init => CallsCounted
<1> SUFFICES ASSUME Init, NEW p \in Payments PROVE Counted(p)
    BY DEF CallsCounted
<1>1. Waiting(p) = {}
  BY DEF Init, Waiting, Before
<1>2. Cardinality(Waiting(p)) = 0
  BY <1>1, FS_EmptySet
<1>3. calls[p] = 0 /\ retryCount[p] = 0 /\ disruptions = 0 /\ ~Settled(p)
  BY DEF Init, Zero, Settled, isTerminal, Terminal
<1>4. Allowed \in Nat /\ Allowed >= 1
  BY BoundAssumption DEF Allowed
<1> QED BY <1>2, <1>3, <1>4 DEF Counted, One

(* However often a payment is delivered, taken over, cut off or thrown     *)
(* back, the gateway is asked no more often than the budget and the        *)
(* disruptions allow.                                                      *)
THEOREM CallsBounded == Spec => []GatewayCallsBounded
<1>1. TypeOK /\ CallsCounted => GatewayCallsBounded
  <2> SUFFICES ASSUME TypeOK, CallsCounted, NEW p \in Payments
               PROVE  calls[p] <= Allowed + disruptions
      BY DEF GatewayCallsBounded
  <2> DEFINE c == Cardinality(Charging(p))
             n == Cardinality(Waiting(p))
             ob == One(HolderDecides(p))
  <2>1. /\ Charging(p) \subseteq Workers /\ Waiting(p) \subseteq Workers
    BY DEF Charging, Waiting
  <2>2. c \in Nat /\ n \in Nat
    BY <2>1, WorkerSets
  <2>3. \/ calls[p] + c <= Allowed + disruptions
        \/ calls[p] + n + 1 <= Allowed + disruptions + ob
    BY DEF CallsCounted, Counted
  <2>4. ob \in 0 .. 1
    BY DEF One
  <2>5. calls[p] \in Nat /\ disruptions \in Nat /\ Allowed \in Nat
    BY BoundAssumption DEF TypeOK, Allowed
  <2> HIDE DEF c, n, ob
  <2> QED BY <2>2, <2>3, <2>4, <2>5
<1>2. Spec => []CallsCounted
  BY CallsCountedInit, CallsCountedNext, Invariance, PTL DEF Spec
<1> QED BY <1>1, <1>2, TypeCorrect, PTL

=============================================================================

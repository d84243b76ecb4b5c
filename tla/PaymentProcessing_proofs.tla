---------------------- MODULE PaymentProcessing_proofs ----------------------
(***************************************************************************)
(* Proofs about PaymentProcessing, for any number of payments, workers,    *)
(* webhooks, retries and disruptions.  The inductive invariant is IInv;    *)
(* each of its conjuncts has a lemma below, with one step per action of    *)
(* Next, and the theorems are at the end.                                  *)
(***************************************************************************)
EXTENDS PaymentProcessing, TLAPS

-----------------------------------------------------------------------------
(* Types.                                                                  *)

(* Enqueueing outbox rows keeps the counts natural numbers.                *)
LEMMA EmitType ==
  ASSUME TypeOK, NEW p \in Payments, NEW S, Emit(p, S)
  PROVE  emitted' \in [Payments -> [Topics -> Nat]]
<1> DEFINE row == [t \in Topics |-> emitted[p][t] + One(t \in S)]
<1>1. row \in [Topics -> Nat]
  BY DEF One, TypeOK
<1>2. emitted' = [emitted EXCEPT ![p] = row]
  BY DEF Emit
<1> QED
  BY <1>1, <1>2 DEF TypeOK

(* The settling transactions of the worker keep the payment row well typed.*)
LEMMA ConcludeType ==
  ASSUME TypeOK, NEW p \in Payments, NEW s \in PaymentStatus,
         NEW reason \in Reasons, NEW S, Conclude(p, s, reason, S)
  PROVE  /\ status' \in [Payments -> PaymentStatus \cup {"ABSENT"}]
         /\ version' \in [Payments -> Nat]
         /\ failureReason' \in [Payments -> Reasons]
         /\ emitted' \in [Payments -> [Topics -> Nat]]
<1>1. CASE UNCHANGED <<status, version, failureReason, emitted>>
  BY <1>1 DEF TypeOK
<1>2. CASE UpdateStatus(p, s, reason) /\ Emit(p, S)
  BY <1>2, EmitType DEF UpdateStatus, TypeOK
<1> QED
  BY <1>1, <1>2 DEF Conclude

(* A worker that moves on to its next await still has its payment.         *)
LEMMA GotoType ==
  ASSUME TypeOK, NEW w \in Workers, pc[w] # "idle", NEW step \in WorkerSteps,
         Goto(w, step)
  PROVE  /\ pc' \in [Workers -> WorkerSteps]
         /\ job' \in [Workers -> Payments \cup {NoPayment}]
         /\ \A v \in Workers : pc'[v] # "idle" => job'[v] \in Payments
  BY DEF Goto, TypeOK

(* Every step keeps the types.  Ownership is needed by Release alone: the  *)
(* number of unacknowledged messages never goes below zero.                *)
LEMMA TypeNext ==
  TypeOK /\ Ownership /\ [Next]_vars => TypeOK'
<1> SUFFICES ASSUME TypeOK, Ownership, [Next]_vars
             PROVE  TypeOK'
  OBVIOUS
<1> USE EventAssumption, BoundAssumption
<1>1. ASSUME NEW w \in Workers, Promote(w) PROVE TypeOK'
  <2>1. job[w] \in Payments
    BY <1>1 DEF Promote, At, TypeOK
  <2>2. /\ status' \in [Payments -> PaymentStatus \cup {"ABSENT"}]
        /\ version' \in [Payments -> Nat]
        /\ failureReason' \in [Payments -> Reasons]
        /\ emitted' \in [Payments -> [Topics -> Nat]]
    <3>1. CASE UNCHANGED <<status, version, failureReason, emitted>>
      BY <3>1 DEF TypeOK
    <3>2. CASE /\ UpdateStatus(job[w], "PROCESSING", failureReason[job[w]])
               /\ Emit(job[w], {"processing"})
      BY <2>1, <3>2, EmitType DEF UpdateStatus, PaymentStatus, TypeOK
    <3> QED
      BY <1>1, <3>1, <3>2 DEF Promote
  <2>3. /\ pc' \in [Workers -> WorkerSteps]
        /\ job' \in [Workers -> Payments \cup {NoPayment}]
        /\ \A v \in Workers : pc'[v] # "idle" => job'[v] \in Payments
    BY <1>1, GotoType DEF Promote, At, WorkerSteps
  <2> QED
    BY <1>1, <2>2, <2>3 DEF Promote, payVars, kafkaVars, hookVars, gateVars, faultVars,
       TypeOK
<1>2. ASSUME NEW w \in Workers, Charge(w) PROVE TypeOK'
  <2>1. job[w] \in Payments
    BY <1>2 DEF Charge, At, TypeOK
  <2>2. PICK reply \in {"succeed", "decline", "bump"} :
          /\ captures' = [captures EXCEPT ![job[w]] = @ + One(reply = "succeed")]
          /\ Goto(w, reply)
    BY <1>2 DEF Charge
  <2>3. captures' \in [Payments -> Nat] /\ calls' \in [Payments -> Nat]
    BY <1>2, <2>1, <2>2 DEF Charge, One, TypeOK
  <2>4. /\ pc' \in [Workers -> WorkerSteps]
        /\ job' \in [Workers -> Payments \cup {NoPayment}]
        /\ \A v \in Workers : pc'[v] # "idle" => job'[v] \in Payments
    BY <1>2, <2>2, GotoType DEF Charge, At, WorkerSteps
  <2> QED
    BY <1>2, <2>3, <2>4 DEF Charge, payVars, kafkaVars, hookVars, gateVars, faultVars,
       TypeOK
<1>3. ASSUME NEW w \in Workers, Succeed(w) PROVE TypeOK'
  <2>1. PICK reason \in Reasons, s \in PaymentStatus, S \in SUBSET Topics :
          Conclude(job[w], s, reason, S)
    BY <1>3 DEF Succeed, Reasons, PaymentStatus, Topics
  <2>2. job[w] \in Payments
    BY <1>3 DEF Succeed, At, TypeOK
  <2> QED
    BY <1>3, <2>1, <2>2, ConcludeType DEF Succeed, Goto, Rest, Relinquish,
       Abandon, Disrupt, At, HookRests, payVars, kafkaVars, hookVars,
       gateVars, faultVars, TypeOK, Critical, Fallible, WorkerSteps, Snapshots, Nowhere,
       Reasons, PaymentStatus, Terminal
<1>4. ASSUME NEW w \in Workers, Decline(w) PROVE TypeOK'
  <2>1. PICK reason \in Reasons, s \in PaymentStatus, S \in SUBSET Topics :
          Conclude(job[w], s, reason, S)
    BY <1>4 DEF Decline, Reasons, PaymentStatus, Topics
  <2>2. job[w] \in Payments
    BY <1>4 DEF Decline, At, TypeOK
  <2> QED
    BY <1>4, <2>1, <2>2, ConcludeType DEF Decline, Goto, Rest, Relinquish,
       Abandon, Disrupt, At, HookRests, payVars, kafkaVars, hookVars,
       gateVars, faultVars, TypeOK, Critical, Fallible, WorkerSteps, Snapshots, Nowhere,
       Reasons, PaymentStatus, Terminal
<1>5. ASSUME NEW w \in Workers, Exhaust(w) PROVE TypeOK'
  <2>1. PICK reason \in Reasons, s \in PaymentStatus, S \in SUBSET Topics :
          Conclude(job[w], s, reason, S)
    BY <1>5 DEF Exhaust, Reasons, PaymentStatus, Topics
  <2>2. job[w] \in Payments
    BY <1>5 DEF Exhaust, At, TypeOK
  <2> QED
    BY <1>5, <2>1, <2>2, ConcludeType DEF Exhaust, Goto, Rest, Relinquish,
       Abandon, Disrupt, At, HookRests, payVars, kafkaVars, hookVars,
       gateVars, faultVars, TypeOK, Critical, Fallible, WorkerSteps, Snapshots, Nowhere,
       Reasons, PaymentStatus, Terminal
<1>6. ASSUME NEW w \in Workers, Release(w) PROVE TypeOK'
  <2>1. job[w] \in Payments /\ w # NoWorker
    BY <1>6, SentinelAssumption DEF Release, TypeOK
  <2>2. consumer[job[w]] = w => initiated[job[w]] >= 1
    BY <2>1 DEF Ownership
  <2>3. initiated' \in [Payments -> Nat]
    BY <1>6, <2>1, <2>2 DEF Release, TypeOK
  <2> QED
    BY <1>6, <2>1, <2>3 DEF Release, Goto, Rest, Relinquish, Abandon,
       Disrupt, At, HookRests, payVars, kafkaVars, hookVars, gateVars, faultVars,
       TypeOK, Critical, Fallible, WorkerSteps, Snapshots, Nowhere, Reasons,
       PaymentStatus, Terminal
<1>7. ASSUME NEW h \in Hooks, WebhookInsert(h) PROVE TypeOK'
  <2>1. hevent[h] \in Events /\ EventPayment[hevent[h]] \in Payments
    BY <1>7 DEF WebhookInsert, TypeOK
  <2>2. CASE HookRests(h)
    BY <1>7, <2>2 DEF WebhookInsert, Goto, Rest, Relinquish, Abandon,
       Disrupt, At, HookRests, payVars, kafkaVars, hookVars, gateVars, faultVars,
       TypeOK, Critical, Fallible, WorkerSteps, Snapshots, Nowhere, Reasons,
       PaymentStatus, Terminal
  <2>3. CASE UNCHANGED hevent /\ ~HookRests(h)
    <3>1. [status  |-> status[EventPayment[hevent[h]]],
           version |-> version[EventPayment[hevent[h]]]] \in Snapshots
      BY <2>1 DEF Snapshots, TypeOK
    <3>2. seen' \in [Hooks -> Snapshots]
      BY <1>7, <2>3, <3>1 DEF WebhookInsert, TypeOK
    <3> QED
      BY <1>7, <2>1, <2>3, <3>2 DEF WebhookInsert, payVars, kafkaVars,
         hookVars, gateVars, faultVars, TypeOK
  <2> QED
    BY <1>7, <2>2, <2>3 DEF WebhookInsert
<1>8. ASSUME NEW h \in Hooks, WebhookCommit(h) PROVE TypeOK'
  <2> DEFINE p == EventPayment[hevent[h]]
             s == EventStatus[hevent[h]]
  <2>1. hevent[h] \in Events /\ p \in Payments /\ s \in PaymentStatus
    BY <1>8 DEF WebhookCommit, TypeOK, PaymentStatus, Terminal
  <2>2. /\ hpc' \in [Hooks -> {"idle", "insert", "decide"}]
        /\ hevent' \in [Hooks -> Events \cup {NoEvent}]
        /\ \A g \in Hooks : hpc'[g] # "idle" => hevent'[g] \in Events
        /\ seen' \in [Hooks -> Snapshots]
        /\ recorded' \subseteq Events
    BY <1>8, <2>1 DEF WebhookCommit, HookRests, Nowhere, Snapshots, TypeOK
  <2>3. CASE UNCHANGED <<status, version, failureReason, emitted>>
    BY <1>8, <2>2, <2>3 DEF WebhookCommit, payVars, kafkaVars, hookVars,
       gateVars, faultVars, TypeOK
  <2>4. CASE UpdateStatus(p, s, WebhookReason(s)) /\ Emit(p, WebhookTopics(s))
    <3>1. emitted' \in [Payments -> [Topics -> Nat]]
      BY <2>1, <2>4, EmitType
    <3>2. /\ status' \in [Payments -> PaymentStatus \cup {"ABSENT"}]
          /\ version' \in [Payments -> Nat]
          /\ failureReason' \in [Payments -> Reasons]
      BY <2>1, <2>4 DEF UpdateStatus, WebhookReason, Reasons, TypeOK
    <3> QED
      BY <1>8, <2>2, <3>1, <3>2 DEF WebhookCommit, payVars, kafkaVars,
         hookVars, gateVars, faultVars, TypeOK
  <2> QED
    BY <1>8, <2>3, <2>4 DEF WebhookCommit
<1> USE DEF Goto, Rest, Relinquish, Abandon, Disrupt, At, HookRests, payVars,
        kafkaVars, hookVars, gateVars, faultVars, TypeOK, Critical, Fallible,
        WorkerSteps, Snapshots, Nowhere, Reasons, PaymentStatus, Terminal,
        vars
<1>9. ASSUME NEW w \in Workers, AcquireLock(w) PROVE TypeOK'
  BY <1>9 DEF AcquireLock
<1>10. ASSUME NEW w \in Workers, LockContention(w) PROVE TypeOK'
  BY <1>10 DEF LockContention
<1>11. ASSUME NEW w \in Workers, Recheck(w) PROVE TypeOK'
  BY <1>11 DEF Recheck
<1>12. ASSUME NEW w \in Workers, Bump(w) PROVE TypeOK'
  BY <1>12 DEF Bump
<1>13. ASSUME NEW w \in Workers, Budget(w) PROVE TypeOK'
  BY <1>13 DEF Budget
<1>14. ASSUME NEW w \in Workers, SendToDlq(w) PROVE TypeOK'
  BY <1>14 DEF SendToDlq
<1>15. ASSUME NEW w \in Workers, ScheduleRetry(w) PROVE TypeOK'
  BY <1>15 DEF ScheduleRetry
<1>16. ASSUME NEW w \in Workers, Crash(w) PROVE TypeOK'
  BY <1>16 DEF Crash
<1>17. ASSUME NEW w \in Workers, Throw(w) PROVE TypeOK'
  BY <1>17 DEF Throw
<1>18. ASSUME NEW w \in Workers, AcquireThrows(w) PROVE TypeOK'
  BY <1>18 DEF AcquireThrows
<1>19. ASSUME NEW w \in Workers, ReleaseThrows(w) PROVE TypeOK'
  BY <1>19 DEF ReleaseThrows
<1>20. ASSUME NEW w \in Workers, ChargeRejected(w) PROVE TypeOK'
  BY <1>20 DEF ChargeRejected
<1>21. ASSUME NEW p \in Payments, Create(p) PROVE TypeOK'
  BY <1>21 DEF Create
<1>22. ASSUME NEW p \in Payments, Relay(p) PROVE TypeOK'
  BY <1>22 DEF Relay
<1>23. ASSUME NEW p \in Payments, OrphanExpires(p) PROVE TypeOK'
  BY <1>23 DEF OrphanExpires
<1>24. ASSUME NEW p \in Payments, Duplicate(p) PROVE TypeOK'
  BY <1>24 DEF Duplicate
<1>25. ASSUME NEW p \in Payments, Rebalance(p) PROVE TypeOK'
  BY <1>25 DEF Rebalance
<1>26. ASSUME NEW p \in Payments, LeaseLost(p) PROVE TypeOK'
  BY <1>26 DEF LeaseLost
<1>27. ASSUME NEW p \in Payments, Replay(p) PROVE TypeOK'
  BY <1>27 DEF Replay
<1>28. ASSUME NEW w \in Workers, NEW p \in Payments, Deliver(w, p)
      PROVE  TypeOK'
  BY <1>28 DEF Deliver
<1>29. ASSUME NEW h \in Hooks, WebhookThrow(h) PROVE TypeOK'
  BY <1>29 DEF WebhookThrow
<1>30. ASSUME NEW h \in Hooks, NEW e \in Events, WebhookReceive(h, e)
      PROVE  TypeOK'
  BY <1>30 DEF WebhookReceive
<1>31. CASE UNCHANGED vars
  BY <1>31
<1> QED
  BY <1>1, <1>2, <1>3, <1>4, <1>5, <1>6, <1>7, <1>8, <1>9, <1>10, <1>11,
     <1>12, <1>13, <1>14, <1>15, <1>16, <1>17, <1>18, <1>19, <1>20, <1>21,
     <1>22, <1>23, <1>24, <1>25, <1>26, <1>27, <1>28, <1>29, <1>30, <1>31
  DEF Next, WorkerStep, WorkerDisruption, PaymentStep, HookStep

-----------------------------------------------------------------------------
(* Ownership of partitions, and the lock.                                  *)

(* Every step keeps Ownership.                                             *)
LEMMA OwnershipNext ==
  TypeOK /\ Ownership /\ [Next]_vars => Ownership'
<1> SUFFICES ASSUME TypeOK, Ownership, [Next]_vars
             PROVE  Ownership'
  OBVIOUS
<1> USE SentinelAssumption
<1> USE DEF Goto, Rest, Relinquish, Abandon, Disrupt, At, HookRests, payVars,
        kafkaVars, hookVars, gateVars, faultVars, TypeOK, Ownership, Critical, Fallible,
        vars
<1>1. ASSUME NEW w \in Workers, AcquireLock(w) PROVE Ownership'
  BY <1>1 DEF AcquireLock
<1>2. ASSUME NEW w \in Workers, LockContention(w) PROVE Ownership'
  BY <1>2 DEF LockContention
<1>3. ASSUME NEW w \in Workers, Promote(w) PROVE Ownership'
  BY <1>3 DEF Promote
<1>4. ASSUME NEW w \in Workers, Recheck(w) PROVE Ownership'
  BY <1>4 DEF Recheck
<1>5. ASSUME NEW w \in Workers, Charge(w) PROVE Ownership'
  BY <1>5 DEF Charge
<1>6. ASSUME NEW w \in Workers, Succeed(w) PROVE Ownership'
  BY <1>6 DEF Succeed
<1>7. ASSUME NEW w \in Workers, Decline(w) PROVE Ownership'
  BY <1>7 DEF Decline
<1>8. ASSUME NEW w \in Workers, Bump(w) PROVE Ownership'
  BY <1>8 DEF Bump
<1>9. ASSUME NEW w \in Workers, Budget(w) PROVE Ownership'
  BY <1>9 DEF Budget
<1>10. ASSUME NEW w \in Workers, Exhaust(w) PROVE Ownership'
  BY <1>10 DEF Exhaust
<1>11. ASSUME NEW w \in Workers, SendToDlq(w) PROVE Ownership'
  BY <1>11 DEF SendToDlq
<1>12. ASSUME NEW w \in Workers, ScheduleRetry(w) PROVE Ownership'
  BY <1>12 DEF ScheduleRetry
<1>13. ASSUME NEW w \in Workers, Release(w) PROVE Ownership'
  BY <1>13 DEF Release
<1>14. ASSUME NEW w \in Workers, Crash(w) PROVE Ownership'
  BY <1>14 DEF Crash
<1>15. ASSUME NEW w \in Workers, Throw(w) PROVE Ownership'
  BY <1>15 DEF Throw
<1>16. ASSUME NEW w \in Workers, AcquireThrows(w) PROVE Ownership'
  BY <1>16 DEF AcquireThrows
<1>17. ASSUME NEW w \in Workers, ReleaseThrows(w) PROVE Ownership'
  BY <1>17 DEF ReleaseThrows
<1>18. ASSUME NEW w \in Workers, ChargeRejected(w) PROVE Ownership'
  BY <1>18 DEF ChargeRejected
<1>19. ASSUME NEW p \in Payments, Create(p) PROVE Ownership'
  BY <1>19 DEF Create
<1>20. ASSUME NEW p \in Payments, Relay(p) PROVE Ownership'
  BY <1>20 DEF Relay
<1>21. ASSUME NEW p \in Payments, OrphanExpires(p) PROVE Ownership'
  BY <1>21 DEF OrphanExpires
<1>22. ASSUME NEW p \in Payments, Duplicate(p) PROVE Ownership'
  BY <1>22 DEF Duplicate
<1>23. ASSUME NEW p \in Payments, Rebalance(p) PROVE Ownership'
  BY <1>23 DEF Rebalance
<1>24. ASSUME NEW p \in Payments, LeaseLost(p) PROVE Ownership'
  BY <1>24 DEF LeaseLost
<1>25. ASSUME NEW p \in Payments, Replay(p) PROVE Ownership'
  BY <1>25 DEF Replay
<1>26. ASSUME NEW w \in Workers, NEW p \in Payments, Deliver(w, p)
      PROVE  Ownership'
  BY <1>26 DEF Deliver
<1>27. ASSUME NEW h \in Hooks, WebhookInsert(h) PROVE Ownership'
  BY <1>27 DEF WebhookInsert
<1>28. ASSUME NEW h \in Hooks, WebhookCommit(h) PROVE Ownership'
  BY <1>28 DEF WebhookCommit
<1>29. ASSUME NEW h \in Hooks, WebhookThrow(h) PROVE Ownership'
  BY <1>29 DEF WebhookThrow
<1>30. ASSUME NEW h \in Hooks, NEW e \in Events, WebhookReceive(h, e)
      PROVE  Ownership'
  BY <1>30 DEF WebhookReceive
<1>31. CASE UNCHANGED vars
  BY <1>31
<1> QED
  BY <1>1, <1>2, <1>3, <1>4, <1>5, <1>6, <1>7, <1>8, <1>9, <1>10, <1>11,
     <1>12, <1>13, <1>14, <1>15, <1>16, <1>17, <1>18, <1>19, <1>20, <1>21,
     <1>22, <1>23, <1>24, <1>25, <1>26, <1>27, <1>28, <1>29, <1>30, <1>31
  DEF Next, WorkerStep, WorkerDisruption, PaymentStep, HookStep

(* Every step keeps LockHeld: a lock is only ever taken when it is free,   *)
(* and only its holder's release deletes it.                               *)
LEMMA LockHeldNext ==
  TypeOK /\ LockHeld /\ [Next]_vars => LockHeld'
<1> SUFFICES ASSUME TypeOK, LockHeld, [Next]_vars
             PROVE  LockHeld'
  OBVIOUS
<1> USE SentinelAssumption
<1> USE DEF Goto, Rest, Relinquish, Abandon, Disrupt, At, HookRests, payVars,
        kafkaVars, hookVars, gateVars, faultVars, TypeOK, LockHeld, Critical, Fallible,
        WorkerSteps, vars
<1>1. ASSUME NEW w \in Workers, AcquireLock(w) PROVE LockHeld'
  BY <1>1 DEF AcquireLock
<1>2. ASSUME NEW w \in Workers, LockContention(w) PROVE LockHeld'
  BY <1>2 DEF LockContention
<1>3. ASSUME NEW w \in Workers, Promote(w) PROVE LockHeld'
  BY <1>3 DEF Promote
<1>4. ASSUME NEW w \in Workers, Recheck(w) PROVE LockHeld'
  BY <1>4 DEF Recheck
<1>5. ASSUME NEW w \in Workers, Charge(w) PROVE LockHeld'
  BY <1>5 DEF Charge
<1>6. ASSUME NEW w \in Workers, Succeed(w) PROVE LockHeld'
  BY <1>6 DEF Succeed
<1>7. ASSUME NEW w \in Workers, Decline(w) PROVE LockHeld'
  BY <1>7 DEF Decline
<1>8. ASSUME NEW w \in Workers, Bump(w) PROVE LockHeld'
  BY <1>8 DEF Bump
<1>9. ASSUME NEW w \in Workers, Budget(w) PROVE LockHeld'
  BY <1>9 DEF Budget
<1>10. ASSUME NEW w \in Workers, Exhaust(w) PROVE LockHeld'
  BY <1>10 DEF Exhaust
<1>11. ASSUME NEW w \in Workers, SendToDlq(w) PROVE LockHeld'
  BY <1>11 DEF SendToDlq
<1>12. ASSUME NEW w \in Workers, ScheduleRetry(w) PROVE LockHeld'
  BY <1>12 DEF ScheduleRetry
<1>13. ASSUME NEW w \in Workers, Release(w) PROVE LockHeld'
  BY <1>13 DEF Release
<1>14. ASSUME NEW w \in Workers, Crash(w) PROVE LockHeld'
  BY <1>14 DEF Crash
<1>15. ASSUME NEW w \in Workers, Throw(w) PROVE LockHeld'
  BY <1>15 DEF Throw
<1>16. ASSUME NEW w \in Workers, AcquireThrows(w) PROVE LockHeld'
  BY <1>16 DEF AcquireThrows
<1>17. ASSUME NEW w \in Workers, ReleaseThrows(w) PROVE LockHeld'
  BY <1>17 DEF ReleaseThrows
<1>18. ASSUME NEW w \in Workers, ChargeRejected(w) PROVE LockHeld'
  BY <1>18 DEF ChargeRejected
<1>19. ASSUME NEW p \in Payments, Create(p) PROVE LockHeld'
  BY <1>19 DEF Create
<1>20. ASSUME NEW p \in Payments, Relay(p) PROVE LockHeld'
  BY <1>20 DEF Relay
<1>21. ASSUME NEW p \in Payments, OrphanExpires(p) PROVE LockHeld'
  BY <1>21 DEF OrphanExpires
<1>22. ASSUME NEW p \in Payments, Duplicate(p) PROVE LockHeld'
  BY <1>22 DEF Duplicate
<1>23. ASSUME NEW p \in Payments, Rebalance(p) PROVE LockHeld'
  BY <1>23 DEF Rebalance
<1>24. ASSUME NEW p \in Payments, LeaseLost(p) PROVE LockHeld'
  BY <1>24 DEF LeaseLost
<1>25. ASSUME NEW p \in Payments, Replay(p) PROVE LockHeld'
  BY <1>25 DEF Replay
<1>26. ASSUME NEW w \in Workers, NEW p \in Payments, Deliver(w, p)
      PROVE  LockHeld'
  BY <1>26 DEF Deliver
<1>27. ASSUME NEW h \in Hooks, WebhookInsert(h) PROVE LockHeld'
  BY <1>27 DEF WebhookInsert
<1>28. ASSUME NEW h \in Hooks, WebhookCommit(h) PROVE LockHeld'
  BY <1>28 DEF WebhookCommit
<1>29. ASSUME NEW h \in Hooks, WebhookThrow(h) PROVE LockHeld'
  BY <1>29 DEF WebhookThrow
<1>30. ASSUME NEW h \in Hooks, NEW e \in Events, WebhookReceive(h, e)
      PROVE  LockHeld'
  BY <1>30 DEF WebhookReceive
<1>31. CASE UNCHANGED vars
  BY <1>31
<1> QED
  BY <1>1, <1>2, <1>3, <1>4, <1>5, <1>6, <1>7, <1>8, <1>9, <1>10, <1>11,
     <1>12, <1>13, <1>14, <1>15, <1>16, <1>17, <1>18, <1>19, <1>20, <1>21,
     <1>22, <1>23, <1>24, <1>25, <1>26, <1>27, <1>28, <1>29, <1>30, <1>31
  DEF Next, WorkerStep, WorkerDisruption, PaymentStep, HookStep

-----------------------------------------------------------------------------
(* Announcements and versions.                                             *)

(* What Emit does, topic by topic.                                         *)
LEMMA EmitRow ==
  ASSUME TypeOK, NEW p \in Payments, NEW S, Emit(p, S)
  PROVE  /\ \A q \in Payments : q # p => emitted'[q] = emitted[q]
         /\ \A t \in Topics : emitted'[p][t] = emitted[p][t] + One(t \in S)
  BY DEF Emit, TypeOK

(* The transactions that settle a payment - the worker's three and the     *)
(* webhook's - announce what they do, provided it was not settled before.  *)
LEMMA SettlingAnnounces ==
  ASSUME TypeOK, AnnouncementsMatchStatus, ProcessingNotEarly,
         NEW p \in Payments, NEW s \in Terminal, NEW reason, NEW S,
         status[p] \in {"PENDING", "PROCESSING"},
         UpdateStatus(p, s, reason), Emit(p, S),
         "processing" \notin S,
         "success" \in S <=> s = "SUCCESS",
         "notification" \in S <=> s = "SUCCESS",
         "failed" \in S <=> s = "FAILED"
  PROVE  (AnnouncementsMatchStatus /\ ProcessingNotEarly)'
<1>1. /\ status'[p] = s /\ version'[p] = version[p] + 1
      /\ \A q \in Payments : q # p => /\ status'[q] = status[q]
                                      /\ version'[q] = version[q]
                                      /\ emitted'[q] = emitted[q]
  BY EmitRow DEF UpdateStatus, TypeOK
<1>2. /\ emitted'[p]["processing"] = emitted[p]["processing"]
      /\ emitted'[p]["success"] = One(s = "SUCCESS")
      /\ emitted'[p]["notification"] = One(s = "SUCCESS")
      /\ emitted'[p]["failed"] = One(s = "FAILED")
  <2>1. \A t \in Topics : emitted'[p][t] = emitted[p][t] + One(t \in S)
    BY EmitRow
  <2>2. \A t \in Topics : emitted[p][t] \in Nat
    BY DEF TypeOK
  <2>3. /\ emitted[p]["success"] = 0
        /\ emitted[p]["notification"] = 0
        /\ emitted[p]["failed"] = 0
    BY DEF AnnouncementsMatchStatus, One
  <2> QED
    BY <2>1, <2>2, <2>3 DEF One, Topics
<1>3. /\ emitted[p]["processing"] \in Nat /\ emitted[p]["processing"] <= 1
      /\ version[p] = emitted[p]["processing"]
  BY DEF AnnouncementsMatchStatus, One, Topics, TypeOK
<1>4. AnnouncementsMatchStatus'
  BY <1>1, <1>2, <1>3 DEF AnnouncementsMatchStatus, One, Terminal
<1>5. ProcessingNotEarly'
  BY <1>1 DEF ProcessingNotEarly, Terminal
<1> QED
  BY <1>4, <1>5

(* The worker's first transaction announces that the payment is taken up.  *)
LEMMA PromotingAnnounces ==
  ASSUME TypeOK, AnnouncementsMatchStatus, ProcessingNotEarly,
         NEW p \in Payments, status[p] = "PENDING", NEW reason,
         UpdateStatus(p, "PROCESSING", reason), Emit(p, {"processing"})
  PROVE  (AnnouncementsMatchStatus /\ ProcessingNotEarly)'
<1>1. /\ status'[p] = "PROCESSING" /\ version'[p] = version[p] + 1
      /\ \A q \in Payments : q # p => /\ status'[q] = status[q]
                                      /\ version'[q] = version[q]
                                      /\ emitted'[q] = emitted[q]
  BY EmitRow DEF UpdateStatus, TypeOK
<1>2. /\ emitted[p]["processing"] = 0
      /\ emitted[p]["success"] = 0
      /\ emitted[p]["notification"] = 0
      /\ emitted[p]["failed"] = 0
      /\ version[p] = 0
  BY DEF AnnouncementsMatchStatus, ProcessingNotEarly, One
<1>3. /\ emitted'[p]["processing"] = 1
      /\ emitted'[p]["success"] = 0
      /\ emitted'[p]["notification"] = 0
      /\ emitted'[p]["failed"] = 0
  BY <1>2, EmitRow DEF One, Topics
<1> QED
  BY <1>1, <1>2, <1>3 DEF AnnouncementsMatchStatus, ProcessingNotEarly, One

(* Every step keeps the announcements in line with the status.  The        *)
(* webhook's commit is where SeenCoherent is needed: a version that has    *)
(* not moved means that the payment is still not settled.                  *)
LEMMA AnnouncementsNext ==
  /\ TypeOK /\ SeenCoherent /\ AnnouncementsMatchStatus /\ ProcessingNotEarly
  /\ [Next]_vars
  => (AnnouncementsMatchStatus /\ ProcessingNotEarly)'
<1> SUFFICES ASSUME TypeOK, SeenCoherent, AnnouncementsMatchStatus,
                    ProcessingNotEarly, [Next]_vars
             PROVE  (AnnouncementsMatchStatus /\ ProcessingNotEarly)'
  OBVIOUS
<1> DEFINE Goal == (AnnouncementsMatchStatus /\ ProcessingNotEarly)'
<1>1. ASSUME NEW w \in Workers, Promote(w) PROVE Goal
  <2>1. job[w] \in Payments
    BY <1>1 DEF Promote, At, TypeOK
  <2>2. CASE UNCHANGED <<status, version, failureReason, emitted>>
    BY <2>2 DEF payVars, AnnouncementsMatchStatus, ProcessingNotEarly
  <2>3. CASE /\ status[job[w]] = "PENDING"
             /\ UpdateStatus(job[w], "PROCESSING", failureReason[job[w]])
             /\ Emit(job[w], {"processing"})
    BY <2>1, <2>3, PromotingAnnounces
  <2> QED
    BY <1>1, <2>2, <2>3 DEF Promote
<1>2. ASSUME NEW w \in Workers, Succeed(w) PROVE Goal
  <2>1. job[w] \in Payments
    BY <1>2 DEF Succeed, At, TypeOK
  <2>2. CASE UNCHANGED <<status, version, failureReason, emitted>>
    BY <2>2 DEF payVars, AnnouncementsMatchStatus, ProcessingNotEarly
  <2>3. CASE /\ status[job[w]] = "PROCESSING"
             /\ UpdateStatus(job[w], "SUCCESS", "null")
             /\ Emit(job[w], {"success", "notification", "audit"})
    BY <2>1, <2>3, SettlingAnnounces DEF Terminal
  <2> QED
    BY <1>2, <2>2, <2>3 DEF Succeed, Conclude
<1>3. ASSUME NEW w \in Workers, Decline(w) PROVE Goal
  <2>1. job[w] \in Payments
    BY <1>3 DEF Decline, At, TypeOK
  <2>2. CASE UNCHANGED <<status, version, failureReason, emitted>>
    BY <2>2 DEF payVars, AnnouncementsMatchStatus, ProcessingNotEarly
  <2>3. CASE /\ status[job[w]] = "PROCESSING"
             /\ UpdateStatus(job[w], "FAILED", "declined")
             /\ Emit(job[w], {"failed"})
    BY <2>1, <2>3, SettlingAnnounces DEF Terminal
  <2> QED
    BY <1>3, <2>2, <2>3 DEF Decline, Conclude
<1>4. ASSUME NEW w \in Workers, Exhaust(w) PROVE Goal
  <2>1. job[w] \in Payments
    BY <1>4 DEF Exhaust, At, TypeOK
  <2>2. CASE UNCHANGED <<status, version, failureReason, emitted>>
    BY <2>2 DEF payVars, AnnouncementsMatchStatus, ProcessingNotEarly
  <2>3. CASE /\ status[job[w]] = "PROCESSING"
             /\ UpdateStatus(job[w], "FAILED", "max_retries")
             /\ Emit(job[w], {"failed"})
    BY <2>1, <2>3, SettlingAnnounces DEF Terminal
  <2> QED
    BY <1>4, <2>2, <2>3 DEF Exhaust, Conclude
<1>5. ASSUME NEW p \in Payments, Create(p) PROVE Goal
  BY <1>5 DEF Create, AnnouncementsMatchStatus, ProcessingNotEarly, One,
     TypeOK
<1>6. ASSUME NEW h \in Hooks, WebhookCommit(h) PROVE Goal
  <2> DEFINE p == EventPayment[hevent[h]]
             s == EventStatus[hevent[h]]
  <2>1. p \in Payments /\ s \in Terminal
    BY <1>6, EventAssumption DEF WebhookCommit, TypeOK
  <2>2. CASE UNCHANGED <<status, version, failureReason, emitted>>
    BY <2>2 DEF payVars, AnnouncementsMatchStatus, ProcessingNotEarly
  <2>3. CASE /\ Applies(seen[h], s)
             /\ version[p] = seen[h].version
             /\ UpdateStatus(p, s, WebhookReason(s))
             /\ Emit(p, WebhookTopics(s))
    <3>1. status[p] \in {"PENDING", "PROCESSING"}
      <4>1. seen[h] \in Snapshots /\ hpc[h] = "decide"
        BY <1>6 DEF WebhookCommit, TypeOK
      <4> QED
        BY <2>3, <4>1 DEF SeenCoherent, Applies, isTerminal, Terminal,
           Snapshots,
           PaymentStatus
    <3> QED
      BY <2>1, <2>3, <3>1, SettlingAnnounces DEF Terminal, WebhookTopics
  <2> QED
    BY <1>6, <2>2, <2>3 DEF WebhookCommit
<1> USE DEF payVars, AnnouncementsMatchStatus, ProcessingNotEarly, vars,
        kafkaVars, hookVars, gateVars, faultVars
<1>7. ASSUME NEW w \in Workers, AcquireLock(w) PROVE Goal
  BY <1>7 DEF AcquireLock
<1>8. ASSUME NEW w \in Workers, LockContention(w) PROVE Goal
  BY <1>8 DEF LockContention
<1>9. ASSUME NEW w \in Workers, Recheck(w) PROVE Goal
  BY <1>9 DEF Recheck
<1>10. ASSUME NEW w \in Workers, Charge(w) PROVE Goal
  BY <1>10 DEF Charge
<1>11. ASSUME NEW w \in Workers, Bump(w) PROVE Goal
  BY <1>11 DEF Bump
<1>12. ASSUME NEW w \in Workers, Budget(w) PROVE Goal
  BY <1>12 DEF Budget
<1>13. ASSUME NEW w \in Workers, SendToDlq(w) PROVE Goal
  BY <1>13 DEF SendToDlq
<1>14. ASSUME NEW w \in Workers, ScheduleRetry(w) PROVE Goal
  BY <1>14 DEF ScheduleRetry
<1>15. ASSUME NEW w \in Workers, Release(w) PROVE Goal
  BY <1>15 DEF Release
<1>16. ASSUME NEW w \in Workers, Crash(w) PROVE Goal
  BY <1>16 DEF Crash
<1>17. ASSUME NEW w \in Workers, Throw(w) PROVE Goal
  BY <1>17 DEF Throw
<1>18. ASSUME NEW w \in Workers, AcquireThrows(w) PROVE Goal
  BY <1>18 DEF AcquireThrows
<1>19. ASSUME NEW w \in Workers, ReleaseThrows(w) PROVE Goal
  BY <1>19 DEF ReleaseThrows
<1>20. ASSUME NEW w \in Workers, ChargeRejected(w) PROVE Goal
  BY <1>20 DEF ChargeRejected
<1>21. ASSUME NEW p \in Payments, Relay(p) PROVE Goal
  BY <1>21 DEF Relay
<1>22. ASSUME NEW p \in Payments, OrphanExpires(p) PROVE Goal
  BY <1>22 DEF OrphanExpires
<1>23. ASSUME NEW p \in Payments, Duplicate(p) PROVE Goal
  BY <1>23 DEF Duplicate
<1>24. ASSUME NEW p \in Payments, Rebalance(p) PROVE Goal
  BY <1>24 DEF Rebalance
<1>25. ASSUME NEW p \in Payments, LeaseLost(p) PROVE Goal
  BY <1>25 DEF LeaseLost
<1>26. ASSUME NEW p \in Payments, Replay(p) PROVE Goal
  BY <1>26 DEF Replay
<1>27. ASSUME NEW w \in Workers, NEW p \in Payments, Deliver(w, p) PROVE Goal
  BY <1>27 DEF Deliver
<1>28. ASSUME NEW h \in Hooks, WebhookInsert(h) PROVE Goal
  BY <1>28 DEF WebhookInsert
<1>29. ASSUME NEW h \in Hooks, WebhookThrow(h) PROVE Goal
  BY <1>29 DEF WebhookThrow
<1>30. ASSUME NEW h \in Hooks, NEW e \in Events, WebhookReceive(h, e)
      PROVE  Goal
  BY <1>30 DEF WebhookReceive
<1>31. CASE UNCHANGED vars
  BY <1>31
<1> QED
  BY <1>1, <1>2, <1>3, <1>4, <1>5, <1>6, <1>7, <1>8, <1>9, <1>10, <1>11,
     <1>12, <1>13, <1>14, <1>15, <1>16, <1>17, <1>18, <1>19, <1>20, <1>21,
     <1>22, <1>23, <1>24, <1>25, <1>26, <1>27, <1>28, <1>29, <1>30, <1>31
  DEF Next, WorkerStep, WorkerDisruption, PaymentStep, HookStep

(* Every step keeps SeenCoherent, because every status change after the    *)
(* creation increments the version.                                        *)
LEMMA SeenCoherentNext ==
  TypeOK /\ SeenCoherent /\ [Next]_vars => SeenCoherent'
<1> SUFFICES ASSUME TypeOK, SeenCoherent, [Next]_vars
             PROVE  SeenCoherent'
  OBVIOUS
<1>1. ASSUME NEW w \in Workers, Promote(w) PROVE SeenCoherent'
  BY <1>1, EventAssumption DEF Promote, UpdateStatus, At, hookVars,
     SeenCoherent, TypeOK, Snapshots
<1>2. ASSUME NEW w \in Workers, Succeed(w) PROVE SeenCoherent'
  BY <1>2, EventAssumption DEF Succeed, Conclude, UpdateStatus, At, hookVars,
     SeenCoherent, TypeOK, Snapshots
<1>3. ASSUME NEW w \in Workers, Decline(w) PROVE SeenCoherent'
  BY <1>3, EventAssumption DEF Decline, Conclude, UpdateStatus, At, hookVars,
     SeenCoherent, TypeOK, Snapshots
<1>4. ASSUME NEW w \in Workers, Exhaust(w) PROVE SeenCoherent'
  BY <1>4, EventAssumption DEF Exhaust, Conclude, UpdateStatus, At, hookVars,
     SeenCoherent, TypeOK, Snapshots
<1>5. ASSUME NEW p \in Payments, Create(p) PROVE SeenCoherent'
  BY <1>5, EventAssumption DEF Create, hookVars, SeenCoherent, TypeOK
<1>6. ASSUME NEW h \in Hooks, WebhookInsert(h) PROVE SeenCoherent'
  <2>1. CASE HookRests(h)
    BY <1>6, <2>1 DEF WebhookInsert, HookRests, payVars, SeenCoherent, TypeOK
  <2>2. CASE /\ seen' = [seen EXCEPT ![h] =
                           [status  |-> status[EventPayment[hevent[h]]],
                            version |-> version[EventPayment[hevent[h]]]]]
             /\ UNCHANGED hevent
    <3>1. EventPayment[hevent[h]] \in Payments
      BY <1>6, EventAssumption DEF WebhookInsert, TypeOK
    <3>2. /\ seen'[h].status = status[EventPayment[hevent[h]]]
          /\ seen'[h].version = version[EventPayment[hevent[h]]]
          /\ version[EventPayment[hevent[h]]] \in Nat
      BY <2>2, <3>1 DEF TypeOK
    <3>3. /\ UNCHANGED <<status, version>>
          /\ \A g \in Hooks : g # h => hpc'[g] = hpc[g] /\ seen'[g] = seen[g]
      BY <1>6, <2>2 DEF WebhookInsert, HookRests, payVars, TypeOK
    <3> QED
      BY <2>2, <3>2, <3>3 DEF SeenCoherent
  <2> QED
    BY <1>6, <2>1, <2>2 DEF WebhookInsert
<1>7. ASSUME NEW h \in Hooks, WebhookCommit(h) PROVE SeenCoherent'
  <2> DEFINE p == EventPayment[hevent[h]]
             s == EventStatus[hevent[h]]
  <2>1. p \in Payments /\ s \in Terminal
    BY <1>7, EventAssumption DEF WebhookCommit, TypeOK
  <2>2. \A g \in Hooks : hpc'[g] = "decide" =>
          hpc[g] = "decide" /\ seen'[g] = seen[g] /\ hevent'[g] = hevent[g]
    BY <1>7 DEF WebhookCommit, HookRests, TypeOK
  <2>3. \A g \in Hooks : hpc[g] = "decide" =>
          EventPayment[hevent[g]] \in Payments /\ seen[g].version \in Nat
    BY EventAssumption DEF TypeOK, Snapshots
  <2>4. CASE UNCHANGED <<status, version, failureReason, emitted>>
    BY <2>2, <2>4 DEF SeenCoherent
  <2>5. CASE UpdateStatus(p, s, WebhookReason(s))
    BY <2>1, <2>2, <2>3, <2>5 DEF UpdateStatus, SeenCoherent, TypeOK, Terminal
  <2> QED
    BY <1>7, <2>4, <2>5 DEF WebhookCommit
<1>8. ASSUME NEW h \in Hooks, WebhookThrow(h) PROVE SeenCoherent'
  BY <1>8 DEF WebhookThrow, HookRests, payVars, SeenCoherent, TypeOK
<1>9. ASSUME NEW h \in Hooks, NEW e \in Events, WebhookReceive(h, e)
      PROVE  SeenCoherent'
  BY <1>9 DEF WebhookReceive, payVars, SeenCoherent, TypeOK
<1> USE DEF payVars, hookVars, SeenCoherent, vars, kafkaVars, gateVars, faultVars
<1>10. ASSUME NEW w \in Workers, AcquireLock(w) PROVE SeenCoherent'
  BY <1>10 DEF AcquireLock
<1>11. ASSUME NEW w \in Workers, LockContention(w) PROVE SeenCoherent'
  BY <1>11 DEF LockContention
<1>12. ASSUME NEW w \in Workers, Recheck(w) PROVE SeenCoherent'
  BY <1>12 DEF Recheck
<1>13. ASSUME NEW w \in Workers, Charge(w) PROVE SeenCoherent'
  BY <1>13 DEF Charge
<1>14. ASSUME NEW w \in Workers, Bump(w) PROVE SeenCoherent'
  BY <1>14 DEF Bump
<1>15. ASSUME NEW w \in Workers, Budget(w) PROVE SeenCoherent'
  BY <1>15 DEF Budget
<1>16. ASSUME NEW w \in Workers, SendToDlq(w) PROVE SeenCoherent'
  BY <1>16 DEF SendToDlq
<1>17. ASSUME NEW w \in Workers, ScheduleRetry(w) PROVE SeenCoherent'
  BY <1>17 DEF ScheduleRetry
<1>18. ASSUME NEW w \in Workers, Release(w) PROVE SeenCoherent'
  BY <1>18 DEF Release
<1>19. ASSUME NEW w \in Workers, Crash(w) PROVE SeenCoherent'
  BY <1>19 DEF Crash
<1>20. ASSUME NEW w \in Workers, Throw(w) PROVE SeenCoherent'
  BY <1>20 DEF Throw
<1>21. ASSUME NEW w \in Workers, AcquireThrows(w) PROVE SeenCoherent'
  BY <1>21 DEF AcquireThrows
<1>22. ASSUME NEW w \in Workers, ReleaseThrows(w) PROVE SeenCoherent'
  BY <1>22 DEF ReleaseThrows
<1>23. ASSUME NEW w \in Workers, ChargeRejected(w) PROVE SeenCoherent'
  BY <1>23 DEF ChargeRejected
<1>24. ASSUME NEW p \in Payments, Relay(p) PROVE SeenCoherent'
  BY <1>24 DEF Relay
<1>25. ASSUME NEW p \in Payments, OrphanExpires(p) PROVE SeenCoherent'
  BY <1>25 DEF OrphanExpires
<1>26. ASSUME NEW p \in Payments, Duplicate(p) PROVE SeenCoherent'
  BY <1>26 DEF Duplicate
<1>27. ASSUME NEW p \in Payments, Rebalance(p) PROVE SeenCoherent'
  BY <1>27 DEF Rebalance
<1>28. ASSUME NEW p \in Payments, LeaseLost(p) PROVE SeenCoherent'
  BY <1>28 DEF LeaseLost
<1>29. ASSUME NEW p \in Payments, Replay(p) PROVE SeenCoherent'
  BY <1>29 DEF Replay
<1>30. ASSUME NEW w \in Workers, NEW p \in Payments, Deliver(w, p)
      PROVE  SeenCoherent'
  BY <1>30 DEF Deliver
<1>31. CASE UNCHANGED vars
  BY <1>31
<1> QED
  BY <1>1, <1>2, <1>3, <1>4, <1>5, <1>6, <1>7, <1>8, <1>9, <1>10, <1>11,
     <1>12, <1>13, <1>14, <1>15, <1>16, <1>17, <1>18, <1>19, <1>20, <1>21,
     <1>22, <1>23, <1>24, <1>25, <1>26, <1>27, <1>28, <1>29, <1>30, <1>31
  DEF Next, WorkerStep, WorkerDisruption, PaymentStep, HookStep

-----------------------------------------------------------------------------
(* Messages.                                                               *)

(* Every step keeps WorkInProgress.                                        *)
LEMMA WorkInProgressNext ==
  TypeOK /\ Ownership /\ WorkInProgress /\ [Next]_vars => WorkInProgress'
<1> SUFFICES ASSUME TypeOK, Ownership, WorkInProgress, [Next]_vars
             PROVE  WorkInProgress'
  OBVIOUS
<1> USE SentinelAssumption
<1>1. ASSUME NEW w \in Workers, ScheduleRetry(w) PROVE WorkInProgress'
  <2>1. job[w] \in Payments /\ pc[w] = "schedule" /\ w # NoWorker
    BY <1>1 DEF ScheduleRetry, At, TypeOK
  <2>2. consumer[job[w]] = w => initiated[job[w]] >= 1
    BY <2>1 DEF Ownership
  <2>3. /\ UNCHANGED <<status, initiated, dlq, consumer, job>>
        /\ pc' = [pc EXCEPT ![w] = "ack"]
        /\ retries'[job[w]] = retries[job[w]] + 1
        /\ \A q \in Payments : q # job[w] => retries'[q] = retries[q]
    BY <1>1, <2>1 DEF ScheduleRetry, Goto, payVars, TypeOK
  <2>4. \A q \in Payments : initiated'[q] + retries'[q] + dlq'[q] > 0
                           => status'[q] # "ABSENT"
    BY <2>1, <2>3 DEF WorkInProgress, TypeOK
  <2>5. consumer[job[w]] = w => initiated'[job[w]] + retries'[job[w]] >= 2
    BY <2>1, <2>2, <2>3 DEF TypeOK
  <2>6. \A v \in Workers :
          /\ pc'[v] # "idle" => status'[job'[v]] # "ABSENT"
          /\ pc'[v] \in Taken => status'[job'[v]] # "PENDING"
          /\ pc'[v] = "dlq" => isTerminal(status'[job'[v]])
          /\ pc'[v] = "ack" /\ consumer'[job'[v]] = v /\ ~isTerminal(status'[job'[v]])
               => initiated'[job'[v]] + retries'[job'[v]] >= 2
    <3> SUFFICES ASSUME NEW v \in Workers
                 PROVE  /\ pc'[v] # "idle" => status'[job'[v]] # "ABSENT"
                        /\ pc'[v] \in Taken => status'[job'[v]] # "PENDING"
                        /\ pc'[v] = "dlq" => isTerminal(status'[job'[v]])
                        /\ /\ pc'[v] = "ack" /\ consumer'[job'[v]] = v
                           /\ ~isTerminal(status'[job'[v]])
                           => initiated'[job'[v]] + retries'[job'[v]] >= 2
      OBVIOUS
    <3>1. CASE v = w
      BY <2>1, <2>3, <2>5, <3>1 DEF WorkInProgress, Taken, TypeOK
    <3>2. CASE v # w
      <4>1. pc'[v] = pc[v] /\ job'[v] = job[v]
        BY <2>3, <3>2 DEF TypeOK
      <4>2. pc[v] = "ack" => /\ job[v] \in Payments
                            /\ retries'[job[v]] >= retries[job[v]]
                            /\ retries'[job[v]] \in Nat /\ retries[job[v]] \in Nat
                            /\ initiated[job[v]] \in Nat
        BY <2>1, <2>3 DEF TypeOK
      <4> QED
        BY <2>3, <4>1, <4>2 DEF WorkInProgress, Settled
    <3> QED
      BY <3>1, <3>2
  <2> QED
    BY <2>4, <2>6 DEF WorkInProgress, Settled
<1>2. ASSUME NEW h \in Hooks, WebhookCommit(h) PROVE WorkInProgress'
  <2> DEFINE p == EventPayment[hevent[h]]
             s == EventStatus[hevent[h]]
  <2>1. p \in Payments /\ s \in Terminal
    BY <1>2, EventAssumption DEF WebhookCommit, TypeOK
  <2>2. UNCHANGED <<initiated, retries, dlq, consumer, pc, job>>
    BY <1>2 DEF WebhookCommit, kafkaVars
  <2>3. CASE UNCHANGED <<status, version, failureReason, emitted>>
    BY <2>2, <2>3 DEF WorkInProgress, Settled, isTerminal
  <2>4. CASE UpdateStatus(p, s, WebhookReason(s))
    <3>1. status'[p] \in Terminal /\ \A q \in Payments : q # p => status'[q] = status[q]
      BY <2>1, <2>4 DEF UpdateStatus, TypeOK
    <3> QED
      BY <2>1, <2>2, <3>1 DEF WorkInProgress, Settled, isTerminal, Terminal,
         Taken, TypeOK
  <2> QED
    BY <1>2, <2>3, <2>4 DEF WebhookCommit
<1> USE DEF Goto, Rest, Relinquish, Abandon, Disrupt, At, payVars, kafkaVars,
        TypeOK, WorkInProgress, Taken, Settled, isTerminal, Terminal,
        PaymentStatus, Fallible, Critical, WorkerSteps, Conclude,
        UpdateStatus, vars, hookVars, gateVars, faultVars
<1>3. ASSUME NEW w \in Workers, AcquireLock(w) PROVE WorkInProgress'
  BY <1>3 DEF AcquireLock
<1>4. ASSUME NEW w \in Workers, LockContention(w) PROVE WorkInProgress'
  BY <1>4 DEF LockContention
<1>5. ASSUME NEW w \in Workers, Promote(w) PROVE WorkInProgress'
  BY <1>5 DEF Promote
<1>6. ASSUME NEW w \in Workers, Recheck(w) PROVE WorkInProgress'
  BY <1>6 DEF Recheck
<1>7. ASSUME NEW w \in Workers, Charge(w) PROVE WorkInProgress'
  BY <1>7 DEF Charge
<1>8. ASSUME NEW w \in Workers, Succeed(w) PROVE WorkInProgress'
  BY <1>8 DEF Succeed
<1>9. ASSUME NEW w \in Workers, Decline(w) PROVE WorkInProgress'
  BY <1>9 DEF Decline
<1>10. ASSUME NEW w \in Workers, Bump(w) PROVE WorkInProgress'
  BY <1>10 DEF Bump
<1>11. ASSUME NEW w \in Workers, Budget(w) PROVE WorkInProgress'
  BY <1>11 DEF Budget
<1>12. ASSUME NEW w \in Workers, Exhaust(w) PROVE WorkInProgress'
  BY <1>12 DEF Exhaust
<1>13. ASSUME NEW w \in Workers, SendToDlq(w) PROVE WorkInProgress'
  BY <1>13 DEF SendToDlq
<1>14. ASSUME NEW w \in Workers, Release(w) PROVE WorkInProgress'
  BY <1>14 DEF Release
<1>15. ASSUME NEW w \in Workers, Crash(w) PROVE WorkInProgress'
  BY <1>15 DEF Crash
<1>16. ASSUME NEW w \in Workers, Throw(w) PROVE WorkInProgress'
  BY <1>16 DEF Throw
<1>17. ASSUME NEW w \in Workers, AcquireThrows(w) PROVE WorkInProgress'
  BY <1>17 DEF AcquireThrows
<1>18. ASSUME NEW w \in Workers, ReleaseThrows(w) PROVE WorkInProgress'
  BY <1>18 DEF ReleaseThrows
<1>19. ASSUME NEW w \in Workers, ChargeRejected(w) PROVE WorkInProgress'
  BY <1>19 DEF ChargeRejected
<1>20. ASSUME NEW p \in Payments, Create(p) PROVE WorkInProgress'
  BY <1>20 DEF Create
<1>21. ASSUME NEW p \in Payments, Relay(p) PROVE WorkInProgress'
  BY <1>21 DEF Relay
<1>22. ASSUME NEW p \in Payments, OrphanExpires(p) PROVE WorkInProgress'
  BY <1>22 DEF OrphanExpires
<1>23. ASSUME NEW p \in Payments, Duplicate(p) PROVE WorkInProgress'
  BY <1>23 DEF Duplicate
<1>24. ASSUME NEW p \in Payments, Rebalance(p) PROVE WorkInProgress'
  BY <1>24 DEF Rebalance
<1>25. ASSUME NEW p \in Payments, LeaseLost(p) PROVE WorkInProgress'
  BY <1>25 DEF LeaseLost
<1>26. ASSUME NEW p \in Payments, Replay(p) PROVE WorkInProgress'
  BY <1>26 DEF Replay
<1>27. ASSUME NEW w \in Workers, NEW p \in Payments, Deliver(w, p)
      PROVE  WorkInProgress'
  BY <1>27 DEF Deliver
<1>28. ASSUME NEW h \in Hooks, WebhookInsert(h) PROVE WorkInProgress'
  BY <1>28 DEF WebhookInsert
<1>29. ASSUME NEW h \in Hooks, WebhookThrow(h) PROVE WorkInProgress'
  BY <1>29 DEF WebhookThrow
<1>30. ASSUME NEW h \in Hooks, NEW e \in Events, WebhookReceive(h, e)
      PROVE  WorkInProgress'
  BY <1>30 DEF WebhookReceive
<1>31. CASE UNCHANGED vars
  BY <1>31
<1> QED
  BY <1>1, <1>2, <1>3, <1>4, <1>5, <1>6, <1>7, <1>8, <1>9, <1>10, <1>11,
     <1>12, <1>13, <1>14, <1>15, <1>16, <1>17, <1>18, <1>19, <1>20, <1>21,
     <1>22, <1>23, <1>24, <1>25, <1>26, <1>27, <1>28, <1>29, <1>30, <1>31
  DEF Next, WorkerStep, WorkerDisruption, PaymentStep, HookStep

(* Every step keeps NeverStranded.  Only Release takes a message away, and *)
(* WorkInProgress says that either the payment is settled or another       *)
(* message is left.                                                        *)
LEMMA NeverStrandedNext ==
  TypeOK /\ Ownership /\ WorkInProgress /\ NeverStranded /\ [Next]_vars => NeverStranded'
<1> SUFFICES ASSUME TypeOK, Ownership, WorkInProgress, NeverStranded, [Next]_vars
             PROVE  NeverStranded'
  OBVIOUS
<1> USE SentinelAssumption
<1>1. ASSUME NEW w \in Workers, Release(w) PROVE NeverStranded'
  <2>1. job[w] \in Payments /\ w # NoWorker
    BY <1>1 DEF Release, TypeOK
  <2>2. UNCHANGED <<status, retries>>
    BY <1>1 DEF Release, payVars
  <2>3. \A q \in Payments : q # job[w] => initiated'[q] = initiated[q]
    BY <1>1, <2>1 DEF Release, TypeOK
  <2>4. CASE At(w, "ack") /\ consumer[job[w]] = w
    <3>1. initiated'[job[w]] = initiated[job[w]] - 1
      BY <1>1, <2>1, <2>4 DEF Release, TypeOK
    <3>2. ~Settled(job[w]) => initiated[job[w]] + retries[job[w]] >= 2
      BY <2>4 DEF At, WorkInProgress
    <3>3. /\ initiated[job[w]] \in Nat /\ retries[job[w]] \in Nat
          /\ status[job[w]] \in {"PENDING", "PROCESSING"} => ~Settled(job[w])
      BY <2>1 DEF Settled, isTerminal, Terminal, TypeOK
    <3>4. status[job[w]] \in {"PENDING", "PROCESSING"}
          => initiated'[job[w]] + retries[job[w]] > 0
      BY <3>1, <3>2, <3>3
    <3> QED
      BY <2>2, <2>3, <3>4 DEF NeverStranded
  <2>5. CASE ~(At(w, "ack") /\ consumer[job[w]] = w)
    <3>1. initiated' = initiated
      BY <1>1, <2>1, <2>5 DEF Release, TypeOK
    <3> QED
      BY <2>2, <3>1 DEF NeverStranded
  <2> QED
    BY <2>4, <2>5
<1>2. ASSUME NEW h \in Hooks, WebhookCommit(h) PROVE NeverStranded'
  <2> DEFINE p == EventPayment[hevent[h]]
             s == EventStatus[hevent[h]]
  <2>1. p \in Payments /\ s \in Terminal
    BY <1>2, EventAssumption DEF WebhookCommit, TypeOK
  <2>2. UNCHANGED <<initiated, retries, dlq, consumer, pc, job>>
    BY <1>2 DEF WebhookCommit, kafkaVars
  <2>3. CASE UNCHANGED <<status, version, failureReason, emitted>>
    BY <2>2, <2>3 DEF NeverStranded
  <2>4. CASE UpdateStatus(p, s, WebhookReason(s))
    <3>1. status'[p] \in Terminal /\ \A q \in Payments : q # p => status'[q] = status[q]
      BY <2>1, <2>4 DEF UpdateStatus, TypeOK
    <3> QED
      BY <2>1, <2>2, <3>1 DEF NeverStranded, Terminal
  <2> QED
    BY <1>2, <2>3, <2>4 DEF WebhookCommit
<1> USE DEF Goto, Rest, Relinquish, Abandon, Disrupt, At, payVars, kafkaVars,
        TypeOK, NeverStranded, PaymentStatus, Terminal, Conclude,
        UpdateStatus, vars, hookVars, gateVars, faultVars
<1>3. ASSUME NEW w \in Workers, AcquireLock(w) PROVE NeverStranded'
  BY <1>3 DEF AcquireLock
<1>4. ASSUME NEW w \in Workers, LockContention(w) PROVE NeverStranded'
  BY <1>4 DEF LockContention
<1>5. ASSUME NEW w \in Workers, Promote(w) PROVE NeverStranded'
  BY <1>5 DEF Promote
<1>6. ASSUME NEW w \in Workers, Recheck(w) PROVE NeverStranded'
  BY <1>6 DEF Recheck
<1>7. ASSUME NEW w \in Workers, Charge(w) PROVE NeverStranded'
  BY <1>7 DEF Charge
<1>8. ASSUME NEW w \in Workers, Succeed(w) PROVE NeverStranded'
  BY <1>8 DEF Succeed
<1>9. ASSUME NEW w \in Workers, Decline(w) PROVE NeverStranded'
  BY <1>9 DEF Decline
<1>10. ASSUME NEW w \in Workers, Bump(w) PROVE NeverStranded'
  BY <1>10 DEF Bump
<1>11. ASSUME NEW w \in Workers, Budget(w) PROVE NeverStranded'
  BY <1>11 DEF Budget
<1>12. ASSUME NEW w \in Workers, Exhaust(w) PROVE NeverStranded'
  BY <1>12 DEF Exhaust
<1>13. ASSUME NEW w \in Workers, SendToDlq(w) PROVE NeverStranded'
  BY <1>13 DEF SendToDlq
<1>14. ASSUME NEW w \in Workers, ScheduleRetry(w) PROVE NeverStranded'
  BY <1>14 DEF ScheduleRetry
<1>15. ASSUME NEW w \in Workers, Crash(w) PROVE NeverStranded'
  BY <1>15 DEF Crash
<1>16. ASSUME NEW w \in Workers, Throw(w) PROVE NeverStranded'
  BY <1>16 DEF Throw
<1>17. ASSUME NEW w \in Workers, AcquireThrows(w) PROVE NeverStranded'
  BY <1>17 DEF AcquireThrows
<1>18. ASSUME NEW w \in Workers, ReleaseThrows(w) PROVE NeverStranded'
  BY <1>18 DEF ReleaseThrows
<1>19. ASSUME NEW w \in Workers, ChargeRejected(w) PROVE NeverStranded'
  BY <1>19 DEF ChargeRejected
<1>20. ASSUME NEW p \in Payments, Create(p) PROVE NeverStranded'
  BY <1>20 DEF Create
<1>21. ASSUME NEW p \in Payments, Relay(p) PROVE NeverStranded'
  BY <1>21 DEF Relay
<1>22. ASSUME NEW p \in Payments, OrphanExpires(p) PROVE NeverStranded'
  BY <1>22 DEF OrphanExpires
<1>23. ASSUME NEW p \in Payments, Duplicate(p) PROVE NeverStranded'
  BY <1>23 DEF Duplicate
<1>24. ASSUME NEW p \in Payments, Rebalance(p) PROVE NeverStranded'
  BY <1>24 DEF Rebalance
<1>25. ASSUME NEW p \in Payments, LeaseLost(p) PROVE NeverStranded'
  BY <1>25 DEF LeaseLost
<1>26. ASSUME NEW p \in Payments, Replay(p) PROVE NeverStranded'
  BY <1>26 DEF Replay
<1>27. ASSUME NEW w \in Workers, NEW p \in Payments, Deliver(w, p)
      PROVE  NeverStranded'
  BY <1>27 DEF Deliver
<1>28. ASSUME NEW h \in Hooks, WebhookInsert(h) PROVE NeverStranded'
  BY <1>28 DEF WebhookInsert
<1>29. ASSUME NEW h \in Hooks, WebhookThrow(h) PROVE NeverStranded'
  BY <1>29 DEF WebhookThrow
<1>30. ASSUME NEW h \in Hooks, NEW e \in Events, WebhookReceive(h, e)
      PROVE  NeverStranded'
  BY <1>30 DEF WebhookReceive
<1>31. CASE UNCHANGED vars
  BY <1>31
<1> QED
  BY <1>1, <1>2, <1>3, <1>4, <1>5, <1>6, <1>7, <1>8, <1>9, <1>10, <1>11,
     <1>12, <1>13, <1>14, <1>15, <1>16, <1>17, <1>18, <1>19, <1>20, <1>21,
     <1>22, <1>23, <1>24, <1>25, <1>26, <1>27, <1>28, <1>29, <1>30, <1>31
  DEF Next, WorkerStep, WorkerDisruption, PaymentStep, HookStep

-----------------------------------------------------------------------------
(* Captures.                                                               *)

(* A lock has one holder.                                                  *)
LEMMA LockExcludes == TypeOK /\ LockHeld => MutualExclusion
  BY DEF TypeOK, LockHeld, MutualExclusion

(* What has gone wrong is not forgotten.                                   *)
LEMMA SufferedGrows == [Next]_vars => suffered \subseteq suffered'
<1> SUFFICES ASSUME [Next]_vars PROVE suffered \subseteq suffered'
  OBVIOUS
<1> USE DEF Disrupt, faultVars, vars
<1>1. ASSUME NEW w \in Workers, WorkerStep(w) PROVE suffered' = suffered
  BY <1>1 DEF WorkerStep, AcquireLock, LockContention, Promote, Recheck,
     Charge, Succeed, Decline, Bump, Budget, Exhaust, SendToDlq,
     ScheduleRetry, Release
<1>2. ASSUME NEW w \in Workers, WorkerDisruption(w)
      PROVE  suffered \subseteq suffered'
  BY <1>2 DEF WorkerDisruption, Crash, Throw, AcquireThrows, ReleaseThrows,
     ChargeRejected
<1>3. ASSUME NEW p \in Payments, PaymentStep(p)
      PROVE  suffered \subseteq suffered'
  BY <1>3 DEF PaymentStep, Create, Relay, OrphanExpires, Duplicate,
     Rebalance, LeaseLost, Replay, Deliver
<1>4. ASSUME NEW h \in Hooks, HookStep(h) PROVE suffered \subseteq suffered'
  BY <1>4 DEF HookStep, WebhookInsert, WebhookCommit, WebhookThrow,
     WebhookReceive
<1> QED
  BY <1>1, <1>2, <1>3, <1>4 DEF Next

(* Steps that capture nothing and start no call to the gateway keep the    *)
(* capture facts, if a worker that has captured either still holds the     *)
(* answer or has seen the payment settled.                                 *)
LEMMA CaptureFrame ==
  ASSUME ChargedAtMostOnce, CaptureKept, UNCHANGED captures,
         Gentle' => Gentle,
         \A p \in Payments : Settled(p) => isTerminal(status'[p]),
         \A w \in Workers :
           pc'[w] = "charge" => pc[w] = "charge" /\ job'[w] = job[w],
         \A w \in Workers :
           pc[w] = "succeed" => \/ pc'[w] = "succeed" /\ job'[w] = job[w]
                               \/ isTerminal(status'[job[w]])
  PROVE  (ChargedAtMostOnce /\ CaptureKept)'
  BY DEF ChargedAtMostOnce, CaptureKept, Settled

(* Every step keeps the capture facts.  Recheck and Charge are the steps   *)
(* that need the lock.                                                     *)
LEMMA CaptureNext ==
  /\ TypeOK /\ LockHeld /\ WorkInProgress /\ ChargedAtMostOnce /\ CaptureKept
  /\ [Next]_vars
  => (ChargedAtMostOnce /\ CaptureKept)'
<1> SUFFICES ASSUME TypeOK, LockHeld, WorkInProgress, ChargedAtMostOnce,
                    CaptureKept, [Next]_vars
             PROVE  (ChargedAtMostOnce /\ CaptureKept)'
  OBVIOUS
<1> DEFINE Goal == (ChargedAtMostOnce /\ CaptureKept)'
<1>0. Gentle' => Gentle
  BY SufferedGrows DEF Gentle
<1>1. ASSUME NEW w \in Workers, Recheck(w) PROVE Goal
  <2>1. /\ pc[w] = "recheck" /\ job[w] \in Payments
        /\ UNCHANGED <<status, captures, job>>
        /\ \A v \in Workers : v # w => pc'[v] = pc[v]
        /\ pc'[w] = IF status[job[w]] = "PROCESSING" THEN "charge" ELSE "ack"
    BY <1>1 DEF Recheck, Goto, At, payVars, gateVars, faultVars, TypeOK
  <2> SUFFICES ASSUME Gentle, Gentle' PROVE (ChargedAtMostOnce /\ CaptureKept)'
    BY <1>0 DEF ChargedAtMostOnce, CaptureKept
  <2>2. ASSUME pc'[w] = "charge", captures[job[w]] # 0
        PROVE  FALSE
    <3>1. captures[job[w]] > 0 /\ ~Settled(job[w])
      BY <2>1, <2>2 DEF Settled, isTerminal, Terminal, TypeOK
    <3>2. PICK v \in Workers : pc[v] = "succeed" /\ job[v] = job[w]
      BY <2>1, <3>1 DEF CaptureKept
    <3>3. pc[v] \in Critical /\ pc[w] \in Critical /\ "lease" \notin suffered
      BY <2>1, <3>2 DEF Critical, WorkerSteps, Gentle
    <3> QED
      BY <2>1, <3>2, <3>3, LockExcludes DEF MutualExclusion
  <2> QED
    BY <2>1, <2>2 DEF ChargedAtMostOnce, CaptureKept, Settled
<1>2. ASSUME NEW w \in Workers, Charge(w) PROVE Goal
  <2>1. pc[w] = "charge" /\ job[w] \in Payments /\ UNCHANGED <<status, job>>
    BY <1>2 DEF Charge, Goto, At, payVars, TypeOK
  <2>2. PICK reply \in {"succeed", "decline", "bump"} :
          /\ captures' = [captures EXCEPT ![job[w]] = @ + One(reply = "succeed")]
          /\ Goto(w, reply)
    BY <1>2 DEF Charge
  <2>3. /\ pc'[w] = reply
        /\ \A v \in Workers : v # w => pc'[v] = pc[v]
        /\ captures'[job[w]] = captures[job[w]] + One(reply = "succeed")
        /\ \A p \in Payments : p # job[w] => captures'[p] = captures[p]
    BY <2>1, <2>2 DEF Goto, TypeOK
  <2> SUFFICES ASSUME Gentle, Gentle' PROVE (ChargedAtMostOnce /\ CaptureKept)'
    BY <1>0 DEF ChargedAtMostOnce, CaptureKept
  <2>4. captures[job[w]] = 0
    BY <2>1 DEF CaptureKept
  <2>5. ChargedAtMostOnce'
    BY <2>1, <2>3, <2>4 DEF ChargedAtMostOnce, One
  <2>6. ASSUME NEW p \in Payments, captures'[p] > 0, ~isTerminal(status'[p])
        PROVE  \E v \in Workers : pc'[v] = "succeed" /\ job'[v] = p
    <3>1. CASE p = job[w]
      BY <2>1, <2>3, <2>4, <2>6, <3>1 DEF One
    <3>2. CASE p # job[w]
      <4>1. PICK v \in Workers : pc[v] = "succeed" /\ job[v] = p
        BY <2>1, <2>3, <2>6, <3>2 DEF CaptureKept, Settled
      <4> QED
        BY <2>1, <2>3, <4>1
    <3> QED
      BY <3>1, <3>2
  <2>7. ASSUME NEW v \in Workers, pc'[v] = "charge"
        PROVE  captures'[job'[v]] = 0
    <3>1. v # w /\ pc[v] = "charge" /\ job[v] \in Payments
      BY <2>3, <2>7 DEF TypeOK
    <3>2. pc[v] \in Critical /\ pc[w] \in Critical /\ "lease" \notin suffered
      BY <2>1, <3>1 DEF Critical, WorkerSteps, Gentle
    <3>3. job[v] # job[w]
      BY <3>1, <3>2, LockExcludes DEF MutualExclusion
    <3> QED
      BY <2>1, <2>3, <3>1, <3>3 DEF CaptureKept
  <2> QED
    BY <2>5, <2>6, <2>7 DEF CaptureKept, Settled
<1>3. ASSUME NEW w \in Workers, Succeed(w) PROVE Goal
  <2>1. pc[w] = "succeed" /\ job[w] \in Payments /\ UNCHANGED <<captures, job>>
    BY <1>3 DEF Succeed, Goto, At, gateVars, faultVars, TypeOK
  <2>2. \A p \in Payments : Settled(p) => isTerminal(status'[p])
    BY <1>3, <2>1 DEF Succeed, Conclude, UpdateStatus, Settled, isTerminal,
       Terminal, TypeOK
  <2>3. \A v \in Workers : v # w => pc'[v] = pc[v]
    BY <1>3 DEF Succeed, Goto, TypeOK
  <2>4. pc'[w] \notin {"charge", "succeed"}
    BY <1>3, <2>1 DEF Succeed, Goto, TypeOK
  <2>5. isTerminal(status'[job[w]])
    <3>1. status[job[w]] \in {"PROCESSING"} \cup Terminal
      BY <2>1 DEF WorkInProgress, Taken, PaymentStatus, Terminal, TypeOK
    <3> QED
      BY <1>3, <2>1, <3>1 DEF Succeed, Conclude, UpdateStatus, isTerminal,
         Terminal, TypeOK
  <2> QED
    BY <2>1, <2>2, <2>3, <2>4, <2>5, <1>0, CaptureFrame
<1>4. ASSUME NEW w \in Workers, Decline(w) PROVE Goal
  <2>1. pc[w] = "decline" /\ job[w] \in Payments /\ UNCHANGED <<captures, job>>
    BY <1>4 DEF Decline, Goto, At, gateVars, faultVars, TypeOK
  <2>2. \A p \in Payments : Settled(p) => isTerminal(status'[p])
    BY <1>4, <2>1 DEF Decline, Conclude, UpdateStatus, Settled, isTerminal,
       Terminal, TypeOK
  <2>3. \A v \in Workers : v # w => pc'[v] = pc[v]
    BY <1>4 DEF Decline, Goto, TypeOK
  <2>4. pc'[w] \notin {"charge", "succeed"}
    BY <1>4, <2>1 DEF Decline, Goto, TypeOK
  <2> QED
    BY <2>1, <2>2, <2>3, <2>4, <1>0, CaptureFrame
<1>5. ASSUME NEW w \in Workers, Exhaust(w) PROVE Goal
  <2>1. pc[w] = "exhaust" /\ job[w] \in Payments /\ UNCHANGED <<captures, job>>
    BY <1>5 DEF Exhaust, Goto, At, gateVars, faultVars, TypeOK
  <2>2. \A p \in Payments : Settled(p) => isTerminal(status'[p])
    BY <1>5, <2>1 DEF Exhaust, Conclude, UpdateStatus, Settled, isTerminal,
       Terminal, TypeOK
  <2>3. \A v \in Workers : v # w => pc'[v] = pc[v]
    BY <1>5 DEF Exhaust, Goto, TypeOK
  <2>4. pc'[w] \notin {"charge", "succeed"}
    BY <1>5, <2>1 DEF Exhaust, Goto, TypeOK
  <2> QED
    BY <2>1, <2>2, <2>3, <2>4, <1>0, CaptureFrame
<1>6. ASSUME NEW w \in Workers, Crash(w) PROVE Goal
  BY <1>6 DEF Crash, Disrupt, Gentle, CaptureKept,
     ChargedAtMostOnce
<1>7. ASSUME NEW w \in Workers, Throw(w) PROVE Goal
  BY <1>7 DEF Throw, Disrupt, Gentle, CaptureKept,
     ChargedAtMostOnce
<1>8. ASSUME NEW w \in Workers, AcquireThrows(w) PROVE Goal
  BY <1>8 DEF AcquireThrows, Disrupt, Gentle, CaptureKept,
     ChargedAtMostOnce
<1>9. ASSUME NEW w \in Workers, ReleaseThrows(w) PROVE Goal
  BY <1>9 DEF ReleaseThrows, Disrupt, Gentle, CaptureKept,
     ChargedAtMostOnce
<1>10. ASSUME NEW w \in Workers, ChargeRejected(w) PROVE Goal
  BY <1>10 DEF ChargeRejected, Disrupt, Gentle, CaptureKept,
     ChargedAtMostOnce
<1>11. ASSUME NEW p \in Payments, LeaseLost(p) PROVE Goal
  BY <1>11 DEF LeaseLost, Disrupt, Gentle, CaptureKept,
     ChargedAtMostOnce
<1>12. ASSUME NEW h \in Hooks, WebhookCommit(h) PROVE Goal
  <2>1. /\ EventPayment[hevent[h]] \in Payments
        /\ EventStatus[hevent[h]] \in Terminal
    BY <1>12, EventAssumption DEF WebhookCommit, TypeOK
  <2>2. \A p \in Payments : Settled(p) => isTerminal(status'[p])
    <3>1. CASE UNCHANGED status
      BY <3>1 DEF Settled
    <3>2. CASE UpdateStatus(EventPayment[hevent[h]], EventStatus[hevent[h]],
                            WebhookReason(EventStatus[hevent[h]]))
      BY <2>1, <3>2 DEF UpdateStatus, Settled, isTerminal, TypeOK
    <3> QED
      BY <1>12, <3>1, <3>2 DEF WebhookCommit
  <2>3. UNCHANGED <<captures, pc, job>>
    BY <1>12 DEF WebhookCommit, gateVars, faultVars
  <2> QED
    BY <2>2, <2>3, <1>0, CaptureFrame
<1> USE DEF Goto, Rest, Disrupt, At, payVars, gateVars, faultVars, TypeOK, CaptureKept,
        ChargedAtMostOnce, Settled, isTerminal, Terminal, Conclude,
        UpdateStatus, vars, kafkaVars, hookVars
<1>13. ASSUME NEW w \in Workers, AcquireLock(w) PROVE Goal
  BY <1>13, <1>0 DEF AcquireLock
<1>14. ASSUME NEW w \in Workers, LockContention(w) PROVE Goal
  BY <1>14, <1>0 DEF LockContention
<1>15. ASSUME NEW w \in Workers, Promote(w) PROVE Goal
  BY <1>15, <1>0 DEF Promote
<1>16. ASSUME NEW w \in Workers, Bump(w) PROVE Goal
  BY <1>16, <1>0 DEF Bump
<1>17. ASSUME NEW w \in Workers, Budget(w) PROVE Goal
  BY <1>17, <1>0 DEF Budget
<1>18. ASSUME NEW w \in Workers, SendToDlq(w) PROVE Goal
  BY <1>18, <1>0 DEF SendToDlq
<1>19. ASSUME NEW w \in Workers, ScheduleRetry(w) PROVE Goal
  BY <1>19, <1>0 DEF ScheduleRetry
<1>20. ASSUME NEW w \in Workers, Release(w) PROVE Goal
  BY <1>20, <1>0 DEF Release
<1>21. ASSUME NEW p \in Payments, Create(p) PROVE Goal
  BY <1>21, <1>0 DEF Create
<1>22. ASSUME NEW p \in Payments, Relay(p) PROVE Goal
  BY <1>22, <1>0 DEF Relay
<1>23. ASSUME NEW p \in Payments, OrphanExpires(p) PROVE Goal
  BY <1>23, <1>0 DEF OrphanExpires
<1>24. ASSUME NEW p \in Payments, Duplicate(p) PROVE Goal
  BY <1>24, <1>0 DEF Duplicate
<1>25. ASSUME NEW p \in Payments, Rebalance(p) PROVE Goal
  BY <1>25, <1>0 DEF Rebalance
<1>26. ASSUME NEW p \in Payments, Replay(p) PROVE Goal
  BY <1>26, <1>0 DEF Replay
<1>27. ASSUME NEW w \in Workers, NEW p \in Payments, Deliver(w, p) PROVE Goal
  BY <1>27, <1>0 DEF Deliver
<1>28. ASSUME NEW h \in Hooks, WebhookInsert(h) PROVE Goal
  BY <1>28, <1>0 DEF WebhookInsert
<1>29. ASSUME NEW h \in Hooks, WebhookThrow(h) PROVE Goal
  BY <1>29, <1>0 DEF WebhookThrow
<1>30. ASSUME NEW h \in Hooks, NEW e \in Events, WebhookReceive(h, e)
      PROVE  Goal
  BY <1>30, <1>0 DEF WebhookReceive
<1>31. CASE UNCHANGED vars
  BY <1>31, <1>0
<1> QED
  BY <1>1, <1>2, <1>3, <1>4, <1>5, <1>6, <1>7, <1>8, <1>9, <1>10, <1>11,
     <1>12, <1>13, <1>14, <1>15, <1>16, <1>17, <1>18, <1>19, <1>20, <1>21,
     <1>22, <1>23, <1>24, <1>25, <1>26, <1>27, <1>28, <1>29, <1>30, <1>31
  DEF Next, WorkerStep, WorkerDisruption, PaymentStep, HookStep

-----------------------------------------------------------------------------
(* The ledger.                                                             *)

(* A settling transaction is a settlement of the ledger.                   *)
LEMMA SettlingIsLedgerStep ==
  ASSUME TypeOK, AnnouncementsMatchStatus, NEW p \in Payments, NEW s \in Terminal,
         NEW reason, NEW S,
         status[p] \in {"PENDING", "PROCESSING"},
         UpdateStatus(p, s, reason), Emit(p, S),
         "success" \in S <=> s = "SUCCESS",
         "notification" \in S <=> s = "SUCCESS",
         "failed" \in S <=> s = "FAILED"
  PROVE  Ledger!Next
<1>1. /\ emitted[p]["success"] = 0
      /\ emitted[p]["notification"] = 0
      /\ emitted[p]["failed"] = 0
  BY DEF AnnouncementsMatchStatus, One
<1>2. [success      |-> emitted'[p]["success"],
       failed       |-> emitted'[p]["failed"],
       notification |-> emitted'[p]["notification"]] = Ledger!Announcement(s)
  BY <1>1, EmitRow DEF Ledger!Announcement, One, Topics, Terminal
<1>3. \A q \in Payments : q # p => emitted'[q] = emitted[q]
  BY EmitRow
<1>4. Ledger!Settle(p, s)
  BY <1>2, <1>3 DEF Ledger!Settle, UpdateStatus
<1> QED
  BY <1>4 DEF Ledger!Next, Ledger!SettleSomehow, Ledger!Terminal, Terminal

(* A step that leaves the status and the outbox alone is invisible to the  *)
(* ledger.                                                                 *)
LEMMA LedgerStutters ==
  UNCHANGED <<status, emitted>> => UNCHANGED Ledger!ledgerVars
  BY DEF Ledger!ledgerVars

(* The initial states map to initial states of the ledger.                 *)
LEMMA LedgerInit == Init => Ledger!Init
  BY DEF Init, Ledger!Init, Ledger!Nothing, Topics

(* Every step maps to a step of the ledger or to a stuttering step.        *)
LEMMA LedgerNext ==
  /\ TypeOK /\ SeenCoherent /\ AnnouncementsMatchStatus
  /\ [Next]_vars
  => [Ledger!Next]_(Ledger!ledgerVars)
<1> SUFFICES ASSUME TypeOK, SeenCoherent, AnnouncementsMatchStatus, [Next]_vars
             PROVE  [Ledger!Next]_(Ledger!ledgerVars)
  OBVIOUS
<1> USE LedgerStutters
<1> DEFINE Goal == [Ledger!Next]_(Ledger!ledgerVars)
<1>1. ASSUME NEW w \in Workers, Promote(w) PROVE Goal
  <2>1. job[w] \in Payments
    BY <1>1 DEF Promote, At, TypeOK
  <2>2. CASE UNCHANGED <<status, version, failureReason, emitted>>
    BY <2>2, LedgerStutters
  <2>3. CASE /\ status[job[w]] = "PENDING"
             /\ UpdateStatus(job[w], "PROCESSING", failureReason[job[w]])
             /\ Emit(job[w], {"processing"})
    <3>1. \A q \in Payments : /\ emitted'[q]["success"] = emitted[q]["success"]
                              /\ emitted'[q]["failed"] = emitted[q]["failed"]
                              /\ emitted'[q]["notification"] = emitted[q]["notification"]
      <4>1. \A t \in Topics : emitted[job[w]][t] \in Nat
        BY <2>1 DEF TypeOK
      <4>2. \A t \in Topics \ {"processing"} : emitted'[job[w]][t] = emitted[job[w]][t]
        BY <2>1, <2>3, <4>1, EmitRow DEF One
      <4>3. \A q \in Payments : q # job[w] => emitted'[q] = emitted[q]
        BY <2>1, <2>3, EmitRow
      <4> QED
        BY <4>2, <4>3 DEF Topics
    <3>2. Ledger!Start(job[w])
      BY <2>3, <3>1 DEF Ledger!Start, UpdateStatus
    <3> QED
      BY <2>1, <3>2 DEF Ledger!Next
  <2> QED
    BY <1>1, <2>2, <2>3 DEF Promote
<1>2. ASSUME NEW w \in Workers, Succeed(w) PROVE Goal
  <2>1. job[w] \in Payments
    BY <1>2 DEF Succeed, At, TypeOK
  <2>2. CASE UNCHANGED <<status, version, failureReason, emitted>>
    BY <2>2, LedgerStutters
  <2>3. CASE /\ status[job[w]] = "PROCESSING"
             /\ UpdateStatus(job[w], "SUCCESS", "null")
             /\ Emit(job[w], {"success", "notification", "audit"})
    BY <2>1, <2>3, SettlingIsLedgerStep DEF Terminal
  <2> QED
    BY <1>2, <2>2, <2>3 DEF Succeed, Conclude
<1>3. ASSUME NEW w \in Workers, Decline(w) PROVE Goal
  <2>1. job[w] \in Payments
    BY <1>3 DEF Decline, At, TypeOK
  <2>2. CASE UNCHANGED <<status, version, failureReason, emitted>>
    BY <2>2, LedgerStutters
  <2>3. CASE /\ status[job[w]] = "PROCESSING"
             /\ UpdateStatus(job[w], "FAILED", "declined")
             /\ Emit(job[w], {"failed"})
    BY <2>1, <2>3, SettlingIsLedgerStep DEF Terminal
  <2> QED
    BY <1>3, <2>2, <2>3 DEF Decline, Conclude
<1>4. ASSUME NEW w \in Workers, Exhaust(w) PROVE Goal
  <2>1. job[w] \in Payments
    BY <1>4 DEF Exhaust, At, TypeOK
  <2>2. CASE UNCHANGED <<status, version, failureReason, emitted>>
    BY <2>2, LedgerStutters
  <2>3. CASE /\ status[job[w]] = "PROCESSING"
             /\ UpdateStatus(job[w], "FAILED", "max_retries")
             /\ Emit(job[w], {"failed"})
    BY <2>1, <2>3, SettlingIsLedgerStep DEF Terminal
  <2> QED
    BY <1>4, <2>2, <2>3 DEF Exhaust, Conclude
<1>5. ASSUME NEW p \in Payments, Create(p) PROVE Goal
  <2>1. Ledger!Create(p)
    BY <1>5 DEF Create, Ledger!Create
  <2> QED
    BY <2>1 DEF Ledger!Next
<1>6. ASSUME NEW h \in Hooks, WebhookCommit(h) PROVE Goal
  <2> DEFINE p == EventPayment[hevent[h]]
             s == EventStatus[hevent[h]]
  <2>1. p \in Payments /\ s \in Terminal
    BY <1>6, EventAssumption DEF WebhookCommit, TypeOK
  <2>2. CASE UNCHANGED <<status, version, failureReason, emitted>>
    BY <2>2, LedgerStutters
  <2>3. CASE /\ Applies(seen[h], s)
             /\ version[p] = seen[h].version
             /\ UpdateStatus(p, s, WebhookReason(s))
             /\ Emit(p, WebhookTopics(s))
    <3>1. status[p] \in {"PENDING", "PROCESSING"}
      <4>1. seen[h] \in Snapshots /\ hpc[h] = "decide"
        BY <1>6 DEF WebhookCommit, TypeOK
      <4> QED
        BY <2>3, <4>1 DEF SeenCoherent, Applies, isTerminal, Terminal,
           Snapshots,
           PaymentStatus
    <3> QED
      BY <2>1, <2>3, <3>1, SettlingIsLedgerStep DEF Terminal, WebhookTopics
  <2> QED
    BY <1>6, <2>2, <2>3 DEF WebhookCommit
<1> USE DEF payVars, vars, kafkaVars, hookVars, gateVars, faultVars
<1>7. ASSUME NEW w \in Workers, AcquireLock(w) PROVE Goal
  BY <1>7 DEF AcquireLock
<1>8. ASSUME NEW w \in Workers, LockContention(w) PROVE Goal
  BY <1>8 DEF LockContention
<1>9. ASSUME NEW w \in Workers, Recheck(w) PROVE Goal
  BY <1>9 DEF Recheck
<1>10. ASSUME NEW w \in Workers, Charge(w) PROVE Goal
  BY <1>10 DEF Charge
<1>11. ASSUME NEW w \in Workers, Bump(w) PROVE Goal
  BY <1>11 DEF Bump
<1>12. ASSUME NEW w \in Workers, Budget(w) PROVE Goal
  BY <1>12 DEF Budget
<1>13. ASSUME NEW w \in Workers, SendToDlq(w) PROVE Goal
  BY <1>13 DEF SendToDlq
<1>14. ASSUME NEW w \in Workers, ScheduleRetry(w) PROVE Goal
  BY <1>14 DEF ScheduleRetry
<1>15. ASSUME NEW w \in Workers, Release(w) PROVE Goal
  BY <1>15 DEF Release
<1>16. ASSUME NEW w \in Workers, Crash(w) PROVE Goal
  BY <1>16 DEF Crash
<1>17. ASSUME NEW w \in Workers, Throw(w) PROVE Goal
  BY <1>17 DEF Throw
<1>18. ASSUME NEW w \in Workers, AcquireThrows(w) PROVE Goal
  BY <1>18 DEF AcquireThrows
<1>19. ASSUME NEW w \in Workers, ReleaseThrows(w) PROVE Goal
  BY <1>19 DEF ReleaseThrows
<1>20. ASSUME NEW w \in Workers, ChargeRejected(w) PROVE Goal
  BY <1>20 DEF ChargeRejected
<1>21. ASSUME NEW p \in Payments, Relay(p) PROVE Goal
  BY <1>21 DEF Relay
<1>22. ASSUME NEW p \in Payments, OrphanExpires(p) PROVE Goal
  BY <1>22 DEF OrphanExpires
<1>23. ASSUME NEW p \in Payments, Duplicate(p) PROVE Goal
  BY <1>23 DEF Duplicate
<1>24. ASSUME NEW p \in Payments, Rebalance(p) PROVE Goal
  BY <1>24 DEF Rebalance
<1>25. ASSUME NEW p \in Payments, LeaseLost(p) PROVE Goal
  BY <1>25 DEF LeaseLost
<1>26. ASSUME NEW p \in Payments, Replay(p) PROVE Goal
  BY <1>26 DEF Replay
<1>27. ASSUME NEW w \in Workers, NEW p \in Payments, Deliver(w, p) PROVE Goal
  BY <1>27 DEF Deliver
<1>28. ASSUME NEW h \in Hooks, WebhookInsert(h) PROVE Goal
  BY <1>28 DEF WebhookInsert
<1>29. ASSUME NEW h \in Hooks, WebhookThrow(h) PROVE Goal
  BY <1>29 DEF WebhookThrow
<1>30. ASSUME NEW h \in Hooks, NEW e \in Events, WebhookReceive(h, e)
      PROVE  Goal
  BY <1>30 DEF WebhookReceive
<1>31. CASE UNCHANGED vars
  BY <1>31
<1> QED
  BY <1>1, <1>2, <1>3, <1>4, <1>5, <1>6, <1>7, <1>8, <1>9, <1>10, <1>11,
     <1>12, <1>13, <1>14, <1>15, <1>16, <1>17, <1>18, <1>19, <1>20, <1>21,
     <1>22, <1>23, <1>24, <1>25, <1>26, <1>27, <1>28, <1>29, <1>30, <1>31
  DEF Next, WorkerStep, WorkerDisruption, PaymentStep, HookStep

(* What LockFreedByHolder says of one step.                                *)
LockStep ==
  \A p \in Payments, w \in Workers :
    lock[p] = w /\ lock'[p] # w =>
      \/ pc[w] \in {"ack", "nack"} /\ pc'[w] = "idle"
      \/ disruptions' > disruptions

(* Every step satisfies LockStep.                                          *)
LEMMA LockStepNext ==
  TypeOK /\ [Next]_vars => LockStep
<1> SUFFICES ASSUME TypeOK, [Next]_vars
             PROVE  LockStep
  OBVIOUS
<1> USE SentinelAssumption
<1> USE DEF LockStep, Disrupt, Rest, TypeOK, vars, payVars, kafkaVars,
        hookVars, gateVars, faultVars
<1>1. ASSUME NEW w \in Workers, AcquireLock(w) PROVE LockStep
  BY <1>1 DEF AcquireLock
<1>2. ASSUME NEW w \in Workers, LockContention(w) PROVE LockStep
  BY <1>2 DEF LockContention
<1>3. ASSUME NEW w \in Workers, Promote(w) PROVE LockStep
  BY <1>3 DEF Promote
<1>4. ASSUME NEW w \in Workers, Recheck(w) PROVE LockStep
  BY <1>4 DEF Recheck
<1>5. ASSUME NEW w \in Workers, Charge(w) PROVE LockStep
  BY <1>5 DEF Charge
<1>6. ASSUME NEW w \in Workers, Succeed(w) PROVE LockStep
  BY <1>6 DEF Succeed
<1>7. ASSUME NEW w \in Workers, Decline(w) PROVE LockStep
  BY <1>7 DEF Decline
<1>8. ASSUME NEW w \in Workers, Bump(w) PROVE LockStep
  BY <1>8 DEF Bump
<1>9. ASSUME NEW w \in Workers, Budget(w) PROVE LockStep
  BY <1>9 DEF Budget
<1>10. ASSUME NEW w \in Workers, Exhaust(w) PROVE LockStep
  BY <1>10 DEF Exhaust
<1>11. ASSUME NEW w \in Workers, SendToDlq(w) PROVE LockStep
  BY <1>11 DEF SendToDlq
<1>12. ASSUME NEW w \in Workers, ScheduleRetry(w) PROVE LockStep
  BY <1>12 DEF ScheduleRetry
<1>13. ASSUME NEW w \in Workers, Release(w) PROVE LockStep
  BY <1>13 DEF Release
<1>14. ASSUME NEW w \in Workers, Crash(w) PROVE LockStep
  BY <1>14 DEF Crash
<1>15. ASSUME NEW w \in Workers, Throw(w) PROVE LockStep
  BY <1>15 DEF Throw
<1>16. ASSUME NEW w \in Workers, AcquireThrows(w) PROVE LockStep
  BY <1>16 DEF AcquireThrows
<1>17. ASSUME NEW w \in Workers, ReleaseThrows(w) PROVE LockStep
  BY <1>17 DEF ReleaseThrows
<1>18. ASSUME NEW w \in Workers, ChargeRejected(w) PROVE LockStep
  BY <1>18 DEF ChargeRejected
<1>19. ASSUME NEW p \in Payments, Create(p) PROVE LockStep
  BY <1>19 DEF Create
<1>20. ASSUME NEW p \in Payments, Relay(p) PROVE LockStep
  BY <1>20 DEF Relay
<1>21. ASSUME NEW p \in Payments, OrphanExpires(p) PROVE LockStep
  BY <1>21 DEF OrphanExpires
<1>22. ASSUME NEW p \in Payments, Duplicate(p) PROVE LockStep
  BY <1>22 DEF Duplicate
<1>23. ASSUME NEW p \in Payments, Rebalance(p) PROVE LockStep
  BY <1>23 DEF Rebalance
<1>24. ASSUME NEW p \in Payments, LeaseLost(p) PROVE LockStep
  BY <1>24 DEF LeaseLost
<1>25. ASSUME NEW p \in Payments, Replay(p) PROVE LockStep
  BY <1>25 DEF Replay
<1>26. ASSUME NEW w \in Workers, NEW p \in Payments, Deliver(w, p)
      PROVE  LockStep
  BY <1>26 DEF Deliver
<1>27. ASSUME NEW h \in Hooks, WebhookInsert(h) PROVE LockStep
  BY <1>27 DEF WebhookInsert
<1>28. ASSUME NEW h \in Hooks, WebhookCommit(h) PROVE LockStep
  BY <1>28 DEF WebhookCommit
<1>29. ASSUME NEW h \in Hooks, WebhookThrow(h) PROVE LockStep
  BY <1>29 DEF WebhookThrow
<1>30. ASSUME NEW h \in Hooks, NEW e \in Events, WebhookReceive(h, e)
      PROVE  LockStep
  BY <1>30 DEF WebhookReceive
<1>31. CASE UNCHANGED vars
  BY <1>31
<1> QED
  BY <1>1, <1>2, <1>3, <1>4, <1>5, <1>6, <1>7, <1>8, <1>9, <1>10, <1>11,
     <1>12, <1>13, <1>14, <1>15, <1>16, <1>17, <1>18, <1>19, <1>20, <1>21,
     <1>22, <1>23, <1>24, <1>25, <1>26, <1>27, <1>28, <1>29, <1>30, <1>31
  DEF Next, WorkerStep, WorkerDisruption, PaymentStep, HookStep

-----------------------------------------------------------------------------
(* The lock and its contract.                                              *)

(* A token in a lock is that of an execution between tryLockPayment and    *)
(* release.                                                                *)
LockOwned ==
  \A p \in Payments, w \in Workers :
    lock[p] = w => pc[w] \in Critical /\ job[w] = p

LEMMA LockOwnedNext ==
  TypeOK /\ LockOwned /\ [Next]_vars => LockOwned'
<1> SUFFICES ASSUME TypeOK, LockOwned, [Next]_vars
             PROVE  LockOwned'
  OBVIOUS
<1> USE SentinelAssumption
<1> USE DEF Goto, Rest, Relinquish, Abandon, Disrupt, At, HookRests, payVars,
        kafkaVars, hookVars, gateVars, faultVars, TypeOK, LockOwned, Critical,
        Fallible, WorkerSteps, vars
<1>1. ASSUME NEW w \in Workers, AcquireLock(w) PROVE LockOwned'
  BY <1>1 DEF AcquireLock
<1>2. ASSUME NEW w \in Workers, LockContention(w) PROVE LockOwned'
  BY <1>2 DEF LockContention
<1>3. ASSUME NEW w \in Workers, Promote(w) PROVE LockOwned'
  BY <1>3 DEF Promote
<1>4. ASSUME NEW w \in Workers, Recheck(w) PROVE LockOwned'
  BY <1>4 DEF Recheck
<1>5. ASSUME NEW w \in Workers, Charge(w) PROVE LockOwned'
  BY <1>5 DEF Charge
<1>6. ASSUME NEW w \in Workers, Succeed(w) PROVE LockOwned'
  BY <1>6 DEF Succeed
<1>7. ASSUME NEW w \in Workers, Decline(w) PROVE LockOwned'
  BY <1>7 DEF Decline
<1>8. ASSUME NEW w \in Workers, Bump(w) PROVE LockOwned'
  BY <1>8 DEF Bump
<1>9. ASSUME NEW w \in Workers, Budget(w) PROVE LockOwned'
  BY <1>9 DEF Budget
<1>10. ASSUME NEW w \in Workers, Exhaust(w) PROVE LockOwned'
  BY <1>10 DEF Exhaust
<1>11. ASSUME NEW w \in Workers, SendToDlq(w) PROVE LockOwned'
  BY <1>11 DEF SendToDlq
<1>12. ASSUME NEW w \in Workers, ScheduleRetry(w) PROVE LockOwned'
  BY <1>12 DEF ScheduleRetry
<1>13. ASSUME NEW w \in Workers, Release(w) PROVE LockOwned'
  BY <1>13 DEF Release
<1>14. ASSUME NEW w \in Workers, Crash(w) PROVE LockOwned'
  BY <1>14 DEF Crash
<1>15. ASSUME NEW w \in Workers, Throw(w) PROVE LockOwned'
  BY <1>15 DEF Throw
<1>16. ASSUME NEW w \in Workers, AcquireThrows(w) PROVE LockOwned'
  BY <1>16 DEF AcquireThrows
<1>17. ASSUME NEW w \in Workers, ReleaseThrows(w) PROVE LockOwned'
  BY <1>17 DEF ReleaseThrows
<1>18. ASSUME NEW w \in Workers, ChargeRejected(w) PROVE LockOwned'
  BY <1>18 DEF ChargeRejected
<1>19. ASSUME NEW p \in Payments, Create(p) PROVE LockOwned'
  BY <1>19 DEF Create
<1>20. ASSUME NEW p \in Payments, Relay(p) PROVE LockOwned'
  BY <1>20 DEF Relay
<1>21. ASSUME NEW p \in Payments, OrphanExpires(p) PROVE LockOwned'
  BY <1>21 DEF OrphanExpires
<1>22. ASSUME NEW p \in Payments, Duplicate(p) PROVE LockOwned'
  BY <1>22 DEF Duplicate
<1>23. ASSUME NEW p \in Payments, Rebalance(p) PROVE LockOwned'
  BY <1>23 DEF Rebalance
<1>24. ASSUME NEW p \in Payments, LeaseLost(p) PROVE LockOwned'
  BY <1>24 DEF LeaseLost
<1>25. ASSUME NEW p \in Payments, Replay(p) PROVE LockOwned'
  BY <1>25 DEF Replay
<1>26. ASSUME NEW w \in Workers, NEW p \in Payments, Deliver(w, p)
      PROVE  LockOwned'
  BY <1>26 DEF Deliver
<1>27. ASSUME NEW h \in Hooks, WebhookInsert(h) PROVE LockOwned'
  BY <1>27 DEF WebhookInsert
<1>28. ASSUME NEW h \in Hooks, WebhookCommit(h) PROVE LockOwned'
  BY <1>28 DEF WebhookCommit
<1>29. ASSUME NEW h \in Hooks, WebhookThrow(h) PROVE LockOwned'
  BY <1>29 DEF WebhookThrow
<1>30. ASSUME NEW h \in Hooks, NEW e \in Events, WebhookReceive(h, e)
      PROVE  LockOwned'
  BY <1>30 DEF WebhookReceive
<1>31. CASE UNCHANGED vars
  BY <1>31
<1> QED
  BY <1>1, <1>2, <1>3, <1>4, <1>5, <1>6, <1>7, <1>8, <1>9, <1>10, <1>11,
     <1>12, <1>13, <1>14, <1>15, <1>16, <1>17, <1>18, <1>19, <1>20, <1>21,
     <1>22, <1>23, <1>24, <1>25, <1>26, <1>27, <1>28, <1>29, <1>30, <1>31
  DEF Next, WorkerStep, WorkerDisruption, PaymentStep, HookStep

(* What the contract says of one step.                                     *)
ContractStep ==
  \A p \in Payments : [Contract(p)!Next]_(Contract(p)!vars)

(* Nothing that the contract is about has changed.                         *)
Untouched(p) ==
  /\ lock'[p] = lock[p]
  /\ Inside(p)' = Inside(p)
  /\ ("lease" \in suffered') = ("lease" \in suffered)

LEMMA UntouchedStutters ==
  ASSUME NEW p, Untouched(p)
  PROVE  [Contract(p)!Next]_(Contract(p)!vars)
BY DEF Untouched, Contract!vars

(* The tokens of the contract.                                             *)
LEMMA Tokens ==
  /\ \A w \in Workers : w # NoWorker /\ w # Orphan /\ w \in Workers \cup {Orphan}
  /\ Orphan # NoWorker /\ Orphan \in Workers \cup {Orphan}
  /\ \A p : Orphan \notin Inside(p)
BY SentinelAssumption DEF Inside

(* Other payments' locks are left alone by an execution.                   *)
LEMMA OthersUntouched ==
  ASSUME TypeOK, NEW w \in Workers, NEW p \in Payments, p # job[w],
         lock'[p] = lock[p],
         ("lease" \in suffered') = ("lease" \in suffered),
         Rest(w) \/ \E step : Goto(w, step)
  PROVE  Untouched(p)
<1>1. ASSUME NEW v \in Workers
      PROVE  (pc'[v] \in Critical /\ job'[v] = p)
               <=> (pc[v] \in Critical /\ job[v] = p)
  BY <1>1, SentinelAssumption DEF TypeOK, Rest, Goto
<1>2. Inside(p)' = Inside(p)
  BY <1>1 DEF Inside
<1> QED BY <1>2 DEF Untouched

(* A step from one place inside to another.                                *)
LEMMA PassageUntouched ==
  ASSUME TypeOK, NEW w \in Workers, lock' = lock,
         ("lease" \in suffered') = ("lease" \in suffered),
         NEW step \in Critical, pc[w] \in Critical, Goto(w, step)
  PROVE  ContractStep
<1> SUFFICES ASSUME NEW p \in Payments
             PROVE  [Contract(p)!Next]_(Contract(p)!vars)
  BY DEF ContractStep
<1>1. ASSUME NEW v \in Workers
      PROVE  (pc'[v] \in Critical /\ job'[v] = p)
               <=> (pc[v] \in Critical /\ job[v] = p)
  BY <1>1 DEF TypeOK, Goto
<1>2. Inside(p)' = Inside(p)
  BY <1>1 DEF Inside
<1> QED BY <1>2, UntouchedStutters DEF Untouched

(* The end of an execution takes it out.                                   *)
LEMMA RestLeaves ==
  ASSUME TypeOK, NEW w \in Workers, Rest(w), NEW p
  PROVE  Inside(p)' = Inside(p) \ {w}
BY DEF TypeOK, Rest, Inside, Critical

LEMMA AcquireIsAcquire ==
  ASSUME TypeOK, NEW w \in Workers, AcquireLock(w)
  PROVE  ContractStep
<1> SUFFICES ASSUME NEW p \in Payments
             PROVE  [Contract(p)!Next]_(Contract(p)!vars)
  BY DEF ContractStep
<1>1. /\ pc[w] = "acquire" /\ job[w] \in Payments /\ lock[job[w]] = NoWorker
      /\ lock' = [lock EXCEPT ![job[w]] = w] /\ Goto(w, "promote")
      /\ UNCHANGED suffered
  BY DEF AcquireLock, At, TypeOK, faultVars
<1>2. CASE p = job[w]
  <2>1. w \notin Inside(p) /\ Inside(p)' = Inside(p) \cup {w}
    BY <1>1, <1>2 DEF Inside, Goto, TypeOK, Critical, WorkerSteps
  <2>2. lock[p] = NoWorker /\ lock'[p] = w
    BY <1>1, <1>2 DEF TypeOK
  <2>3. Contract(p)!Acquire(w)
    BY <1>1, <2>1, <2>2 DEF Contract!Acquire
  <2> QED BY <2>3, Tokens DEF Contract!Next
<1>3. CASE p # job[w]
  <2>1. lock'[p] = lock[p]
    BY <1>1, <1>3 DEF TypeOK
  <2> QED BY <1>1, <1>3, <2>1, OthersUntouched, UntouchedStutters
<1> QED BY <1>2, <1>3

(* A release, with the lock or without it.                                 *)
LEMMA ReleaseIsRelease ==
  ASSUME TypeOK, NEW w \in Workers, Release(w)
  PROVE  ContractStep
<1> SUFFICES ASSUME NEW p \in Payments
             PROVE  [Contract(p)!Next]_(Contract(p)!vars)
  BY DEF ContractStep
<1>1. /\ pc[w] \in {"ack", "nack"} /\ job[w] \in Payments
      /\ lock' = [lock EXCEPT ![job[w]] = IF @ = w THEN NoWorker ELSE @]
      /\ Rest(w) /\ UNCHANGED suffered
  BY DEF Release, TypeOK, faultVars
<1>2. CASE p = job[w]
  <2>1. w \in Inside(p) /\ Inside(p)' = Inside(p) \ {w}
    BY <1>1, <1>2, RestLeaves DEF Inside, Critical, WorkerSteps
  <2>2. lock'[p] = IF lock[p] = w THEN NoWorker ELSE lock[p]
    BY <1>1, <1>2 DEF TypeOK
  <2>3. CASE lock[p] = w
    <3>1. Contract(p)!Release(w)
      BY <1>1, <2>1, <2>2, <2>3 DEF Contract!Release
    <3> QED BY <3>1, Tokens DEF Contract!Next
  <2>4. CASE lock[p] # w
    <3>1. Contract(p)!Leave(w)
      BY <1>1, <2>1, <2>2, <2>4 DEF Contract!Leave
    <3> QED BY <3>1, Tokens DEF Contract!Next
  <2> QED BY <2>3, <2>4
<1>3. CASE p # job[w]
  <2>1. lock'[p] = lock[p]
    BY <1>1, <1>3 DEF TypeOK
  <2> QED BY <1>1, <1>3, <2>1, OthersUntouched, UntouchedStutters
<1> QED BY <1>2, <1>3

(* A death, or a release that fails: the lock stays behind as an orphan.   *)
LEMMA AbandonIsAbandon ==
  ASSUME TypeOK, LockOwned, NEW w \in Workers, pc[w] # "idle",
         Abandon(w, job[w]), Rest(w),
         ("lease" \in suffered') = ("lease" \in suffered)
  PROVE  ContractStep
<1> SUFFICES ASSUME NEW p \in Payments
             PROVE  [Contract(p)!Next]_(Contract(p)!vars)
  BY DEF ContractStep
<1>1. /\ job[w] \in Payments
      /\ lock' = [lock EXCEPT ![job[w]] = IF @ = w THEN Orphan ELSE @]
  BY DEF TypeOK, Abandon
<1>2. CASE p = job[w]
  <2>1. Inside(p)' = Inside(p) \ {w}
    BY RestLeaves
  <2>2. lock'[p] = IF lock[p] = w THEN Orphan ELSE lock[p]
    BY <1>1, <1>2 DEF TypeOK
  <2>3. CASE lock[p] = w
    <3>1. w \in Inside(p)
      BY <2>3 DEF LockOwned, Inside
    <3>2. Contract(p)!Abandon(w, Orphan)
      BY <2>1, <2>2, <2>3, <3>1, Tokens DEF Contract!Abandon
    <3> QED BY <3>2, Tokens DEF Contract!Next
  <2>4. CASE lock[p] # w /\ w \in Inside(p)
    <3>1. Contract(p)!Leave(w)
      BY <2>1, <2>2, <2>4 DEF Contract!Leave
    <3> QED BY <3>1, Tokens DEF Contract!Next
  <2>5. CASE lock[p] # w /\ w \notin Inside(p)
    BY <2>1, <2>2, <2>5, UntouchedStutters DEF Untouched
  <2> QED BY <2>3, <2>4, <2>5
<1>3. CASE p # job[w]
  <2>1. lock'[p] = lock[p]
    BY <1>1, <1>3 DEF TypeOK
  <2> QED BY <1>3, <2>1, OthersUntouched, UntouchedStutters
<1> QED BY <1>2, <1>3

(* A SET NX that throws has taken the lock for nobody, or has not.         *)
LEMMA AcquireThrowsTakes ==
  ASSUME TypeOK, NEW w \in Workers, AcquireThrows(w)
  PROVE  ContractStep
<1> SUFFICES ASSUME NEW p \in Payments
             PROVE  [Contract(p)!Next]_(Contract(p)!vars)
  BY DEF ContractStep
<1>1. /\ pc[w] = "acquire" /\ job[w] \in Payments /\ Rest(w)
      /\ ("lease" \in suffered') = ("lease" \in suffered)
      /\ \/ /\ lock[job[w]] = NoWorker
            /\ lock' = [lock EXCEPT ![job[w]] = Orphan]
         \/ UNCHANGED lock
  BY DEF AcquireThrows, At, TypeOK, Disrupt
<1>2. Inside(p)' = Inside(p)
  BY <1>1, RestLeaves DEF Inside, Critical
<1>3. CASE lock'[p] = lock[p]
  BY <1>1, <1>2, <1>3, UntouchedStutters DEF Untouched
<1>4. CASE lock'[p] # lock[p]
  <2>1. lock[p] = NoWorker /\ lock'[p] = Orphan
    BY <1>1, <1>4 DEF TypeOK
  <2>2. Contract(p)!Take(Orphan)
    BY <1>1, <1>2, <2>1, Tokens DEF Contract!Take
  <2> QED BY <2>2, Tokens DEF Contract!Next
<1> QED BY <1>3, <1>4

(* A lease that runs out under its holder.                                 *)
LEMMA LeaseLostIsLose ==
  ASSUME TypeOK, NEW q \in Payments, LeaseLost(q)
  PROVE  ContractStep
<1> SUFFICES ASSUME NEW p \in Payments
             PROVE  [Contract(p)!Next]_(Contract(p)!vars)
  BY DEF ContractStep
<1>1. /\ lock[q] \in Workers /\ lock' = [lock EXCEPT ![q] = NoWorker]
      /\ UNCHANGED <<pc, job>> /\ "lease" \in suffered'
  BY DEF LeaseLost, Disrupt
<1>2. Inside(p)' = Inside(p)
  BY <1>1 DEF Inside
<1>3. CASE p = q
  <2>1. lock[p] # NoWorker /\ lock'[p] = NoWorker
    BY <1>1, <1>3, Tokens DEF TypeOK
  <2>2. Contract(p)!Lose
    BY <1>1, <1>2, <2>1 DEF Contract!Lose
  <2> QED BY <2>2 DEF Contract!Next
<1>4. CASE p # q /\ "lease" \in suffered
  <2>1. lock'[p] = lock[p]
    BY <1>1, <1>4 DEF TypeOK
  <2> QED BY <1>1, <1>2, <1>4, <2>1, UntouchedStutters DEF Untouched
<1>5. CASE p # q /\ "lease" \notin suffered
  <2>1. lock'[p] = lock[p]
    BY <1>1, <1>5 DEF TypeOK
  <2>2. Contract(p)!Lapse
    BY <1>1, <1>2, <1>5, <2>1 DEF Contract!Lapse
  <2> QED BY <2>2 DEF Contract!Next
<1> QED BY <1>3, <1>4, <1>5

(* The time to live of an orphan.                                          *)
LEMMA OrphanExpiresIsFree ==
  ASSUME TypeOK, NEW q \in Payments, OrphanExpires(q)
  PROVE  ContractStep
<1> SUFFICES ASSUME NEW p \in Payments
             PROVE  [Contract(p)!Next]_(Contract(p)!vars)
  BY DEF ContractStep
<1>1. /\ lock[q] = Orphan /\ lock' = [lock EXCEPT ![q] = NoWorker]
      /\ UNCHANGED <<pc, job, suffered>>
  BY DEF OrphanExpires, faultVars
<1>2. Inside(p)' = Inside(p)
  BY <1>1 DEF Inside
<1>3. CASE p = q
  <2>1. lock[p] = Orphan /\ lock'[p] = NoWorker
    BY <1>1, <1>3 DEF TypeOK
  <2>2. Contract(p)!Free
    BY <1>1, <1>2, <2>1, Tokens DEF Contract!Free
  <2> QED BY <2>2 DEF Contract!Next
<1>4. CASE p # q
  <2>1. lock'[p] = lock[p]
    BY <1>1, <1>4 DEF TypeOK
  <2> QED BY <1>1, <1>2, <2>1, UntouchedStutters DEF Untouched
<1> QED BY <1>3, <1>4

(* Steps in which no worker moves and no lock changes.                     *)
LEMMA StillUntouched ==
  ASSUME UNCHANGED <<lock, pc, job>>,
         ("lease" \in suffered') = ("lease" \in suffered)
  PROVE  ContractStep
BY UntouchedStutters DEF ContractStep, Untouched, Inside

(* Every step of the core is one of the contract's, or none.               *)
LEMMA ContractNext ==
  TypeOK /\ LockOwned /\ [Next]_vars => ContractStep
<1> SUFFICES ASSUME TypeOK, LockOwned, [Next]_vars
             PROVE  ContractStep
  OBVIOUS
<1>1. ASSUME NEW w \in Workers, AcquireLock(w) PROVE ContractStep
  BY <1>1, AcquireIsAcquire
<1>2. ASSUME NEW w \in Workers, LockContention(w) PROVE ContractStep
  <2>1. Rest(w) /\ pc[w] = "acquire" /\ lock' = lock /\ UNCHANGED suffered
    BY <1>2 DEF LockContention, At, faultVars
  <2>2. \A q \in Payments : Inside(q)' = Inside(q)
    BY <2>1, RestLeaves DEF Inside, Critical
  <2> QED BY <2>1, <2>2, UntouchedStutters DEF ContractStep, Untouched
<1>3. ASSUME NEW w \in Workers, Promote(w) PROVE ContractStep
  <2>1. PICK step \in Critical : Goto(w, step)
    BY <1>3 DEF Promote, Critical, WorkerSteps
  <2>2. /\ pc[w] \in Critical /\ lock' = lock
        /\ ("lease" \in suffered') = ("lease" \in suffered)
    BY <1>3 DEF Promote, At, Critical, Fallible, WorkerSteps, faultVars, Disrupt
  <2> QED BY <2>1, <2>2, PassageUntouched
<1>4. ASSUME NEW w \in Workers, Recheck(w) PROVE ContractStep
  <2>1. PICK step \in Critical : Goto(w, step)
    BY <1>4 DEF Recheck, Critical, WorkerSteps
  <2>2. /\ pc[w] \in Critical /\ lock' = lock
        /\ ("lease" \in suffered') = ("lease" \in suffered)
    BY <1>4 DEF Recheck, At, Critical, Fallible, WorkerSteps, faultVars, Disrupt
  <2> QED BY <2>1, <2>2, PassageUntouched
<1>5. ASSUME NEW w \in Workers, Charge(w) PROVE ContractStep
  <2>1. PICK step \in Critical : Goto(w, step)
    BY <1>5 DEF Charge, Critical, WorkerSteps
  <2>2. /\ pc[w] \in Critical /\ lock' = lock
        /\ ("lease" \in suffered') = ("lease" \in suffered)
    BY <1>5 DEF Charge, At, Critical, Fallible, WorkerSteps, faultVars, Disrupt
  <2> QED BY <2>1, <2>2, PassageUntouched
<1>6. ASSUME NEW w \in Workers, Succeed(w) PROVE ContractStep
  <2>1. PICK step \in Critical : Goto(w, step)
    BY <1>6 DEF Succeed, Critical, WorkerSteps
  <2>2. /\ pc[w] \in Critical /\ lock' = lock
        /\ ("lease" \in suffered') = ("lease" \in suffered)
    BY <1>6 DEF Succeed, At, Critical, Fallible, WorkerSteps, faultVars, Disrupt
  <2> QED BY <2>1, <2>2, PassageUntouched
<1>7. ASSUME NEW w \in Workers, Decline(w) PROVE ContractStep
  <2>1. PICK step \in Critical : Goto(w, step)
    BY <1>7 DEF Decline, Critical, WorkerSteps
  <2>2. /\ pc[w] \in Critical /\ lock' = lock
        /\ ("lease" \in suffered') = ("lease" \in suffered)
    BY <1>7 DEF Decline, At, Critical, Fallible, WorkerSteps, faultVars, Disrupt
  <2> QED BY <2>1, <2>2, PassageUntouched
<1>8. ASSUME NEW w \in Workers, Bump(w) PROVE ContractStep
  <2>1. PICK step \in Critical : Goto(w, step)
    BY <1>8 DEF Bump, Critical, WorkerSteps
  <2>2. /\ pc[w] \in Critical /\ lock' = lock
        /\ ("lease" \in suffered') = ("lease" \in suffered)
    BY <1>8 DEF Bump, At, Critical, Fallible, WorkerSteps, faultVars, Disrupt
  <2> QED BY <2>1, <2>2, PassageUntouched
<1>9. ASSUME NEW w \in Workers, Budget(w) PROVE ContractStep
  <2>1. PICK step \in Critical : Goto(w, step)
    BY <1>9 DEF Budget, Critical, WorkerSteps
  <2>2. /\ pc[w] \in Critical /\ lock' = lock
        /\ ("lease" \in suffered') = ("lease" \in suffered)
    BY <1>9 DEF Budget, At, Critical, Fallible, WorkerSteps, faultVars, Disrupt
  <2> QED BY <2>1, <2>2, PassageUntouched
<1>10. ASSUME NEW w \in Workers, Exhaust(w) PROVE ContractStep
  <2>1. PICK step \in Critical : Goto(w, step)
    BY <1>10 DEF Exhaust, Critical, WorkerSteps
  <2>2. /\ pc[w] \in Critical /\ lock' = lock
        /\ ("lease" \in suffered') = ("lease" \in suffered)
    BY <1>10 DEF Exhaust, At, Critical, Fallible, WorkerSteps, faultVars, Disrupt
  <2> QED BY <2>1, <2>2, PassageUntouched
<1>11. ASSUME NEW w \in Workers, SendToDlq(w) PROVE ContractStep
  <2>1. PICK step \in Critical : Goto(w, step)
    BY <1>11 DEF SendToDlq, Critical, WorkerSteps
  <2>2. /\ pc[w] \in Critical /\ lock' = lock
        /\ ("lease" \in suffered') = ("lease" \in suffered)
    BY <1>11 DEF SendToDlq, At, Critical, Fallible, WorkerSteps, faultVars, Disrupt
  <2> QED BY <2>1, <2>2, PassageUntouched
<1>12. ASSUME NEW w \in Workers, ScheduleRetry(w) PROVE ContractStep
  <2>1. PICK step \in Critical : Goto(w, step)
    BY <1>12 DEF ScheduleRetry, Critical, WorkerSteps
  <2>2. /\ pc[w] \in Critical /\ lock' = lock
        /\ ("lease" \in suffered') = ("lease" \in suffered)
    BY <1>12 DEF ScheduleRetry, At, Critical, Fallible, WorkerSteps, faultVars, Disrupt
  <2> QED BY <2>1, <2>2, PassageUntouched
<1>13. ASSUME NEW w \in Workers, Release(w) PROVE ContractStep
  BY <1>13, ReleaseIsRelease
<1>14. ASSUME NEW w \in Workers, Crash(w) PROVE ContractStep
  BY <1>14, AbandonIsAbandon DEF Crash, At, Disrupt
<1>15. ASSUME NEW w \in Workers, Throw(w) PROVE ContractStep
  <2>1. PICK step \in Critical : Goto(w, step)
    BY <1>15 DEF Throw, Critical, WorkerSteps
  <2>2. /\ pc[w] \in Critical /\ lock' = lock
        /\ ("lease" \in suffered') = ("lease" \in suffered)
    BY <1>15 DEF Throw, At, Critical, Fallible, WorkerSteps, faultVars, Disrupt
  <2> QED BY <2>1, <2>2, PassageUntouched
<1>16. ASSUME NEW w \in Workers, AcquireThrows(w) PROVE ContractStep
  BY <1>16, AcquireThrowsTakes
<1>17. ASSUME NEW w \in Workers, ReleaseThrows(w) PROVE ContractStep
  BY <1>17, AbandonIsAbandon DEF ReleaseThrows, Disrupt
<1>18. ASSUME NEW w \in Workers, ChargeRejected(w) PROVE ContractStep
  <2>1. PICK step \in Critical : Goto(w, step)
    BY <1>18 DEF ChargeRejected, Critical, WorkerSteps
  <2>2. /\ pc[w] \in Critical /\ lock' = lock
        /\ ("lease" \in suffered') = ("lease" \in suffered)
    BY <1>18 DEF ChargeRejected, At, Critical, Fallible, WorkerSteps, faultVars, Disrupt
  <2> QED BY <2>1, <2>2, PassageUntouched
<1>19. ASSUME NEW p \in Payments, Create(p) PROVE ContractStep
  BY <1>19, StillUntouched DEF Create, faultVars, Disrupt
<1>20. ASSUME NEW p \in Payments, Relay(p) PROVE ContractStep
  BY <1>20, StillUntouched DEF Relay, faultVars, Disrupt
<1>21. ASSUME NEW p \in Payments, OrphanExpires(p) PROVE ContractStep
  BY <1>21, OrphanExpiresIsFree
<1>22. ASSUME NEW p \in Payments, Duplicate(p) PROVE ContractStep
  BY <1>22, StillUntouched DEF Duplicate, faultVars, Disrupt
<1>23. ASSUME NEW p \in Payments, Rebalance(p) PROVE ContractStep
  BY <1>23, StillUntouched DEF Rebalance, faultVars, Disrupt
<1>24. ASSUME NEW p \in Payments, LeaseLost(p) PROVE ContractStep
  BY <1>24, LeaseLostIsLose
<1>25. ASSUME NEW p \in Payments, Replay(p) PROVE ContractStep
  BY <1>25, StillUntouched DEF Replay, faultVars, Disrupt
<1>26. ASSUME NEW w \in Workers, NEW p \in Payments, Deliver(w, p)
      PROVE  ContractStep
  <2>1. ASSUME NEW q \in Payments, NEW v \in Workers
        PROVE  (pc'[v] \in Critical /\ job'[v] = q)
                 <=> (pc[v] \in Critical /\ job[v] = q)
    BY <1>26, <2>1 DEF Deliver, At, TypeOK, Critical
  <2>2. \A q \in Payments : Inside(q)' = Inside(q)
    BY <2>1 DEF Inside
  <2> QED BY <1>26, <2>2, UntouchedStutters DEF Deliver, ContractStep, Untouched, faultVars
<1>27. ASSUME NEW h \in Hooks, WebhookInsert(h) PROVE ContractStep
  BY <1>27, StillUntouched DEF WebhookInsert, faultVars, Disrupt
<1>28. ASSUME NEW h \in Hooks, WebhookCommit(h) PROVE ContractStep
  BY <1>28, StillUntouched DEF WebhookCommit, faultVars, Disrupt
<1>29. ASSUME NEW h \in Hooks, WebhookThrow(h) PROVE ContractStep
  BY <1>29, StillUntouched DEF WebhookThrow, faultVars, Disrupt
<1>30. ASSUME NEW h \in Hooks, NEW e \in Events, WebhookReceive(h, e)
      PROVE  ContractStep
  BY <1>30, StillUntouched DEF WebhookReceive, faultVars, Disrupt
<1>31. CASE UNCHANGED vars
  BY <1>31, StillUntouched DEF vars, faultVars
<1> QED
  BY <1>1, <1>2, <1>3, <1>4, <1>5, <1>6, <1>7, <1>8, <1>9, <1>10, <1>11,
     <1>12, <1>13, <1>14, <1>15, <1>16, <1>17, <1>18, <1>19, <1>20, <1>21,
     <1>22, <1>23, <1>24, <1>25, <1>26, <1>27, <1>28, <1>29, <1>30, <1>31
  DEF Next, WorkerStep, WorkerDisruption, PaymentStep, HookStep

-----------------------------------------------------------------------------
(* The theorems.                                                           *)

(* The initial states satisfy the invariant.                               *)
LEMMA IInvInit == Init => IInv
<1> SUFFICES ASSUME Init PROVE IInv
  OBVIOUS
<1>1. TypeOK
  BY DEF Init, TypeOK, Zero, Topics, WorkerSteps, Snapshots, Nowhere, Reasons,
     PaymentStatus
<1>2. Ownership /\ NeverStranded /\ WorkInProgress
  BY SentinelAssumption DEF Init, Zero, Ownership, NeverStranded, WorkInProgress,
     Taken
<1>3. AnnouncementsMatchStatus /\ ProcessingNotEarly /\ SeenCoherent
  BY DEF Init, Zero, Topics, One, AnnouncementsMatchStatus, ProcessingNotEarly,
     SeenCoherent
<1>4. LockHeld /\ ChargedAtMostOnce /\ CaptureKept
  BY DEF Init, Zero, LockHeld, Critical, ChargedAtMostOnce, CaptureKept
<1> QED
  BY <1>1, <1>2, <1>3, <1>4 DEF IInv

(* Every step keeps the invariant.                                         *)
LEMMA IInvNext == IInv /\ [Next]_vars => IInv'
  BY TypeNext, OwnershipNext, LockHeldNext, AnnouncementsNext, SeenCoherentNext,
     WorkInProgressNext, NeverStrandedNext, CaptureNext DEF IInv

(* The inductive invariant holds in every reachable state: the types, the  *)
(* announcements, the messages, the lock and the captures.                 *)
THEOREM Invariance == Spec => []IInv
<1> QED
  BY IInvInit, IInvNext, PTL DEF Spec

(* Every variable keeps its type, the counts never go below zero.          *)
THEOREM TypeCorrect == Spec => []TypeOK
<1>1. IInv => TypeOK
  BY DEF IInv
<1> QED
  BY <1>1, Invariance, PTL

(* The outbox and the row tell one story about every payment, whatever     *)
(* workers and webhooks do: at most one success or failure is announced.   *)
THEOREM Announcements == Spec => []AnnouncementsMatchStatus
<1>1. IInv => AnnouncementsMatchStatus
  BY DEF IInv
<1> QED
  BY <1>1, Invariance, PTL

(* No crash, failure, rebalance or retry strands a payment.                *)
THEOREM NothingStranded == Spec => []NeverStranded
<1>1. IInv => NeverStranded
  BY DEF IInv
<1> QED
  BY <1>1, Invariance, PTL

(* The Redis lock excludes, as long as leases do not run out.              *)
THEOREM Exclusion == Spec => []MutualExclusion
<1>1. IInv => MutualExclusion
  BY LockExcludes DEF IInv
<1> QED
  BY <1>1, Invariance, PTL

(* A customer is charged at most once, under the conditions that           *)
(* ChargedAtMostOnce names.                                                *)
THEOREM SingleCharge == Spec => []ChargedAtMostOnce
<1>1. IInv => ChargedAtMostOnce
  BY DEF IInv
<1> QED
  BY <1>1, Invariance, PTL

(* Nobody but its holder frees a lock, unless there is a disruption.       *)
THEOREM LockDiscipline == Spec => LockFreedByHolder
<1>1. TypeOK /\ [Next]_vars => [LockStep]_vars
  BY LockStepNext
<1>2. Spec => [][LockStep]_vars
  BY <1>1, TypeCorrect, PTL DEF Spec
<1> QED
  BY <1>2 DEF LockFreedByHolder, LockStep

(* The processing of payments implements the ledger's safety part: every   *)
(* payment is settled at most once and announced in the same step.         *)
THEOREM ImplementsLedger == Spec => LedgerSafe
<1>1. IInv /\ [Next]_vars => [Ledger!Next]_(Ledger!ledgerVars)
  BY LedgerNext DEF IInv
<1> QED
  BY <1>1, LedgerInit, Invariance, PTL DEF Spec, LedgerSafe, Ledger!Safe

(* The core uses the lock of a payment as its lease keeps it               *)
(* (distributedLock.service.ts; payment.worker.ts, the finally block).     *)
THEOREM UsesLockAsKept == Spec => LockUsedAsKept
<1>1. Init => LockOwned
  BY SentinelAssumption DEF Init, LockOwned
<1>2. TypeOK /\ LockOwned /\ [Next]_vars => LockOwned'
  BY LockOwnedNext
<1>3. TypeOK /\ LockOwned /\ [Next]_vars => [ContractStep]_vars
  BY ContractNext
<1>4. Spec => [][ContractStep]_vars
  BY <1>1, <1>2, <1>3, TypeCorrect, PTL DEF Spec
<1>5. Init => \A p \in Payments : Contract(p)!Init
  BY DEF Init, Contract!Init, Inside, Critical
<1>6. Spec => \A p \in Payments : Contract(p)!Init
  BY <1>5 DEF Spec
<1> QED
  BY <1>4, <1>6 DEF LockUsedAsKept, ContractStep
=============================================================================

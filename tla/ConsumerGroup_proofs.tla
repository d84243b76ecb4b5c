------------------------ MODULE ConsumerGroup_proofs ------------------------
(***************************************************************************)
(* Proofs, for any finite set of consumers, any number of messages, any    *)
(* delays and any number of disruptions, that the group passes over no     *)
(* message, that no retry is relayed early, and that a message is handled  *)
(* no more often than disruptions and sessions that end while it or a      *)
(* message behind it sleeps account for.                                   *)
(***************************************************************************)
EXTENDS ConsumerGroup, FiniteSetTheorems, TLAPS

(* The lesser of two numbers.                                              *)
LEMMA MinOfTwo ==
  ASSUME NEW a \in Nat, NEW b \in Nat
  PROVE  Min({a, b}) = IF a <= b THEN a ELSE b
<1>1. \E x \in {a, b} : \A y \in {a, b} : x <= y
  OBVIOUS
<1>2. Min({a, b}) \in {a, b} /\ \A y \in {a, b} : Min({a, b}) <= y
  BY <1>1 DEF Min
<1> QED BY <1>2

(* What delayMs may return.                                                *)
LEMMA DelayBounds ==
  ASSUME NEW n \in Retries, NEW d \in Delays(n)
  PROVE  /\ d \in 0 .. MaxDelay
         /\ d >= Min({BaseDelay * 2 ^ n, MaxDelay})
<1> DEFINE raw == BaseDelay * 2 ^ n
<1> DEFINE top == Min({(raw + 4) \div 5, MaxJitter}) - 1
<1>1. raw \in Nat /\ MaxDelay \in Nat
  BY DelayAssumption
<1>2. PICK j \in 0 .. top : d = Min({raw + j, MaxDelay})
  BY DEF Delays
<1>3. top \in Int
  <2>1. (raw + 4) \div 5 \in Nat
    BY <1>1
  <2>2. Min({(raw + 4) \div 5, MaxJitter}) \in Nat
    BY <2>1, BoundAssumption, MinOfTwo
  <2> QED BY <2>2
<1> HIDE DEF raw, top
<1>4. j \in Nat /\ raw + j \in Nat
  BY <1>1, <1>3
<1>5. d = IF raw + j <= MaxDelay THEN raw + j ELSE MaxDelay
  BY <1>1, <1>2, <1>4, MinOfTwo
<1>6. Min({raw, MaxDelay}) = IF raw <= MaxDelay THEN raw ELSE MaxDelay
  BY <1>1, MinOfTwo
<1>7. d \in 0 .. MaxDelay /\ d >= Min({raw, MaxDelay})
  BY <1>1, <1>4, <1>5, <1>6
<1> QED BY <1>7 DEF raw

-----------------------------------------------------------------------------
(* How a step treats the partition.                                        *)
Grows ==
  /\ end \in 0 .. Last /\ end' \in 0 .. Last /\ end <= end'
  /\ handled \in [Messages -> Nat] /\ handled' \in [Messages -> Nat]
  /\ \A m \in Messages : handled[m] <= handled'[m]
  /\ missed \subseteq missed'
  /\ processed \subseteq processed'
  /\ \A m \in 1 .. end : /\ retry'[m] = retry[m]
                         /\ delay'[m] = delay[m]
                         /\ Due(m) => Due(m)'
  /\ group' = group

(* What has been settled or recorded stays so.                             *)
LEMMA PrefixKept ==
  ASSUME Grows, NEW n \in 0 .. end + 1
  PROVE  /\ Settled(n) => Settled(n)'
         /\ Recorded(n) => Recorded(n)'
<1>0. end \in Nat /\ end <= Last /\ Last \in Nat /\ n \in Nat
  BY BoundAssumption DEF Grows
<1>1. \A m \in 1 .. n - 1 : m \in 1 .. end /\ m \in Messages
  BY <1>0 DEF Messages
<1>2. ASSUME Settled(n) PROVE Settled(n)'
  <2> SUFFICES ASSUME NEW m \in 1 .. n - 1
               PROVE  handled'[m] > 0 \/ m \in missed'
    BY DEF Settled
  <2>1. handled[m] > 0 \/ m \in missed
    BY <1>2 DEF Settled
  <2>2. handled[m] \in Nat /\ handled'[m] \in Nat /\ handled[m] <= handled'[m]
    BY <1>1 DEF Grows
  <2> QED BY <2>1, <2>2 DEF Grows
<1>3. ASSUME Recorded(n) PROVE Recorded(n)'
  BY <1>1, <1>3 DEF Recorded, Grows
<1> QED BY <1>2, <1>3

(* A consumer that a step does not touch keeps what it relies on.          *)
LEMMA OthersKeep ==
  ASSUME TypeOK, Grows, NEW c \in Consumers, WorkSettled(c),
         pc'[c] = pc[c], work'[c] = work[c], owner' = c => owner = c
  PROVE  WorkSettled(c)'
<1>1. work[c].next \in Nat /\ work[c].last \in Nat
  BY DEF TypeOK
<1>2. end \in Nat /\ end' \in Nat /\ end <= end' /\ end' <= Last /\ Last \in Nat
  BY BoundAssumption DEF Grows
<1>3. CASE ~(owner = c \/ pc[c] \notin {"down", "idle"})
  BY <1>3 DEF WorkSettled, Owns
<1>4. CASE owner = c \/ pc[c] \notin {"down", "idle"}
  <2>1. work[c].next \in 1 .. end + 1
    BY <1>4 DEF WorkSettled, Owns
  <2>2. Settled(work[c].next) /\ Recorded(work[c].next)
    BY <1>4 DEF WorkSettled, Owns
  <2>3. Settled(work[c].next)' /\ Recorded(work[c].next)'
    BY <2>1, <2>2, PrefixKept DEF Settled, Recorded
  <2>4. work'[c].next \in 1 .. end' + 1
    BY <1>2, <2>1
  <2>5. pc[c] \in {"sleep", "relay", "mark", "insert"} =>
          /\ work[c].next <= work[c].last /\ work[c].last <= end'
          /\ work[c].next \in 1 .. end /\ work[c].next \in Messages
    BY <1>1, <1>2, <2>1 DEF WorkSettled, Messages
  <2>6. pc[c] = "mark" => handled'[work[c].next] > 0
    <3> SUFFICES ASSUME pc[c] = "mark" PROVE handled'[work[c].next] > 0
      OBVIOUS
    <3>1. handled[work[c].next] > 0
      BY DEF WorkSettled
    <3> QED BY <2>5, <3>1 DEF Grows
  <2>7. pc[c] = "relay" => Due(work[c].next)'
    <3> SUFFICES ASSUME pc[c] = "relay" PROVE Due(work[c].next)'
      OBVIOUS
    <3>1. Due(work[c].next)
      BY DEF WorkSettled
    <3>2. age'[work[c].next] = delay'[work[c].next]
      BY <2>5, <3>1 DEF Grows, Due
    <3> QED BY <3>2 DEF Due
  <2>8. (owner' = c => pc[c] # "down") /\ (pc[c] = "insert" => group' = "audit")
    BY DEF WorkSettled, Owns, Grows
  <2> QED BY <2>3, <2>4, <2>5, <2>6, <2>7, <2>8 DEF WorkSettled, Owns
<1> QED BY <1>3, <1>4

-----------------------------------------------------------------------------
(* The message at hand is one of the partition.                            *)
LEMMA AtHand ==
  ASSUME OffsetInv, NEW c \in Consumers,
         pc[c] \in {"sleep", "relay", "mark", "insert"}
  PROVE  /\ work[c].next \in 1 .. end
         /\ work[c].next \in Messages
         /\ work[c].next <= work[c].last
         /\ work[c].last <= end
         /\ Settled(work[c].next) /\ Recorded(work[c].next)
<1>1. WorkSettled(c)
  BY DEF OffsetInv
<1>2. work[c].next \in Nat /\ work[c].last \in Nat /\ end \in 0 .. Last
      /\ Last \in Nat
  BY BoundAssumption DEF OffsetInv, TypeOK
<1>3. /\ work[c].next \in 1 .. end + 1 /\ work[c].next <= work[c].last
      /\ work[c].last <= end
      /\ Settled(work[c].next) /\ Recorded(work[c].next)
  BY <1>1 DEF WorkSettled
<1> QED BY <1>2, <1>3 DEF Messages

(* A published message is new and has its delay in bounds.                 *)
LEMMA PublishingSteps ==
  ASSUME ScheduleRetry \/ EnqueueReplay \/ Announce
  PROVE  \E n \in Retries \cup {0}, d \in 0 .. MaxDelay :
           /\ Published(n, d)
           /\ n # 0 => /\ group = "retry"
                       /\ d >= Min({BaseDelay * 2 ^ n, MaxDelay})
<1>1. CASE ScheduleRetry
  <2>1. PICK n \in Retries : \E d \in Delays(n) : Published(n, d)
    BY <1>1 DEF ScheduleRetry
  <2>2. PICK d \in Delays(n) : Published(n, d)
    BY <2>1
  <2>3. d \in 0 .. MaxDelay /\ d >= Min({BaseDelay * 2 ^ n, MaxDelay})
    BY DelayBounds
  <2>4. group = "retry"
    BY <1>1 DEF ScheduleRetry
  <2> QED BY <2>2, <2>3, <2>4
<1>2. CASE EnqueueReplay \/ Announce
  <2>1. Published(0, 0) /\ 0 \in 0 .. MaxDelay /\ 0 \in Retries \cup {0}
    BY <1>2, DelayAssumption DEF EnqueueReplay, Announce
  <2> QED BY <2>1
<1> QED BY <1>1, <1>2

(* The partition only grows.                                               *)
LEMMA GrowsNext == OffsetInv /\ [Next]_vars => Grows
<1> SUFFICES ASSUME OffsetInv, [Next]_vars PROVE Grows
    OBVIOUS
<1>0. /\ TypeOK
      /\ end \in 0 .. Last /\ Last \in Nat /\ handled \in [Messages -> Nat]
      /\ missed \subseteq 1 .. end
      /\ \A m \in 1 .. end : m \in Messages
      /\ age \in [Messages -> Nat] /\ delay \in [Messages -> 0 .. MaxDelay]
      /\ retry \in [Messages -> Retries \cup {0}]
  <2>1. TypeOK
    BY DEF OffsetInv
  <2>2. end \in 0 .. Last /\ Last \in Nat
    BY <2>1, BoundAssumption DEF TypeOK
  <2>3. \A m \in 1 .. end : m \in Messages
    BY <2>2 DEF Messages
  <2> QED BY <2>1, <2>2, <2>3 DEF TypeOK
<1>1. CASE ScheduleRetry \/ EnqueueReplay \/ Announce
  <2>1. PICK n \in Retries \cup {0}, d \in 0 .. MaxDelay : Published(n, d)
    BY <1>1, PublishingSteps
  <2>2. \A m \in 1 .. end : m # end + 1
    BY <1>0
  <2>3. \A m \in 1 .. end : retry'[m] = retry[m] /\ delay'[m] = delay[m]
    BY <1>0, <2>1, <2>2 DEF Published
  <2>4. /\ end' \in 0 .. Last /\ end <= end'
        /\ UNCHANGED <<handled, missed, processed, group, age>>
    BY <1>0, <2>1 DEF Published
  <2>5. \A m \in 1 .. end : Due(m) => Due(m)'
    BY <2>3, <2>4 DEF Due
  <2> QED BY <1>0, <2>3, <2>4, <2>5 DEF Grows
<1>2. CASE Tick
  <2>1. UNCHANGED <<end, retry, delay, handled, missed, processed, group>>
    BY <1>2 DEF Tick
  <2>2. \A m \in 1 .. end : Due(m) => age'[m] = age[m]
    BY <1>0, <1>2 DEF Tick
  <2>3. \A m \in 1 .. end : Due(m) => Due(m)'
    BY <2>1, <2>2 DEF Due
  <2> QED BY <1>0, <2>1, <2>3 DEF Grows
<1>3. ASSUME NEW c \in Consumers,
             \/ Start(c) \/ Expire(c) \/ Heartbeat(c) \/ Fetch(c) \/ Wake(c)
             \/ Commit(c) \/ Rebalance(c) \/ Crash(c) \/ Abort(c) \/ Leave(c)
      PROVE  Grows
  <2>1. UNCHANGED <<end, retry, delay, age, handled, missed, processed, group>>
    BY <1>3 DEF Start, Expire, Heartbeat, Fetch, Wake, Commit, Rebalance,
                Crash, Abort, Leave, messageVars
  <2> QED BY <1>0, <2>1 DEF Grows, Due
<1>4. ASSUME NEW c \in Consumers, Assign(c) PROVE Grows
  <2>1. UNCHANGED <<end, retry, delay, age, handled, processed, group>>
    BY <1>4 DEF Assign, messageVars
  <2>2. missed \subseteq missed'
    BY <1>0, <1>4 DEF Assign
  <2> QED BY <1>0, <2>1, <2>2 DEF Grows, Due
<1>5. ASSUME NEW c \in Consumers, Handled(c),
             pc[c] \in {"sleep", "relay", "mark", "insert"}
      PROVE  /\ handled' \in [Messages -> Nat]
             /\ \A m \in Messages : handled[m] <= handled'[m]
  <2>1. work[c].next \in Messages
    BY <1>5, AtHand
  <2> QED BY <1>0, <1>5, <2>1 DEF Handled
<1>6. ASSUME NEW c \in Consumers, Relay(c) \/ PersistAudit(c)
      PROVE  Grows
  <2>1. UNCHANGED <<end, retry, delay, age, missed, processed, group>>
    BY <1>6 DEF Relay, PersistAudit, Return, messageVars
  <2>2. Handled(c) /\ pc[c] \in {"sleep", "relay", "mark", "insert"}
    BY <1>6 DEF Relay, PersistAudit
  <2> QED BY <1>0, <1>5, <2>1, <2>2 DEF Grows, Due
<1>7. ASSUME NEW c \in Consumers, MarkProcessed(c) PROVE Grows
  <2>1. UNCHANGED <<end, retry, delay, age, handled, missed, group>>
        /\ processed \subseteq processed'
    BY <1>7 DEF MarkProcessed, Return, messageVars
  <2> QED BY <1>0, <2>1 DEF Grows, Due
<1>8. ASSUME NEW c \in Consumers, Throw(c) PROVE Grows
  <2>1. UNCHANGED <<end, retry, delay, age, missed, group>>
        /\ processed \subseteq processed'
    BY <1>8 DEF Throw, messageVars
  <2>2. \/ UNCHANGED handled
        \/ Handled(c) /\ pc[c] \in {"sleep", "relay", "mark", "insert"}
    BY <1>8 DEF Throw
  <2> QED BY <1>0, <1>5, <2>1, <2>2 DEF Grows, Due
<1>9. CASE UNCHANGED vars
  BY <1>0, <1>9 DEF Grows, Due, vars
<1> QED BY <1>1, <1>2, <1>3, <1>4, <1>6, <1>7, <1>8, <1>9
        DEF Next, ConsumerStep

(* Ages do not pass the delays.                                            *)
LEMMA AgesNext ==
  OffsetInv /\ [Next]_vars =>
    /\ age' \in [Messages -> Nat]
    /\ \A m \in Messages : age'[m] <= delay'[m]
<1> SUFFICES ASSUME OffsetInv, [Next]_vars
             PROVE  /\ age' \in [Messages -> Nat]
                    /\ \A m \in Messages : age'[m] <= delay'[m]
    OBVIOUS
<1>0. /\ age \in [Messages -> Nat] /\ delay \in [Messages -> 0 .. MaxDelay]
      /\ \A m \in Messages : age[m] <= delay[m]
      /\ end \in 0 .. Last /\ Last \in Nat /\ MaxDelay \in Nat
  BY BoundAssumption, DelayAssumption DEF OffsetInv, TypeOK
<1>1. CASE ScheduleRetry \/ EnqueueReplay \/ Announce
  <2>1. PICK n \in Retries \cup {0}, d \in 0 .. MaxDelay : Published(n, d)
    BY <1>1, PublishingSteps
  <2>2. end + 1 \in Messages /\ end + 1 > end
    BY <1>0, <2>1 DEF Published, Messages
  <2>3. delay[end + 1] = 0
    BY <2>2 DEF OffsetInv, Blank
  <2>4. age[end + 1] = 0
    BY <1>0, <2>2, <2>3
  <2>5. UNCHANGED age /\ delay' = [delay EXCEPT ![end + 1] = d]
    BY <2>1 DEF Published
  <2> QED BY <1>0, <2>2, <2>4, <2>5
<1>2. CASE Tick
  <2>1. UNCHANGED delay
        /\ age' = [m \in Messages |-> IF Due(m) THEN age[m] ELSE age[m] + 1]
    BY <1>2 DEF Tick
  <2> QED BY <1>0, <2>1 DEF Due
<1>3. CASE UNCHANGED <<age, delay>>
  BY <1>0, <1>3
<1> QED BY <1>1, <1>2, <1>3
        DEF Next, ConsumerStep, Start, Assign, Expire, Heartbeat, Fetch, Wake,
            Relay, MarkProcessed, PersistAudit, Return, Commit, Throw,
            Rebalance, Crash, Abort, Leave, messageVars, vars

-----------------------------------------------------------------------------
(* A batch at rest before a position.                                      *)
LEMMA RestingType ==
  ASSUME NEW n \in Nat \ {0}
  PROVE  /\ Resting(n) \in [first : Nat, next : Nat, last : Nat]
         /\ Resting(n).next = n
BY DEF Resting

(* Types are preserved by every step.                                      *)
LEMMA TypeNext == OffsetInv /\ [Next]_vars => TypeOK'
<1> SUFFICES ASSUME OffsetInv, [Next]_vars PROVE TypeOK'
    OBVIOUS
<1>0. TypeOK /\ Last \in Nat
  BY BoundAssumption DEF OffsetInv
<1>1. /\ end' \in 0 .. Last /\ handled' \in [Messages -> Nat]
      /\ end <= end' /\ end' \in Nat /\ group' = group
  BY <1>0, GrowsNext DEF Grows
<1>2. age' \in [Messages -> Nat] /\ \A m \in Messages : age'[m] <= delay'[m]
  BY AgesNext
<1>3. disruptions' \in 0 .. MaxDisruptions
  BY <1>0, BoundAssumption
     DEF TypeOK, Next, ConsumerStep, Start, Assign, Expire, Heartbeat, Fetch,
         Wake, Relay, MarkProcessed, PersistAudit, Return, Commit, Throw,
         Rebalance, Crash, Abort, Leave, vars, Disrupt, ScheduleRetry,
         EnqueueReplay,
         Announce, Published, Tick
<1>4. UNCHANGED <<retry, delay>>
      \/ ScheduleRetry \/ EnqueueReplay \/ Announce
  BY DEF Next, ConsumerStep, Start, Assign, Expire, Heartbeat, Fetch, Wake,
         Relay, MarkProcessed, PersistAudit, Return, Commit, Throw,
         Rebalance, Crash, Abort, Leave, messageVars, vars, Tick
<1>5. /\ retry' \in [Messages -> Retries \cup {0}]
      /\ delay' \in [Messages -> 0 .. MaxDelay]
  <2>1. CASE ScheduleRetry \/ EnqueueReplay \/ Announce
    <3>1. PICK n \in Retries \cup {0}, d \in 0 .. MaxDelay : Published(n, d)
      BY <2>1, PublishingSteps
    <3> QED BY <1>0, <3>1 DEF Published, TypeOK
  <2> QED BY <1>0, <1>4, <2>1 DEF TypeOK
<1>6. ASSUME NEW c \in Consumers
      PROVE  /\ work[c] \in [first : Nat, next : Nat, last : Nat]
             /\ pc[c] \in {"relay", "mark", "insert", "commit"} =>
                  /\ work[c].next \in Nat \ {0}
                  /\ work[c].next <= end + 1
                  /\ work[c].next \in Messages \/ pc[c] = "commit"
  <2>1. pc[c] \in {"relay", "mark", "insert", "commit"} =>
          work[c].next \in 1 .. end + 1
    BY DEF OffsetInv, WorkSettled
  <2> QED BY <1>0, <2>1, AtHand DEF TypeOK
<1>7. UNCHANGED processed
      \/ \E c \in Consumers : /\ pc[c] = "mark"
                              /\ processed' = processed \cup {work[c].next}
  BY DEF Next, ConsumerStep, Start, Assign, Expire, Heartbeat, Fetch, Wake,
         Relay, MarkProcessed, PersistAudit, Return, Commit, Throw,
         Rebalance, Crash, Abort, Leave, vars, Tick, ScheduleRetry,
         EnqueueReplay, Announce,
         Published
<1>8. processed' \subseteq Messages
  BY <1>0, <1>6, <1>7 DEF TypeOK
<1>9. missed' \subseteq 1 .. end'
  <2>1. UNCHANGED missed \/ missed' = 1 .. end
    BY DEF Next, ConsumerStep, Start, Assign, Expire, Heartbeat, Fetch, Wake,
           Relay, MarkProcessed, PersistAudit, Return, Commit, Throw,
           Rebalance, Crash, Abort, Leave, vars, Tick, ScheduleRetry,
           EnqueueReplay,
           Announce, Published
  <2>2. 1 .. end \subseteq 1 .. end'
    BY <1>0, <1>1 DEF TypeOK
  <2> QED BY <1>0, <2>1, <2>2 DEF TypeOK
<1>10. committed' \in 0 .. end' + 1
  <2>1. UNCHANGED committed
        \/ \E c \in Consumers :
             /\ pc[c] \in {"relay", "mark", "insert", "commit"}
             /\ committed' = work[c].next
    BY DEF Next, ConsumerStep, Start, Assign, Expire, Heartbeat, Fetch, Wake,
           Relay, MarkProcessed, PersistAudit, Return, Commit, Throw,
           Rebalance, Crash, Abort, Leave, vars, Tick, ScheduleRetry,
           EnqueueReplay,
           Announce, Published
  <2> QED BY <1>0, <1>1, <1>6, <2>1 DEF TypeOK
<1>11. owner' \in Consumers \cup {Nobody}
  BY <1>0
     DEF TypeOK, Next, ConsumerStep, Start, Assign, Expire, Heartbeat, Fetch,
         Wake, Relay, MarkProcessed, PersistAudit, Return, Commit, Throw,
         Rebalance, Crash, Abort, Leave, vars, Tick, ScheduleRetry,
         EnqueueReplay, Announce,
         Published
<1>12. pc' \in [Consumers -> Steps]
  BY <1>0
     DEF TypeOK, Steps, Goto, FirstStep, Next, ConsumerStep, Start, Assign,
         Expire, Heartbeat, Fetch, Wake, Relay, MarkProcessed, PersistAudit,
         Return, Commit, Throw, Rebalance, Crash, Abort, Leave, vars, Tick,
         ScheduleRetry,
         EnqueueReplay, Announce, Published
<1>13. session' \in [Consumers -> 0 .. SessionTimeout]
  <2>1. CASE Tick
    <3>1. \A c \in Consumers :
            Owns(c) /\ pc[c] = "sleep" => session[c] - 1 \in 0 .. SessionTimeout
      BY <1>0, <2>1, BoundAssumption DEF Tick, TypeOK
    <3> QED BY <1>0, <2>1, <3>1 DEF Tick, TypeOK
  <2>2. CASE \/ UNCHANGED session
             \/ \E c \in Consumers :
                  session' = [session EXCEPT ![c] = SessionTimeout]
    BY <1>0, <2>2, BoundAssumption DEF TypeOK
  <2> QED BY <2>1, <2>2
          DEF Next, ConsumerStep, Start, Assign, Expire, Heartbeat, Fetch,
              Wake, Relay, MarkProcessed, PersistAudit, Return, Commit, Throw,
              Rebalance, Crash, Abort, Leave, vars, ScheduleRetry,
              EnqueueReplay, Announce,
              Published
<1>14. work' \in [Consumers -> [first : Nat, next : Nat, last : Nat]]
  <2> DEFINE W == [first : Nat, next : Nat, last : Nat]
  <2>1. CASE UNCHANGED work
    BY <1>0, <2>1 DEF TypeOK
  <2>2. CASE \E c \in Consumers, n \in Nat \ {0} :
               work' = [work EXCEPT ![c] = Resting(n)]
    BY <1>0, <2>2, RestingType DEF TypeOK
  <2>3. CASE \E c \in Consumers : work' = [work EXCEPT ![c].last = end]
    BY <1>0, <2>3 DEF TypeOK
  <2>4. CASE \E c \in Consumers : work' = [work EXCEPT ![c].next = @ + 1]
    BY <1>0, <2>4 DEF TypeOK
  <2>5. ASSUME NEW c \in Consumers,
               \/ Assign(c) \/ Return(c) \/ Commit(c) \/ Throw(c)
               \/ Rebalance(c) \/ Crash(c) \/ Leave(c)
        PROVE  \/ UNCHANGED work
               \/ \E n \in Nat \ {0} : work' = [work EXCEPT ![c] = Resting(n)]
               \/ work' = [work EXCEPT ![c].next = @ + 1]
    <3>1. CASE Assign(c)
      <4>1. /\ end + 1 \in Nat \ {0}
            /\ committed # NoOffset => committed \in Nat \ {0}
        BY <1>0 DEF TypeOK, NoOffset
      <4> QED BY <3>1, <4>1 DEF Assign
    <3>2. CASE Return(c)
      <4>1. 1 \in Nat \ {0}
        OBVIOUS
      <4> QED BY <3>2, <4>1 DEF Return
    <3>3. CASE Commit(c) \/ Throw(c)
      <4>1. work[c].next \in Nat \ {0} /\ 1 \in Nat \ {0}
        BY <1>6, <3>3 DEF Commit, Throw
      <4> QED BY <3>3, <4>1 DEF Commit, Throw
    <3>4. CASE Rebalance(c) \/ Crash(c) \/ Leave(c)
      <4>1. 1 \in Nat \ {0}
        OBVIOUS
      <4> QED BY <3>4, <4>1 DEF Rebalance, Crash, Leave
    <3> QED BY <2>5, <3>1, <3>2, <3>3, <3>4
  <2>6. \/ UNCHANGED work
        \/ \E c \in Consumers :
             \/ Assign(c) \/ Return(c) \/ Commit(c) \/ Throw(c)
             \/ Rebalance(c) \/ Crash(c) \/ Leave(c)
             \/ work' = [work EXCEPT ![c].last = end]
    BY DEF Next, ConsumerStep, Start, Abort, Expire, Heartbeat, Fetch, Wake,
           Relay, MarkProcessed, PersistAudit, vars, Tick, ScheduleRetry,
           EnqueueReplay, Announce, Published
  <2> QED BY <2>1, <2>2, <2>3, <2>4, <2>5, <2>6
<1>15. stopping' \in [Consumers -> BOOLEAN]
  BY <1>0
     DEF TypeOK, Next, ConsumerStep, Start, Assign, Expire, Heartbeat, Fetch,
         Wake, Relay, MarkProcessed, PersistAudit, Return, Commit, Throw,
         Rebalance, Crash, Abort, Leave, vars, Tick, ScheduleRetry,
         EnqueueReplay, Announce, Published
<1> QED BY <1>0, <1>1, <1>2, <1>3, <1>5, <1>8, <1>9, <1>10, <1>11, <1>12,
           <1>13, <1>14, <1>15 DEF TypeOK

-----------------------------------------------------------------------------
(* A position stays one when the partition grows.                          *)
LEMMA Further ==
  ASSUME NEW a \in Nat, NEW b \in Nat, a <= b, NEW n \in 1 .. a + 1
  PROVE  n \in 0 .. a + 1 /\ n \in 1 .. b + 1
OBVIOUS

(* A consumer at rest, or gone, relies on its position at most.            *)
LEMMA RestSettled ==
  ASSUME NEW c \in Consumers, NEW k \in Nat, pc'[c] \in {"down", "idle"},
         owner' = c => /\ pc'[c] = "idle"
                       /\ work'[c].next = k
                       /\ k \in 1 .. end' + 1
                       /\ Settled(k)'
                       /\ Recorded(k)'
  PROVE  WorkSettled(c)'
<1>1. CASE owner' = c
  <2>1. /\ pc'[c] = "idle" /\ work'[c].next = k /\ k \in 1 .. end' + 1
        /\ Settled(k)' /\ Recorded(k)'
    BY <1>1
  <2> QED BY <1>1, <2>1 DEF WorkSettled, Owns, Settled, Recorded
<1>2. CASE owner' # c
  BY <1>2 DEF WorkSettled, Owns
<1> QED BY <1>1, <1>2

(* A consumer that moves on in its batch.                                  *)
LEMMA BusySettled ==
  ASSUME NEW c \in Consumers, NEW k \in Nat, pc'[c] \notin {"down", "idle"},
         work'[c].next = k, k \in 1 .. end' + 1, Settled(k)', Recorded(k)',
         pc'[c] \in {"sleep", "relay", "mark", "insert"} =>
           k <= work'[c].last /\ work'[c].last <= end',
         pc'[c] = "relay" => Due(k)',
         pc'[c] = "mark" => handled'[k] > 0,
         pc'[c] = "insert" => group' = "audit"
  PROVE  WorkSettled(c)'
BY DEF WorkSettled, Owns, Settled, Recorded, Due

(* The end of a handler: the message at hand has been settled, so the      *)
(* consumer may go on behind it.                                           *)
LEMMA ReturnSettled ==
  ASSUME OffsetInv, TypeOK', Grows, NEW c \in Consumers, Return(c),
         pc[c] \in {"sleep", "relay", "mark", "insert"},
         NEW n \in Nat, work[c].next = n,
         handled'[n] > 0,
         retry[n] # 0 => n \in processed'
  PROVE  WorkSettled(c)'
<1>1. /\ n \in 1 .. end /\ n <= work[c].last /\ work[c].last <= end
      /\ Settled(n) /\ Recorded(n)
  <2>1. /\ work[c].next \in 1 .. end /\ work[c].next <= work[c].last
        /\ work[c].last <= end /\ Settled(work[c].next)
        /\ Recorded(work[c].next)
    BY AtHand
  <2> QED BY <2>1
<1>2. /\ end \in Nat /\ work[c].last \in Nat /\ end' = end /\ Last \in Nat
      /\ pc \in [Consumers -> Steps] /\ end <= Last
      /\ work \in [Consumers -> [first : Nat, next : Nat, last : Nat]]
  BY <1>1, BoundAssumption DEF OffsetInv, TypeOK, Return, messageVars
<1>3. CASE ~Owns(c)
  <2>1. pc'[c] = "idle" /\ owner' # c
    BY <1>2, <1>3 DEF Return, Goto, Owns
  <2> QED BY <2>1, RestSettled
<1>4. CASE Owns(c)
  <2>1. /\ work'[c].next = n + 1 /\ work'[c].last = work[c].last
        /\ pc'[c] = IF n = work[c].last \/ stopping[c] THEN "commit"
                    ELSE FirstStep
        /\ owner' = c /\ group' = group /\ retry' = retry
    BY <1>2, <1>4 DEF Return, Goto, Owns, messageVars
  <2>2. Settled(n)' /\ Recorded(n)'
    <3>1. n \in 0 .. end + 1
      BY <1>1, <1>2
    <3> QED BY <1>1, <3>1, PrefixKept
  <2>3. \A m \in 1 .. (n + 1) - 1 : m \in 1 .. n - 1 \/ m = n
    BY <1>2
  <2>4. Settled(n + 1)'
    BY <2>2, <2>3 DEF Settled
  <2>5. Recorded(n + 1)'
    BY <2>1, <2>2, <2>3 DEF Recorded
  <2>6. n + 1 \in 1 .. end' + 1 /\ n + 1 \in Nat
    BY <1>1, <1>2
  <2>7. n # work[c].last => n + 1 <= work'[c].last
    BY <1>1, <1>2, <2>1
  <2>8. work'[c].last <= end'
    BY <1>1, <1>2, <2>1
  <2>9. group \in {"retry", "audit"}
    BY DEF OffsetInv, TypeOK
  <2>10. \/ pc'[c] = "commit"
         \/ pc'[c] = "sleep" /\ n # work[c].last
         \/ pc'[c] = "insert" /\ n # work[c].last /\ group' = "audit"
    BY <2>1, <2>9 DEF FirstStep
  <2> QED BY <2>1, <2>4, <2>5, <2>6, <2>7, <2>8, <2>10, BusySettled
<1> QED BY <1>3, <1>4

(* What the consumer that moves relies on afterwards.                      *)
LEMMA MoverSettled ==
  ASSUME OffsetInv, [Next]_vars, TypeOK', Grows, NEW c \in Consumers,
         \/ Start(c) \/ Assign(c) \/ Expire(c) \/ Heartbeat(c)
         \/ ConsumerStep(c) \/ Throw(c) \/ Rebalance(c) \/ Crash(c)
         \/ Abort(c)
  PROVE  WorkSettled(c)'
<1>0. /\ TypeOK /\ WorkSettled(c) /\ NothingSkipped /\ RecordsAgree
      /\ end \in Nat /\ end' \in Nat /\ end <= end' /\ Last \in Nat
      /\ pc \in [Consumers -> Steps] /\ owner \in Consumers \cup {Nobody}
      /\ work \in [Consumers -> [first : Nat, next : Nat, last : Nat]]
      /\ handled \in [Messages -> Nat] /\ committed \in 0 .. end + 1
      /\ group \in {"retry", "audit"} /\ Nobody \notin Consumers
  BY BoundAssumption, OwnerAssumption DEF OffsetInv, TypeOK, Grows
<1>a. PICK n \in Nat : n = work[c].next
  BY <1>0
<1>1. ASSUME Owns(c) \/ pc[c] \notin {"down", "idle"}
      PROVE  /\ n \in 1 .. end + 1 /\ n \in 1 .. end' + 1
             /\ Settled(n) /\ Recorded(n)
             /\ Settled(n)' /\ Recorded(n)'
  <2>1. /\ work[c].next \in 1 .. end + 1
        /\ Settled(work[c].next) /\ Recorded(work[c].next)
    BY <1>0, <1>1 DEF WorkSettled
  <2>2. n \in 1 .. end + 1 /\ Settled(n) /\ Recorded(n)
    BY <1>a, <2>1
  <2>3. n \in 0 .. end + 1 /\ n \in 1 .. end' + 1
    <3>1. end \in Nat /\ end' \in Nat /\ end <= end' /\ n \in 1 .. end + 1
      BY <1>0, <2>2
    <3> QED BY <3>1, Further
  <2> QED BY <2>2, <2>3, PrefixKept
<1>2. CASE Start(c)
  <2>1. pc'[c] = "idle" /\ owner' = owner /\ owner # c
    BY <1>0, <1>2 DEF Start, Goto, WorkSettled, Owns
  <2> QED BY <2>1, RestSettled
<1>3. CASE Assign(c)
  <2>1. PICK start \in Nat :
          start = IF committed = NoOffset THEN end + 1 ELSE committed
    BY <1>0
  <2>2. /\ pc'[c] = "idle" /\ work'[c].next = start /\ end' = end
        /\ UNCHANGED <<handled, processed, retry>>
        /\ missed' = IF committed = NoOffset THEN 1 .. end ELSE missed
    BY <1>0, <1>3, <2>1 DEF Assign, Resting, messageVars
  <2>3. start \in 1 .. end' + 1
    BY <1>0, <2>1, <2>2 DEF NoOffset
  <2>4. CASE committed = NoOffset
    <3>1. start - 1 = end /\ missed' = 1 .. end
      BY <1>0, <2>1, <2>2, <2>4
    <3>2. Settled(start)' /\ Recorded(start)'
      BY <2>2, <3>1 DEF Settled, Recorded
    <3> QED BY <2>2, <2>3, <3>2, RestSettled
  <2>5. CASE committed # NoOffset
    <3>1. Settled(start) /\ Recorded(start)
      BY <1>0, <2>1, <2>5 DEF NothingSkipped, RecordsAgree
    <3>2. Settled(start)' /\ Recorded(start)'
      BY <2>2, <2>5, <3>1 DEF Settled, Recorded
    <3> QED BY <2>2, <2>3, <3>2, RestSettled
  <2> QED BY <2>4, <2>5
<1>4. CASE Expire(c) \/ Heartbeat(c) \/ Abort(c)
  <2>1. UNCHANGED <<pc, work>> /\ (owner' = c => owner = c)
    BY <1>0, <1>4 DEF Expire, Heartbeat, Abort
  <2> QED BY <1>0, <2>1, OthersKeep
<1>5. CASE Fetch(c)
  <2>1. /\ work'[c].next = n /\ work'[c].last = end
        /\ pc'[c] = FirstStep /\ Owns(c) /\ n <= end
        /\ UNCHANGED <<end, group>>
    BY <1>0, <1>a, <1>5 DEF Fetch, Goto, messageVars
  <2>2. \/ pc'[c] = "sleep"
        \/ pc'[c] = "insert" /\ group' = "audit"
    BY <1>0, <2>1 DEF FirstStep
  <2>3. n <= work'[c].last /\ work'[c].last <= end'
    BY <1>0, <2>1
  <2> QED BY <1>1, <2>1, <2>2, <2>3, BusySettled
<1>6. CASE Wake(c)
  <2>1. /\ pc[c] = "sleep" /\ pc'[c] = "relay" /\ Due(n)
        /\ UNCHANGED <<work, age, delay, end>>
    BY <1>0, <1>a, <1>6 DEF Wake, Goto, messageVars
  <2>2. Due(n)'
    BY <2>1 DEF Due
  <2>3. n <= work'[c].last /\ work'[c].last <= end' /\ work'[c].next = n
    BY <1>a, <2>1, AtHand
  <2> QED BY <1>1, <2>1, <2>2, <2>3, BusySettled
<1>7. CASE Relay(c) \/ MarkProcessed(c) \/ PersistAudit(c)
  <2>1. pc[c] \in {"sleep", "relay", "mark", "insert"}
    BY <1>7 DEF Relay, MarkProcessed, PersistAudit
  <2>2. n \in Messages /\ n \in 1 .. end
    BY <1>a, <2>1, AtHand
  <2>3. handled'[n] > 0
    <3>1. CASE Handled(c)
      BY <1>0, <1>a, <2>2, <3>1 DEF Handled
    <3>2. CASE MarkProcessed(c)
      BY <1>0, <1>a, <3>2 DEF MarkProcessed, WorkSettled
    <3> QED BY <1>7, <3>1, <3>2 DEF Relay, PersistAudit
  <2>4. CASE Relay(c) /\ retry[n] # 0
    <3>1. /\ pc'[c] = "mark" /\ UNCHANGED <<work, end>>
      BY <1>0, <1>a, <2>4 DEF Relay, Goto, messageVars, Return
    <3>2. n <= work'[c].last /\ work'[c].last <= end' /\ work'[c].next = n
      BY <1>a, <2>1, <3>1, AtHand
    <3> QED BY <1>1, <2>1, <2>3, <3>1, <3>2, BusySettled
  <2>5. CASE ~(Relay(c) /\ retry[n] # 0)
    <3>1. Return(c)
      BY <1>7, <1>a, <2>5 DEF Relay, MarkProcessed, PersistAudit
    <3>2. retry[n] # 0 => n \in processed'
      <4>1. CASE Relay(c)
        BY <2>5, <4>1
      <4>2. CASE MarkProcessed(c)
        BY <1>a, <4>2 DEF MarkProcessed
      <4>3. CASE PersistAudit(c)
        BY <1>0, <2>2, <4>3 DEF PersistAudit, WorkSettled, OffsetInv, DelaysKept
      <4> QED BY <1>7, <4>1, <4>2, <4>3
    <3> QED BY <1>a, <2>1, <2>3, <3>1, <3>2, ReturnSettled
  <2> QED BY <2>4, <2>5
<1>8. CASE Commit(c) \/ Throw(c)
  <2>1. /\ pc'[c] = "idle" /\ owner' = owner /\ pc[c] \notin {"down", "idle"}
        /\ Owns(c) => work'[c] = Resting(n)
    BY <1>0, <1>a, <1>8 DEF Commit, Throw, Goto
  <2>2. owner' = c => work'[c].next = n
    BY <2>1 DEF Owns, Resting
  <2> QED BY <1>1, <2>1, <2>2, RestSettled
<1>9. CASE Rebalance(c)
  <2>1. owner' # c /\ UNCHANGED pc
    BY <1>0, <1>9 DEF Rebalance
  <2>2. CASE pc[c] = "idle"
    BY <2>1, <2>2, RestSettled
  <2>3. CASE pc[c] # "idle"
    <3>1. UNCHANGED work
      BY <1>9, <2>3 DEF Rebalance
    <3> QED BY <1>0, <2>1, <3>1, OthersKeep
  <2> QED BY <2>2, <2>3
<1>10. CASE Crash(c) \/ Leave(c)
  <2>1. pc'[c] = "down" /\ owner' # c
    BY <1>0, <1>10 DEF Crash, Leave, Goto, Owns
  <2> QED BY <2>1, RestSettled
<1> QED BY <1>2, <1>3, <1>4, <1>5, <1>6, <1>7, <1>8, <1>9, <1>10
        DEF ConsumerStep

(* Every consumer relies on what is so, after every step.                  *)
LEMMA WorkNext ==
  ASSUME OffsetInv, [Next]_vars, TypeOK', Grows, NEW c \in Consumers
  PROVE  WorkSettled(c)'
<1>0. /\ TypeOK /\ WorkSettled(c) /\ Nobody \notin Consumers
      /\ pc \in [Consumers -> Steps]
      /\ work \in [Consumers -> [first : Nat, next : Nat, last : Nat]]
  BY OwnerAssumption DEF OffsetInv, TypeOK
<1>1. CASE \/ UNCHANGED vars \/ Tick
           \/ ScheduleRetry \/ EnqueueReplay \/ Announce
  <2>1. UNCHANGED <<pc, work, owner>>
    BY <1>1 DEF vars, Tick, ScheduleRetry, EnqueueReplay, Announce, Published
  <2> QED BY <1>0, <2>1, OthersKeep
<1>2. ASSUME NEW d \in Consumers,
             \/ Start(d) \/ Assign(d) \/ Expire(d) \/ Heartbeat(d)
             \/ ConsumerStep(d) \/ Throw(d) \/ Rebalance(d) \/ Crash(d)
             \/ Abort(d)
      PROVE  WorkSettled(c)'
  <2>1. CASE d = c
    BY <1>2, <2>1, MoverSettled
  <2>2. CASE d # c
    <3>1. pc'[c] = pc[c] /\ (owner' = c => owner = c)
      BY <1>0, <1>2, <2>2
         DEF ConsumerStep, Start, Assign, Expire, Heartbeat, Fetch, Wake,
             Relay, MarkProcessed, PersistAudit, Return, Commit, Throw,
             Rebalance, Crash, Abort, Leave, Goto
    <3>2. work'[c] = work[c]
      BY <1>0, <1>2, <2>2
         DEF ConsumerStep, Start, Assign, Expire, Heartbeat, Fetch, Wake,
             Relay, MarkProcessed, PersistAudit, Return, Commit, Throw,
             Rebalance, Crash, Abort, Leave
    <3> QED BY <1>0, <3>1, <3>2, OthersKeep
  <2> QED BY <2>1, <2>2
<1> QED BY <1>1, <1>2 DEF Next

(* Where a step may move the offset.                                       *)
LEMMA CommittedMoves ==
  ASSUME OffsetInv, [Next]_vars
  PROVE  \/ UNCHANGED committed
         \/ \E c \in Consumers :
              /\ pc[c] \in {"relay", "mark", "insert", "commit"}
              /\ committed' = work[c].next
BY DEF Next, ConsumerStep, Start, Assign, Expire, Heartbeat, Fetch, Wake,
       Relay, MarkProcessed, PersistAudit, Return, Commit, Throw,
       Rebalance, Crash, Abort, Leave, vars, Tick, ScheduleRetry, EnqueueReplay,
       Announce, Published

(* What a step may handle, and what it may mark.                           *)
LEMMA HandledMoves ==
  ASSUME OffsetInv, [Next]_vars
  PROVE  /\ \/ UNCHANGED handled
            \/ \E c \in Consumers :
                 pc[c] \in {"relay", "insert"} /\ Handled(c)
         /\ \/ UNCHANGED processed
            \/ \E c \in Consumers :
                 pc[c] = "mark" /\ processed' = processed \cup {work[c].next}
BY DEF Next, ConsumerStep, Start, Assign, Expire, Heartbeat, Fetch, Wake,
       Relay, MarkProcessed, PersistAudit, Return, Commit, Throw,
       Rebalance, Crash, Abort, Leave, vars, Tick, ScheduleRetry, EnqueueReplay,
       Announce, Published

(* A message that is handled for the first time has its predecessors       *)
(* settled; the offset only moves to settled positions.                    *)
LEMMA PrefixNext ==
  ASSUME OffsetInv, [Next]_vars, TypeOK', Grows
  PROVE  NothingSkipped' /\ RecordsAgree'
<1>0. /\ TypeOK /\ NothingSkipped /\ RecordsAgree
      /\ end \in Nat /\ end' \in Nat /\ end <= end' /\ Last \in Nat
      /\ end' <= Last
      /\ work \in [Consumers -> [first : Nat, next : Nat, last : Nat]]
      /\ handled \in [Messages -> Nat] /\ committed \in 0 .. end + 1
      /\ processed \subseteq Messages
  BY BoundAssumption DEF OffsetInv, TypeOK, Grows
<1>1. ASSUME NEW k \in Nat, k = committed'
      PROVE  /\ k # NoOffset => Settled(k)'
             /\ Recorded(k)'
  <2>1. CASE UNCHANGED committed
    <3>1. k \in 0 .. end + 1 /\ (k # NoOffset => Settled(k)) /\ Recorded(k)
      BY <1>0, <1>1, <2>1 DEF NothingSkipped, RecordsAgree
    <3> QED BY <3>1, PrefixKept
  <2>2. ASSUME NEW c \in Consumers, committed' = work[c].next,
               pc[c] \in {"relay", "mark", "insert", "commit"}
        PROVE  Settled(k)' /\ Recorded(k)'
    <3>1. /\ work[c].next \in 1 .. end + 1
          /\ Settled(work[c].next) /\ Recorded(work[c].next)
      BY <2>2 DEF OffsetInv, WorkSettled
    <3>2. k \in 1 .. end + 1 /\ Settled(k) /\ Recorded(k)
      BY <1>1, <2>2, <3>1
    <3>3. k \in 0 .. end + 1
      BY <1>0, <3>2
    <3> QED BY <3>2, <3>3, PrefixKept
  <2> QED BY <2>1, <2>2, CommittedMoves
<1>2. ASSUME NEW m \in 1 .. end', handled'[m] > 0
      PROVE  Settled(m)'
  <2>1. m \in Nat /\ m \in Messages
    BY <1>0 DEF Messages
  <2>2. CASE handled[m] > 0 /\ m \in 1 .. end
    <3>1. m \in 0 .. end + 1 /\ Settled(m)
      BY <1>0, <2>2 DEF NothingSkipped
    <3> QED BY <3>1, PrefixKept
  <2>3. CASE handled[m] > 0 /\ m \notin 1 .. end
    BY <1>0, <2>1, <2>3 DEF OffsetInv, Blank
  <2>4. CASE ~(handled[m] > 0)
    <3>1. PICK c \in Consumers : pc[c] \in {"relay", "insert"} /\ Handled(c)
      BY <1>2, <2>4, HandledMoves
    <3>2. /\ work[c].next \in 1 .. end /\ Settled(work[c].next)
      BY <3>1, AtHand
    <3>3. m = work[c].next
      BY <1>0, <1>2, <2>1, <2>4, <3>1 DEF Handled
    <3>4. m \in 0 .. end + 1 /\ Settled(m)
      BY <1>0, <3>2, <3>3
    <3> QED BY <3>4, PrefixKept
  <2> QED BY <2>2, <2>3, <2>4
<1>3. ASSUME NEW m \in processed' PROVE handled'[m] > 0
  <2>1. CASE m \in processed
    <3>1. handled[m] > 0 /\ m \in Messages
      BY <1>0, <2>1 DEF RecordsAgree
    <3> QED BY <3>1 DEF Grows
  <2>2. CASE m \notin processed
    <3>1. PICK c \in Consumers : pc[c] = "mark" /\ m = work[c].next
      BY <1>3, <2>2, HandledMoves
    <3>2. handled[work[c].next] > 0
      BY <3>1 DEF OffsetInv, WorkSettled
    <3>3. handled[m] > 0 /\ m \in Messages
      BY <3>1, <3>2, AtHand
    <3> QED BY <3>3 DEF Grows
  <2> QED BY <2>1, <2>2
<1>4. PICK k \in Nat : k = committed'
  <2>1. committed' \in Nat
    BY DEF TypeOK
  <2> QED BY <2>1
<1>5. /\ k # NoOffset => Settled(k)'
      /\ Recorded(k)'
  BY <1>1, <1>4
<1>6. NothingSkipped'
  BY <1>2, <1>4, <1>5 DEF NothingSkipped, Settled, NoOffset
<1>7. RecordsAgree'
  BY <1>3, <1>4, <1>5 DEF RecordsAgree, Recorded
<1> QED BY <1>6, <1>7

(* Delays stay what they were scheduled to be.                             *)
LEMMA DelaysNext ==
  ASSUME OffsetInv, [Next]_vars, TypeOK', Grows
  PROVE  DelaysKept' /\ Blank'
<1>0. /\ TypeOK /\ DelaysKept /\ Blank
      /\ end \in Nat /\ Last \in Nat /\ end <= end' /\ end' \in Nat
      /\ retry \in [Messages -> Retries \cup {0}]
      /\ delay \in [Messages -> 0 .. MaxDelay]
      /\ handled \in [Messages -> Nat]
  BY BoundAssumption DEF OffsetInv, TypeOK, Grows
<1>1. CASE ScheduleRetry \/ EnqueueReplay \/ Announce
  <2>1. PICK n \in Retries \cup {0}, d \in 0 .. MaxDelay :
          /\ Published(n, d)
          /\ n # 0 => /\ group = "retry"
                      /\ d >= Min({BaseDelay * 2 ^ n, MaxDelay})
    BY <1>1, PublishingSteps
  <2>2. /\ end' = end + 1 /\ group' = group /\ handled' = handled
        /\ retry' = [retry EXCEPT ![end + 1] = n]
        /\ delay' = [delay EXCEPT ![end + 1] = d]
    BY <2>1 DEF Published
  <2>3. ASSUME NEW m \in Messages, m = end + 1
        PROVE  retry'[m] = n /\ delay'[m] = d
    BY <1>0, <2>2, <2>3
  <2>4. ASSUME NEW m \in Messages, m # end + 1
        PROVE  retry'[m] = retry[m] /\ delay'[m] = delay[m]
    BY <1>0, <2>2, <2>4
  <2>5. DelaysKept'
    BY <1>0, <2>1, <2>2, <2>3, <2>4 DEF DelaysKept
  <2>6. ASSUME NEW m \in Messages, m > end'
        PROVE  m > end /\ m # end + 1
    BY <1>0, <2>2, <2>6 DEF Messages
  <2>7. Blank'
    BY <1>0, <2>2, <2>4, <2>6 DEF Blank
  <2> QED BY <2>5, <2>7
<1>2. ASSUME UNCHANGED <<end, retry, delay>>
      PROVE  DelaysKept' /\ Blank'
  <2>1. DelaysKept'
    BY <1>0, <1>2 DEF DelaysKept, Grows
  <2>2. ASSUME NEW m \in Messages, m > end
        PROVE  handled'[m] = handled[m]
    <3>1. CASE UNCHANGED handled
      BY <3>1
    <3>2. ASSUME NEW c \in Consumers, pc[c] \in {"relay", "insert"}, Handled(c)
          PROVE  handled'[m] = handled[m]
      <4>1. work[c].next \in 1 .. end
        BY <3>2, AtHand
      <4>2. m # work[c].next
        BY <1>0, <2>2, <4>1 DEF Messages
      <4> QED BY <1>0, <3>2, <4>2 DEF Handled
    <3> QED BY <3>1, <3>2, HandledMoves
  <2>3. Blank'
    BY <1>0, <1>2, <2>2 DEF Blank
  <2> QED BY <2>1, <2>3
<1>3. UNCHANGED <<end, retry, delay>>
      \/ ScheduleRetry \/ EnqueueReplay \/ Announce
  BY DEF Next, ConsumerStep, Start, Assign, Expire, Heartbeat, Fetch, Wake,
         Relay, MarkProcessed, PersistAudit, Return, Commit, Throw,
         Rebalance, Crash, Abort, Leave, messageVars, vars, Tick
<1> QED BY <1>1, <1>2, <1>3

-----------------------------------------------------------------------------
(* Initially no message is there, and nobody has the partition.            *)
LEMMA OffsetInitially == Init => OffsetInv
<1> SUFFICES ASSUME Init PROVE OffsetInv
    OBVIOUS
<1>1. TypeOK
  <2>1. \A c \in Consumers : work[c] = [first |-> 1, next |-> 1, last |-> 0]
    BY DEF Init, Resting
  <2>2. work \in [Consumers -> [first : Nat, next : Nat, last : Nat]]
    BY <2>1 DEF Init, Resting
  <2> QED BY <2>2, BoundAssumption, DelayAssumption
          DEF Init, TypeOK, Messages, NoOffset, Steps
<1>2. NothingSkipped
  BY DEF Init, NothingSkipped, Settled, NoOffset
<1>3. RecordsAgree
  BY DEF Init, RecordsAgree, Recorded, NoOffset
<1>4. DelaysKept /\ Blank
  BY DEF Init, DelaysKept, Blank
<1>5. \A c \in Consumers : WorkSettled(c)
  BY OwnerAssumption DEF Init, WorkSettled, Owns
<1> QED BY <1>1, <1>2, <1>3, <1>4, <1>5 DEF OffsetInv

LEMMA OffsetNext == OffsetInv /\ [Next]_vars => OffsetInv'
<1> SUFFICES ASSUME OffsetInv, [Next]_vars PROVE OffsetInv'
    OBVIOUS
<1>1. TypeOK' /\ Grows
  BY TypeNext, GrowsNext
<1>2. NothingSkipped' /\ RecordsAgree' /\ DelaysKept' /\ Blank'
  BY <1>1, PrefixNext, DelaysNext
<1>3. \A c \in Consumers : WorkSettled(c)'
  BY <1>1, WorkNext
<1> QED BY <1>1, <1>2, <1>3 DEF OffsetInv

(* The inductive invariant of positions and offsets holds.                 *)
LEMMA Offsets == Spec => []OffsetInv
BY OffsetInitially, OffsetNext, PTL DEF Spec

(* The variables keep their types: offsets, batches and ages stay within   *)
(* the partition and the delays.                                           *)
THEOREM TypeCorrect == Spec => []TypeOK
<1>1. OffsetInv => TypeOK
  BY DEF OffsetInv
<1> QED BY <1>1, Offsets, PTL

(* Neither commits nor later messages pass over one that nobody handled,   *)
(* whatever is lost, thrown, rebalanced or crashed.                        *)
THEOREM NothingLost == Spec => []NothingSkipped
<1>1. OffsetInv => NothingSkipped
  BY DEF OffsetInv
<1> QED BY <1>1, Offsets, PTL

(* retry_events.processed is set only after the relay, and before the      *)
(* offset passes the retry.                                                *)
THEOREM RecordsKept == Spec => []RecordsAgree
<1>1. OffsetInv => RecordsAgree
  BY DEF OffsetInv
<1> QED BY <1>1, Offsets, PTL

(* No step relays a retry before its delay, or the cap, has passed.        *)
THEOREM NotEarly == Spec => NeverEarly
<1>1. ASSUME OffsetInv, [Next]_vars
      PROVE  [\A m \in 1 .. end :
                handled'[m] > handled[m] /\ retry[m] # 0 =>
                  age[m] >= Min({BaseDelay * 2 ^ retry[m], MaxDelay})]_vars
  <2> SUFFICES ASSUME NEW m \in 1 .. end,
                      handled'[m] > handled[m], retry[m] # 0
               PROVE  age[m] >= Min({BaseDelay * 2 ^ retry[m], MaxDelay})
    OBVIOUS
  <2>0. /\ m \in Messages /\ handled \in [Messages -> Nat]
        /\ handled[m] \in Nat
    BY <1>1, BoundAssumption DEF OffsetInv, TypeOK, Messages
  <2>1. PICK c \in Consumers : pc[c] \in {"relay", "insert"} /\ Handled(c)
    <3>1. handled' # handled
      BY <2>0
    <3> QED BY <1>1, <3>1, HandledMoves
  <2>2. work[c].next = m
    BY <2>0, <2>1 DEF Handled
  <2>3. group = "retry" /\ delay[m] >= Min({BaseDelay * 2 ^ retry[m], MaxDelay})
    BY <1>1, <2>0 DEF OffsetInv, DelaysKept
  <2>4. pc[c] = "relay" /\ Due(work[c].next)
    BY <1>1, <2>1, <2>3 DEF OffsetInv, WorkSettled
  <2>5. age[m] = delay[m]
    BY <2>2, <2>4 DEF Due
  <2> QED BY <2>3, <2>5
<1> QED BY <1>1, Offsets, PTL DEF Spec, NeverEarly

-----------------------------------------------------------------------------
(* Sessions.                                                               *)

(* Numbers and functions, taken from the types.                            *)
LEMMA Typed ==
  ASSUME OffsetInv
  PROVE  /\ end \in Nat /\ Last \in Nat /\ end <= Last
         /\ SessionTimeout \in Nat /\ SessionTimeout > 0
         /\ MaxDelay \in Nat /\ disruptions \in Nat
         /\ owner \in Consumers \cup {Nobody} /\ Nobody \notin Consumers
         /\ pc \in [Consumers -> Steps]
         /\ work \in [Consumers -> [first : Nat, next : Nat, last : Nat]]
         /\ session \in [Consumers -> 0 .. SessionTimeout]
         /\ age \in [Messages -> Nat] /\ handled \in [Messages -> Nat]
         /\ delay \in [Messages -> 0 .. MaxDelay]
         /\ \A m \in Messages : age[m] <= delay[m]
         /\ \A m \in 1 .. end : m \in Messages
         /\ committed \in Nat /\ committed <= end + 1
<1>1. /\ end \in Nat /\ Last \in Nat /\ end <= Last
      /\ SessionTimeout \in Nat /\ SessionTimeout > 0
      /\ MaxDelay \in Nat /\ disruptions \in Nat
  BY BoundAssumption, DelayAssumption DEF OffsetInv, TypeOK
<1>2. /\ owner \in Consumers \cup {Nobody} /\ Nobody \notin Consumers
      /\ pc \in [Consumers -> Steps]
      /\ work \in [Consumers -> [first : Nat, next : Nat, last : Nat]]
      /\ session \in [Consumers -> 0 .. SessionTimeout]
      /\ age \in [Messages -> Nat] /\ handled \in [Messages -> Nat]
      /\ delay \in [Messages -> 0 .. MaxDelay]
      /\ \A m \in Messages : age[m] <= delay[m]
  BY OwnerAssumption DEF OffsetInv, TypeOK
<1>3. \A m \in 1 .. end : m \in Messages
  BY <1>1 DEF Messages
<1>4. committed \in Nat /\ committed <= end + 1
  BY <1>1 DEF OffsetInv, TypeOK
<1> QED BY <1>1, <1>2, <1>3, <1>4

(* A step touches the position of one consumer only.                       *)
Only(c) ==
  \A x \in Consumers \ {c} :
    /\ pc'[x] = pc[x]
    /\ work'[x] = work[x]
    /\ owner' = x <=> owner = x

(* Steps that are nobody's leave the positions alone.                      *)
LEMMA StepKinds ==
  ASSUME OffsetInv, [Next]_vars
  PROVE  \/ UNCHANGED vars
         \/ Tick
         \/ \E n \in Retries \cup {0}, d \in 0 .. MaxDelay : Published(n, d)
         \/ \E c \in Consumers :
              \/ Assign(c) \/ Heartbeat(c) \/ Abort(c)
              \/ Start(c) \/ Fetch(c) \/ Wake(c) \/ Relay(c)
              \/ MarkProcessed(c) \/ PersistAudit(c) \/ Commit(c)
              \/ Leave(c) \/ Expire(c)
              \/ Throw(c) \/ Rebalance(c) \/ Crash(c)
BY PublishingSteps DEF Next, ConsumerStep

(* What each action does to positions.                                     *)
LEMMA OnlyOne ==
  ASSUME OffsetInv, NEW c \in Consumers,
         \/ Assign(c) \/ Heartbeat(c) \/ Abort(c)
         \/ Start(c) \/ Fetch(c) \/ Wake(c) \/ Relay(c)
         \/ MarkProcessed(c) \/ PersistAudit(c) \/ Commit(c)
         \/ Leave(c) \/ Expire(c)
         \/ Throw(c) \/ Rebalance(c) \/ Crash(c)
  PROVE  /\ Only(c)
         /\ UNCHANGED <<end, delay, age, group>>
         /\ disruptions' \in {disruptions, disruptions + 1}
<1>1. UNCHANGED <<end, delay, age, group>>
  BY DEF Assign, Heartbeat, Abort, Start, Fetch, Wake, Relay, MarkProcessed,
         PersistAudit, Return, Commit, Leave, Expire, Throw, Rebalance, Crash,
         messageVars
<1>2. disruptions' \in {disruptions, disruptions + 1}
  BY DEF Assign, Heartbeat, Abort, Start, Fetch, Wake, Relay, MarkProcessed,
         PersistAudit, Return, Commit, Leave, Expire, Throw, Rebalance, Crash,
         Disrupt
<1>3. /\ \/ UNCHANGED pc
         \/ \E step : pc' = [pc EXCEPT ![c] = step]
      /\ \/ UNCHANGED work
         \/ \E batch : work' = [work EXCEPT ![c] = batch]
         \/ \E n : work' = [work EXCEPT ![c].last = n]
         \/ work' = [work EXCEPT ![c].next = @ + 1]
      /\ \/ UNCHANGED owner
         \/ owner = c /\ owner' = Nobody
         \/ owner = Nobody /\ owner' = c
  BY DEF Assign, Heartbeat, Abort, Start, Fetch, Wake, Relay, MarkProcessed,
         PersistAudit, Return, Commit, Leave, Expire, Throw, Rebalance, Crash,
         Goto, Owns
<1>4. \A x \in Consumers \ {c} : pc'[x] = pc[x]
  BY <1>3, Typed
<1>5. \A x \in Consumers \ {c} : work'[x] = work[x]
  BY <1>3, Typed
<1>6. \A x \in Consumers \ {c} : owner' = x <=> owner = x
  BY <1>3, Typed
<1> QED BY <1>1, <1>2, <1>4, <1>5, <1>6 DEF Only

(* Who sleeps with a full session, or as before, has slept no less.        *)
LEMMA SleptByAge ==
  ASSUME OffsetInv, NEW k \in 1 .. end, age' = age,
         SleepsWith(k)' =>
           \/ session'[owner'] = SessionTimeout
           \/ SleepsWith(k) /\ session'[owner'] = session[owner]
  PROVE  Slept(k) <= Slept(k)'
<1>1. age[k] \in Nat /\ SessionTimeout \in Nat
  BY Typed
<1>2. SleepsWith(k) =>
        session[owner] \in Nat /\ session[owner] <= SessionTimeout
  BY Typed DEF SleepsWith
<1>3. Slept(k) <= age[k]
  BY <1>1, <1>2 DEF Slept
<1>4. CASE ~SleepsWith(k)'
  <2>1. Slept(k)' = age[k]
    BY <1>4 DEF Slept
  <2> QED BY <1>3, <2>1
<1>5. CASE SleepsWith(k)' /\ session'[owner'] = SessionTimeout
  <2>1. Slept(k)' = age[k] - (SessionTimeout - SessionTimeout)
    BY <1>5 DEF Slept
  <2>2. Slept(k)' = age[k]
    BY <1>1, <2>1
  <2> QED BY <1>3, <2>2
<1>6. CASE SleepsWith(k)' /\ SleepsWith(k) /\ session'[owner'] = session[owner]
  <2>1. /\ Slept(k)' = age[k] - (SessionTimeout - session[owner])
        /\ Slept(k) = age[k] - (SessionTimeout - session[owner])
    BY <1>6 DEF Slept
  <2> QED BY <1>1, <1>2, <1>6, <2>1
<1> QED BY <1>4, <1>5, <1>6

(* Sleeping starts with a full session.                                    *)
FullUnlessAsleep ==
  \A c \in Consumers :
    ~(owner = c /\ pc[c] = "sleep") => session[c] = SessionTimeout

LEMMA FullNext ==
  ASSUME OffsetInv, FullUnlessAsleep, [Next]_vars
  PROVE  FullUnlessAsleep'
<1> SUFFICES ASSUME NEW x \in Consumers, ~(owner' = x /\ pc'[x] = "sleep")
             PROVE  session'[x] = SessionTimeout
    BY DEF FullUnlessAsleep
<1>0. ~(owner = x /\ pc[x] = "sleep") => session[x] = SessionTimeout
  BY DEF FullUnlessAsleep
<1>1. CASE Tick
  BY <1>0, <1>1, Typed DEF Tick, Owns
<1>2. CASE UNCHANGED <<owner, pc, session>>
  BY <1>0, <1>2
<1>3. ASSUME NEW c \in Consumers,
             \/ Assign(c) \/ Heartbeat(c) \/ Abort(c)
             \/ Start(c) \/ Fetch(c) \/ Wake(c) \/ Relay(c)
             \/ MarkProcessed(c) \/ PersistAudit(c) \/ Commit(c)
             \/ Leave(c) \/ Expire(c)
             \/ Throw(c) \/ Rebalance(c) \/ Crash(c)
      PROVE  session'[x] = SessionTimeout
  <2>1. CASE Abort(c)
    BY <1>0, <2>1 DEF Abort, Owns
  <2>2. CASE session' = [session EXCEPT ![c] = SessionTimeout]
    <3>1. CASE x = c
      BY <2>2, <3>1, Typed
    <3>2. CASE x # c
      <4>1. ~(owner = x /\ pc[x] = "sleep")
        BY <1>3, <3>2, OnlyOne DEF Only
      <4> QED BY <1>0, <2>2, <3>2, <4>1, Typed
    <3> QED BY <3>1, <3>2
  <2>3. CASE session' = session /\ pc[c] # "sleep"
    <3>1. CASE x = c
      BY <1>0, <2>3, <3>1
    <3>2. CASE x # c
      <4>1. ~(owner = x /\ pc[x] = "sleep")
        BY <1>3, <3>2, OnlyOne DEF Only
      <4> QED BY <1>0, <2>3, <4>1
    <3> QED BY <3>1, <3>2
  <2>4. \/ Abort(c)
        \/ session' = [session EXCEPT ![c] = SessionTimeout]
        \/ session' = session /\ pc[c] # "sleep"
    BY <1>3
       DEF Assign, Heartbeat, Start, Fetch, Wake, Relay, MarkProcessed,
           PersistAudit, Return, Commit, Leave, Expire, Throw, Rebalance, Crash
  <2> QED BY <2>1, <2>2, <2>3, <2>4
<1> QED BY <1>1, <1>2, <1>3, StepKinds DEF Published, vars

(* What the steps of a consumer do to its session.                         *)
LEMMA SessionSteps ==
  ASSUME OffsetInv, NEW c \in Consumers,
         \/ Assign(c) \/ Heartbeat(c) \/ Abort(c)
         \/ Start(c) \/ Fetch(c) \/ Wake(c) \/ Relay(c)
         \/ MarkProcessed(c) \/ PersistAudit(c) \/ Commit(c)
         \/ Leave(c) \/ Expire(c)
         \/ Throw(c) \/ Rebalance(c) \/ Crash(c)
  PROVE  /\ \/ session' = session
            \/ session' = [session EXCEPT ![c] = SessionTimeout]
         /\ owner = c /\ pc[c] = "sleep" /\ owner' = c /\ pc'[c] = "sleep" =>
              \/ session' = [session EXCEPT ![c] = SessionTimeout]
              \/ UNCHANGED <<work, session>>
<1>1. \/ session' = session
      \/ session' = [session EXCEPT ![c] = SessionTimeout]
  BY DEF Assign, Heartbeat, Abort, Start, Fetch, Wake, Relay, MarkProcessed,
         PersistAudit, Return, Commit, Leave, Expire, Throw, Rebalance, Crash
<1>2. ASSUME owner = c, pc[c] = "sleep", owner' = c, pc'[c] = "sleep"
      PROVE  \/ session' = [session EXCEPT ![c] = SessionTimeout]
             \/ UNCHANGED <<work, session>>
  BY <1>2, Typed
     DEF Assign, Heartbeat, Abort, Start, Fetch, Wake, Relay, MarkProcessed,
         PersistAudit, Return, Commit, Leave, Expire, Throw, Rebalance, Crash,
         Goto, Owns
<1> QED BY <1>1, <1>2

(* What was slept with a message stays slept.                              *)
LEMMA SleptGrows ==
  ASSUME OffsetInv, SessionsKept, [Next]_vars, NEW k \in 1 .. end
  PROVE  Slept(k) <= Slept(k)'
<1>1. CASE UNCHANGED <<age, owner, pc, work, session>>
  BY <1>1, SleptByAge DEF SleepsWith
<1>2. CASE Tick
  <2>1. k \in Messages /\ age[k] \in Nat /\ SessionTimeout \in Nat
    BY Typed
  <2>2. SleepsWith(k)' <=> SleepsWith(k)
    BY <1>2 DEF Tick, SleepsWith
  <2>3. CASE SleepsWith(k)
    <3>1. owner \in Consumers /\ owner' = owner /\ session[owner] \in Nat
      BY <1>2, <2>3, Typed DEF SleepsWith, Tick
    <3>2. ~Due(k)
      BY <1>2, <2>3, <3>1 DEF Tick, SleepsWith
    <3>3. age'[k] = age[k] + 1 /\ session'[owner] = session[owner] - 1
      BY <1>2, <2>1, <2>3, <3>1, <3>2 DEF Tick, SleepsWith, Owns
    <3>4. /\ Slept(k) = age[k] - (SessionTimeout - session[owner])
          /\ Slept(k)' = age'[k] - (SessionTimeout - session'[owner'])
      BY <2>2, <2>3 DEF Slept
    <3>5. Slept(k)' = age[k] + 1 - (SessionTimeout - (session[owner] - 1))
      BY <2>1, <3>1, <3>3, <3>4
    <3> QED BY <2>1, <3>1, <3>4, <3>5
  <2>4. CASE ~SleepsWith(k)
    <3>1. Slept(k) = age[k] /\ Slept(k)' = age'[k]
      BY <2>2, <2>4 DEF Slept
    <3>2. age'[k] \in {age[k], age[k] + 1}
      BY <1>2, <2>1 DEF Tick
    <3> QED BY <2>1, <3>1, <3>2
  <2> QED BY <2>3, <2>4
<1>3. ASSUME NEW c \in Consumers,
             \/ Assign(c) \/ Heartbeat(c) \/ Abort(c)
             \/ Start(c) \/ Fetch(c) \/ Wake(c) \/ Relay(c)
             \/ MarkProcessed(c) \/ PersistAudit(c) \/ Commit(c)
             \/ Leave(c) \/ Expire(c)
             \/ Throw(c) \/ Rebalance(c) \/ Crash(c)
      PROVE  Slept(k) <= Slept(k)'
  <2>1. age' = age
    BY <1>3, OnlyOne
  <2>2. ASSUME SleepsWith(k)'
        PROVE  \/ session'[owner'] = SessionTimeout
               \/ SleepsWith(k) /\ session'[owner'] = session[owner]
    <3>1. owner' \in Consumers /\ pc'[owner'] = "sleep" /\ work'[owner'].next = k
      <4>1. owner' \in Consumers \cup {Nobody}
        BY <1>3, Typed
           DEF Assign, Heartbeat, Abort, Start, Fetch, Wake, Relay,
               MarkProcessed, PersistAudit, Return, Commit, Leave, Expire,
               Throw, Rebalance, Crash, Owns
      <4> QED BY <2>2, <4>1 DEF SleepsWith
    <3>2. /\ \/ session' = session
             \/ session' = [session EXCEPT ![c] = SessionTimeout]
          /\ owner = c /\ pc[c] = "sleep" /\ owner' = c /\ pc'[c] = "sleep" =>
               \/ session' = [session EXCEPT ![c] = SessionTimeout]
               \/ UNCHANGED <<work, session>>
      BY <1>3, SessionSteps
    <3>3. CASE ~(owner = owner' /\ pc[owner'] = "sleep")
      <4>1. session[owner'] = SessionTimeout
        BY <3>1, <3>3 DEF SessionsKept, Owns
      <4> QED BY <3>1, <3>2, <4>1, Typed
    <3>4. CASE owner = owner' /\ pc[owner'] = "sleep" /\ owner = c
      BY <3>1, <3>2, <3>4, Typed DEF SleepsWith
    <3>5. CASE owner = owner' /\ pc[owner'] = "sleep" /\ owner # c
      <4>1. work'[owner] = work[owner]
        BY <1>3, <3>1, <3>5, OnlyOne DEF Only
      <4>2. session'[owner] = session[owner]
        BY <3>1, <3>2, <3>5, Typed
      <4> QED BY <3>1, <3>5, <4>1, <4>2, Typed DEF SleepsWith
    <3> QED BY <3>3, <3>4, <3>5
  <2> QED BY <2>1, <2>2, SleptByAge
<1> QED BY <1>1, <1>2, <1>3, StepKinds DEF Published, vars

(* A message under way has been published.                                 *)
LEMMA UnderWay ==
  ASSUME OffsetInv, NEW c \in Consumers,
         pc[c] \in {"sleep", "relay", "mark", "insert"}
  PROVE  work[c].next \in 1 .. end
<1>1. WorkSettled(c)
  BY DEF OffsetInv
<1>2. work[c].next \in 1 .. end + 1 /\ work[c].last \in Nat
  BY <1>1, Typed DEF WorkSettled
<1>3. work[c].next <= work[c].last /\ work[c].last <= end
  BY <1>1 DEF WorkSettled
<1> QED BY <1>2, <1>3, Typed

LEMMA SessionsNext ==
  ASSUME OffsetInv, SessionsKept, [Next]_vars
  PROVE  SessionsKept'
<1>1. FullUnlessAsleep'
  BY FullNext DEF SessionsKept, FullUnlessAsleep, Owns
<1>2. ASSUME NEW k \in 1 .. end
      PROVE  Slept(k)' >= 0
  <2>1. Slept(k) >= 0 /\ Slept(k) <= Slept(k)'
    BY <1>2, SleptGrows DEF SessionsKept
  <2>2. Slept(k) \in Int
    <3>1. age[k] \in Nat /\ SessionTimeout \in Nat
      BY <1>2, Typed
    <3>2. SleepsWith(k) => session[owner] \in Nat
      BY Typed DEF SleepsWith
    <3> QED BY <3>1, <3>2 DEF Slept
  <2>3. Slept(k)' \in Int
    <3>1. OffsetInv'
      BY OffsetNext
    <3>2. age'[k] \in Nat
      <4>1. k \in Messages
        BY <1>2, Typed
      <4> QED BY <3>1, <4>1 DEF OffsetInv, TypeOK
    <3>3. SleepsWith(k)' => session'[owner'] \in Int
      <4>1. /\ session' \in [Consumers -> 0 .. SessionTimeout]
            /\ owner' \in Consumers \cup {Nobody}
        BY <3>1 DEF OffsetInv, TypeOK
      <4> QED BY <4>1, Typed DEF SleepsWith
    <3> QED BY <3>2, <3>3, Typed DEF Slept
  <2> QED BY <2>1, <2>2, <2>3
<1>3. ASSUME NEW n \in Retries \cup {0}, NEW d \in 0 .. MaxDelay,
             Published(n, d), NEW k, k = end + 1
      PROVE  Slept(k)' >= 0
  <2>1. ~SleepsWith(k)'
    <3>1. ASSUME owner # Nobody, pc[owner] = "sleep"
          PROVE  work[owner].next # k
      <4>1. work[owner].next \in 1 .. end
        BY <3>1, UnderWay, Typed
      <4> QED BY <1>3, <4>1, Typed
    <3> QED BY <1>3, <3>1 DEF Published, SleepsWith
  <2>2. Slept(k)' = age[k]
    BY <1>3, <2>1 DEF Slept, Published
  <2>3. age[k] \in Nat
    BY <1>3, Typed DEF Published, Messages
  <2> QED BY <2>2, <2>3
<1>4. \/ end' = end
      \/ /\ end' = end + 1
         /\ \E n \in Retries \cup {0}, d \in 0 .. MaxDelay : Published(n, d)
  BY StepKinds, OnlyOne DEF Published, vars, Tick
<1>5. \A k \in 1 .. end' : Slept(k)' >= 0
  <2>1. SUFFICES ASSUME NEW k \in 1 .. end' PROVE Slept(k)' >= 0
    OBVIOUS
  <2>2. CASE k \in 1 .. end
    BY <1>2, <2>2
  <2>3. CASE k \notin 1 .. end
    <3>1. end' = end + 1
      BY <1>4, <2>1, <2>3
    <3>2. k = end + 1
      BY <2>1, <2>3, <3>1, Typed
    <3>3. end' # end
      BY <3>1, Typed
    <3>4. PICK n \in Retries \cup {0}, d \in 0 .. MaxDelay : Published(n, d)
      BY <1>4, <3>3
    <3> QED BY <1>3, <3>2, <3>4
  <2> QED BY <2>2, <2>3
<1> QED BY <1>1, <1>5 DEF SessionsKept, FullUnlessAsleep, Owns

-----------------------------------------------------------------------------
(* Batches.                                                                *)

LEMMA RestingFields ==
  ASSUME NEW n
  PROVE  Resting(n).first = n /\ Resting(n).next = n
BY DEF Resting

LEMMA BatchNext ==
  ASSUME OffsetInv, BatchKept, [Next]_vars
  PROVE  BatchKept'
<1>1. CASE UNCHANGED <<committed, owner, pc, work>>
  BY <1>1 DEF BatchKept, Owns
<1>2. ASSUME NEW c \in Consumers,
             \/ Assign(c) \/ Heartbeat(c) \/ Abort(c)
             \/ Start(c) \/ Fetch(c) \/ Wake(c) \/ Relay(c)
             \/ MarkProcessed(c) \/ PersistAudit(c) \/ Commit(c)
             \/ Leave(c) \/ Expire(c)
             \/ Throw(c) \/ Rebalance(c) \/ Crash(c)
      PROVE  BatchKept'
  <2> SUFFICES ASSUME NEW x \in Consumers, owner' = x
               PROVE  /\ committed' = NoOffset \/ work'[x].first = committed'
                      /\ work'[x].first <= work'[x].next
                      /\ pc'[x] = "idle" => work'[x].first = work'[x].next
    BY DEF BatchKept, Owns
  <2>1. CASE x # c
    <3>1. owner = x /\ pc'[x] = pc[x] /\ work'[x] = work[x]
      BY <1>2, <2>1, OnlyOne DEF Only
    <3>2. committed' = committed
      BY <1>2, <2>1, <3>1
         DEF Assign, Heartbeat, Abort, Start, Fetch, Wake, Relay,
             MarkProcessed, PersistAudit, Return, Commit, Leave, Expire,
             Throw, Rebalance, Crash, Owns
    <3> QED BY <3>1, <3>2 DEF BatchKept, Owns
  <2>2. CASE x = c /\ owner # c
    <3>1. Assign(c)
      BY <1>2, <2>2, Typed
         DEF Assign, Heartbeat, Abort, Start, Fetch, Wake, Relay,
             MarkProcessed, PersistAudit, Return, Commit, Leave, Expire,
             Throw, Rebalance, Crash, Owns
    <3>2. work'[c] = Resting(IF committed = NoOffset THEN end + 1 ELSE committed)
      BY <3>1, Typed DEF Assign
    <3>3. committed' = committed
      BY <3>1 DEF Assign
    <3>4. /\ work'[c].first = IF committed = NoOffset THEN end + 1 ELSE committed
          /\ work'[c].next = IF committed = NoOffset THEN end + 1 ELSE committed
      BY <3>2, RestingFields
    <3> QED BY <2>2, <3>3, <3>4, Typed
  <2>3. CASE x = c /\ owner = c
    <3>1. /\ committed = NoOffset \/ work[c].first = committed
          /\ work[c].first <= work[c].next
          /\ pc[c] = "idle" => work[c].first = work[c].next
          /\ work[c].first \in Nat /\ work[c].next \in Nat
      BY <2>3, Typed DEF BatchKept, Owns
    <3>2. CASE /\ committed' = committed
               /\ work'[c].first = work[c].first
               /\ work'[c].next \in {work[c].next, work[c].next + 1}
               /\ pc'[c] = "idle" => pc[c] = "idle" /\ work'[c].next = work[c].next
      BY <2>3, <3>1, <3>2
    <3>3. CASE /\ work'[c].first = work[c].next
               /\ work'[c].next = work[c].next
               /\ committed' = IF work[c].next > work[c].first THEN work[c].next
                               ELSE committed
      BY <2>3, <3>1, <3>3
    <3>4. CASE /\ work'[c].first = work[c].next
               /\ work'[c].next = work[c].next
               /\ committed' = work[c].next
      BY <2>3, <3>1, <3>4
    <3>5. CASE Commit(c)
      <4>1. work'[c] = Resting(work[c].next) /\ committed' = work[c].next
        BY <2>3, <3>5, Typed DEF Commit, Owns
      <4> QED BY <3>4, <4>1, RestingFields
    <3>6. CASE Throw(c)
      <4>1. /\ work'[c] = Resting(work[c].next)
            /\ committed' = IF work[c].next > work[c].first THEN work[c].next
                            ELSE committed
        BY <2>3, <3>6, Typed DEF Throw, Owns
      <4> QED BY <3>3, <4>1, RestingFields
    <3>7. CASE Fetch(c)
      <4>1. /\ work'[c].first = work[c].first /\ work'[c].next = work[c].next
            /\ pc[c] = "idle" /\ committed' = committed
        BY <3>7, Typed DEF Fetch
      <4> QED BY <3>2, <4>1
    <3>8. CASE Return(c)
      <4>1. /\ work'[c].first = work[c].first
            /\ work'[c].next = work[c].next + 1
            /\ pc'[c] # "idle" /\ committed' = committed
        BY <2>3, <3>8, Typed DEF Return, Owns, Goto, FirstStep
      <4> QED BY <3>2, <4>1
    <3>9. CASE /\ UNCHANGED <<committed, work>>
               /\ pc'[c] = "idle" => pc[c] = "idle"
      BY <3>2, <3>9
    <3>10. \/ Commit(c) \/ Throw(c) \/ Fetch(c) \/ Return(c)
           \/ /\ UNCHANGED <<committed, work>>
              /\ pc'[c] = "idle" => pc[c] = "idle"
      <4>1. owner = c /\ owner' = c /\ owner # Nobody /\ pc[c] # "down"
            /\ pc \in [Consumers -> Steps]
        BY <2>3, Typed DEF OffsetInv, WorkSettled, Owns
      <4> QED
        BY <1>2, <4>1
         DEF Assign, Heartbeat, Abort, Start, Wake, Relay, MarkProcessed,
             PersistAudit, Leave, Expire, Rebalance, Crash, Owns, Goto
    <3> QED BY <3>5, <3>6, <3>7, <3>8, <3>9, <3>10
  <2> QED BY <2>1, <2>2, <2>3
<1> QED BY <1>1, <1>2, StepKinds DEF Published, vars, Tick

-----------------------------------------------------------------------------
(* The members that handle m although they have lost the partition.        *)

LEMMA StraysFinite ==
  ASSUME NEW m
  PROVE  /\ Strays(m) \subseteq Consumers
         /\ IsFiniteSet(Strays(m))
         /\ Cardinality(Strays(m)) \in Nat
<1>1. Strays(m) \subseteq Consumers
  BY DEF Strays
<1>2. IsFiniteSet(Strays(m))
  BY <1>1, ConsumerAssumption, FS_Subset
<1> QED BY <1>1, <1>2, FS_CardinalityType

(* Two sets that differ in c at most.                                      *)
LEMMA CardinalityBut ==
  ASSUME NEW S, IsFiniteSet(S), NEW c
  PROVE  /\ IsFiniteSet(S \ {c})
         /\ Cardinality(S \ {c}) \in Nat
         /\ Cardinality(S) = Cardinality(S \ {c}) + One(c \in S)
<1>1. /\ IsFiniteSet(S \ {c})
      /\ Cardinality(S \ {c}) =
           IF c \in S THEN Cardinality(S) - 1 ELSE Cardinality(S)
  BY FS_RemoveElement
<1>2. Cardinality(S) \in Nat /\ Cardinality(S \ {c}) \in Nat
  BY <1>1, FS_CardinalityType
<1>3. CASE c \in S
  <2>1. Cardinality(S \ {c}) = Cardinality(S) - 1 /\ One(c \in S) = 1
    BY <1>1, <1>3 DEF One
  <2> QED BY <1>1, <1>2, <2>1
<1>4. CASE c \notin S
  <2>1. Cardinality(S \ {c}) = Cardinality(S) /\ One(c \in S) = 0
    BY <1>1, <1>4 DEF One
  <2> QED BY <1>1, <1>2, <2>1
<1> QED BY <1>3, <1>4

(* A step of c changes the strays by c at most.                            *)
LEMMA StraysMove ==
  ASSUME NEW c \in Consumers, Only(c), NEW m
  PROVE  Cardinality(Strays(m)') + One(c \in Strays(m)) =
           Cardinality(Strays(m)) + One((c \in Strays(m))')
<1>1. Strays(m)' \ {c} = Strays(m) \ {c}
  BY DEF Only, Strays, Owns
<1>2. IsFiniteSet(Strays(m)')
  <2>1. Strays(m)' \subseteq Consumers
    BY DEF Strays
  <2> QED BY <2>1, ConsumerAssumption, FS_Subset
<1>3. IsFiniteSet(Strays(m))
  BY StraysFinite
<1> DEFINE rest == Cardinality(Strays(m) \ {c})
           here == One(c \in Strays(m))
           then == One((c \in Strays(m))')
<1>4. rest \in Nat /\ Cardinality(Strays(m)) = rest + here
  BY <1>3, CardinalityBut
<1>5. Cardinality(Strays(m)') = rest + then
  BY <1>1, <1>2, CardinalityBut
<1>6. here \in {0, 1} /\ then \in {0, 1}
  BY DEF One
<1> HIDE DEF rest, here, then
<1> QED BY <1>4, <1>5, <1>6 DEF here, then

-----------------------------------------------------------------------------
(* What c has a share in: how often m was handled, its own handling of m   *)
(* as a stray, and the handling that the group awaits.                     *)

Share(c, m) == handled[m] + One(c \in Strays(m)) + One(Awaited(m))

(* Every step of c that is not a disruption leaves the sum alone or makes  *)
(* it smaller; a disruption and the end of a session add one at most.      *)
Fair(c, m) ==
  \/ Share(c, m)' <= Share(c, m)
  \/ Share(c, m)' <= Share(c, m) + 1 /\ disruptions' = disruptions + 1
  \/ Share(c, m)' <= Share(c, m) + 1 /\ Expire(c) /\ m <= work[c].next

(* What keeps the sum from growing.                                        *)
LEMMA ShareFair ==
  ASSUME NEW c, NEW m, handled[m] \in Nat,
         \/ /\ handled'[m] = handled[m]
            /\ (c \in Strays(m))' => c \in Strays(m)
            /\ Awaited(m)' => Awaited(m)
         \/ /\ handled'[m] = handled[m] + 1
            /\ c \in Strays(m) /\ ~(c \in Strays(m))'
            /\ Awaited(m)' => Awaited(m)
         \/ /\ handled'[m] = handled[m] + 1
            /\ Awaited(m) /\ ~Awaited(m)'
            /\ (c \in Strays(m))' => c \in Strays(m)
  PROVE  Share(c, m)' <= Share(c, m)
BY DEF Share, One

(* What keeps it from growing by more than one.                            *)
LEMMA ShareMore ==
  ASSUME NEW c, NEW m, handled[m] \in Nat,
         \/ /\ handled'[m] = handled[m]
            /\ c \notin Strays(m)
            /\ (c \in Strays(m))' => Awaited(m)
         \/ /\ handled'[m] = handled[m]
            /\ (c \in Strays(m))' => c \in Strays(m)
         \/ /\ handled'[m] \in {handled[m], handled[m] + 1}
            /\ (c \in Strays(m))' => c \in Strays(m)
            /\ Awaited(m)' => Awaited(m)
  PROVE  Share(c, m)' <= Share(c, m) + 1
BY DEF Share, One

(* What a consumer without the partition does is not awaited.              *)
LEMMA AwaitedAway ==
  ASSUME OffsetInv, NEW c \in Consumers, NEW m, owner # c, owner' # c,
         \/ Assign(c) \/ Heartbeat(c) \/ Abort(c)
         \/ Start(c) \/ Fetch(c) \/ Wake(c) \/ Relay(c)
         \/ MarkProcessed(c) \/ PersistAudit(c) \/ Commit(c)
         \/ Leave(c) \/ Expire(c)
         \/ Throw(c) \/ Rebalance(c) \/ Crash(c)
  PROVE  Awaited(m)' <=> Awaited(m)
<1>1. owner' = owner /\ committed' = committed
  BY DEF Assign, Heartbeat, Abort, Start, Fetch, Wake, Relay, MarkProcessed,
         PersistAudit, Return, Commit, Leave, Expire, Throw, Rebalance, Crash,
         Owns
<1>2. end' = end
  BY OnlyOne
<1>3. owner # Nobody => pc'[owner] = pc[owner] /\ work'[owner] = work[owner]
  BY OnlyOne, Typed DEF Only
<1> QED BY <1>1, <1>2, <1>3 DEF Awaited, Position

LEMMA ShareAway ==
  ASSUME OffsetInv, NEW c \in Consumers, NEW m \in 1 .. end,
         owner # c, owner' # c,
         \/ Assign(c) \/ Heartbeat(c) \/ Abort(c)
         \/ Start(c) \/ Fetch(c) \/ Wake(c) \/ Relay(c)
         \/ MarkProcessed(c) \/ PersistAudit(c) \/ Commit(c)
         \/ Leave(c) \/ Expire(c)
         \/ Throw(c) \/ Rebalance(c) \/ Crash(c)
  PROVE  Fair(c, m)
<1>1. Awaited(m)' <=> Awaited(m)
  BY AwaitedAway
<1>2. handled \in [Messages -> Nat] /\ m \in Messages /\ handled[m] \in Nat
  BY Typed
<1>3. pc \in [Consumers -> Steps] /\ work[c] \in [first : Nat, next : Nat, last : Nat]
  BY Typed
<1>4. CASE Start(c) \/ Commit(c) \/ Leave(c) \/ Crash(c) \/ MarkProcessed(c)
  <2>1. handled' = handled /\ pc'[c] \in {"idle", "down"}
    BY <1>3, <1>4
       DEF Start, Commit, Leave, Crash, MarkProcessed, Return, Goto, Owns
  <2>2. ~(c \in Strays(m))'
    BY <2>1 DEF Strays
  <2> QED BY <1>1, <1>2, <2>1, <2>2, ShareFair DEF Fair
<1>5. CASE Abort(c) \/ Wake(c)
  <2>1. /\ handled' = handled /\ work' = work
        /\ pc'[c] \in {"sleep", "relay", "insert"} =>
             pc[c] \in {"sleep", "relay", "insert"}
    BY <1>3, <1>5 DEF Abort, Wake, Goto
  <2>2. (c \in Strays(m))' => c \in Strays(m)
    BY <2>1 DEF Strays, Owns
  <2> QED BY <1>1, <1>2, <2>1, <2>2, ShareFair DEF Fair
<1>6. CASE Relay(c) \/ PersistAudit(c)
  <2>1. /\ pc[c] \in {"relay", "insert"} /\ pc'[c] \in {"idle", "mark"}
        /\ handled' = [handled EXCEPT ![work[c].next] = @ + 1]
    BY <1>3, <1>6 DEF Relay, PersistAudit, Return, Goto, Owns, Handled
  <2>2. ~(c \in Strays(m))'
    BY <2>1 DEF Strays
  <2>3. CASE work[c].next = m
    <3>1. c \in Strays(m)
      BY <2>1, <2>3 DEF Strays, Owns
    <3>2. handled'[m] = handled[m] + 1
      BY <1>2, <2>1, <2>3
    <3> QED BY <1>1, <1>2, <2>2, <3>1, <3>2, ShareFair DEF Fair
  <2>4. CASE work[c].next # m
    <3>1. handled'[m] = handled[m]
      BY <1>2, <2>1, <2>4
    <3> QED BY <1>1, <1>2, <2>2, <3>1, ShareFair DEF Fair
  <2> QED BY <2>3, <2>4
<1>7. CASE Throw(c)
  <2>1. /\ pc'[c] = "idle" /\ disruptions' = disruptions + 1
        /\ \/ handled' = handled
           \/ handled' = [handled EXCEPT ![work[c].next] = @ + 1]
    BY <1>3, <1>7 DEF Throw, Goto, Handled, Disrupt
  <2>2. ~(c \in Strays(m))'
    BY <2>1 DEF Strays
  <2>3. handled'[m] \in {handled[m], handled[m] + 1}
    BY <1>2, <2>1
  <2>4. Share(c, m)' <= Share(c, m) + 1
    BY <1>1, <1>2, <2>2, <2>3, ShareMore
  <2> QED BY <2>1, <2>4 DEF Fair
<1>8. ~Heartbeat(c) /\ ~Expire(c) /\ ~Rebalance(c) /\ ~Fetch(c) /\ ~Assign(c)
  BY DEF Heartbeat, Expire, Rebalance, Fetch, Assign, Owns
<1> QED BY <1>4, <1>5, <1>6, <1>7, <1>8

(* A member that is given the partition goes on where the group stands.    *)
LEMMA ShareTaken ==
  ASSUME OffsetInv, NEW c \in Consumers, NEW m \in 1 .. end,
         owner # c, owner' = c, Assign(c)
  PROVE  Fair(c, m)
<1> DEFINE start == IF committed = NoOffset THEN end + 1 ELSE committed
<1>1. /\ owner = Nobody /\ owner' = c /\ c # Nobody
      /\ pc[c] = "idle" /\ pc'[c] = "idle"
      /\ handled' = handled
      /\ work'[c] = Resting(start)
  BY Typed DEF Assign
<1>2. Position' = start
  <2>1. Position' = work'[c].next
    BY <1>1 DEF Position
  <2> QED BY <1>1, <2>1, RestingFields
<1>3. Position = start
  BY <1>1 DEF Position
<1>4. Awaited(m)' => Awaited(m)
  BY <1>1, <1>2, <1>3 DEF Awaited
<1>5. ~(c \in Strays(m))'
  BY <1>1 DEF Strays
<1>6. handled[m] \in Nat
  BY Typed
<1> QED BY <1>1, <1>4, <1>5, <1>6, ShareFair DEF Fair

(* The owner's own steps.                                                  *)
LEMMA ShareOwner ==
  ASSUME OffsetInv, BatchKept, NEW c \in Consumers, NEW m \in 1 .. end,
         owner = c,
         \/ Assign(c) \/ Heartbeat(c) \/ Abort(c)
         \/ Start(c) \/ Fetch(c) \/ Wake(c) \/ Relay(c)
         \/ MarkProcessed(c) \/ PersistAudit(c) \/ Commit(c)
         \/ Leave(c) \/ Expire(c)
         \/ Throw(c) \/ Rebalance(c) \/ Crash(c)
  PROVE  Fair(c, m)
<1> DEFINE n == work[c].next
<1>1. /\ handled \in [Messages -> Nat] /\ m \in Messages /\ handled[m] \in Nat
      /\ pc \in [Consumers -> Steps] /\ n \in Nat /\ end \in Nat
      /\ work[c] \in [first : Nat, next : Nat, last : Nat]
      /\ c # Nobody /\ committed \in Nat
  BY Typed
<1>2. c \notin Strays(m)
  BY DEF Strays, Owns
<1>3. Awaited(m) <=> n <= m /\ ~(pc[c] = "mark" /\ n = m)
  BY <1>1 DEF Awaited, Position
<1>4. pc[c] # "down"
  BY DEF OffsetInv, WorkSettled, Owns
<1>5. owner' = c =>
        /\ ~(c \in Strays(m))'
        /\ Awaited(m)' <=> /\ work'[c].next <= m
                           /\ ~(pc'[c] = "mark" /\ work'[c].next = m)
  BY <1>1 DEF Strays, Owns, Awaited, Position
<1>6. CASE Heartbeat(c) \/ Abort(c) \/ Fetch(c) \/ Wake(c) \/ Commit(c)
  <2>1. CASE Heartbeat(c) \/ Abort(c)
    <3>1. owner' = c /\ handled' = handled /\ work' = work /\ pc' = pc
      BY <2>1 DEF Heartbeat, Abort
    <3> QED BY <1>1, <1>3, <1>5, <3>1, ShareFair DEF Fair
  <2>2. CASE Fetch(c) \/ Wake(c)
    <3>1. /\ owner' = c /\ handled' = handled /\ work'[c].next = n
          /\ pc[c] # "mark" /\ pc'[c] # "mark"
      BY <1>1, <2>2, Typed DEF Fetch, Wake, Goto, FirstStep
    <3> QED BY <1>1, <1>3, <1>5, <3>1, ShareFair DEF Fair
  <2>3. CASE Commit(c)
    <3>1. /\ owner' = c /\ handled' = handled
          /\ work'[c] = Resting(n)
          /\ pc[c] # "mark" /\ pc'[c] # "mark"
      BY <1>1, <2>3, Typed DEF Commit, Goto, Owns
    <3>2. work'[c].next = n
      BY <3>1, RestingFields
    <3> QED BY <1>1, <1>3, <1>5, <3>1, <3>2, ShareFair DEF Fair
  <2> QED BY <1>6, <2>1, <2>2, <2>3
<1>7. CASE Relay(c) \/ PersistAudit(c)
  <2>1. /\ owner' = c /\ pc[c] \in {"relay", "insert"}
        /\ handled' = [handled EXCEPT ![n] = @ + 1]
        /\ \/ work'[c].next = n + 1 /\ pc'[c] # "mark"
           \/ work'[c].next = n /\ pc'[c] = "mark"
    BY <1>1, <1>7, Typed
       DEF Relay, PersistAudit, Return, Handled, Goto, Owns, FirstStep
  <2>2. CASE n = m
    <3>1. handled'[m] = handled[m] + 1 /\ Awaited(m) /\ ~Awaited(m)'
      BY <1>1, <1>3, <1>5, <2>1, <2>2
    <3> QED BY <1>1, <1>5, <2>1, <3>1, ShareFair DEF Fair
  <2>3. CASE n # m
    <3>1. handled'[m] = handled[m] /\ (Awaited(m)' => Awaited(m))
      BY <1>1, <1>3, <1>5, <2>1, <2>3
    <3> QED BY <1>1, <1>5, <2>1, <3>1, ShareFair DEF Fair
  <2> QED BY <2>2, <2>3
<1>8. CASE MarkProcessed(c)
  <2>1. /\ owner' = c /\ handled' = handled /\ work'[c].next = n + 1
        /\ pc[c] = "mark" /\ pc'[c] # "mark"
    BY <1>1, <1>8, Typed DEF MarkProcessed, Return, Goto, Owns, FirstStep
  <2>2. Awaited(m)' => Awaited(m)
    BY <1>1, <1>3, <1>5, <2>1
  <2> QED BY <1>1, <1>5, <2>1, <2>2, ShareFair DEF Fair
<1>9. CASE Leave(c)
  <2>1. /\ owner' = Nobody /\ handled' = handled /\ pc[c] = "idle"
        /\ pc'[c] = "down" /\ committed' = committed /\ end' = end
    BY <1>1, <1>9 DEF Leave, Goto, Owns, messageVars
  <2>2. committed = NoOffset \/ n = committed
    BY <2>1 DEF BatchKept, Owns
  <2>3. Awaited(m)' =>
          (IF committed = NoOffset THEN end + 1 ELSE committed) <= m
    BY <2>1 DEF Awaited, Position
  <2>4. Awaited(m)' => Awaited(m)
    BY <1>1, <1>3, <2>1, <2>2, <2>3
  <2>5. ~(c \in Strays(m))'
    BY <2>1 DEF Strays
  <2> QED BY <1>1, <2>1, <2>4, <2>5, ShareFair DEF Fair
<1>10. CASE Throw(c)
  <2>1. /\ owner' = c /\ disruptions' = disruptions + 1
        /\ work'[c] = Resting(n) /\ pc'[c] = "idle"
        /\ \/ handled' = handled
           \/ /\ handled' = [handled EXCEPT ![n] = @ + 1]
              /\ pc[c] # "mark"
    BY <1>1, <1>10, Typed DEF Throw, Goto, Handled, Disrupt, Owns
  <2>2. work'[c].next = n
    BY <2>1, RestingFields
  <2>3. CASE handled' = handled
    <3>1. Share(c, m)' <= Share(c, m) + 1
      BY <1>1, <1>5, <2>1, <2>3, ShareMore
    <3> QED BY <2>1, <3>1 DEF Fair
  <2>4. CASE handled' = [handled EXCEPT ![n] = @ + 1] /\ pc[c] # "mark"
    <3>1. handled'[m] \in {handled[m], handled[m] + 1}
      BY <1>1, <2>4
    <3>2. Awaited(m)' => Awaited(m)
      BY <1>3, <1>5, <2>1, <2>2, <2>4
    <3>3. Share(c, m)' <= Share(c, m) + 1
      BY <1>1, <1>5, <2>1, <3>1, <3>2, ShareMore
    <3> QED BY <2>1, <3>3 DEF Fair
  <2> QED BY <2>1, <2>3, <2>4
<1>11. CASE Crash(c)
  <2>1. /\ handled' = handled /\ pc'[c] = "down"
        /\ disruptions' = disruptions + 1
    BY <1>1, <1>11 DEF Crash, Disrupt, Goto
  <2>2. ~(c \in Strays(m))'
    BY <2>1 DEF Strays
  <2>3. Share(c, m)' <= Share(c, m) + 1
    BY <1>1, <2>1, <2>2, ShareMore
  <2> QED BY <2>1, <2>3 DEF Fair
<1>12. CASE Rebalance(c)
  <2>1. /\ handled' = handled /\ pc' = pc /\ disruptions' = disruptions + 1
        /\ pc[c] # "idle" => work' = work
    BY <1>1, <1>12 DEF Rebalance, Disrupt
  <2>2. (c \in Strays(m))' => Awaited(m)
    BY <1>1, <1>3, <2>1 DEF Strays
  <2>3. Share(c, m)' <= Share(c, m) + 1
    BY <1>1, <1>2, <2>1, <2>2, ShareMore
  <2> QED BY <2>1, <2>3 DEF Fair
<1>13. CASE Expire(c)
  <2>1. /\ handled' = handled /\ pc' = pc /\ work' = work /\ pc[c] = "sleep"
    BY <1>1, <1>13 DEF Expire
  <2>2. (c \in Strays(m))' => n = m /\ Awaited(m)
    BY <1>1, <1>3, <2>1 DEF Strays
  <2>3. CASE m <= n
    <3>1. Share(c, m)' <= Share(c, m) + 1
      BY <1>1, <1>2, <2>1, <2>2, ShareMore
    <3> QED BY <1>13, <2>3, <3>1 DEF Fair
  <2>4. CASE ~(m <= n)
    <3>1. Awaited(m) /\ n # m
      BY <1>1, <1>3, <2>4
    <3> QED BY <1>1, <2>1, <2>2, <3>1, ShareFair DEF Fair
  <2> QED BY <2>3, <2>4
<1>14. ~Assign(c) /\ ~Start(c)
  BY <1>1, <1>4 DEF Assign, Start
<1> QED BY <1>6, <1>7, <1>8, <1>9, <1>10, <1>11, <1>12, <1>13, <1>14

LEMMA ShareNext ==
  ASSUME OffsetInv, BatchKept, NEW c \in Consumers, NEW m \in 1 .. end,
         \/ Assign(c) \/ Heartbeat(c) \/ Abort(c)
         \/ Start(c) \/ Fetch(c) \/ Wake(c) \/ Relay(c)
         \/ MarkProcessed(c) \/ PersistAudit(c) \/ Commit(c)
         \/ Leave(c) \/ Expire(c)
         \/ Throw(c) \/ Rebalance(c) \/ Crash(c)
  PROVE  Fair(c, m)
<1>1. CASE owner = c
  BY <1>1, ShareOwner
<1>2. CASE owner # c /\ owner' # c
  BY <1>2, ShareAway
<1>3. CASE owner # c /\ owner' = c
  <2>1. Assign(c)
    BY <1>3, Typed
       DEF Heartbeat, Abort, Start, Fetch, Wake, Relay, MarkProcessed,
           PersistAudit, Return, Commit, Leave, Expire, Throw, Rebalance,
           Crash, Owns
  <2> QED BY <1>3, <2>1, ShareTaken
<1> QED BY <1>1, <1>2, <1>3

(* How often m was handled and will be.                                    *)
Load(m) == handled[m] + Cardinality(Strays(m)) + One(Awaited(m))

LEMMA LoadNext ==
  ASSUME OffsetInv, BatchKept, NEW c \in Consumers, NEW m \in 1 .. end,
         \/ Assign(c) \/ Heartbeat(c) \/ Abort(c)
         \/ Start(c) \/ Fetch(c) \/ Wake(c) \/ Relay(c)
         \/ MarkProcessed(c) \/ PersistAudit(c) \/ Commit(c)
         \/ Leave(c) \/ Expire(c)
         \/ Throw(c) \/ Rebalance(c) \/ Crash(c)
  PROVE  \/ Load(m)' <= Load(m)
         \/ Load(m)' <= Load(m) + 1 /\ disruptions' = disruptions + 1
         \/ Load(m)' <= Load(m) + 1 /\ Expire(c) /\ m <= work[c].next
<1>1. Fair(c, m)
  BY ShareNext
<1>2. Only(c)
  BY OnlyOne
<1> DEFINE s == Cardinality(Strays(m))
           t == Cardinality(Strays(m)')
           here == One(c \in Strays(m))
           then == One((c \in Strays(m))')
           a == One(Awaited(m))
           b == One(Awaited(m)')
           h == handled[m]
           g == handled'[m]
<1>3. s \in Nat /\ t \in Nat
  <2>1. Strays(m)' \subseteq Consumers
    BY DEF Strays
  <2>2. IsFiniteSet(Strays(m)')
    BY <2>1, ConsumerAssumption, FS_Subset
  <2> QED BY <2>2, StraysFinite, FS_CardinalityType
<1>4. t + here = s + then
  BY <1>2, StraysMove
<1>5. here \in {0, 1} /\ then \in {0, 1} /\ a \in {0, 1} /\ b \in {0, 1}
  BY DEF One
<1>6. h \in Nat /\ g \in Nat
  <2>1. g \in {h, h + 1} /\ h \in Nat
    BY Typed
       DEF Assign, Heartbeat, Abort, Start, Fetch, Wake, Relay, MarkProcessed,
           PersistAudit, Return, Commit, Leave, Expire, Throw, Rebalance,
           Crash, Handled
  <2> QED BY <2>1
<1>7. /\ Load(m) = h + s + a /\ Load(m)' = g + t + b
      /\ Share(c, m) = h + here + a /\ Share(c, m)' = g + then + b
  BY DEF Load, Share, One
<1>8. \A i \in {0, 1} : Share(c, m)' <= Share(c, m) + i =>
                          Load(m)' <= Load(m) + i
  <2> HIDE DEF s, t, here, then, a, b, h, g
  <2> QED BY <1>3, <1>4, <1>5, <1>6, <1>7
<1>9. Share(c, m)' <= Share(c, m) => Load(m)' <= Load(m)
  <2> HIDE DEF s, t, here, then, a, b, h, g
  <2> QED BY <1>3, <1>4, <1>5, <1>6, <1>7
<1> QED BY <1>1, <1>8, <1>9 DEF Fair

-----------------------------------------------------------------------------
(* The sessions that have ended.                                           *)

LEMMA SleptNumber ==
  ASSUME OffsetInv, NEW k \in 1 .. end
  PROVE  Slept(k) \in Int /\ Slept(k) <= age[k]
<1>1. age[k] \in Nat /\ SessionTimeout \in Nat
  BY Typed
<1>2. SleepsWith(k) => session[owner] \in 0 .. SessionTimeout
  BY Typed DEF SleepsWith
<1> QED BY <1>1, <1>2 DEF Slept

LEMMA SleptNumberNext ==
  ASSUME OffsetInv', NEW k \in 1 .. end'
  PROVE  Slept(k)' \in Int
<1>1. k \in Messages /\ SessionTimeout \in Nat
  BY BoundAssumption DEF OffsetInv, TypeOK, Messages
<1>2. age'[k] \in Nat
  BY <1>1 DEF OffsetInv, TypeOK
<1>3. SleepsWith(k)' => session'[owner'] \in 0 .. SessionTimeout
  BY DEF SleepsWith, OffsetInv, TypeOK
<1> QED BY <1>1, <1>2, <1>3 DEF Slept

LEMMA PairsFinite ==
  ASSUME NEW S, NEW i \in Nat, NEW j \in Nat, NEW k \in Nat,
         S \subseteq (i .. j) \X (1 .. k)
  PROVE  IsFiniteSet(S) /\ Cardinality(S) \in Nat
<1>1. IsFiniteSet(i .. j) /\ IsFiniteSet(1 .. k)
  BY FS_Interval
<1>2. IsFiniteSet((i .. j) \X (1 .. k))
  BY <1>1, FS_Product
<1>3. IsFiniteSet(S)
  BY <1>2, FS_Subset
<1> QED BY <1>3, FS_CardinalityType

LEMMA EndedFinite ==
  ASSUME OffsetInv, NEW m \in 1 .. end
  PROVE  /\ IsFiniteSet(SessionsEnded(m))
         /\ Cardinality(SessionsEnded(m)) \in Nat
<1>1. m \in Nat /\ end \in Nat /\ MaxDelay \in Nat
  BY Typed
<1>2. SessionsEnded(m) \subseteq (m .. end) \X (1 .. MaxDelay)
  BY DEF SessionsEnded
<1> QED BY <1>1, <1>2, PairsFinite

LEMMA EndedFiniteNext ==
  ASSUME OffsetInv', NEW m \in 1 .. end'
  PROVE  /\ IsFiniteSet(SessionsEnded(m)')
         /\ Cardinality(SessionsEnded(m)') \in Nat
<1>1. m \in Nat /\ end' \in Nat /\ MaxDelay \in Nat
  BY BoundAssumption, DelayAssumption DEF OffsetInv, TypeOK
<1>2. SessionsEnded(m)' \subseteq (m .. end') \X (1 .. MaxDelay)
  BY DEF SessionsEnded
<1> QED BY <1>1, <1>2, PairsFinite

(* Messages stay published.                                                *)
LEMMA EndGrows ==
  ASSUME OffsetInv, [Next]_vars
  PROVE  \/ end' = end
         \/ /\ end' = end + 1
            /\ \E n \in Retries \cup {0}, d \in 0 .. MaxDelay : Published(n, d)
BY StepKinds, OnlyOne DEF Published, vars, Tick

LEMMA EndedGrows ==
  ASSUME OffsetInv, SessionsKept, [Next]_vars, NEW m \in 1 .. end
  PROVE  SessionsEnded(m) \subseteq SessionsEnded(m)'
<1>1. OffsetInv'
  BY OffsetNext
<1>2. end \in Nat /\ end' \in {end, end + 1}
  BY EndGrows, Typed
<1>3. SUFFICES ASSUME NEW s \in SessionsEnded(m)
               PROVE  s \in SessionsEnded(m)'
  OBVIOUS
<1>4. /\ s \in (m .. end) \X (1 .. MaxDelay)
      /\ s[2] * SessionTimeout <= Slept(s[1])
  BY <1>3 DEF SessionsEnded
<1>5. /\ s[1] \in m .. end /\ s[2] \in 1 .. MaxDelay
      /\ s = <<s[1], s[2]>>
  BY <1>4
<1>6. s[1] \in 1 .. end /\ s[1] \in 1 .. end' /\ s[1] \in m .. end'
  BY <1>2, <1>5
<1>7. Slept(s[1]) <= Slept(s[1])'
  BY <1>6, SleptGrows
<1>8. Slept(s[1]) \in Int /\ Slept(s[1])' \in Int
  BY <1>1, <1>6, SleptNumber, SleptNumberNext
<1>9. s[2] * SessionTimeout \in Int
  BY <1>5, Typed
<1>10. s[2] * SessionTimeout <= Slept(s[1])'
  BY <1>4, <1>7, <1>8, <1>9
<1>11. s \in (m .. end') \X (1 .. MaxDelay)
  BY <1>5, <1>6
<1> QED BY <1>10, <1>11 DEF SessionsEnded

(* Multiples of a session length.                                          *)
LEMMA Multiple ==
  ASSUME NEW a \in Nat, NEW s \in Nat, s > 0, s <= a
  PROVE  \E q \in 1 .. a : q * s <= a /\ a < q * s + s
<1> DEFINE q == a \div s
           r == a % s
<1>1. q \in Nat /\ r \in 0 .. s - 1 /\ a = s * q + r
  OBVIOUS
<1> HIDE DEF q, r
<1>2. s * q = q * s /\ q * s \in Nat
  BY <1>1
<1>3. q # 0
  BY <1>1
<1>4. q <= q * s
  BY <1>1
<1>5. q \in 1 .. a
  BY <1>1, <1>2, <1>3, <1>4
<1> QED BY <1>1, <1>2, <1>5

(* The end of a session is counted.                                        *)
LEMMA EndedByExpiry ==
  ASSUME OffsetInv, SessionsKept, [Next]_vars,
         NEW c \in Consumers, Expire(c), NEW m \in 1 .. end, m <= work[c].next
  PROVE  Cardinality(SessionsEnded(m)') >= Cardinality(SessionsEnded(m)) + 1
<1>1. /\ owner = c /\ pc[c] = "sleep" /\ session[c] = 0 /\ owner' = Nobody
      /\ end' = end /\ age' = age /\ c # Nobody
  BY Typed DEF Expire, Owns, messageVars
<1>2. PICK k \in 1 .. end : k = work[c].next
  BY <1>1, UnderWay
<1>3. k \in m .. end /\ k \in Messages
  BY <1>2, Typed
<1>4. /\ age[k] \in Nat /\ age[k] <= MaxDelay /\ MaxDelay \in Nat
      /\ SessionTimeout \in Nat /\ SessionTimeout > 0
  <2>1. /\ age[k] \in Nat /\ delay[k] \in 0 .. MaxDelay /\ age[k] <= delay[k]
        /\ MaxDelay \in Nat
    BY <1>3, Typed
  <2> QED BY <2>1, Typed
<1>5. Slept(k) = age[k] - SessionTimeout
  <2>1. SleepsWith(k)
    BY <1>1, <1>2 DEF SleepsWith
  <2>2. Slept(k) = age[k] - (SessionTimeout - 0)
    BY <1>1, <2>1 DEF Slept
  <2> QED BY <1>4, <2>2
<1>6. Slept(k)' = age[k]
  BY <1>1 DEF Slept, SleepsWith
<1>7. SessionTimeout <= age[k]
  <2>1. Slept(k) >= 0
    BY <1>2 DEF SessionsKept
  <2> QED BY <1>4, <1>5, <2>1
<1>8. PICK q \in 1 .. age[k] :
        /\ q * SessionTimeout <= age[k]
        /\ age[k] < q * SessionTimeout + SessionTimeout
  BY <1>4, <1>7, Multiple
<1> DEFINE e == <<k, q>>
<1>9. e \in SessionsEnded(m)'
  <2>1. e \in (m .. end') \X (1 .. MaxDelay)
    BY <1>1, <1>3, <1>4, <1>8
  <2>2. e[2] * SessionTimeout <= Slept(e[1])'
    BY <1>6, <1>8
  <2> QED BY <2>1, <2>2 DEF SessionsEnded
<1>10. e \notin SessionsEnded(m)
  <2>1. ~(q * SessionTimeout <= Slept(k))
    <3>1. q * SessionTimeout \in Int
      BY <1>4, <1>8
    <3> QED BY <1>4, <1>5, <1>8, <3>1
  <2> QED BY <2>1 DEF SessionsEnded
<1>11. SessionsEnded(m) \cup {e} \subseteq SessionsEnded(m)'
  BY <1>9, EndedGrows
<1>12. /\ IsFiniteSet(SessionsEnded(m)) /\ Cardinality(SessionsEnded(m)) \in Nat
  BY EndedFinite
<1>13. /\ IsFiniteSet(SessionsEnded(m)')
       /\ Cardinality(SessionsEnded(m)') \in Nat
  BY <1>1, OffsetNext, EndedFiniteNext
<1>14. /\ IsFiniteSet(SessionsEnded(m) \cup {e})
       /\ Cardinality(SessionsEnded(m) \cup {e}) =
            IF e \in SessionsEnded(m) THEN Cardinality(SessionsEnded(m))
            ELSE Cardinality(SessionsEnded(m)) + 1
  BY <1>12, FS_AddElement
<1>15. Cardinality(SessionsEnded(m) \cup {e}) = Cardinality(SessionsEnded(m)) + 1
  BY <1>10, <1>14
<1>16. Cardinality(SessionsEnded(m) \cup {e}) <= Cardinality(SessionsEnded(m)')
  BY <1>11, <1>13, FS_Subset
<1> QED BY <1>12, <1>13, <1>15, <1>16

-----------------------------------------------------------------------------
(* What is counted stays paid for.                                         *)

(* A message that has just been published was not handled and has no       *)
(* strays.                                                                 *)
LEMMA LoadPublished ==
  ASSUME OffsetInv, NEW n, NEW d, Published(n, d), NEW m, m = end + 1
  PROVE  Load(m)' <= 1
<1>1. m \in Messages /\ m > end
  BY Typed DEF Published, Messages
<1>2. handled'[m] = 0
  BY <1>1 DEF Published, OffsetInv, Blank
<1>3. Strays(m)' = {}
  <2>1. ASSUME NEW c \in Consumers, pc[c] \in {"sleep", "relay", "insert"}
        PROVE  work[c].next # m
    <3>1. work[c].next \in 1 .. end
      BY <2>1, UnderWay
    <3> QED BY <3>1, Typed
  <2> QED BY <2>1 DEF Strays, Published
<1>4. Cardinality(Strays(m)') = 0
  BY <1>3, FS_EmptySet
<1>5. One(Awaited(m))' \in {0, 1}
  BY DEF One
<1> QED BY <1>2, <1>4, <1>5 DEF Load

(* Steps that move no consumer.                                            *)
LEMMA LoadKept ==
  ASSUME OffsetInv, NEW m \in 1 .. end,
         UNCHANGED <<committed, owner, pc, work, handled>>,
         end' \in {end, end + 1}
  PROVE  Load(m)' <= Load(m)
<1>1. Strays(m)' = Strays(m)
  BY DEF Strays, Owns
<1>2. Awaited(m)' => Awaited(m)
  BY Typed DEF Awaited, Position
<1>3. One(Awaited(m))' <= One(Awaited(m))
  BY <1>2 DEF One
<1>4. handled[m] \in Nat /\ Cardinality(Strays(m)) \in Nat
  BY Typed, StraysFinite
<1>5. One(Awaited(m)) \in Nat /\ One(Awaited(m))' \in Nat
  BY DEF One
<1> QED BY <1>1, <1>3, <1>4, <1>5 DEF Load

LEMMA LoadNumber ==
  ASSUME OffsetInv, NEW m \in 1 .. end
  PROVE  Load(m) \in Nat
<1>1. handled[m] \in Nat /\ Cardinality(Strays(m)) \in Nat
  BY Typed, StraysFinite
<1>2. One(Awaited(m)) \in Nat
  BY DEF One
<1> QED BY <1>1, <1>2 DEF Load

LEMMA LoadNumberNext ==
  ASSUME OffsetInv', NEW m \in 1 .. end'
  PROVE  Load(m)' \in Nat
<1>1. handled'[m] \in Nat
  BY BoundAssumption DEF OffsetInv, TypeOK, Messages
<1>2. Cardinality(Strays(m)') \in Nat
  <2>1. Strays(m)' \subseteq Consumers
    BY DEF Strays
  <2>2. IsFiniteSet(Strays(m)')
    BY <2>1, ConsumerAssumption, FS_Subset
  <2> QED BY <2>2, FS_CardinalityType
<1>3. One(Awaited(m))' \in Nat
  BY DEF One
<1> QED BY <1>1, <1>2, <1>3 DEF Load

LEMMA Balance ==
  ASSUME NEW old \in Nat, NEW new \in Nat, NEW d \in Nat, NEW e \in Nat,
         NEW paid \in Nat, NEW pays \in Nat, old <= 1 + d + paid,
         \/ new <= old /\ d <= e /\ paid <= pays
         \/ new <= old + 1 /\ e = d + 1 /\ paid <= pays
         \/ new <= old + 1 /\ d <= e /\ paid + 1 <= pays
  PROVE  new <= 1 + e + pays
OBVIOUS

LEMMA CountedNext ==
  ASSUME OffsetInv, SessionsKept, BatchKept, RepeatsCounted, [Next]_vars
  PROVE  RepeatsCounted'
<1>1. OffsetInv'
  BY OffsetNext
<1>2. end \in Nat /\ disruptions \in Nat /\ end' \in {end, end + 1}
  BY EndGrows, Typed
<1>3. disruptions' \in Nat
  BY <1>1 DEF OffsetInv, TypeOK
<1> SUFFICES ASSUME NEW m \in 1 .. end'
             PROVE  Load(m)' <= 1 + disruptions' + Cardinality(SessionsEnded(m)')
  BY DEF RepeatsCounted, Load
<1>4. Cardinality(SessionsEnded(m)') \in Nat /\ Load(m)' \in Nat
  BY <1>1, EndedFiniteNext, LoadNumberNext
<1> DEFINE old == Load(m)
           new == Load(m)'
           paid == Cardinality(SessionsEnded(m))
           pays == Cardinality(SessionsEnded(m)')
<1>5. CASE m \notin 1 .. end
  <2>1. end' = end + 1 /\ m = end + 1
    BY <1>2, <1>5
  <2>2. end' # end
    BY <1>2, <2>1
  <2>3. PICK n \in Retries \cup {0}, d \in 0 .. MaxDelay : Published(n, d)
    BY <2>2, EndGrows
  <2>4. Load(m)' <= 1
    BY <2>1, <2>3, LoadPublished
  <2> QED BY <1>3, <1>4, <2>4
<1>6. CASE m \in 1 .. end
  <2>1. old \in Nat /\ paid \in Nat
    BY <1>6, LoadNumber, EndedFinite
  <2>2. old <= 1 + disruptions + paid
    BY <1>6 DEF RepeatsCounted, Load
  <2>3. paid <= pays
    <3>1. SessionsEnded(m) \subseteq SessionsEnded(m)'
      BY <1>6, EndedGrows
    <3>2. IsFiniteSet(SessionsEnded(m)')
      BY <1>1, EndedFiniteNext
    <3> QED BY <3>1, <3>2, FS_Subset
  <2>4. CASE new <= old /\ disruptions <= disruptions'
    BY <1>2, <1>3, <1>4, <2>1, <2>2, <2>3, <2>4, Balance
  <2>5. CASE new <= old + 1 /\ disruptions' = disruptions + 1
    BY <1>2, <1>3, <1>4, <2>1, <2>2, <2>3, <2>5, Balance
  <2>6. CASE /\ new <= old + 1 /\ paid + 1 <= pays
             /\ disruptions <= disruptions'
    BY <1>2, <1>3, <1>4, <2>1, <2>2, <2>6, Balance
  <2>7. CASE UNCHANGED <<committed, owner, pc, work, handled, disruptions>>
    <3>1. new <= old
      BY <1>2, <1>6, <2>7, LoadKept
    <3>2. disruptions <= disruptions'
      BY <1>2, <2>7
    <3> QED BY <2>4, <3>1, <3>2
  <2>8. ASSUME NEW c \in Consumers,
               \/ Assign(c) \/ Heartbeat(c) \/ Abort(c)
               \/ Start(c) \/ Fetch(c) \/ Wake(c) \/ Relay(c)
               \/ MarkProcessed(c) \/ PersistAudit(c) \/ Commit(c)
               \/ Leave(c) \/ Expire(c)
               \/ Throw(c) \/ Rebalance(c) \/ Crash(c)
        PROVE  new <= 1 + disruptions' + pays
    <3>1. disruptions <= disruptions'
      BY <1>2, <2>8, OnlyOne
    <3>2. \/ new <= old
          \/ new <= old + 1 /\ disruptions' = disruptions + 1
          \/ new <= old + 1 /\ Expire(c) /\ m <= work[c].next
      BY <1>6, <2>8, LoadNext
    <3>3. Expire(c) /\ m <= work[c].next => paid + 1 <= pays
      BY <1>6, EndedByExpiry
    <3> QED BY <2>4, <2>5, <2>6, <3>1, <3>2, <3>3
  <2> QED BY <2>7, <2>8, StepKinds DEF Published, vars, Tick
<1> QED BY <1>5, <1>6

-----------------------------------------------------------------------------
(* The invariant of the group, with its sessions, batches and counts.      *)

LEMMA InitIInv == Init => GroupInv
<1> SUFFICES ASSUME Init PROVE GroupInv
  OBVIOUS
<1>1. OffsetInv
  BY OffsetInitially
<1>2. end = 0 /\ owner = Nobody /\ session = [c \in Consumers |-> SessionTimeout]
  BY DEF Init
<1>3. SessionsKept
  BY <1>2 DEF SessionsKept
<1>4. BatchKept
  BY <1>2, OwnerAssumption DEF BatchKept, Owns
<1>5. RepeatsCounted
  BY <1>2 DEF RepeatsCounted
<1> QED BY <1>1, <1>3, <1>4, <1>5 DEF GroupInv

LEMMA NextIInv == GroupInv /\ [Next]_vars => GroupInv'
BY OffsetNext, SessionsNext, BatchNext, CountedNext DEF GroupInv

(* The inductive invariant: positions and offsets, the sessions of those   *)
(* who sleep, the batches, and the account of every message - how often it *)
(* was handled and is about to be is paid for by disruptions and by        *)
(* sessions that have ended.                                               *)
THEOREM Invariance == Spec => []GroupInv
<1>1. Init => GroupInv
  BY InitIInv
<1>2. GroupInv /\ [Next]_vars => GroupInv'
  BY NextIInv
<1> QED BY <1>1, <1>2, PTL DEF Spec

(* A message that is slept with for as long as it may be has outlasted the *)
(* sessions of its delay.                                                  *)
LEMMA EndedOutlasted ==
  ASSUME OffsetInv, NEW m \in 1 .. end
  PROVE  /\ Cardinality(SessionsEnded(m)) <= Cardinality(Outlasted(m))
         /\ Cardinality(Outlasted(m)) \in Nat
<1>1. IsFiniteSet(Outlasted(m)) /\ Cardinality(Outlasted(m)) \in Nat
  <2>1. m \in Nat /\ end \in Nat /\ MaxDelay \in Nat
    BY Typed
  <2>2. Outlasted(m) \subseteq (m .. end) \X (1 .. MaxDelay)
    BY DEF Outlasted
  <2> QED BY <2>1, <2>2, PairsFinite
<1>2. SessionsEnded(m) \subseteq Outlasted(m)
  <2>1. SUFFICES ASSUME NEW s \in SessionsEnded(m)
                 PROVE  s \in Outlasted(m)
    OBVIOUS
  <2>2. /\ s \in (m .. end) \X (1 .. MaxDelay)
        /\ s[2] * SessionTimeout <= Slept(s[1])
    BY <2>1 DEF SessionsEnded
  <2>3. s[1] \in 1 .. end /\ s[2] \in Nat
    BY <2>2, Typed
  <2>4. Slept(s[1]) \in Int /\ Slept(s[1]) <= age[s[1]]
    BY <2>3, SleptNumber
  <2>5. /\ age[s[1]] \in Nat /\ delay[s[1]] \in Nat
        /\ age[s[1]] <= delay[s[1]]
    BY <2>3, Typed
  <2>6. s[2] * SessionTimeout \in Int
    BY <2>3, Typed
  <2>7. s[2] * SessionTimeout <= delay[s[1]]
    BY <2>2, <2>4, <2>5, <2>6
  <2> QED BY <2>2, <2>7 DEF Outlasted
<1>3. Cardinality(SessionsEnded(m)) <= Cardinality(Outlasted(m))
  BY <1>1, <1>2, FS_Subset
<1> QED BY <1>1, <1>3

(* A message is handled once, once more for every disruption, and once     *)
(* more for every session that its own sleep or that of a message behind   *)
(* it outlasts (kafka.consumer.ts, retry.consumer.ts).                     *)
THEOREM RepeatsLimited == Spec => []RepeatsBounded
<1>1. GroupInv => RepeatsBounded
  <2> SUFFICES ASSUME GroupInv, NEW m \in 1 .. end
               PROVE  handled[m] <= 1 + disruptions + Cardinality(Outlasted(m))
    BY DEF RepeatsBounded
  <2>1. OffsetInv
    BY DEF GroupInv
  <2> DEFINE h == handled[m]
             s == Cardinality(Strays(m))
             a == One(Awaited(m))
             e == Cardinality(SessionsEnded(m))
             o == Cardinality(Outlasted(m))
  <2>2. h + s + a <= 1 + disruptions + e
    BY DEF GroupInv, RepeatsCounted
  <2>3. h \in Nat /\ s \in Nat /\ e \in Nat /\ o \in Nat /\ e <= o
        /\ disruptions \in Nat
    BY <2>1, Typed, StraysFinite, EndedFinite, EndedOutlasted
  <2>4. a \in Nat
    BY DEF One
  <2> HIDE DEF h, s, a, e, o
  <2>5. h <= 1 + disruptions + o
    BY <2>2, <2>3, <2>4
  <2> QED BY <2>5 DEF h, o
<1> QED BY <1>1, Invariance, PTL

-----------------------------------------------------------------------------
(* What AtLeastOnce calls delivered and settled.                           *)
Arrived == {m \in 1 .. end : handled[m] > 0}

Passed == {m \in 1 .. end : m < committed} \ missed

DeliveryStep == [Delivery!Next]_(Delivery!vars)

(* What the offset has passed has arrived.                                 *)
LEMMA PassedArrived ==
  ASSUME OffsetInv
  PROVE  Passed \subseteq Arrived
<1> SUFFICES ASSUME NEW m \in 1 .. end, m < committed, m \notin missed
             PROVE  handled[m] > 0
  BY DEF Passed, Arrived
<1>1. Settled(committed) /\ m \in 1 .. committed - 1
  BY Typed DEF OffsetInv, NothingSkipped, NoOffset
<1> QED BY <1>1 DEF Settled

(* Only the owner moves the offset, and only to its own position.          *)
LEMMA OwnerMoves ==
  ASSUME OffsetInv, NEW c \in Consumers,
         \/ Assign(c) \/ Heartbeat(c) \/ Abort(c)
         \/ Start(c) \/ Fetch(c) \/ Wake(c) \/ Relay(c)
         \/ MarkProcessed(c) \/ PersistAudit(c) \/ Commit(c)
         \/ Leave(c) \/ Expire(c)
         \/ Throw(c) \/ Rebalance(c) \/ Crash(c)
  PROVE  \/ UNCHANGED <<committed, missed>>
         \/ Assign(c)
         \/ /\ owner = c /\ pc[c] \notin {"down", "idle"}
            /\ committed' = work[c].next
            /\ UNCHANGED missed
BY DEF Assign, Heartbeat, Abort, Start, Fetch, Wake, Relay, MarkProcessed,
         PersistAudit, Return, Commit, Leave, Expire, Throw, Rebalance, Crash,
       Owns

(* The offset goes forward, over nothing but what has arrived: the owner's *)
(* batch begins where the offset is, and its position is settled.          *)
LEMMA PassedNext ==
  ASSUME OffsetInv, BatchKept, NEW c \in Consumers,
         \/ Assign(c) \/ Heartbeat(c) \/ Abort(c)
         \/ Start(c) \/ Fetch(c) \/ Wake(c) \/ Relay(c)
         \/ MarkProcessed(c) \/ PersistAudit(c) \/ Commit(c)
         \/ Leave(c) \/ Expire(c)
         \/ Throw(c) \/ Rebalance(c) \/ Crash(c)
  PROVE  Passed \subseteq Passed' /\ Passed' \subseteq Arrived
<1>0. end' = end
  BY OnlyOne
<1>1. CASE UNCHANGED <<committed, missed>>
  <2>1. Passed' = Passed
    BY <1>0, <1>1 DEF Passed
  <2> QED BY <2>1, PassedArrived
<1>2. CASE Assign(c) /\ committed = NoOffset
  <2>1. committed = 0 /\ committed' = 0
    BY <1>2 DEF Assign, NoOffset
  <2>2. Passed = {} /\ Passed' = {}
    BY <2>1, <1>0, Typed DEF Passed
  <2> QED BY <2>2
<1>3. CASE Assign(c) /\ committed # NoOffset
  BY <1>1, <1>3 DEF Assign
<1>4. CASE /\ owner = c /\ pc[c] \notin {"down", "idle"}
           /\ committed' = work[c].next
           /\ UNCHANGED missed
  <2>1. Settled(work[c].next) /\ work[c].next \in Nat /\ work[c].first \in Nat
    BY <1>4, Typed DEF OffsetInv, WorkSettled, Owns
  <2>2. committed \in Nat /\ committed <= committed'
    <3>1. committed = 0 \/ work[c].first = committed
      BY <1>4 DEF BatchKept, Owns, NoOffset
    <3>2. work[c].first <= work[c].next
      BY <1>4 DEF BatchKept, Owns
    <3> QED BY <1>4, <2>1, <3>1, <3>2, Typed
  <2>3. ASSUME NEW m \in Passed PROVE m \in Passed'
    <3>1. m \in 1 .. end /\ m < committed /\ m \notin missed
      BY <2>3 DEF Passed
    <3>2. m < committed'
      BY <1>4, <2>1, <2>2, <3>1, Typed
    <3> QED BY <1>0, <1>4, <3>1, <3>2 DEF Passed
  <2>4. ASSUME NEW m \in Passed' PROVE m \in Arrived
    <3>1. m \in 1 .. end /\ m < work[c].next /\ m \notin missed
      BY <1>0, <1>4, <2>4 DEF Passed
    <3>2. m \in 1 .. work[c].next - 1
      BY <2>1, <3>1, Typed
    <3> QED BY <2>1, <3>1, <3>2 DEF Settled, Arrived
  <2> QED BY <2>3, <2>4
<1> QED BY <1>1, <1>2, <1>3, <1>4, OwnerMoves

(* A step delivers one message of the partition at most.                   *)
LEMMA ArrivedNext ==
  ASSUME OffsetInv, [Next]_vars, end' = end
  PROVE  Arrived' = Arrived \/ \E m \in 1 .. end : Arrived' = Arrived \cup {m}
<1>1. CASE UNCHANGED handled
  BY <1>1 DEF Arrived
<1>2. ASSUME NEW c \in Consumers, pc[c] \in {"relay", "insert"}, Handled(c)
      PROVE  \E m \in 1 .. end : Arrived' = Arrived \cup {m}
  <2> DEFINE n == work[c].next
  <2>1. n \in 1 .. end /\ n \in Messages
    BY <1>2, AtHand
  <2> HIDE DEF n
  <2>2. \A m \in 1 .. end :
          handled[m] \in Nat /\ handled'[m] = IF m = n THEN handled[n] + 1 ELSE handled[m]
    BY <1>2, <2>1, Typed DEF Handled, n
  <2>3. Arrived' = Arrived \cup {n}
    BY <2>1, <2>2 DEF Arrived
  <2> QED BY <2>1, <2>3
<1> QED BY <1>1, <1>2, HandledMoves

(* A message that is published is accepted; nobody has handled it, and the *)
(* offset is not past it.                                                  *)
LEMMA PublishedAccepts ==
  ASSUME OffsetInv, NEW n, NEW d, Published(n, d)
  PROVE  Delivery!Accept(end + 1) /\ end + 1 \in Messages
<1>1. end < Last /\ end' = end + 1 /\ UNCHANGED <<handled, committed, missed>>
  BY DEF Published
<1>2. end + 1 \in Messages /\ handled[end + 1] = 0
  BY <1>1, Typed DEF Messages, OffsetInv, Blank
<1>3. 1 .. end' = (1 .. end) \cup {end + 1} /\ end + 1 \notin 1 .. end
  <2>1. end \in Nat
    BY Typed
  <2>2. \A m : m \in 1 .. end + 1 <=> m \in 1 .. end \/ m = end + 1
    BY <2>1
  <2> QED BY <1>1, <2>1, <2>2
<1>4. Arrived' = Arrived
  BY <1>1, <1>2, <1>3 DEF Arrived
<1>5. Passed' = Passed
  <2>1. ~(end + 1 < committed)
    BY Typed
  <2> QED BY <1>1, <1>3, <2>1 DEF Passed
<1> QED BY <1>2, <1>3, <1>4, <1>5 DEF Delivery!Accept, Arrived, Passed, Blank

LEMMA StepDelivers == GroupInv /\ [Next]_vars => DeliveryStep
<1> SUFFICES ASSUME GroupInv, [Next]_vars PROVE DeliveryStep
  OBVIOUS
<1>0. OffsetInv /\ BatchKept
  BY DEF GroupInv
<1>1. CASE UNCHANGED <<end, handled, committed, missed>>
  BY <1>1 DEF DeliveryStep, Delivery!vars
<1>2. ASSUME NEW n \in Retries \cup {0}, NEW d \in 0 .. MaxDelay, Published(n, d)
      PROVE  DeliveryStep
  BY <1>0, <1>2, PublishedAccepts DEF DeliveryStep, Delivery!Next
<1>3. ASSUME NEW c \in Consumers,
             \/ Assign(c) \/ Heartbeat(c) \/ Abort(c)
             \/ Start(c) \/ Fetch(c) \/ Wake(c) \/ Relay(c)
             \/ MarkProcessed(c) \/ PersistAudit(c) \/ Commit(c)
             \/ Leave(c) \/ Expire(c)
             \/ Throw(c) \/ Rebalance(c) \/ Crash(c)
      PROVE  DeliveryStep
  <2>1. end' = end /\ Passed \subseteq Passed' /\ Passed' \subseteq Arrived
    BY <1>0, <1>3, OnlyOne, PassedNext
  <2>2. Delivery!Settle
    BY <2>1 DEF Delivery!Settle, Passed, Arrived
  <2>3. CASE Arrived' = Arrived
    BY <2>1, <2>2, <2>3 DEF DeliveryStep, Delivery!Next, Arrived
  <2>4. CASE \E m \in 1 .. end : Arrived' = Arrived \cup {m}
    <3>1. PICK m \in 1 .. end : Arrived' = Arrived \cup {m}
      BY <2>4
    <3>2. Delivery!Deliver(m) /\ m \in Messages
      BY <1>0, <2>1, <2>2, <3>1, Typed DEF Delivery!Deliver, Arrived
    <3> QED BY <3>2 DEF DeliveryStep, Delivery!Next
  <2> QED BY <1>0, <2>1, <2>3, <2>4, ArrivedNext
<1> QED BY <1>0, <1>1, <1>2, <1>3, StepKinds DEF vars, Tick

(* The consumer group delivers at least once: it implements AtLeastOnce,   *)
(* whatever sessions end, handlers fail and processes stop or die.  The    *)
(* offset goes forward only, and over nothing that has not been handled.   *)
THEOREM ImplementsDelivery == Spec => GroupDelivers
<1>1. Init => Delivery!Init
  BY DEF Init, Delivery!Init, NoOffset
<1>2. GroupInv /\ [Next]_vars => [Delivery!Next]_(Delivery!vars)
  BY StepDelivers DEF DeliveryStep
<1> QED BY <1>1, <1>2, Invariance, PTL DEF Spec, GroupDelivers, Delivery!Spec
=============================================================================

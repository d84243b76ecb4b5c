---------------------------- MODULE ConsumerGroup ----------------------------
(***************************************************************************)
(* One partition and the consumer group that reads it (kafka.consumer.ts), *)
(* with two of the handlers that run in it: the retry relay                *)
(* (retry.consumer.ts), which sleeps inside its handler until a retry is   *)
(* due, and the audit consumer (audit.consumer.ts), which inserts a row.   *)
(*                                                                         *)
(* The group itself is Kafka and kafkajs, modelled from how the code uses  *)
(* them: messages of a batch are handled in order, the offset is committed *)
(* after the batch and with every error, a member sends no heartbeat while *)
(* its handler runs, and a member that is silent for a session timeout     *)
(* loses the partition but is not interrupted.  A process that is told to  *)
(* stop ends the message at hand, commits and leaves the group.            *)
(*                                                                         *)
(* One action is one await.  Awaits other than the sleep take no time;     *)
(* a slow one has the effect of the disruption "rebalance".  Ages stop at  *)
(* the delay, so that there is no clock to bound.                          *)
(***************************************************************************)
EXTENDS Integers, FiniteSetsExt

CONSTANTS
  Consumers,       \* worker processes
  Nobody,          \* the partition is not assigned
  Last,            \* messages ever published to the partition
  SessionTimeout,  \* sessionTimeout, 30 s
  BaseDelay,       \* RETRY_BASE_DELAY_MS
  MaxDelay,        \* 15 minutes
  MaxJitter,       \* 2 s
  Retries,         \* retry counts that are scheduled, 1 and up in the code
  Disruptions,     \* the kinds of disruption that may happen
  MaxDisruptions   \* how many of them one behaviour has at most

ASSUME OwnerAssumption == Nobody \notin Consumers

ASSUME ConsumerAssumption == IsFiniteSet(Consumers)

ASSUME BoundAssumption ==
  /\ Last \in Nat
  /\ SessionTimeout \in Nat \ {0}
  /\ MaxJitter \in Nat \ {0}
  /\ MaxDisruptions \in Nat
  /\ Disruptions \subseteq {"throw", "rebalance", "crash"}

ASSUME DelayAssumption ==
  /\ MaxDelay \in Nat
  /\ Retries \subseteq Nat \ {0}
  /\ \A n \in Retries : BaseDelay * 2 ^ n \in Nat

VARIABLES
  group,        \* "retry" or "audit": whose partition this is
  end,          \* messages published so far
  retry,        \* retry[m]: its retryCount; 0 if it has no retry record
  delay,        \* delay[m]: executeAt, counted from the scheduling
  age,          \* age[m]: time since the scheduling, up to the delay
  committed,    \* the group's offset: the next message, or NoOffset
  owner,        \* the member that has the partition
  pc,           \* a consumer's next await
  stopping,     \* signal.aborted
  work,         \* its batch, first .. last, and the next message of it
  session,      \* what is left of its session while it sleeps
  handled,      \* handled[m]: payment.initiated messages or audit_logs rows
  processed,    \* messages whose retry_events row is processed
  missed,       \* messages published before a start at the end of the topic
  disruptions

vars == <<group, end, retry, delay, age, committed, owner, pc, stopping, work,
          session, handled, processed, missed, disruptions>>

messageVars == <<end, retry, delay, age>>

Messages == 1 .. Last

NoOffset == 0

Steps == {"down", "idle", "sleep", "relay", "mark", "insert", "commit"}

TypeOK ==
  /\ group \in {"retry", "audit"}
  /\ end \in 0 .. Last
  /\ retry \in [Messages -> Retries \cup {0}]
  /\ delay \in [Messages -> 0 .. MaxDelay]
  /\ age \in [Messages -> Nat]
  /\ \A m \in Messages : age[m] <= delay[m]
  /\ committed \in 0 .. end + 1
  /\ owner \in Consumers \cup {Nobody}
  /\ pc \in [Consumers -> Steps]
  /\ stopping \in [Consumers -> BOOLEAN]
  /\ work \in [Consumers -> [first : Nat, next : Nat, last : Nat]]
  /\ session \in [Consumers -> 0 .. SessionTimeout]
  /\ handled \in [Messages -> Nat]
  /\ processed \subseteq Messages
  /\ missed \subseteq 1 .. end
  /\ disruptions \in 0 .. MaxDisruptions

-----------------------------------------------------------------------------
(* delayMs, with the jitter taken away instead of added.                   *)
DelaysJitteredDown(n) ==
  LET raw == BaseDelay * 2 ^ n
  IN {Min({raw - j, MaxDelay}) :
        j \in 0 .. Min({(raw + 4) \div 5, MaxJitter}) - 1}

(* delayMs: a fifth of the delay is added as jitter, rounded down from any *)
(* fraction of it, and the sum is capped.                                  *)
Delays(n) ==
  LET raw == BaseDelay * 2 ^ n
  IN {Min({raw + j, MaxDelay}) :
        j \in 0 .. Min({(raw + 4) \div 5, MaxJitter}) - 1}

Resting(n) == [first |-> n, next |-> n, last |-> n - 1]

Owns(c) == owner = c

Goto(c, step) == pc' = [pc EXCEPT ![c] = step]

Due(m) == age[m] = delay[m]

Disrupt(kind) ==
  /\ kind \in Disruptions
  /\ disruptions < MaxDisruptions
  /\ disruptions' = disruptions + 1

Init ==
  /\ group \in {"retry", "audit"}
  /\ end = 0
  /\ retry = [m \in Messages |-> 0]
  /\ delay = [m \in Messages |-> 0]
  /\ age = [m \in Messages |-> 0]
  /\ committed \in {NoOffset, 1}
  /\ owner = Nobody
  /\ pc = [c \in Consumers |-> "down"]
  /\ stopping = [c \in Consumers |-> FALSE]
  /\ work = [c \in Consumers |-> Resting(1)]
  /\ session = [c \in Consumers |-> SessionTimeout]
  /\ handled = [m \in Messages |-> 0]
  /\ processed = {}
  /\ missed = {}
  /\ disruptions = 0

-----------------------------------------------------------------------------
(* Publishing.                                                             *)

Published(n, d) ==
  /\ end < Last
  /\ end' = end + 1
  /\ retry' = [retry EXCEPT ![end + 1] = n]
  /\ delay' = [delay EXCEPT ![end + 1] = d]
  /\ UNCHANGED <<group, age, committed, owner, pc, stopping, work, session,
                 handled, processed, missed, disruptions>>

(* scheduleRetry, when the outbox has published its row.                   *)
ScheduleRetry ==
  /\ group = "retry"
  /\ \E n \in Retries : \E d \in Delays(n) : Published(n, d)

(* enqueueReplayForManualTooling: due now, and without a retry record.     *)
EnqueueReplay == group = "retry" /\ Published(0, 0)

(* A payment.audit event, when the outbox has published its row.           *)
Announce == group = "audit" /\ Published(0, 0)

-----------------------------------------------------------------------------
(* The group.                                                              *)

(* A process starts and joins: createConsumer, subscribe.                  *)
Start(c) ==
  /\ pc[c] = "down"
  /\ Goto(c, "idle")
  /\ UNCHANGED <<group, messageVars, committed, owner, stopping, work, session,
                 handled, processed, missed, disruptions>>

(* The partition is given to a member that waits for work.  It reads on    *)
(* from the committed offset; without one it starts at the end             *)
(* (fromBeginning: false).                                                 *)
Assign(c) ==
  LET start == IF committed = NoOffset THEN end + 1 ELSE committed
  IN /\ owner = Nobody
     /\ pc[c] = "idle" /\ ~stopping[c]
     /\ owner' = c
     /\ work' = [work EXCEPT ![c] = Resting(start)]
     /\ missed' = IF committed = NoOffset THEN 1 .. end ELSE missed
     /\ UNCHANGED <<group, messageVars, committed, pc, stopping, session,
                    handled, processed, disruptions>>

(* The next message is handed to eachMessage.                              *)
FirstStep == IF group = "retry" THEN "sleep" ELSE "insert"

(* The offset is committed when the batch arrives.                         *)
FetchCommitting(c) ==
  /\ Owns(c) /\ pc[c] = "idle" /\ ~stopping[c]
  /\ work[c].next <= end
  /\ work' = [work EXCEPT ![c].last = end]
  /\ committed' = end + 1
  /\ Goto(c, FirstStep)
  /\ UNCHANGED <<group, messageVars, owner, stopping, session, handled,
                 processed, missed, disruptions>>

(* A batch: everything that is there.                                      *)
Fetch(c) ==
  /\ Owns(c) /\ pc[c] = "idle" /\ ~stopping[c]
  /\ work[c].next <= end
  /\ work' = [work EXCEPT ![c].last = end]
  /\ Goto(c, FirstStep)
  /\ UNCHANGED <<group, messageVars, committed, owner, stopping, session,
                 handled, processed, missed, disruptions>>

(* The handler returns.  The heartbeat that follows tells a member that it *)
(* has lost the partition; it gives up the rest of its batch and rejoins.  *)
(* A member that is to stop gives up the rest, too, but commits.           *)
Return(c) ==
  /\ UNCHANGED <<group, messageVars, committed, owner, stopping, session,
                 missed, disruptions>>
  /\ \/ /\ ~Owns(c)
        /\ Goto(c, "idle")
        /\ work' = [work EXCEPT ![c] = Resting(1)]
     \/ /\ Owns(c)
        /\ Goto(c, IF work[c].next = work[c].last \/ stopping[c] THEN "commit"
                   ELSE FirstStep)
        /\ work' = [work EXCEPT ![c].next = @ + 1]

(* The offset of a batch is committed; Kafka refuses it of anyone but the  *)
(* owner.                                                                  *)
Commit(c) ==
  /\ pc[c] = "commit"
  /\ Goto(c, "idle")
  /\ \/ /\ Owns(c)
        /\ committed' = work[c].next
        /\ work' = [work EXCEPT ![c] = Resting(work[c].next)]
     \/ /\ ~Owns(c)
        /\ work' = [work EXCEPT ![c] = Resting(1)]
        /\ UNCHANGED committed
  /\ UNCHANGED <<group, messageVars, owner, stopping, session, handled,
                 processed, missed, disruptions>>

(* The process is told to stop.                                            *)
Abort(c) ==
  /\ pc[c] # "down" /\ ~stopping[c]
  /\ stopping' = [stopping EXCEPT ![c] = TRUE]
  /\ UNCHANGED <<group, messageVars, committed, owner, pc, work, session,
                 handled, processed, missed, disruptions>>

(* Only a member that has the partition leaves.                            *)
LeaveIfOwner(c) ==
  /\ stopping[c] /\ pc[c] = "idle" /\ Owns(c)
  /\ Goto(c, "down")
  /\ stopping' = [stopping EXCEPT ![c] = FALSE]
  /\ owner' = Nobody
  /\ work' = [work EXCEPT ![c] = Resting(1)]
  /\ UNCHANGED <<group, messageVars, committed, session, handled, processed,
                 missed, disruptions>>

(* waitForConsumerDisconnect: disconnect has waited for the handler, and   *)
(* leaves the group.  The process ends, and may be started again.          *)
Leave(c) ==
  /\ stopping[c] /\ pc[c] = "idle"
  /\ Goto(c, "down")
  /\ stopping' = [stopping EXCEPT ![c] = FALSE]
  /\ owner' = IF Owns(c) THEN Nobody ELSE owner
  /\ work' = [work EXCEPT ![c] = Resting(1)]
  /\ UNCHANGED <<group, messageVars, committed, session, handled, processed,
                 missed, disruptions>>

(* The session of a sleeping member is over: the group goes on without it. *)
Expire(c) ==
  /\ Owns(c) /\ pc[c] = "sleep"
  /\ session[c] = 0
  /\ owner' = Nobody
  /\ session' = [session EXCEPT ![c] = SessionTimeout]
  /\ UNCHANGED <<group, messageVars, committed, pc, stopping, work, handled,
                 processed, missed, disruptions>>

(* A message of another partition ends, and kafkajs sends a heartbeat.     *)
Heartbeat(c) ==
  /\ Owns(c) /\ pc[c] = "sleep"
  /\ session' = [session EXCEPT ![c] = SessionTimeout]
  /\ UNCHANGED <<group, messageVars, committed, owner, pc, stopping, work,
                 handled, processed, missed, disruptions>>

(* Time passes while consumers sleep or wait for work.                     *)
Tick ==
  /\ \E m \in 1 .. end : ~Due(m)
  /\ \A c \in Consumers : pc[c] \in {"down", "idle", "sleep"}
  /\ \A c \in Consumers :
       pc[c] = "sleep" => ~Due(work[c].next) /\ (Owns(c) => session[c] > 0)
  /\ age' = [m \in Messages |-> IF Due(m) THEN age[m] ELSE age[m] + 1]
  /\ session' = [c \in Consumers |->
                   IF Owns(c) /\ pc[c] = "sleep" THEN session[c] - 1
                   ELSE session[c]]
  /\ UNCHANGED <<group, end, retry, delay, committed, owner, pc, stopping,
                 work, handled, processed, missed, disruptions>>

-----------------------------------------------------------------------------
(* The handlers.                                                           *)

(* Every delivery sleeps for the whole delay.                              *)
WakeRelative(c) ==
  /\ pc[c] = "sleep"
  /\ Due(work[c].next)
  /\ Goto(c, "relay")
  /\ age' = [age EXCEPT ![work[c].next] = 0]
  /\ session' = [session EXCEPT ![c] = SessionTimeout]
  /\ UNCHANGED <<group, end, retry, delay, committed, owner, stopping, work,
                 handled, processed, missed, disruptions>>

(* The timer of a member that has lost the partition is cleared.           *)
WakeIfOwner(c) ==
  /\ pc[c] = "sleep" /\ Owns(c)
  /\ Due(work[c].next)
  /\ Goto(c, "relay")
  /\ session' = [session EXCEPT ![c] = SessionTimeout]
  /\ UNCHANGED <<group, messageVars, committed, owner, stopping, work, handled,
                 processed, missed, disruptions>>

(* executeRetryRelay: the sleep until executeAt is over, at once if that   *)
(* has passed.                                                             *)
Wake(c) ==
  /\ pc[c] = "sleep"
  /\ Due(work[c].next)
  /\ Goto(c, "relay")
  /\ session' = [session EXCEPT ![c] = SessionTimeout]
  /\ UNCHANGED <<group, messageVars, committed, owner, stopping, work, handled,
                 processed, missed, disruptions>>

Handled(c) == handled' = [handled EXCEPT ![work[c].next] = @ + 1]

(* The retry record is not marked.                                         *)
RelayForgetting(c) ==
  /\ pc[c] = "relay"
  /\ Handled(c)
  /\ Return(c)
  /\ UNCHANGED processed

(* payment.initiated is published.                                         *)
Relay(c) ==
  /\ pc[c] = "relay"
  /\ Handled(c)
  /\ UNCHANGED processed
  /\ \/ retry[work[c].next] = 0 /\ Return(c)
     \/ /\ retry[work[c].next] # 0
        /\ Goto(c, "mark")
        /\ UNCHANGED <<group, messageVars, committed, owner, stopping, work,
                       session, missed, disruptions>>

(* retry_events.processed is set.                                          *)
MarkProcessed(c) ==
  /\ pc[c] = "mark"
  /\ processed' = processed \cup {work[c].next}
  /\ Return(c)
  /\ UNCHANGED handled

(* persistFromEvent.                                                       *)
PersistAudit(c) ==
  /\ pc[c] = "insert"
  /\ Handled(c)
  /\ Return(c)
  /\ UNCHANGED processed

-----------------------------------------------------------------------------
(* Disruptions.                                                            *)

(* runConsumer logs the error and does not rethrow it.                     *)
ThrowSwallowed(c) ==
  /\ Disrupt("throw")
  /\ pc[c] \in {"relay", "mark", "insert"}
  /\ UNCHANGED <<group, messageVars, committed, owner, stopping, session,
                 handled, processed, missed>>
  /\ Goto(c, IF work[c].next = work[c].last THEN "commit" ELSE FirstStep)
  /\ work' = [work EXCEPT ![c].next = @ + 1]

(* A send or a statement fails, before or after it took effect, and        *)
(* runConsumer rethrows: kafkajs commits what it has resolved of the batch *)
(* and hands the message out again.                                        *)
Throw(c) ==
  /\ Disrupt("throw")
  /\ pc[c] \in {"relay", "mark", "insert", "commit"}
  /\ \/ UNCHANGED <<handled, processed>>
     \/ /\ pc[c] \in {"relay", "insert"}
        /\ Handled(c)
        /\ UNCHANGED processed
     \/ /\ pc[c] = "mark"
        /\ processed' = processed \cup {work[c].next}
        /\ UNCHANGED handled
  /\ Goto(c, "idle")
  /\ \/ /\ Owns(c)
        /\ committed' = IF work[c].next > work[c].first THEN work[c].next
                        ELSE committed
        /\ work' = [work EXCEPT ![c] = Resting(work[c].next)]
     \/ /\ ~Owns(c)
        /\ work' = [work EXCEPT ![c] = Resting(1)]
        /\ UNCHANGED committed
  /\ UNCHANGED <<group, messageVars, owner, stopping, session, missed>>

(* A member is silent or slow for another reason, or others join.          *)
Rebalance(c) ==
  /\ Disrupt("rebalance")
  /\ Owns(c)
  /\ owner' = Nobody
  /\ session' = [session EXCEPT ![c] = SessionTimeout]
  /\ work' = IF pc[c] = "idle" THEN [work EXCEPT ![c] = Resting(1)] ELSE work
  /\ UNCHANGED <<group, messageVars, committed, pc, stopping, handled,
                 processed, missed>>

(* A process dies.                                                         *)
Crash(c) ==
  /\ Disrupt("crash")
  /\ pc[c] # "down"
  /\ Goto(c, "down")
  /\ stopping' = [stopping EXCEPT ![c] = FALSE]
  /\ owner' = IF Owns(c) THEN Nobody ELSE owner
  /\ work' = [work EXCEPT ![c] = Resting(1)]
  /\ session' = [session EXCEPT ![c] = SessionTimeout]
  /\ UNCHANGED <<group, messageVars, committed, handled, processed, missed>>

-----------------------------------------------------------------------------
ConsumerStep(c) ==
  \/ Start(c)
  \/ Fetch(c)
  \/ Wake(c)
  \/ Relay(c)
  \/ MarkProcessed(c)
  \/ PersistAudit(c)
  \/ Commit(c)
  \/ Leave(c)
  \/ Expire(c)

Next ==
  \/ ScheduleRetry \/ EnqueueReplay \/ Announce
  \/ Tick
  \/ \E c \in Consumers :
       \/ Assign(c) \/ Heartbeat(c) \/ Abort(c)
       \/ ConsumerStep(c)
       \/ Throw(c) \/ Rebalance(c) \/ Crash(c)

Spec == Init /\ [][Next]_vars

(* Time passes, Kafka assigns the partition to a member that can take it,  *)
(* and a process does what it can: it starts, works, loses its session     *)
(* when that is over, and leaves when it is told to.                       *)
FairSpec ==
  /\ Spec
  /\ WF_vars(Tick)
  /\ WF_vars(\E c \in Consumers : Assign(c))
  /\ \A c \in Consumers : WF_vars(ConsumerStep(c))

-----------------------------------------------------------------------------
(* Everything before a position has been handled, or was published before  *)
(* the group started at the end of the topic.                              *)
Settled(n) == \A m \in 1 .. n - 1 : handled[m] > 0 \/ m \in missed

(* No message is passed over, by a commit or by a later message: neither   *)
(* the loss of the partition in the middle of a batch nor a handler that   *)
(* goes on without it takes the offset past work that nobody has done.     *)
NothingSkipped ==
  /\ committed # NoOffset => Settled(committed)
  /\ \A m \in 1 .. end : handled[m] > 0 => Settled(m)

(* Every retry before a position is processed, unless it was missed.       *)
Recorded(n) ==
  \A m \in 1 .. n - 1 :
    retry[m] # 0 /\ m \notin missed => m \in processed

(* A retry record says processed only if payment.initiated was published   *)
(* for it, and the offset only passes retries whose records say so.        *)
RecordsAgree ==
  /\ \A m \in processed : handled[m] > 0
  /\ Recorded(committed)

(* What is scheduled is due after base * 2^n or the cap, not earlier.      *)
DelaysKept ==
  \A m \in Messages :
    retry[m] # 0 =>
      /\ group = "retry"
      /\ delay[m] >= Min({BaseDelay * 2 ^ retry[m], MaxDelay})

(* Nothing is known of what has not been published.                        *)
Blank ==
  \A m \in Messages :
    m > end => retry[m] = 0 /\ delay[m] = 0 /\ handled[m] = 0

(* What a consumer relies on.                                              *)
WorkSettled(c) ==
  /\ Owns(c) => pc[c] # "down"
  /\ Owns(c) \/ pc[c] \notin {"down", "idle"} =>
       /\ work[c].next \in 1 .. end + 1
       /\ Settled(work[c].next)
       /\ Recorded(work[c].next)
  /\ pc[c] \in {"sleep", "relay", "mark", "insert"} =>
       work[c].next <= work[c].last /\ work[c].last <= end
  /\ pc[c] = "relay" => Due(work[c].next)
  /\ pc[c] = "mark" => handled[work[c].next] > 0
  /\ pc[c] = "insert" => group = "audit"

(* These and what they need, in one inductive invariant.                   *)
OffsetInv ==
  /\ TypeOK
  /\ NothingSkipped
  /\ RecordsAgree
  /\ DelaysKept
  /\ Blank
  /\ \A c \in Consumers : WorkSettled(c)

(* How often a message is handled: once, once more for every disruption,   *)
(* and once more for every session that a sleep outlasts, its own or that  *)
(* of a message behind it in the same batch.  Processes that are stopped   *)
(* in order cost nothing.                                                  *)
Outlasted(m) ==
  {s \in (m .. end) \X (1 .. MaxDelay) :
     s[2] * SessionTimeout <= delay[s[1]]}

RepeatsBounded ==
  \A m \in 1 .. end :
    handled[m] <= 1 + disruptions + Cardinality(Outlasted(m))

(* No retry is relayed before base * 2^n has passed since it was           *)
(* scheduled, or the cap if that is less, on whatever delivery.            *)
NeverEarly ==
  [][\A m \in 1 .. end :
       handled'[m] > handled[m] /\ retry[m] # 0 =>
         age[m] >= Min({BaseDelay * 2 ^ retry[m], MaxDelay})]_vars

(* A group that has an offset catches up with what is published, although  *)
(* a sleep that outlasts the session costs the sleeper its partition - if  *)
(* processes are not stopped over and over again.  (No more than Last      *)
(* messages are published, so this is to get past each of them.)           *)
BacklogDrains ==
  <>[](\A c \in Consumers : ~stopping[c])
  => (committed # NoOffset ~> committed > end)

(* A process that is told to stop comes to its end, although a relay in    *)
(* the middle of its sleep does not listen to the signal.                  *)
StopCompletes == \A c \in Consumers : stopping[c] ~> pc[c] = "down"

-----------------------------------------------------------------------------
(* Refinement.                                                             *)

(* What the group accepts is a published message, what it delivers one     *)
(* that a handler has handled, and what it settles one before the offset;  *)
(* except for what was published before it started.                        *)
Delivery == INSTANCE AtLeastOnce WITH
  accepted <- 1 .. end,
  delivered <- {m \in 1 .. end : handled[m] > 0},
  settled <- {m \in 1 .. end : m < committed} \ missed

(* The offset passes a message only when it has been handled, and never    *)
(* goes back: neither sessions that end in the middle of a batch nor       *)
(* commits of members that have lost the partition undo or anticipate      *)
(* anything.                                                               *)
GroupDelivers == Delivery!Spec

-----------------------------------------------------------------------------
(* What makes RepeatsBounded inductive.                                    *)

(* The owner sleeps with message k.                                        *)
SleepsWith(k) == owner # Nobody /\ pc[owner] = "sleep" /\ work[owner].next = k

(* How long k was slept with, the running session not included.            *)
Slept(k) ==
  IF SleepsWith(k) THEN age[k] - (SessionTimeout - session[owner]) ELSE age[k]

(* A session runs only while the owner sleeps, and no longer than the      *)
(* message ages.                                                           *)
SessionsKept ==
  /\ \A c \in Consumers :
       ~(Owns(c) /\ pc[c] = "sleep") => session[c] = SessionTimeout
  /\ \A k \in 1 .. end : Slept(k) >= 0

(* The owner's batch begins at the committed offset.                       *)
BatchKept ==
  \A c \in Consumers :
    Owns(c) =>
      /\ committed = NoOffset \/ work[c].first = committed
      /\ work[c].first <= work[c].next
      /\ pc[c] = "idle" => work[c].first = work[c].next

(* The message with which the group goes on.                               *)
Position ==
  IF owner # Nobody THEN work[owner].next
  ELSE IF committed = NoOffset THEN end + 1 ELSE committed

(* The group has yet to handle m, as far as it knows.                      *)
Awaited(m) ==
  /\ Position <= m
  /\ ~(owner # Nobody /\ pc[owner] = "mark" /\ work[owner].next = m)

(* Members that have lost the partition and handle m nevertheless.         *)
Strays(m) ==
  {c \in Consumers : /\ ~Owns(c)
                     /\ pc[c] \in {"sleep", "relay", "insert"}
                     /\ work[c].next = m}

(* The sessions that have ended while m or a later message was slept with, *)
(* at most.                                                                *)
SessionsEnded(m) ==
  {s \in (m .. end) \X (1 .. MaxDelay) : s[2] * SessionTimeout <= Slept(s[1])}

One(condition) == IF condition THEN 1 ELSE 0

(* How often a message was handled and how often it will be, if nothing    *)
(* else happens, is paid for by disruptions and sessions that have ended.  *)
RepeatsCounted ==
  \A m \in 1 .. end :
    handled[m] + Cardinality(Strays(m)) + One(Awaited(m))
      <= 1 + disruptions + Cardinality(SessionsEnded(m))

GroupInv ==
  /\ OffsetInv
  /\ SessionsKept
  /\ BatchKept
  /\ RepeatsCounted

=============================================================================

----------------------------- MODULE PaymentLease -----------------------------
(***************************************************************************)
(* The lock of one payment (paymentLock.service.ts,                        *)
(* distributedLock.service.ts) with its clock: a Redis key that holds a    *)
(* token and expires, a timer in the holder's process that has it extended *)
(* every half of its life, and commands that take their time to reach      *)
(* Redis.  The core knows this lock without a clock: there a lease may run *)
(* out at any time, which this module shows to need a cause.               *)
(*                                                                         *)
(* Time passes in ticks.  A command, or the answer to a SET, arrives       *)
(* within MaxDelay ticks unless it is lost or held up.                     *)
(***************************************************************************)
EXTENDS Naturals, FiniteSets

CONSTANTS
  Workers,         \* executions of handlePaymentInitiated for this payment
  Tokens,          \* values of nanoid
  Nobody,          \* the key does not exist; a worker without a token
  TTL,             \* PAYMENT_LOCK_TTL_MS
  MaxDelay,        \* how long a command that is not held up is on its way
  Disruptions,     \* the kinds of disruption that may happen
  MaxDisruptions   \* how many of them one behaviour has at most

ASSUME TokenAssumption == Nobody \notin Tokens

ASSUME BoundAssumption ==
  /\ MaxDisruptions \in Nat
  /\ Disruptions \subseteq {"lose", "hold", "crash"}

(* The period of the heartbeat.                                            *)
Interval == TTL \div 2

(* What is left of a lease when its first heartbeat is sent covers the way *)
(* of the answer and of the heartbeat.                                     *)
ASSUME TimeAssumption ==
  /\ TTL \in Nat /\ MaxDelay \in Nat
  /\ Interval > 0
  /\ TTL > Interval + 2 * MaxDelay

VARIABLES
  key,           \* the token in lock:payment:{id}
  ttl,           \* what is left of its time to live
  wire,          \* commands on their way, and answers to SET
  pc,            \* a worker's state
  token,         \* its token
  timer,         \* the time until its next heartbeat
  lapsed,        \* a heartbeat, or the answer before the first, was late
  disruptions

vars == <<key, ttl, wire, pc, token, timer, lapsed, disruptions>>

Message == [op : {"set", "ok", "extend", "release"}, token : Tokens,
            age : 0 .. MaxDelay]

TypeOK ==
  /\ key \in Tokens \cup {Nobody}
  /\ ttl \in 0 .. TTL
  /\ key = Nobody <=> ttl = 0
  /\ wire \subseteq Message
  /\ pc \in [Workers -> {"idle", "asking", "holding", "releasing"}]
  /\ token \in [Workers -> Tokens \cup {Nobody}]
  /\ timer \in [Workers -> 0 .. Interval]
  /\ lapsed \in BOOLEAN
  /\ disruptions \in 0 .. MaxDisruptions

-----------------------------------------------------------------------------
Msg(op, t) == [op |-> op, token |-> t, age |-> 0]

(* A new token: nothing in the system has it.                              *)
Fresh(t) ==
  /\ t # key
  /\ \A w \in Workers : token[w] # t
  /\ \A m \in wire : m.token # t

(* The executions whose token is t go on to a state in which they have no  *)
(* timer, or are over.                                                     *)
Over(t) ==
  /\ pc' = [w \in Workers |-> IF token[w] = t THEN "idle" ELSE pc[w]]
  /\ token' = [w \in Workers |-> IF token[w] = t THEN Nobody ELSE token[w]]
  /\ timer' = [w \in Workers |-> IF token[w] = t THEN 0 ELSE timer[w]]

Disrupt(kind) ==
  /\ kind \in Disruptions
  /\ disruptions < MaxDisruptions
  /\ disruptions' = disruptions + 1

Init ==
  /\ key = Nobody
  /\ ttl = 0
  /\ wire = {}
  /\ pc = [w \in Workers |-> "idle"]
  /\ token = [w \in Workers |-> Nobody]
  /\ timer = [w \in Workers |-> 0]
  /\ lapsed = FALSE
  /\ disruptions = 0

-----------------------------------------------------------------------------
(* The workers.                                                            *)

(* tryLockPayment sends SET NX PX.                                         *)
TryLock(w) ==
  /\ pc[w] = "idle"
  /\ \E t \in Tokens :
       /\ Fresh(t)
       /\ token' = [token EXCEPT ![w] = t]
       /\ wire' = wire \cup {Msg("set", t)}
  /\ pc' = [pc EXCEPT ![w] = "asking"]
  /\ UNCHANGED <<key, ttl, timer, lapsed, disruptions>>

(* The timer is started with the whole time to live for a period.          *)
LockedWholePeriod(w) ==
  \E m \in wire :
    /\ m.op = "ok" /\ m.token = token[w]
    /\ pc[w] = "asking"
    /\ pc' = [pc EXCEPT ![w] = "holding"]
    /\ timer' = [timer EXCEPT ![w] = TTL - 1]
    /\ wire' = wire \ {m}
    /\ UNCHANGED <<key, ttl, token, lapsed, disruptions>>

(* SET is answered with OK: the timer is started.                          *)
Locked(w) ==
  \E m \in wire :
    /\ m.op = "ok" /\ m.token = token[w]
    /\ pc[w] = "asking"
    /\ pc' = [pc EXCEPT ![w] = "holding"]
    /\ timer' = [timer EXCEPT ![w] = Interval]
    /\ wire' = wire \ {m}
    /\ UNCHANGED <<key, ttl, token, lapsed, disruptions>>

(* The timer fires.  Nobody waits for the answer.                          *)
Heartbeat(w) ==
  /\ pc[w] = "holding"
  /\ timer[w] = 0
  /\ timer' = [timer EXCEPT ![w] = Interval]
  /\ wire' = wire \cup {Msg("extend", token[w])}
  /\ UNCHANGED <<key, ttl, pc, token, lapsed, disruptions>>

(* release: the timer is stopped and the Lua script sent.                  *)
Release(w) ==
  /\ pc[w] = "holding"
  /\ pc' = [pc EXCEPT ![w] = "releasing"]
  /\ timer' = [timer EXCEPT ![w] = 0]
  /\ wire' = wire \cup {Msg("release", token[w])}
  /\ UNCHANGED <<key, ttl, token, lapsed, disruptions>>

-----------------------------------------------------------------------------
(* Redis.                                                                  *)

(* The answer to a SET finds the execution that waits for it, if it lives. *)
Answer(t) == {Msg("ok", token[w]) : w \in {v \in Workers : token[v] = t}}

(* SET NX without PX.                                                      *)
ExecSetForever(m) ==
  /\ m.op = "set"
  /\ UNCHANGED <<lapsed, disruptions>>
  /\ \/ /\ key = Nobody
        /\ key' = m.token
        /\ UNCHANGED <<ttl, pc, token, timer>>
        /\ wire' = (wire \ {m}) \cup Answer(m.token)
     \/ /\ key # Nobody
        /\ wire' = wire \ {m}
        /\ Over(m.token)
        /\ UNCHANGED <<key, ttl>>

(* SET NX PX.  A refused worker sleeps and asks with a new token, or gives *)
(* up.                                                                     *)
ExecSet(m) ==
  /\ m.op = "set"
  /\ UNCHANGED <<lapsed, disruptions>>
  /\ \/ /\ key = Nobody
        /\ key' = m.token
        /\ ttl' = TTL
        /\ wire' = (wire \ {m}) \cup Answer(m.token)
        /\ UNCHANGED <<pc, token, timer>>
     \/ /\ key # Nobody
        /\ wire' = wire \ {m}
        /\ Over(m.token)
        /\ UNCHANGED <<key, ttl>>

(* A key that has expired is set again.                                    *)
ExecExtendReviving(m) ==
  /\ m.op = "extend"
  /\ wire' = wire \ {m}
  /\ key' = IF key = Nobody THEN m.token ELSE key
  /\ ttl' = IF key \in {m.token, Nobody} THEN TTL ELSE ttl
  /\ UNCHANGED <<pc, token, timer, lapsed, disruptions>>

(* extendPaymentLock.                                                      *)
ExecExtend(m) ==
  /\ m.op = "extend"
  /\ wire' = wire \ {m}
  /\ ttl' = IF key = m.token THEN TTL ELSE ttl
  /\ UNCHANGED <<key, pc, token, timer, lapsed, disruptions>>

(* DEL without the comparison.                                             *)
ExecReleaseBlind(m) ==
  /\ m.op = "release"
  /\ \A n \in wire : ~(n.op = "extend" /\ n.token = m.token)
  /\ wire' = wire \ {m}
  /\ key' = Nobody
  /\ ttl' = 0
  /\ Over(m.token)
  /\ UNCHANGED <<lapsed, disruptions>>

(* releasePaymentLock.  One connection keeps its commands in order.        *)
ExecRelease(m) ==
  /\ m.op = "release"
  /\ \A n \in wire : ~(n.op = "extend" /\ n.token = m.token)
  /\ wire' = wire \ {m}
  /\ key' = IF key = m.token THEN Nobody ELSE key
  /\ ttl' = IF key = m.token THEN 0 ELSE ttl
  /\ Over(m.token)
  /\ UNCHANGED <<lapsed, disruptions>>

Execute(m) == ExecSet(m) \/ ExecExtend(m) \/ ExecRelease(m)

(* Time passes, and the key expires when its time is over.                 *)
Tick ==
  /\ \A m \in wire : m.age < MaxDelay
  /\ \A w \in Workers : pc[w] = "holding" => timer[w] > 0
  /\ wire' = {[m EXCEPT !.age = @ + 1] : m \in wire}
  /\ timer' = [w \in Workers |-> IF timer[w] > 0 THEN timer[w] - 1 ELSE 0]
  /\ ttl' = IF ttl > 0 THEN ttl - 1 ELSE 0
  /\ key' = IF ttl = 1 THEN Nobody ELSE key
  /\ UNCHANGED <<pc, token, lapsed, disruptions>>

-----------------------------------------------------------------------------
(* Disruptions.                                                            *)

(* The lease depends on the heartbeats and on the answer that starts them. *)
Late(m) == m.op \in {"ok", "extend"}

(* A command or an answer is lost.  A SET or a release throws, as does a   *)
(* SET whose answer is lost: then the key is there, and nobody's.          *)
Lose(m) ==
  /\ Disrupt("lose")
  /\ m \in wire
  /\ wire' = wire \ {m}
  /\ lapsed' = (lapsed \/ m.op = "extend")
  /\ IF m.op = "extend" THEN UNCHANGED <<pc, token, timer>> ELSE Over(m.token)
  /\ UNCHANGED <<key, ttl>>

(* A command or an answer is held up for another while: a slow network, or *)
(* an event loop that is busy.                                             *)
HoldUp(m) ==
  /\ Disrupt("hold")
  /\ m \in wire /\ m.age > 0
  /\ wire' = (wire \ {m}) \cup {[m EXCEPT !.age = 0]}
  /\ lapsed' = (lapsed \/ Late(m))
  /\ UNCHANGED <<key, ttl, pc, token, timer>>

(* A process dies; what it has sent may still be executed.                 *)
Crash(w) ==
  /\ Disrupt("crash")
  /\ pc[w] # "idle"
  /\ wire' = {m \in wire : ~(m.op = "ok" /\ m.token = token[w])}
  /\ Over(token[w])
  /\ UNCHANGED <<key, ttl, lapsed>>

-----------------------------------------------------------------------------
WorkerStep(w) == Locked(w) \/ Heartbeat(w) \/ Release(w)

Next ==
  \/ \E w \in Workers : TryLock(w) \/ WorkerStep(w) \/ Crash(w)
  \/ \E m \in wire : Execute(m) \/ Lose(m) \/ HoldUp(m)
  \/ Tick

Spec == Init /\ [][Next]_vars

(* Time passes, commands arrive, and an execution comes to its end.        *)
FairSpec ==
  /\ Spec
  /\ WF_vars(Tick)
  /\ \A t \in Tokens : WF_vars(\E m \in wire : m.token = t /\ Execute(m))
  /\ \A w \in Workers :
       WF_vars(Locked(w)) /\ WF_vars(Heartbeat(w)) /\ WF_vars(Release(w))

-----------------------------------------------------------------------------
(* While no heartbeat is lost or held up, its holder is alone, although    *)
(* commands take their time, SETs and releases fail and processes die.     *)
Exclusion ==
  ~lapsed => \A v, w \in Workers :
               pc[v] = "holding" /\ pc[w] = "holding" => v = w

(* A holder's key is deleted by nobody else; it is lost only when its time *)
(* is over.                                                                *)
LostByExpiryOnly ==
  [][\A w \in Workers :
       pc[w] = "holding" /\ key = token[w] /\ key' # key =>
         lapsed /\ ttl = 1 /\ key' = Nobody]_vars

(* Who waits for what: tokens are told apart, a SET and its answer are one *)
(* message, and an execution with a message of either kind, or with a      *)
(* release, on its way waits for it.                                       *)
Distinct ==
  \A v, w \in Workers : token[v] = token[w] /\ token[v] # Nobody => v = w

Tokened == \A w \in Workers : pc[w] = "idle" <=> token[w] = Nobody

Once ==
  \A m, n \in wire :
    /\ m.op \in {"set", "ok"} /\ n.op \in {"set", "ok"}
    /\ m.token = n.token
    => m = n

Awaited ==
  \A m \in wire, w \in Workers :
    token[w] = m.token => /\ m.op \in {"set", "ok"} => pc[w] = "asking"
                          /\ m.op = "release" => pc[w] = "releasing"

Answerable ==
  \A m \in wire : m.op = "ok" => \E w \in Workers : token[w] = m.token

Ownership ==
  /\ Distinct
  /\ Tokened
  /\ Once
  /\ Awaited
  /\ Answerable

(* The lease outlasts the time until the next heartbeat arrives.           *)
LeaseCovers ==
  ~lapsed =>
    /\ \A m \in wire :
         m.op = "ok" => /\ key = m.token
                        /\ ttl + m.age > Interval + 2 * MaxDelay
    /\ \A w \in Workers :
         pc[w] = "holding" =>
           /\ key = token[w]
           /\ \/ ttl > timer[w] + MaxDelay
              \/ \E m \in wire : /\ m.op = "extend" /\ m.token = token[w]
                                 /\ ttl + m.age > MaxDelay

(* These, in one inductive invariant.                                      *)
IInv ==
  /\ TypeOK
  /\ Ownership
  /\ LeaseCovers

(* What the core may rely on, with the executions that hold a lock handle  *)
(* in their critical section.                                              *)
Holders == {token[w] : w \in {v \in Workers : pc[v] = "holding"}}

LC == INSTANCE LockContract WITH lock <- key, holders <- Holders

(* The lock with its clock keeps the contract without one: in particular a *)
(* holder whose key has expired never gets it back, though its heartbeats  *)
(* go on.                                                                  *)
ContractKept == LC!Spec

(* The key of an execution that is over does not stay: no heartbeat goes   *)
(* on behind it.                                                           *)
OrphansExpire ==
  \A t \in Tokens :
    (key = t /\ \A w \in Workers : token[w] # t) ~> key # t

=============================================================================

--------------------------- MODULE GatewayClient ---------------------------
(***************************************************************************)
(* charge() of gatewayClient.service.ts in one worker process: the         *)
(* simulated gateway decides, the answer takes its time, and only then the *)
(* circuit breaker is asked.  The breaker is in memory, one per process.   *)
(*                                                                         *)
(* A charge is two steps, the decision and, after the sleep, everything    *)
(* else: what execute() awaits is already settled, so no other charge of   *)
(* the process comes in between.  A slot is a place for one charge under   *)
(* way; a consumer handles up to three messages at once.                   *)
(***************************************************************************)
EXTENDS Integers, Sequences, FiniteSets

CONSTANTS
  Slots,          \* charges under way at the same time
  Threshold,      \* CIRCUIT_BREAKER_FAILURE_THRESHOLD
  ResetTimeout,   \* CIRCUIT_BREAKER_RESET_TIMEOUT_MS
  MaxTime,        \* the clock stops here
  MaxAnswers      \* answers the breaker lets through between two closings

ASSUME BoundAssumption ==
  /\ Threshold \in Nat \ {0}
  /\ ResetTimeout \in Nat
  /\ MaxTime \in Nat
  /\ MaxAnswers \in Nat

VARIABLES
  clock,      \* Date.now()
  state,      \* of the breaker
  failures,   \* its failure count
  openedAt,   \* when it was opened last
  charging,   \* of a slot: what the gateway has decided, or "idle"
  answer,     \* of a slot: what charge() has returned last, or "none"
  log         \* the answers let through since the breaker was last closed

vars == <<clock, state, failures, openedAt, charging, answer, log>>

(* Risk blocks, timeouts and network errors are all transient.             *)
Kinds == {"success", "webhook_duplicate", "issuer_declined", "transient"}

TypeOK ==
  /\ clock \in 0 .. MaxTime
  /\ state \in {"closed", "open", "half_open"}
  /\ failures \in Nat
  /\ openedAt \in 0 .. clock
  /\ charging \in [Slots -> Kinds \cup {"idle"}]
  /\ answer \in [Slots -> {"none", "success", "permanent", "transient"}]
  /\ log \in Seq([ok : BOOLEAN, at : 0 .. clock])
  /\ Len(log) <= MaxAnswers

-----------------------------------------------------------------------------
Init ==
  /\ clock = 0
  /\ state = "closed"
  /\ failures = 0
  /\ openedAt = 0
  /\ charging = [c \in Slots |-> "idle"]
  /\ answer = [c \in Slots |-> "none"]
  /\ log = <<>>

Captured(kind) == kind \in {"success", "webhook_duplicate"}

(* What charge() returns if the breaker does not interfere.                *)
Answer(kind) ==
  IF Captured(kind) THEN "success"
  ELSE IF kind = "issuer_declined" THEN "permanent" ELSE "transient"

(* The gateway decides, whatever the breaker's state.                      *)
Simulate(c) ==
  /\ charging[c] = "idle"
  /\ \E kind \in Kinds : charging' = [charging EXCEPT ![c] = kind]
  /\ answer' = [answer EXCEPT ![c] = "none"]
  /\ UNCHANGED <<clock, state, failures, openedAt, log>>

Return(c, result) ==
  /\ charging' = [charging EXCEPT ![c] = "idle"]
  /\ answer' = [answer EXCEPT ![c] = result]
  /\ UNCHANGED clock

(* A moment early.                                                         *)
ProbingEarly == clock - openedAt >= ResetTimeout

(* The time of an open breaker is up.                                      *)
Probing == clock - openedAt > ResetTimeout

(* It never closes again.                                                  *)
AdmitsNever == state # "open"

(* An open breaker lets one answer through when its time is up.            *)
Admits == state = "open" => Probing

(* The count goes below zero.                                              *)
OnSuccessUnclamped ==
  /\ state' = "closed"
  /\ IF state = "closed"
       THEN /\ failures' = failures - 1
            /\ log' = Append(log, [ok |-> TRUE, at |-> clock])
       ELSE failures' = 0 /\ log' = <<>>
  /\ UNCHANGED openedAt

(* A success after an opening closes it, any other is one failure less.    *)
OnSuccess ==
  /\ state' = "closed"
  /\ IF state = "closed"
       THEN /\ failures' = IF failures > 0 THEN failures - 1 ELSE 0
            /\ log' = Append(log, [ok |-> TRUE, at |-> clock])
       ELSE failures' = 0 /\ log' = <<>>
  /\ UNCHANGED openedAt

(* A failed probe begins to count anew.                                    *)
OnFailureForgetful ==
  /\ failures' = IF state = "open" THEN 1 ELSE failures + 1
  /\ log' = Append(log, [ok |-> FALSE, at |-> clock])
  /\ IF failures' >= Threshold
       THEN state' = "open" /\ openedAt' = clock
       ELSE /\ state' = IF state = "open" THEN "half_open" ELSE state
            /\ UNCHANGED openedAt

(* A failure counts whatever its kind.  A probe that does not reach the    *)
(* threshold would leave the breaker half open.                            *)
OnFailure ==
  /\ failures' = failures + 1
  /\ log' = Append(log, [ok |-> FALSE, at |-> clock])
  /\ IF failures' >= Threshold
       THEN state' = "open" /\ openedAt' = clock
       ELSE /\ state' = IF state = "open" THEN "half_open" ELSE state
            /\ UNCHANGED openedAt

(* A success that the breaker lets through.                                *)
Succeed(c) ==
  /\ charging[c] = "success"
  /\ Admits
  /\ Len(log) < MaxAnswers
  /\ OnSuccess
  /\ Return(c, Answer(charging[c]))

(* A decline or an error that the breaker lets through.                    *)
Fail(c) ==
  /\ charging[c] \in {"issuer_declined", "transient"}
  /\ Admits
  /\ Len(log) < MaxAnswers
  /\ OnFailure
  /\ Return(c, Answer(charging[c]))

(* A success with a duplicated webhook is returned past the breaker.       *)
Bypass(c) ==
  /\ charging[c] = "webhook_duplicate"
  /\ Return(c, Answer(charging[c]))
  /\ UNCHANGED <<state, failures, openedAt, log>>

(* CIRCUIT_OPEN: a transient error, in place of whatever the gateway said. *)
Reject(c) ==
  /\ charging[c] \in Kinds \ {"webhook_duplicate"}
  /\ ~Admits
  /\ Return(c, "transient")
  /\ UNCHANGED <<state, failures, openedAt, log>>

Tick ==
  /\ clock < MaxTime
  /\ clock' = clock + 1
  /\ UNCHANGED <<state, failures, openedAt, charging, answer, log>>

(* The process starts again with a new breaker.                            *)
Restart ==
  /\ state' = "closed"
  /\ failures' = 0
  /\ openedAt' = 0
  /\ charging' = [c \in Slots |-> "idle"]
  /\ answer' = [c \in Slots |-> "none"]
  /\ log' = <<>>
  /\ UNCHANGED clock

Charge(c) == Simulate(c) \/ Succeed(c) \/ Fail(c) \/ Bypass(c) \/ Reject(c)

Next == Tick \/ Restart \/ \E c \in Slots : Charge(c)

Spec == Init /\ [][Next]_vars

-----------------------------------------------------------------------------
(* Of the answers s from the i-th to the j-th: failures less successes.    *)
Surplus(s, i, j) ==
  Cardinality({k \in i .. j : ~s[k].ok}) - Cardinality({k \in i .. j : s[k].ok})

(* Some stretch of s that ends with the j-th answer has as many more       *)
(* failures than successes as the threshold says.                          *)
Outage(s, j) == \E i \in 1 .. j : Surplus(s, i, j) >= Threshold

(* The breaker counts up and down in one number that survives an opening,  *)
(* a failed probe and idle times (circuitBreaker.service.ts:29-44): it is  *)
(* open exactly if the answers since its last closing end in an outage,    *)
(* and it is half open only within a step.                                 *)
OpenForCause ==
  state = IF Outage(log, Len(log)) THEN "open" ELSE "closed"

(* While it is open it lets one answer through at a time, and the next one *)
(* when the reset timeout has passed (circuitBreaker.service.ts:18-24),    *)
(* however many charges end at once.                                       *)
ProbesSpaced ==
  \A j \in 1 .. Len(log) - 1 :
    Outage(log, j) => log[j + 1].at - log[j].at > ResetTimeout

(* charge() returns what the gateway has decided, unless there is an       *)
(* outage and its last failure is recent: then, and only then, is a        *)
(* success or a decline turned into a transient error                      *)
(* (gatewayClient.service.ts:39-67).  A success with a duplicated webhook  *)
(* never is.                                                               *)
Recent == clock - log[Len(log)].at <= ResetTimeout

AnswersTrue ==
  [][\A c \in Slots :
       answer[c] = "none" /\ answer'[c] # "none" =>
         \/ answer'[c] = Answer(charging[c])
         \/ /\ answer'[c] = "transient"
            /\ charging[c] # "webhook_duplicate"
            /\ Outage(log, Len(log)) /\ Recent]_vars

=============================================================================

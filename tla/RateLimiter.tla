---------------------------- MODULE RateLimiter ----------------------------
(***************************************************************************)
(* The sliding window of rateLimiter.service.ts for one (ip, route): a     *)
(* Redis sorted set with a member for every request let through, scored    *)
(* with the time at which that request began.  Keys do not interact.       *)
(*                                                                         *)
(* One action is one await: the MULTI that trims and counts, the ZRANGE,   *)
(* the ZADD and the PEXPIRE are separate commands, and requests on any     *)
(* number of replicas interleave between them.  A slot is a place for one  *)
(* request in flight, so there are as many slots as requests at once.  Any *)
(* command may fail, before or after Redis has executed it.                *)
(***************************************************************************)
EXTENDS Integers, FiniteSets

CONSTANTS
  Slots,      \* requests in flight at the same time
  Limit,      \* RATE_LIMIT_MAX
  Window,     \* RATE_LIMIT_WINDOW_MS
  Margin,     \* what PEXPIRE adds to the window, 1000 ms in the code
  MaxDelay,   \* a request takes at most this long
  MaxTime     \* the clock stops here

ASSUME SlotAssumption == IsFiniteSet(Slots)

ASSUME BoundAssumption ==
  /\ Limit \in Nat \ {0}
  /\ Window \in Nat \ {0}
  /\ Margin \in Nat
  /\ MaxDelay \in 0 .. Window - 1
  /\ MaxTime \in Nat

VARIABLES
  clock,      \* Date.now(), the same on all replicas
  zset,       \* rl:{key}: the members of the sorted set
  expiry,     \* when the key expires, or Never
  pc,         \* of a slot: the next await of its request
  now,        \* the time at which the request began
  member,     \* the member the request has added
  hint,       \* the retryAfterMs of the slot's last refusal
  admitted    \* the members whose requests were let through, for good

vars == <<clock, zset, expiry, pc, now, member, hint, admitted>>

Members == [score : 0 .. MaxTime, id : Nat \ {0}]

NoMember == [score |-> 0, id |-> 0]

Never == MaxTime + Window + Margin + 1

TypeOK ==
  /\ clock \in 0 .. MaxTime
  /\ zset \subseteq Members /\ IsFiniteSet(zset)
  /\ expiry \in Nat
  /\ pc \in [Slots -> {"idle", "count", "oldest", "add", "expire"}]
  /\ now \in [Slots -> 0 .. MaxTime]
  /\ member \in [Slots -> Members \cup {NoMember}]
  /\ \A s \in Slots : pc[s] = "expire" => member[s] \in Members
  /\ hint \in [Slots -> Nat]
  /\ admitted \subseteq Members

-----------------------------------------------------------------------------
At(s, step) == pc[s] = step

Goto(s, step) == pc' = [pc EXCEPT ![s] = step]

(* The request is answered, and its local variables are gone.              *)
Done(s) ==
  /\ Goto(s, "idle")
  /\ now' = [now EXCEPT ![s] = 0]
  /\ member' = [member EXCEPT ![s] = NoMember]

(* The members of S that a request which began at t counts: the others are *)
(* trimmed.  Members of younger requests count too.                        *)
Live(S, t) == {m \in S : m.score > t - Window}

(* The sorted set becomes S; Redis drops a key whose set is empty.         *)
Store(S) ==
  /\ zset' = S
  /\ expiry' = IF S = {} THEN Never ELSE expiry

(* A member like no other: the random part of its name.                    *)
NewMember(t) ==
  LET taken == {m.id : m \in {n \in zset \cup admitted : n.score = t}}
                 \cup {member[s].id : s \in Slots}
  IN [score |-> t,
      id    |-> CHOOSE i \in 1 .. Cardinality(taken) + 1 : i \notin taken]

Init ==
  /\ clock = 0
  /\ zset = {}
  /\ expiry = Never
  /\ pc = [s \in Slots |-> "idle"]
  /\ now = [s \in Slots |-> 0]
  /\ member = [s \in Slots |-> NoMember]
  /\ hint = [s \in Slots |-> 0]
  /\ admitted = {}

(* A request begins and reads the clock.                                   *)
Arrive(s) ==
  /\ At(s, "idle")
  /\ now' = [now EXCEPT ![s] = clock]
  /\ hint' = [hint EXCEPT ![s] = 0]
  /\ Goto(s, "count")
  /\ UNCHANGED <<clock, zset, expiry, member, admitted>>

(* The request trims by score, and lets one too many through.              *)
CountOneTooMany(s) ==
  /\ At(s, "count")
  /\ Store(Live(zset, now[s]))
  /\ Goto(s, IF Cardinality(Live(zset, now[s])) > Limit
             THEN "oldest" ELSE "add")
  /\ UNCHANGED <<clock, now, member, hint, admitted>>

(* ZREMRANGEBYSCORE and ZCARD in one MULTI.                                *)
Count(s) ==
  /\ At(s, "count")
  /\ Store(Live(zset, now[s]))
  /\ Goto(s, IF Cardinality(Live(zset, now[s])) >= Limit
             THEN "oldest" ELSE "add")
  /\ UNCHANGED <<clock, now, member, hint, admitted>>

Positive(n) == IF n > 0 THEN n ELSE 0

(* The wait is how far the oldest member lies in the past.                 *)
RefuseTooSoon(s) ==
  /\ At(s, "oldest")
  /\ \/ /\ zset = {}
        /\ hint' = [hint EXCEPT ![s] = 0]
     \/ \E m \in zset :
          /\ \A n \in zset : m.score <= n.score
          /\ hint' = [hint EXCEPT ![s] = m.score - now[s]]
  /\ Done(s)
  /\ UNCHANGED <<clock, zset, expiry, admitted>>

(* The oldest member by now tells when there will be room; without one     *)
(* there is room at once.  The answer is 429.                              *)
Refuse(s) ==
  /\ At(s, "oldest")
  /\ \/ /\ zset = {}
        /\ hint' = [hint EXCEPT ![s] = 0]
     \/ \E m \in zset :
          /\ \A n \in zset : m.score <= n.score
          /\ hint' = [hint EXCEPT ![s] = Positive(m.score + Window - now[s])]
  /\ Done(s)
  /\ UNCHANGED <<clock, zset, expiry, admitted>>

(* ZADD, scored with the time at which the request began.                  *)
Add(s) ==
  /\ At(s, "add")
  /\ LET m == NewMember(now[s])
     IN /\ Store(zset \cup {m})
        /\ member' = [member EXCEPT ![s] = m]
  /\ Goto(s, "expire")
  /\ UNCHANGED <<clock, now, hint, admitted>>

(* The window is forgotten in the time to live.                            *)
ProlongBriefly == expiry' = IF zset = {} THEN expiry ELSE clock + Margin

(* PEXPIRE, if the key is still there.                                     *)
Prolong == expiry' = IF zset = {} THEN expiry ELSE clock + Window + Margin

Admit(s) ==
  /\ At(s, "expire")
  /\ Prolong
  /\ admitted' = admitted \cup {member[s]}
  /\ Done(s)
  /\ UNCHANGED <<clock, zset, hint>>

(* A command fails before Redis has executed it: 500.  (If it has been     *)
(* executed, this is the failure of the next command, but for the last.)   *)
Throw(s) ==
  /\ ~At(s, "idle")
  /\ \/ UNCHANGED expiry
     \/ At(s, "expire") /\ Prolong
  /\ Done(s)
  /\ UNCHANGED <<clock, zset, hint, admitted>>

(* Time passes, and with it the key.                                       *)
Tick ==
  /\ clock < MaxTime
  /\ \A s \in Slots : At(s, "idle") \/ clock - now[s] < MaxDelay
  /\ clock' = clock + 1
  /\ Store(IF clock' >= expiry THEN {} ELSE zset)
  /\ admitted' = {m \in admitted : m.score > clock' - Window - MaxDelay}
  /\ UNCHANGED <<pc, now, member, hint>>

RequestStep(s) ==
  Arrive(s) \/ Count(s) \/ Refuse(s) \/ Add(s) \/ Admit(s) \/ Throw(s)

Next == Tick \/ \E s \in Slots : RequestStep(s)

Spec == Init /\ [][Next]_vars

-----------------------------------------------------------------------------
(* Counting and adding are two commands (rateLimiter.service.ts:20-31), so *)
(* requests that count together pass together.  The set never holds more   *)
(* than the limit, less one, and one for every request in flight; those    *)
(* that have counted but not added are already included.                   *)
Adding == {s \in Slots : At(s, "add")}

StoredBounded ==
  Cardinality(zset) + Cardinality(Adding) <= Limit - 1 + Cardinality(Slots)

(* Whether something at time n is in the stretch of time that ends at t.   *)
Within(n, t) == n <= t /\ n > t - (Window - MaxDelay)

Slack == IF MaxDelay = 0 THEN 0 ELSE Cardinality(Slots)

(* What the set is for: how many requests are let through in any stretch   *)
(* of time.  It is not the set's size.  A slow request is scored with the  *)
(* time at which it began, when members that it should have counted have   *)
(* been trimmed by younger requests: the stretch shrinks by the longest    *)
(* delay.  And the key may expire between a ZADD and its PEXPIRE and take  *)
(* members of requests that are let through afterwards with it: another    *)
(* round of requests in flight.                                            *)
WindowBounded ==
  \A t \in 0 .. MaxTime :
    Cardinality({m \in admitted : Within(m.score, t)})
      <= Limit - 1 + Cardinality(Slots) + Slack

(* A client that waits as long as it was told (retryAfterMs) finds room,   *)
(* unless others were let through meanwhile or the limit was exceeded.     *)
HintSuffices ==
  [][\A s \in Slots :
       Refuse(s) /\ Cardinality(zset) <= Limit =>
         Cardinality(Live(zset, now[s] + hint'[s])) < Limit]_vars

-----------------------------------------------------------------------------
(* What makes the bounds inductive.                                        *)

(* No request is older than the longest delay, and it scores its member    *)
(* with the time at which it began.                                        *)
InTime ==
  \A s \in Slots :
    /\ ~At(s, "idle") => now[s] <= clock /\ clock <= now[s] + MaxDelay
    /\ At(s, "expire") => member[s].score = now[s]

(* The key of an empty set has no time to live, and no PEXPIRE lets the    *)
(* key expire before those that it lets through have left the window.      *)
ExpiresLate ==
  /\ zset = {} => expiry = Never
  /\ \A m \in admitted : m.score <= clock /\ m.score + Window <= expiry

(* Members whose requests have been let through, or will be if nothing     *)
(* fails.                                                                  *)
Passed == admitted \cup {member[s] : s \in {r \in Slots : At(r, "expire")}}

(* Those that a request might still have to count, but that went with a    *)
(* key that expired under them: a round of requests in flight at most.     *)
Lost == {m \in Passed \ zset : m.score > clock - Window}

LostFew == Cardinality(Lost) <= Slack

(* Those of a stretch, with the requests that are about to add theirs.     *)
PassedBounded ==
  \A t \in 0 .. MaxTime :
    Cardinality({m \in Passed : Within(m.score, t)})
        + Cardinality({s \in Adding : Within(now[s], t)})
      <= Limit - 1 + Cardinality(Slots) + Slack

IInv ==
  /\ TypeOK
  /\ IsFiniteSet(admitted)
  /\ StoredBounded
  /\ InTime
  /\ ExpiresLate
  /\ LostFew
  /\ PassedBounded

=============================================================================

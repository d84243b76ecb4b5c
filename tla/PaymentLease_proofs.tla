------------------------- MODULE PaymentLease_proofs -------------------------
(***************************************************************************)
(* Proof, for any number of executions and any times that satisfy          *)
(* TimeAssumption, that the lock excludes as long as its heartbeats arrive *)
(* in time, and that it implements the contract without a clock.           *)
(***************************************************************************)
EXTENDS PaymentLease, TLAPS

(* The times are numbers.                                                  *)
LEMMA Times == TTL \in Nat /\ MaxDelay \in Nat /\ Interval \in Nat
BY TimeAssumption DEF Interval

(* A message on its way has an operation, a token and an age.              *)
LEMMA Messages ==
  ASSUME TypeOK, NEW m \in wire
  PROVE  /\ m \in Message
         /\ m.op \in {"set", "ok", "extend", "release"}
         /\ m.token \in Tokens
         /\ m.age \in Nat /\ m.age <= MaxDelay
BY Times DEF TypeOK, Message

(* What is sent is a message.                                              *)
LEMMA Sent ==
  ASSUME NEW op \in {"set", "ok", "extend", "release"}, NEW t \in Tokens
  PROVE  Msg(op, t) \in Message
BY Times DEF Msg, Message

(* A message is one tick older.                                            *)
Older(m) == [m EXCEPT !.age = @ + 1]

(* Nothing else of it changes, and it is told apart from the others.       *)
LEMMA OlderMessages ==
  ASSUME NEW m \in Message, m.age < MaxDelay
  PROVE  /\ Older(m) \in Message
         /\ Older(m).op = m.op
         /\ Older(m).token = m.token
         /\ Older(m).age = m.age + 1
BY Times DEF Older, Message

(* An answer is the answer to the execution that asked.                    *)
LEMMA Answers ==
  ASSUME NEW t, NEW n \in Answer(t)
  PROVE  n = Msg("ok", t) /\ \E w \in Workers : token[w] = t
BY DEF Answer

-----------------------------------------------------------------------------
(* Types.                                                                  *)

(* An execution that is over leaves the types alone.                       *)
LEMMA OverTypes ==
  ASSUME TypeOK, NEW t, Over(t)
  PROVE  /\ pc' \in [Workers -> {"idle", "asking", "holding", "releasing"}]
         /\ token' \in [Workers -> Tokens \cup {Nobody}]
         /\ timer' \in [Workers -> 0 .. Interval]
BY Times DEF TypeOK, Over

(* An execution that is not idle has a token.                              *)
LEMMA Busy ==
  ASSUME TypeOK, Ownership, NEW w \in Workers, pc[w] # "idle"
  PROVE  token[w] \in Tokens /\ token[w] # Nobody
BY TokenAssumption DEF TypeOK, Ownership, Tokened

(* Types are preserved by every step.                                      *)
LEMMA TypeNext == TypeOK /\ Ownership /\ [Next]_vars => TypeOK'
<1> SUFFICES ASSUME TypeOK, Ownership, [Next]_vars PROVE TypeOK'
    OBVIOUS
<1> USE Times, TimeAssumption, BoundAssumption, TokenAssumption
<1>1. CASE UNCHANGED vars
  BY <1>1 DEF vars, TypeOK
<1>2. ASSUME NEW w \in Workers, TryLock(w) PROVE TypeOK'
  BY <1>2, Sent DEF TryLock, TypeOK
<1>3. ASSUME NEW w \in Workers, Locked(w) PROVE TypeOK'
  BY <1>3 DEF Locked, TypeOK
<1>4. ASSUME NEW w \in Workers, Heartbeat(w) PROVE TypeOK'
  <2>1. token[w] \in Tokens
    BY <1>4, Busy DEF Heartbeat
  <2> QED BY <1>4, <2>1, Sent DEF Heartbeat, TypeOK
<1>5. ASSUME NEW w \in Workers, Release(w) PROVE TypeOK'
  <2>1. token[w] \in Tokens
    BY <1>5, Busy DEF Release
  <2> QED BY <1>5, <2>1, Sent DEF Release, TypeOK
<1>6. ASSUME NEW m \in wire, ExecSet(m) PROVE TypeOK'
  <2>1. m.token \in Tokens
    BY Messages
  <2>2. Answer(m.token) \subseteq Message
    BY <2>1, Answers, Sent
  <2>3. CASE key = Nobody
    BY <1>6, <2>1, <2>2, <2>3 DEF ExecSet, TypeOK
  <2>4. CASE key # Nobody
    BY <1>6, <2>4, OverTypes DEF ExecSet, TypeOK
  <2> QED BY <2>3, <2>4
<1>7. ASSUME NEW m \in wire, ExecExtend(m) PROVE TypeOK'
  BY <1>7, Messages DEF ExecExtend, TypeOK
<1>8. ASSUME NEW m \in wire, ExecRelease(m) PROVE TypeOK'
  BY <1>8, OverTypes, Messages DEF ExecRelease, TypeOK
<1>9. ASSUME NEW m \in wire, Lose(m) PROVE TypeOK'
  <2>1. /\ pc' \in [Workers -> {"idle", "asking", "holding", "releasing"}]
        /\ token' \in [Workers -> Tokens \cup {Nobody}]
        /\ timer' \in [Workers -> 0 .. Interval]
    BY <1>9, OverTypes DEF Lose, TypeOK
  <2>2. disruptions' \in 0 .. MaxDisruptions
    BY <1>9 DEF Lose, Disrupt, TypeOK
  <2>3. lapsed' \in BOOLEAN
    BY <1>9 DEF Lose
  <2> QED BY <1>9, <2>1, <2>2, <2>3 DEF Lose, TypeOK
<1>10. ASSUME NEW m \in wire, HoldUp(m) PROVE TypeOK'
  <2>1. [m EXCEPT !.age = 0] \in Message
    BY Messages DEF Message
  <2>2. disruptions' \in 0 .. MaxDisruptions
    BY <1>10 DEF HoldUp, Disrupt, TypeOK
  <2>3. lapsed' \in BOOLEAN
    BY <1>10 DEF HoldUp
  <2> QED BY <1>10, <2>1, <2>2, <2>3 DEF HoldUp, TypeOK
<1>11. ASSUME NEW w \in Workers, Crash(w) PROVE TypeOK'
  <2>1. disruptions' \in 0 .. MaxDisruptions
    BY <1>11 DEF Crash, Disrupt, TypeOK
  <2> QED BY <1>11, <2>1, OverTypes DEF Crash, TypeOK
<1>12. CASE Tick
  <2>1. wire' = {Older(m) : m \in wire}
    BY <1>12 DEF Tick, Older
  <2>2. wire' \subseteq Message
    BY <1>12, <2>1, Messages, OlderMessages DEF Tick
  <2>3. timer' \in [Workers -> 0 .. Interval]
    BY <1>12 DEF Tick, TypeOK
  <2> QED BY <1>12, <2>2, <2>3 DEF Tick, TypeOK
<1> QED
  BY <1>1, <1>2, <1>3, <1>4, <1>5, <1>6, <1>7, <1>8, <1>9, <1>10, <1>11,
     <1>12 DEF Next, WorkerStep, Execute

-----------------------------------------------------------------------------
(* Who waits for what.                                                     *)

(* A message with a token and an execution with the same token: which      *)
(* operations there may be in which state.                                 *)
LEMMA Waiting ==
  ASSUME Ownership, NEW m \in wire, NEW w \in Workers, token[w] = m.token
  PROVE  /\ m.op \in {"set", "ok"} => pc[w] = "asking"
         /\ m.op = "release" => pc[w] = "releasing"
BY DEF Ownership, Awaited

(* A holder has neither a SET, nor an answer, nor a release on its way.    *)
LEMMA HolderDone ==
  ASSUME Ownership, NEW m \in wire, NEW w \in Workers,
         m.op \in {"set", "ok", "release"}, pc[w] = "holding"
  PROVE  token[w] # m.token
BY Waiting

(* There is no answer for an execution that has a SET or a release on its  *)
(* way.                                                                    *)
LEMMA NoAnswer ==
  ASSUME Ownership, NEW m \in wire, NEW n \in wire, n.op = "ok",
         m.op = "set" \/ m.op = "release" \/ (m.op = "ok" /\ m # n)
  PROVE  n.token # m.token
<1>1. PICK w \in Workers : token[w] = n.token /\ pc[w] = "asking"
  BY DEF Ownership, Awaited, Answerable
<1> QED BY <1>1 DEF Ownership, Once, Awaited

(* An execution that is over, and nothing new on the wire.                 *)
LEMMA OverOwnership ==
  ASSUME TypeOK, Ownership, NEW t, Over(t), wire' \subseteq wire,
         \A n \in wire' : n.op = "ok" => n.token # t
  PROVE  Ownership'
<1> USE DEF Ownership
<1>1. \A w \in Workers : /\ pc'[w] = IF token[w] = t THEN "idle" ELSE pc[w]
                        /\ token'[w] = IF token[w] = t THEN Nobody
                                                      ELSE token[w]
  BY DEF Over
<1>2. \A m \in wire : m.token # Nobody
  BY Messages, TokenAssumption
<1>3. Distinct'
  BY <1>1 DEF Distinct
<1>4. Tokened'
  BY <1>1 DEF Tokened
<1>5. Once'
  BY DEF Once
<1>6. Awaited'
  BY <1>1, <1>2 DEF Awaited
<1>7. Answerable'
  BY <1>1 DEF Answerable
<1> QED BY <1>3, <1>4, <1>5, <1>6, <1>7

(* Who waits for what is preserved by every step.                          *)
LEMMA OwnershipNext == TypeOK /\ Ownership /\ [Next]_vars => Ownership'
<1> SUFFICES ASSUME TypeOK, Ownership, [Next]_vars PROVE Ownership'
    OBVIOUS
<1> USE DEF Ownership
<1>0. \A m \in wire : m.token \in Tokens /\ m.token # Nobody
  BY Messages, TokenAssumption
<1>1. CASE UNCHANGED vars
  BY <1>1 DEF vars, Distinct, Tokened, Once, Awaited, Answerable
<1>2. ASSUME NEW w \in Workers, TryLock(w) PROVE Ownership'
  <2>1. PICK t \in Tokens : /\ Fresh(t)
                            /\ token' = [token EXCEPT ![w] = t]
                            /\ wire' = wire \cup {Msg("set", t)}
    BY <1>2 DEF TryLock
  <2>2. /\ pc[w] = "idle" /\ token[w] = Nobody
        /\ pc' = [pc EXCEPT ![w] = "asking"]
    BY <1>2 DEF TryLock, Tokened
  <2>3. /\ \A v \in Workers : token'[v] = IF v = w THEN t ELSE token[v]
        /\ \A v \in Workers : pc'[v] = IF v = w THEN "asking" ELSE pc[v]
    BY <2>1, <2>2 DEF TypeOK
  <2>4. Msg("set", t).op = "set" /\ Msg("set", t).token = t
    BY DEF Msg
  <2>5. \A m \in wire : m.token # t
    BY <2>1 DEF Fresh
  <2>6. Distinct'
    BY <2>1, <2>3 DEF Distinct, Fresh
  <2>7. Tokened'
    BY <2>3, TokenAssumption DEF Tokened
  <2>8. Once'
    BY <2>1, <2>4, <2>5 DEF Once
  <2>9. Awaited'
    <3>1. \A m \in wire, v \in Workers :
            token'[v] = m.token => v # w /\ token[v] = m.token
      BY <2>3, <2>5
    <3>2. \A v \in Workers : token'[v] = t => v = w
      BY <2>1, <2>3 DEF Fresh
    <3> QED BY <2>1, <2>3, <2>4, <3>1, <3>2 DEF Awaited
  <2>10. Answerable'
    BY <1>0, <2>1, <2>2, <2>3, <2>4 DEF Answerable
  <2> QED BY <2>6, <2>7, <2>8, <2>9, <2>10
<1>3. ASSUME NEW w \in Workers, Locked(w) PROVE Ownership'
  <2>1. PICK m \in wire : /\ m.op = "ok" /\ m.token = token[w]
                          /\ pc[w] = "asking"
                          /\ pc' = [pc EXCEPT ![w] = "holding"]
                          /\ wire' = wire \ {m}
                          /\ token' = token
    BY <1>3 DEF Locked
  <2>2. \A v \in Workers : pc'[v] = IF v = w THEN "holding" ELSE pc[v]
    BY <2>1 DEF TypeOK
  <2>3. Distinct' /\ Once' /\ Answerable'
    BY <2>1 DEF Distinct, Once, Answerable
  <2>4. Tokened'
    BY <2>1, <2>2 DEF Tokened
  <2>5. Awaited'
    <3>1. \A n \in wire' : token[w] = n.token => n.op = "extend"
      BY <2>1, Messages DEF Once, Awaited
    <3> QED BY <2>1, <2>2, <3>1 DEF Awaited
  <2> QED BY <2>3, <2>4, <2>5
<1>4. ASSUME NEW w \in Workers, Heartbeat(w) PROVE Ownership'
  <2>1. /\ wire' = wire \cup {Msg("extend", token[w])}
        /\ UNCHANGED <<pc, token>>
    BY <1>4 DEF Heartbeat
  <2>2. Msg("extend", token[w]).op = "extend"
    BY DEF Msg
  <2> QED
    BY <2>1, <2>2 DEF Distinct, Tokened, Once, Awaited, Answerable
<1>5. ASSUME NEW w \in Workers, Release(w) PROVE Ownership'
  <2>1. /\ wire' = wire \cup {Msg("release", token[w])}
        /\ pc[w] = "holding"
        /\ pc' = [pc EXCEPT ![w] = "releasing"]
        /\ token' = token
    BY <1>5 DEF Release
  <2>2. /\ Msg("release", token[w]).op = "release"
        /\ Msg("release", token[w]).token = token[w]
    BY DEF Msg
  <2>3. \A v \in Workers : pc'[v] = IF v = w THEN "releasing" ELSE pc[v]
    BY <2>1 DEF TypeOK
  <2>4. token[w] # Nobody
    BY <2>1, Busy
  <2>5. Distinct' /\ Once' /\ Answerable'
    BY <2>1, <2>2 DEF Distinct, Once, Answerable
  <2>6. Tokened'
    BY <2>1, <2>3 DEF Tokened
  <2>7. Awaited'
    <3>1. \A v \in Workers : token[v] = token[w] => v = w
      BY <2>4 DEF Distinct
    <3> QED BY <2>1, <2>2, <2>3, <3>1, HolderDone DEF Awaited
  <2> QED BY <2>5, <2>6, <2>7
<1>6. ASSUME NEW m \in wire, ExecSet(m) PROVE Ownership'
  <2>1. CASE key = Nobody
    <3>1. /\ wire' = (wire \ {m}) \cup Answer(m.token)
          /\ m.op = "set"
          /\ UNCHANGED <<pc, token>>
      BY <1>6, <2>1 DEF ExecSet
    <3>2. \A n \in Answer(m.token) :
            n.op = "ok" /\ n.token = m.token /\ n = Msg("ok", m.token)
      BY Answers DEF Msg
    <3>3. Distinct' /\ Tokened'
      BY <3>1 DEF Distinct, Tokened
    <3>4. Once'
      BY <3>1, <3>2 DEF Once
    <3>5. Awaited'
      BY <3>1, <3>2 DEF Awaited
    <3>6. Answerable'
      BY <3>1, <3>2, Answers DEF Answerable
    <3> QED BY <3>3, <3>4, <3>5, <3>6
  <2>2. CASE key # Nobody
    BY <1>6, <2>2, NoAnswer, OverOwnership DEF ExecSet
  <2> QED BY <2>1, <2>2
<1>7. ASSUME NEW m \in wire, ExecExtend(m) PROVE Ownership'
  BY <1>7
     DEF ExecExtend, Distinct, Tokened, Once, Awaited, Answerable
<1>8. ASSUME NEW m \in wire, ExecRelease(m) PROVE Ownership'
  BY <1>8, NoAnswer, OverOwnership DEF ExecRelease
<1>9. ASSUME NEW m \in wire, Lose(m) PROVE Ownership'
  <2>1. wire' = wire \ {m}
    BY <1>9 DEF Lose
  <2>2. CASE m.op = "extend"
    BY <1>9, <2>1, <2>2
       DEF Lose, Distinct, Tokened, Once, Awaited, Answerable
  <2>3. CASE m.op # "extend"
    BY <1>9, <2>1, <2>3, Messages, NoAnswer, OverOwnership DEF Lose
  <2> QED BY <2>2, <2>3
<1>10. ASSUME NEW m \in wire, HoldUp(m) PROVE Ownership'
  <2> DEFINE n == [m EXCEPT !.age = 0]
  <2>1. /\ wire' = (wire \ {m}) \cup {n}
        /\ UNCHANGED <<pc, token>>
    BY <1>10 DEF HoldUp
  <2>2. n.op = m.op /\ n.token = m.token
    BY Messages DEF Message
  <2> HIDE DEF n
  <2>3. Distinct' /\ Tokened'
    BY <2>1 DEF Distinct, Tokened
  <2>4. Once'
    BY <2>1, <2>2 DEF Once
  <2>5. Awaited' /\ Answerable'
    BY <2>1, <2>2 DEF Awaited, Answerable
  <2> QED BY <2>3, <2>4, <2>5
<1>11. ASSUME NEW w \in Workers, Crash(w) PROVE Ownership'
  BY <1>11, OverOwnership DEF Crash
<1>12. CASE Tick
  <2>1. /\ wire' = {Older(m) : m \in wire}
        /\ UNCHANGED <<pc, token>>
    BY <1>12 DEF Tick, Older
  <2>2. \A n \in wire' : \E m \in wire :
          n = Older(m) /\ n.op = m.op /\ n.token = m.token
    BY <1>12, <2>1, Messages, OlderMessages DEF Tick
  <2>3. Distinct' /\ Tokened'
    BY <2>1 DEF Distinct, Tokened
  <2>4. Once'
    BY <2>2 DEF Once
  <2>5. Awaited' /\ Answerable'
    BY <2>1, <2>2 DEF Awaited, Answerable
  <2> QED BY <2>3, <2>4, <2>5
<1> QED
  BY <1>1, <1>2, <1>3, <1>4, <1>5, <1>6, <1>7, <1>8, <1>9, <1>10, <1>11,
     <1>12 DEF Next, WorkerStep, Execute

-----------------------------------------------------------------------------
(* The lease covers the time until the next heartbeat arrives.             *)

(* An answer on its way has a lease that lasts a period and a heartbeat    *)
(* longer.                                                                 *)
AnswerCovered(m) ==
  /\ key = m.token
  /\ ttl + m.age > Interval + 2 * MaxDelay

(* A holder has the key, until its heartbeat is due or one has arrived.    *)
HolderCovered(w) ==
  /\ key = token[w]
  /\ \/ ttl > timer[w] + MaxDelay
     \/ \E m \in wire : /\ m.op = "extend" /\ m.token = token[w]
                        /\ ttl + m.age > MaxDelay

LEMMA Covers ==
  LeaseCovers <=>
    (~lapsed => /\ \A m \in wire : m.op = "ok" => AnswerCovered(m)
                /\ \A w \in Workers : pc[w] = "holding" => HolderCovered(w))
BY DEF LeaseCovers, AnswerCovered, HolderCovered

(* The same in the next state.                                             *)
LEMMA CoversNext ==
  ASSUME lapsed' = FALSE =>
           /\ \A m \in wire' : m.op = "ok" => AnswerCovered(m)'
           /\ \A w \in Workers : pc'[w] = "holding" => HolderCovered(w)',
         lapsed' \in BOOLEAN
  PROVE  LeaseCovers'
BY DEF LeaseCovers, AnswerCovered, HolderCovered

(* An execution that is over is not a holder, and the others are what they *)
(* were.                                                                   *)
LEMMA OverOthers ==
  ASSUME TypeOK, NEW t, Over(t), NEW w \in Workers, pc'[w] = "holding"
  PROVE  /\ pc[w] = "holding" /\ token[w] # t
         /\ token'[w] = token[w] /\ timer'[w] = timer[w]
BY DEF Over, TypeOK

(* A lease that is kept up is not about to expire when time passes.        *)
LEMMA NotExpiring ==
  ASSUME TypeOK, LeaseCovers, Tick, ~lapsed,
         \/ \E m \in wire : m.op = "ok"
         \/ \E w \in Workers : pc[w] = "holding"
  PROVE  ttl > 1
<1> USE Times, TimeAssumption
<1>1. \A m \in wire : m.age \in Nat /\ m.age < MaxDelay
  BY Messages DEF Tick
<1>2. ttl \in Nat
  BY DEF TypeOK
<1>3. ASSUME NEW m \in wire, m.op = "ok" PROVE ttl > 1
  BY <1>1, <1>2, <1>3, Covers DEF AnswerCovered
<1>4. ASSUME NEW w \in Workers, pc[w] = "holding" PROVE ttl > 1
  <2>1. timer[w] \in Nat /\ timer[w] > 0
    BY <1>4 DEF Tick, TypeOK
  <2>2. HolderCovered(w)
    BY <1>4, Covers
  <2>3. CASE ttl > timer[w] + MaxDelay
    BY <1>2, <2>1, <2>3
  <2>4. CASE \E m \in wire : ttl + m.age > MaxDelay
    BY <1>1, <1>2, <2>4
  <2> QED BY <2>2, <2>3, <2>4 DEF HolderCovered
<1> QED BY <1>3, <1>4

(* That the lease covers is preserved by every step.                       *)
LEMMA CoversStep ==
  TypeOK /\ Ownership /\ LeaseCovers /\ [Next]_vars => LeaseCovers'
<1> SUFFICES ASSUME TypeOK, Ownership, LeaseCovers, [Next]_vars
             PROVE  LeaseCovers'
    OBVIOUS
<1> USE Times, TimeAssumption
<1>0. /\ ttl \in Nat /\ lapsed \in BOOLEAN
      /\ \A w \in Workers : timer[w] \in Nat
  BY DEF TypeOK
<1>m. \A m \in wire : /\ m.age \in Nat /\ m.age <= MaxDelay
                      /\ m.token \in Tokens /\ m.token # Nobody
  BY Messages, TokenAssumption
<1>k. ~lapsed => /\ \A m \in wire : m.op = "ok" => AnswerCovered(m)
                 /\ \A w \in Workers : pc[w] = "holding" => HolderCovered(w)
  BY Covers
<1>1. CASE UNCHANGED vars
  BY <1>1 DEF vars, LeaseCovers
<1>2. ASSUME NEW w \in Workers, TryLock(w) PROVE LeaseCovers'
  <2>1. PICK t \in Tokens : /\ token' = [token EXCEPT ![w] = t]
                            /\ wire' = wire \cup {Msg("set", t)}
    BY <1>2 DEF TryLock
  <2>2. /\ pc' = [pc EXCEPT ![w] = "asking"]
        /\ UNCHANGED <<key, ttl, timer, lapsed>>
    BY <1>2 DEF TryLock
  <2>3. Msg("set", t).op = "set"
    BY DEF Msg
  <2>4. \A v \in Workers : pc'[v] = "holding" =>
                            pc[v] = "holding" /\ token'[v] = token[v]
    BY <2>1, <2>2 DEF TypeOK
  <2> QED
    BY <1>0, <1>k, <2>1, <2>2, <2>3, <2>4, CoversNext
       DEF AnswerCovered, HolderCovered
<1>3. ASSUME NEW w \in Workers, Locked(w) PROVE LeaseCovers'
  <2>1. PICK m \in wire : /\ m.op = "ok" /\ m.token = token[w]
                          /\ pc' = [pc EXCEPT ![w] = "holding"]
                          /\ timer' = [timer EXCEPT ![w] = Interval]
                          /\ wire' = wire \ {m}
                          /\ UNCHANGED <<key, ttl, token, lapsed>>
    BY <1>3 DEF Locked
  <2>2. \A v \in Workers :
          /\ pc'[v] = IF v = w THEN "holding" ELSE pc[v]
          /\ timer'[v] = IF v = w THEN Interval ELSE timer[v]
    BY <2>1 DEF TypeOK
  <2>3. ~lapsed => HolderCovered(w)'
    <3>1. ~lapsed => key = token[w] /\ ttl + m.age > Interval + 2 * MaxDelay
      BY <1>k, <2>1 DEF AnswerCovered
    <3>2. ~lapsed => ttl > Interval + MaxDelay
      BY <1>0, <1>m, <2>1, <3>1
    <3> QED BY <2>1, <2>2, <3>1, <3>2 DEF HolderCovered
  <2>4. \A v \in Workers :
          ~lapsed /\ pc'[v] = "holding" /\ v # w => HolderCovered(v)'
    BY <1>k, <2>1, <2>2 DEF HolderCovered
  <2>5. \A n \in wire' : ~lapsed /\ n.op = "ok" => AnswerCovered(n)'
    BY <1>k, <2>1 DEF AnswerCovered
  <2> QED BY <1>0, <2>1, <2>3, <2>4, <2>5, CoversNext
<1>4. ASSUME NEW w \in Workers, Heartbeat(w) PROVE LeaseCovers'
  <2>1. /\ pc[w] = "holding" /\ timer[w] = 0
        /\ timer' = [timer EXCEPT ![w] = Interval]
        /\ wire' = wire \cup {Msg("extend", token[w])}
        /\ UNCHANGED <<key, ttl, pc, token, lapsed>>
    BY <1>4 DEF Heartbeat
  <2>2. LET h == Msg("extend", token[w])
        IN  h.op = "extend" /\ h.token = token[w] /\ h.age = 0
    BY DEF Msg
  <2>3. ~lapsed => HolderCovered(w)'
    BY <1>0, <1>k, <2>1, <2>2 DEF HolderCovered
  <2>4. \A v \in Workers :
          ~lapsed /\ pc'[v] = "holding" /\ v # w => HolderCovered(v)'
    <3>1. \A v \in Workers : v # w => timer'[v] = timer[v]
      BY <2>1 DEF TypeOK
    <3> QED BY <1>k, <2>1, <3>1 DEF HolderCovered
  <2>5. \A n \in wire' : ~lapsed /\ n.op = "ok" => AnswerCovered(n)'
    BY <1>k, <2>1, <2>2 DEF AnswerCovered
  <2> QED BY <1>0, <2>1, <2>3, <2>4, <2>5, CoversNext
<1>5. ASSUME NEW w \in Workers, Release(w) PROVE LeaseCovers'
  <2>1. /\ pc' = [pc EXCEPT ![w] = "releasing"]
        /\ timer' = [timer EXCEPT ![w] = 0]
        /\ wire' = wire \cup {Msg("release", token[w])}
        /\ UNCHANGED <<key, ttl, token, lapsed>>
    BY <1>5 DEF Release
  <2>2. Msg("release", token[w]).op = "release"
    BY DEF Msg
  <2>3. \A v \in Workers : pc'[v] = "holding" =>
                            pc[v] = "holding" /\ timer'[v] = timer[v]
    BY <2>1 DEF TypeOK
  <2> QED
    BY <1>0, <1>k, <2>1, <2>2, <2>3, CoversNext
       DEF AnswerCovered, HolderCovered
<1>6. ASSUME NEW m \in wire, ExecSet(m) PROVE LeaseCovers'
  <2>1. CASE key = Nobody
    <3>1. /\ key' = m.token /\ ttl' = TTL
          /\ wire' = (wire \ {m}) \cup Answer(m.token)
          /\ UNCHANGED <<pc, token, timer, lapsed>>
      BY <1>6, <2>1 DEF ExecSet
    <3>2. ~lapsed => \A v \in Workers : pc[v] # "holding"
      BY <1>k, <2>1, Busy DEF HolderCovered
    <3>3. ~lapsed => \A n \in wire : n.op # "ok"
      BY <1>k, <1>m, <2>1 DEF AnswerCovered
    <3>4. \A n \in Answer(m.token) : n.token = m.token /\ n.age = 0
      BY Answers DEF Msg
    <3>5. \A n \in wire' : ~lapsed /\ n.op = "ok" => AnswerCovered(n)'
      BY <3>1, <3>3, <3>4 DEF AnswerCovered
    <3> QED BY <1>0, <3>1, <3>2, <3>5, CoversNext
  <2>2. CASE key # Nobody
    <3>1. /\ m.op = "set" /\ wire' = wire \ {m} /\ Over(m.token)
          /\ UNCHANGED <<key, ttl, lapsed>>
      BY <1>6, <2>2 DEF ExecSet
    <3> QED
      BY <1>0, <1>k, <3>1, OverOthers, CoversNext
         DEF AnswerCovered, HolderCovered
  <2> QED BY <2>1, <2>2
<1>7. ASSUME NEW m \in wire, ExecExtend(m) PROVE LeaseCovers'
  <2>1. /\ m.op = "extend" /\ wire' = wire \ {m}
        /\ ttl' = IF key = m.token THEN TTL ELSE ttl
        /\ UNCHANGED <<key, pc, token, timer, lapsed>>
    BY <1>7 DEF ExecExtend
  <2>2. ttl' >= ttl /\ ttl' \in Nat
    BY <2>1 DEF TypeOK
  <2>3. \A n \in wire' : ~lapsed /\ n.op = "ok" => AnswerCovered(n)'
    BY <1>0, <1>k, <1>m, <2>1, <2>2 DEF AnswerCovered
  <2>4. ASSUME NEW w \in Workers, ~lapsed, pc[w] = "holding"
        PROVE  HolderCovered(w)'
    <3>1. HolderCovered(w)
      BY <1>k, <2>4
    <3>2. CASE key = m.token
      <4>1. timer[w] <= Interval
        BY DEF TypeOK
      <4>2. ttl' > timer[w] + MaxDelay
        BY <1>0, <2>1, <3>2, <4>1
      <4> QED BY <2>1, <3>1, <4>2 DEF HolderCovered
    <3>3. CASE key # m.token
      BY <2>1, <3>1, <3>3 DEF HolderCovered
    <3> QED BY <3>2, <3>3
  <2> QED BY <1>0, <2>1, <2>3, <2>4, CoversNext
<1>8. ASSUME NEW m \in wire, ExecRelease(m) PROVE LeaseCovers'
  <2>1. /\ m.op = "release" /\ wire' = wire \ {m} /\ Over(m.token)
        /\ key' = IF key = m.token THEN Nobody ELSE key
        /\ ttl' = IF key = m.token THEN 0 ELSE ttl
        /\ lapsed' = lapsed
    BY <1>8 DEF ExecRelease
  <2>2. \A n \in wire : n.op = "ok" => n.token # m.token
    BY <2>1, NoAnswer
  <2>3. \A n \in wire' : ~lapsed /\ n.op = "ok" => AnswerCovered(n)'
    BY <1>k, <2>1, <2>2 DEF AnswerCovered
  <2>4. ASSUME NEW w \in Workers, ~lapsed, pc'[w] = "holding"
        PROVE  HolderCovered(w)'
    <3>1. /\ pc[w] = "holding" /\ token[w] # m.token
          /\ token'[w] = token[w] /\ timer'[w] = timer[w]
      BY <2>1, <2>4, OverOthers
    <3>2. HolderCovered(w)
      BY <1>k, <2>4, <3>1
    <3> QED BY <2>1, <3>1, <3>2 DEF HolderCovered
  <2> QED BY <1>0, <2>1, <2>3, <2>4, CoversNext
<1>9. ASSUME NEW m \in wire, Lose(m) PROVE LeaseCovers'
  <2>1. /\ wire' = wire \ {m}
        /\ lapsed' = (lapsed \/ m.op = "extend")
        /\ UNCHANGED <<key, ttl>>
    BY <1>9 DEF Lose
  <2>2. CASE m.op = "extend"
    BY <2>1, <2>2 DEF LeaseCovers
  <2>3. CASE m.op # "extend"
    <3>1. Over(m.token)
      BY <1>9, <2>3 DEF Lose
    <3> QED
      BY <1>0, <1>k, <2>1, <2>3, <3>1, OverOthers, CoversNext
         DEF AnswerCovered, HolderCovered
  <2> QED BY <2>2, <2>3
<1>10. ASSUME NEW m \in wire, HoldUp(m) PROVE LeaseCovers'
  <2> DEFINE n == [m EXCEPT !.age = 0]
  <2>1. /\ wire' = (wire \ {m}) \cup {n}
        /\ lapsed' = (lapsed \/ m.op \in {"ok", "extend"})
        /\ UNCHANGED <<key, ttl, pc, token, timer>>
    BY <1>10 DEF HoldUp, Late
  <2>2. n.op = m.op
    BY Messages DEF Message
  <2> HIDE DEF n
  <2>3. CASE m.op \in {"ok", "extend"}
    BY <2>1, <2>3 DEF LeaseCovers
  <2>4. CASE m.op \notin {"ok", "extend"}
    BY <1>0, <1>k, <2>1, <2>2, <2>4, CoversNext
       DEF AnswerCovered, HolderCovered
  <2> QED BY <2>3, <2>4
<1>11. ASSUME NEW w \in Workers, Crash(w) PROVE LeaseCovers'
  <2>1. /\ wire' = {m \in wire : ~(m.op = "ok" /\ m.token = token[w])}
        /\ Over(token[w])
        /\ UNCHANGED <<key, ttl, lapsed>>
    BY <1>11 DEF Crash
  <2>2. \A n \in wire : n.op = "extend" => n \in wire'
    BY <2>1
  <2>3. \A n \in wire' : ~lapsed /\ n.op = "ok" => AnswerCovered(n)'
    BY <1>k, <2>1 DEF AnswerCovered
  <2>4. \A v \in Workers : ~lapsed /\ pc'[v] = "holding" => HolderCovered(v)'
    BY <1>k, <2>1, <2>2, OverOthers DEF HolderCovered
  <2> QED BY <1>0, <2>1, <2>3, <2>4, CoversNext
<1>12. CASE Tick
  <2>1. /\ wire' = {Older(m) : m \in wire}
        /\ UNCHANGED <<pc, token, lapsed>>
        /\ timer' = [w \in Workers |->
                       IF timer[w] > 0 THEN timer[w] - 1 ELSE 0]
        /\ ttl' = IF ttl > 0 THEN ttl - 1 ELSE 0
        /\ key' = IF ttl = 1 THEN Nobody ELSE key
        /\ \A m \in wire : m.age < MaxDelay
        /\ \A w \in Workers : pc[w] = "holding" => timer[w] > 0
    BY <1>12 DEF Tick, Older
  <2>2. \A m \in wire :
          /\ Older(m) \in wire' /\ Older(m).op = m.op
          /\ Older(m).token = m.token /\ Older(m).age = m.age + 1
    BY <2>1, Messages, OlderMessages
  <2>3. ASSUME NEW n \in wire', ~lapsed, n.op = "ok"
        PROVE  AnswerCovered(n)'
    <3>1. PICK m \in wire : n = Older(m)
      BY <2>1
    <3>2. m.op = "ok" /\ n.token = m.token /\ n.age = m.age + 1
      BY <2>2, <2>3, <3>1
    <3>3. ttl > 1
      BY <1>12, <2>3, <3>2, NotExpiring
    <3>4. key = m.token /\ ttl + m.age > Interval + 2 * MaxDelay
      BY <1>k, <2>3, <3>2 DEF AnswerCovered
    <3>5. ttl' + n.age > Interval + 2 * MaxDelay
      BY <1>0, <1>m, <2>1, <3>2, <3>3, <3>4
    <3> QED BY <2>1, <3>2, <3>3, <3>4, <3>5 DEF AnswerCovered
  <2>4. ASSUME NEW w \in Workers, ~lapsed, pc[w] = "holding"
        PROVE  HolderCovered(w)'
    <3>1. HolderCovered(w)
      BY <1>k, <2>4
    <3>2. ttl > 1 /\ ttl' = ttl - 1 /\ key' = key
      BY <1>0, <1>12, <2>1, <2>4, NotExpiring
    <3>3. timer[w] > 0 /\ timer'[w] = timer[w] - 1
      BY <2>1, <2>4
    <3>4. CASE ttl > timer[w] + MaxDelay
      <4>1. ttl' > timer'[w] + MaxDelay
        BY <1>0, <3>2, <3>3, <3>4
      <4> QED BY <2>1, <3>1, <3>2, <4>1 DEF HolderCovered
    <3>5. CASE \E m \in wire : /\ m.op = "extend" /\ m.token = token[w]
                               /\ ttl + m.age > MaxDelay
      <4>1. PICK m \in wire : /\ m.op = "extend" /\ m.token = token[w]
                              /\ ttl + m.age > MaxDelay
        BY <3>5
      <4>2. ttl' + Older(m).age > MaxDelay
        BY <1>0, <1>m, <2>2, <3>2, <4>1
      <4> QED BY <2>1, <2>2, <3>1, <3>2, <4>1, <4>2 DEF HolderCovered
    <3> QED BY <3>1, <3>4, <3>5 DEF HolderCovered
  <2> QED BY <1>0, <2>1, <2>3, <2>4, CoversNext
<1> QED
  BY <1>1, <1>2, <1>3, <1>4, <1>5, <1>6, <1>7, <1>8, <1>9, <1>10, <1>11,
     <1>12 DEF Next, WorkerStep, Execute

-----------------------------------------------------------------------------
(* The theorems.                                                           *)

LEMMA InitInv == Init => IInv
<1> SUFFICES ASSUME Init PROVE IInv
    OBVIOUS
<1>1. TypeOK
  <2>1. timer \in [Workers -> 0 .. Interval]
    BY Times DEF Init
  <2>2. ttl \in 0 .. TTL /\ disruptions \in 0 .. MaxDisruptions
    BY Times, BoundAssumption DEF Init
  <2> QED BY <2>1, <2>2 DEF Init, TypeOK
<1>2. Ownership
  BY DEF Init, Ownership, Distinct, Tokened, Once, Awaited, Answerable
<1>3. LeaseCovers
  BY DEF Init, LeaseCovers
<1> QED BY <1>1, <1>2, <1>3 DEF IInv

(* Types, ownership and the cover of the lease hold in every state.        *)
THEOREM Invariance == Spec => []IInv
<1>1. IInv /\ [Next]_vars => IInv'
  BY TypeNext, OwnershipNext, CoversStep DEF IInv
<1> QED BY InitInv, <1>1, PTL DEF Spec

(* The variables of the lock have their types in every state.              *)
THEOREM TypeCorrect == Spec => []TypeOK
<1>1. IInv => TypeOK
  BY DEF IInv
<1> QED BY Invariance, <1>1, PTL

(* Until a heartbeat is lost or late, no two executions hold the lock of a *)
(* payment, whatever SETs and releases are lost and whichever processes    *)
(* die.                                                                    *)
THEOREM LeaseExcludes == Spec => []Exclusion
<1>1. ASSUME IInv PROVE Exclusion
  <2>1. ASSUME ~lapsed, NEW v \in Workers, NEW w \in Workers,
               pc[v] = "holding", pc[w] = "holding"
        PROVE  v = w
    <3>1. token[v] = key /\ token[w] = key
      BY <1>1, <2>1, Covers DEF IInv, HolderCovered
    <3>2. token[v] # Nobody
      BY <1>1, <2>1, Busy DEF IInv
    <3> QED BY <1>1, <3>1, <3>2 DEF IInv, Ownership, Distinct
  <2> QED BY <2>1 DEF Exclusion
<1> QED BY Invariance, <1>1, PTL

(* The key of a holder goes only when its time is over.                    *)
LEMMA KeyOfHolder ==
  ASSUME IInv, [Next]_vars, NEW w \in Workers,
         pc[w] = "holding", key = token[w], key' # key
  PROVE  Tick /\ lapsed /\ ttl = 1 /\ key' = Nobody
<1> USE DEF IInv
<1>1. key # Nobody
  BY Busy
<1>2. ~ UNCHANGED key
  OBVIOUS
<1>3. ASSUME NEW m \in wire, ExecRelease(m) PROVE FALSE
  BY <1>3, HolderDone DEF ExecRelease
<1>4. ~ \E m \in wire : ExecSet(m)
  BY <1>1, <1>2 DEF ExecSet
<1>5. Tick
  BY <1>2, <1>3, <1>4
     DEF Next, vars, WorkerStep, Execute, TryLock, Locked, Heartbeat,
         Release, ExecExtend, Lose, HoldUp, Crash
<1>6. ttl = 1 /\ key' = Nobody
  BY <1>5 DEF Tick
<1>7. lapsed
  BY <1>5, <1>6, NotExpiring
<1> QED BY <1>5, <1>6, <1>7

(* Nobody else's step takes a holder's key away, neither the release of    *)
(* another execution nor its SET: only time does, once a heartbeat has     *)
(* been lost or late.                                                      *)
THEOREM LossNeedsExpiry == Spec => LostByExpiryOnly
<1>1. IInv /\ [Next]_vars =>
        [\A w \in Workers :
           pc[w] = "holding" /\ key = token[w] /\ key' # key =>
             lapsed /\ ttl = 1 /\ key' = Nobody]_vars
  BY KeyOfHolder
<1> QED BY Invariance, <1>1, PTL DEF Spec, LostByExpiryOnly

-----------------------------------------------------------------------------
(* The refinement.                                                         *)

(* An execution that is over leaves the critical section, if it was there. *)
LEMMA OverLeaves ==
  ASSUME TypeOK, NEW t, Over(t)
  PROVE  Holders' = Holders \ {t}
<1>1. \A w \in Workers :
        /\ pc'[w] = "holding" <=> pc[w] = "holding" /\ token[w] # t
        /\ token[w] # t => token'[w] = token[w]
  BY DEF Over, TypeOK
<1> QED BY <1>1 DEF Holders

(* A token with a SET or a release on its way, or with an answer, is not a *)
(* holder's.                                                               *)
LEMMA Outside ==
  ASSUME Ownership, NEW m \in wire, m.op \in {"set", "ok", "release"}
  PROVE  m.token \notin Holders
BY HolderDone DEF Holders

(* A holder's token is nobody else's.                                      *)
LEMMA HolderToken ==
  ASSUME TypeOK, Ownership, NEW w \in Workers, pc[w] # "idle"
  PROVE  token[w] \in Holders <=> pc[w] = "holding"
<1>1. \A v \in Workers : token[v] = token[w] => v = w
  BY Busy DEF Ownership, Distinct
<1> QED BY <1>1 DEF Holders

(* Every step of the lock is a step of the contract, or none.              *)
LEMMA StepKept == IInv /\ [Next]_vars => [LC!Next]_(LC!vars)
<1> SUFFICES ASSUME IInv, [Next]_vars PROVE [LC!Next]_(LC!vars)
    OBVIOUS
<1> USE DEF IInv
<1>1. ASSUME UNCHANGED <<key, Holders, lapsed>>
      PROVE  [LC!Next]_(LC!vars)
  BY <1>1 DEF LC!vars
<1>2. CASE UNCHANGED vars
  BY <1>1, <1>2 DEF vars, Holders
<1>3. ASSUME NEW w \in Workers, TryLock(w) PROVE [LC!Next]_(LC!vars)
  <2>1. \A v \in Workers :
          IF pc[v] = "holding"
            THEN pc'[v] = "holding" /\ token'[v] = token[v]
            ELSE pc'[v] # "holding"
    BY <1>3 DEF TryLock, TypeOK
  <2>2. Holders' = Holders
    BY <2>1 DEF Holders
  <2> QED BY <1>1, <1>3, <2>2 DEF TryLock
<1>4. ASSUME NEW w \in Workers, Locked(w) PROVE [LC!Next]_(LC!vars)
  <2>1. PICK m \in wire : /\ m.op = "ok" /\ m.token = token[w]
                          /\ pc[w] = "asking"
                          /\ pc' = [pc EXCEPT ![w] = "holding"]
                          /\ UNCHANGED <<key, token, lapsed>>
    BY <1>4 DEF Locked
  <2>2. token[w] \notin Holders
    BY <2>1, Outside
  <2>3. lapsed \/ key = token[w]
    BY <2>1, Covers DEF AnswerCovered
  <2>4. \A v \in Workers : pc'[v] = "holding" <=> pc[v] = "holding" \/ v = w
    BY <2>1 DEF TypeOK
  <2>5. Holders' = Holders \cup {token[w]}
    BY <2>1, <2>4 DEF Holders
  <2>6. token[w] \in Tokens
    BY <2>1, Messages
  <2>7. LC!Enter(token[w])
    BY <2>1, <2>2, <2>3, <2>5 DEF LC!Enter
  <2> QED BY <2>6, <2>7 DEF LC!Next
<1>5. ASSUME NEW w \in Workers, Heartbeat(w) PROVE [LC!Next]_(LC!vars)
  BY <1>1, <1>5 DEF Heartbeat, Holders
<1>6. ASSUME NEW w \in Workers, Release(w) PROVE [LC!Next]_(LC!vars)
  <2>1. /\ pc[w] = "holding"
        /\ pc' = [pc EXCEPT ![w] = "releasing"]
        /\ UNCHANGED <<key, token, lapsed>>
    BY <1>6 DEF Release
  <2>2. token[w] \in Tokens /\ token[w] \in Holders
    BY <2>1, Busy DEF Holders
  <2>3. \A v \in Workers : pc'[v] = "holding" <=> pc[v] = "holding" /\ v # w
    BY <2>1 DEF TypeOK
  <2>4. \A v \in Workers : token[v] = token[w] <=> v = w
    BY <2>1, Busy DEF Ownership, Distinct
  <2>5. Holders' = Holders \ {token[w]}
    BY <2>1, <2>3, <2>4 DEF Holders
  <2>6. LC!Leave(token[w])
    BY <2>1, <2>2, <2>5 DEF LC!Leave
  <2> QED BY <2>2, <2>6 DEF LC!Next
<1>7. ASSUME NEW m \in wire, ExecSet(m) PROVE [LC!Next]_(LC!vars)
  <2>1. m.token \in Tokens /\ m.token \notin Holders
    BY <1>7, Messages, Outside DEF ExecSet
  <2>2. CASE key = Nobody
    <3>1. key' = m.token /\ UNCHANGED <<Holders, lapsed>>
      BY <1>7, <2>2 DEF ExecSet, Holders
    <3>2. LC!Take(m.token)
      BY <2>1, <2>2, <3>1 DEF LC!Take
    <3> QED BY <2>1, <3>2 DEF LC!Next
  <2>3. CASE key # Nobody
    <3>1. Over(m.token) /\ UNCHANGED <<key, lapsed>>
      BY <1>7, <2>3 DEF ExecSet
    <3>2. Holders' = Holders
      BY <2>1, <3>1, OverLeaves
    <3> QED BY <1>1, <3>1, <3>2
  <2> QED BY <2>2, <2>3
<1>8. ASSUME NEW m \in wire, ExecExtend(m) PROVE [LC!Next]_(LC!vars)
  BY <1>1, <1>8 DEF ExecExtend, Holders
<1>9. ASSUME NEW m \in wire, ExecRelease(m) PROVE [LC!Next]_(LC!vars)
  <2>1. /\ m.op = "release" /\ Over(m.token) /\ lapsed' = lapsed
        /\ key' = IF key = m.token THEN Nobody ELSE key
    BY <1>9 DEF ExecRelease
  <2>2. m.token \notin Holders
    BY <2>1, Outside
  <2>3. Holders' = Holders
    BY <2>1, <2>2, OverLeaves
  <2>4. CASE key = m.token
    <3>1. key # Nobody
      BY <2>4, Messages, TokenAssumption
    <3>2. LC!Free
      BY <2>1, <2>2, <2>3, <2>4, <3>1 DEF LC!Free
    <3> QED BY <3>2 DEF LC!Next
  <2>5. CASE key # m.token
    BY <1>1, <2>1, <2>3, <2>5
  <2> QED BY <2>4, <2>5
<1>10. ASSUME NEW m \in wire, Lose(m) PROVE [LC!Next]_(LC!vars)
  <2>1. key' = key /\ lapsed' = (lapsed \/ m.op = "extend")
    BY <1>10 DEF Lose
  <2>2. Holders' = Holders
    <3>1. CASE m.op = "extend"
      BY <1>10, <3>1 DEF Lose, Holders
    <3>2. CASE m.op # "extend"
      <4>1. Over(m.token) /\ m.token \notin Holders
        BY <1>10, <3>2, Messages, Outside DEF Lose
      <4> QED BY <4>1, OverLeaves
    <3> QED BY <3>1, <3>2
  <2> QED BY <1>1, <2>1, <2>2 DEF LC!Next, LC!Lapse, TypeOK
<1>11. ASSUME NEW m \in wire, HoldUp(m) PROVE [LC!Next]_(LC!vars)
  <2>1. /\ lapsed' = (lapsed \/ Late(m))
        /\ UNCHANGED <<key, Holders>>
    BY <1>11 DEF HoldUp, Holders
  <2> QED BY <1>1, <2>1 DEF LC!Next, LC!Lapse, Late, TypeOK
<1>12. ASSUME NEW w \in Workers, Crash(w) PROVE [LC!Next]_(LC!vars)
  <2>1. pc[w] # "idle" /\ Over(token[w]) /\ UNCHANGED <<key, lapsed>>
    BY <1>12 DEF Crash
  <2>2. Holders' = Holders \ {token[w]}
    BY <2>1, OverLeaves
  <2>3. CASE token[w] \in Holders
    <3>1. LC!Leave(token[w])
      BY <2>1, <2>2, <2>3 DEF LC!Leave
    <3> QED BY <2>1, <3>1, Busy DEF LC!Next
  <2>4. CASE token[w] \notin Holders
    BY <1>1, <2>1, <2>2, <2>4
  <2> QED BY <2>3, <2>4
<1>13. CASE Tick
  <2>1. UNCHANGED <<Holders, lapsed>>
    BY <1>13 DEF Tick, Holders
  <2>2. key' = key \/ (key' = Nobody /\ key # Nobody)
    BY <1>13 DEF Tick
  <2>3. CASE key' # key
    <3>1. key \notin Holders \/ lapsed
      BY <2>3, KeyOfHolder DEF Holders
    <3>2. LC!Free
      BY <2>1, <2>2, <2>3, <3>1 DEF LC!Free
    <3> QED BY <3>2 DEF LC!Next
  <2>4. CASE key' = key
    BY <1>1, <2>1, <2>4
  <2> QED BY <2>3, <2>4
<1> QED
  BY <1>2, <1>3, <1>4, <1>5, <1>6, <1>7, <1>8, <1>9, <1>10, <1>11, <1>12,
     <1>13 DEF Next, WorkerStep, Execute

(* The lock with its clock, its messages and its heartbeats implements the *)
(* contract that the core relies on.                                       *)
THEOREM KeepsContract == Spec => ContractKept
<1>1. Init => LC!Init
  BY DEF Init, LC!Init, Holders
<1> QED BY Invariance, <1>1, StepKept, PTL DEF Spec, ContractKept, LC!Spec

=============================================================================

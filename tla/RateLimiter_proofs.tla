------------------------- MODULE RateLimiter_proofs -------------------------
(***************************************************************************)
(* However requests interleave, are delayed or fail, the sorted set of a   *)
(* key stays within the limit and the requests in flight.  The argument    *)
(* counts the requests between their count and their insertion: a request  *)
(* joins them only below the limit, and when it leaves them the set grows  *)
(* by no more than one.                                                    *)
(*                                                                         *)
(* What is let through in any stretch of time has a bound of the same      *)
(* form.  A request that goes on from its count has found every member of  *)
(* the stretch before it, and they are fewer than the limit, or the member *)
(* has gone with an expired key; and a key expires only when whatever      *)
(* prolonged it last did so a window ago, so that those members are of     *)
(* requests in flight, no more than there are slots.                       *)
(***************************************************************************)
EXTENDS RateLimiter, FiniteSetTheorems, TLAPS

(* What the counting argument needs to know of the types.                  *)
Countable ==
  /\ IsFiniteSet(zset)
  /\ pc \in [Slots -> {"idle", "count", "oldest", "add", "expire"}]

CountInv == Countable /\ StoredBounded

(* There are no more requests between count and insertion than slots.      *)
LEMMA AddingBounded ==
  ASSUME NEW S, S \subseteq Slots
  PROVE  /\ IsFiniteSet(S)
         /\ Cardinality(S) \in Nat
         /\ Cardinality(Slots) \in Nat
         /\ Cardinality(S) <= Cardinality(Slots)
<1>1. S \in SUBSET Slots
  OBVIOUS
<1>2. IsFiniteSet(S) /\ Cardinality(S) <= Cardinality(Slots)
  BY <1>1, SlotAssumption, FS_Subset
<1> QED
  BY <1>2, SlotAssumption, FS_CardinalityType

(* Taking members away never breaks the bound, whatever else a step does,  *)
(* if it brings no request to its insertion.                               *)
LEMMA Shrinking ==
  ASSUME CountInv, zset' \in SUBSET zset, Adding' \in SUBSET Adding
  PROVE  IsFiniteSet(zset') /\ StoredBounded'
<1>1. Adding \subseteq Slots
  BY DEF Adding
<1>2. IsFiniteSet(Adding) /\ Cardinality(Adding) \in Nat
  BY <1>1, AddingBounded
<1>3. /\ IsFiniteSet(Adding')
      /\ Cardinality(Adding') <= Cardinality(Adding)
  BY <1>2, FS_Subset
<1>4. IsFiniteSet(zset') /\ Cardinality(zset') <= Cardinality(zset)
  BY FS_Subset DEF CountInv, Countable
<1>5. /\ Cardinality(zset) \in Nat
      /\ Cardinality(zset') \in Nat
      /\ Cardinality(Adding') \in Nat
      /\ Cardinality(Slots) \in Nat
  BY <1>3, <1>4, SlotAssumption, FS_CardinalityType DEF CountInv, Countable
<1>6. Limit \in Nat
  BY BoundAssumption
<1>7. Cardinality(zset) + Cardinality(Adding)
        <= Limit - 1 + Cardinality(Slots)
  BY DEF CountInv, StoredBounded
<1>8. Cardinality(zset') + Cardinality(Adding')
        <= Limit - 1 + Cardinality(Slots)
  BY <1>2, <1>3, <1>4, <1>5, <1>6, <1>7
<1> QED
  BY <1>4, <1>8 DEF StoredBounded

(* The steps that neither count below the limit nor insert.                *)
LEMMA Elsewhere ==
  ASSUME CountInv, NEW s \in Slots, NEW step,
         pc' = [pc EXCEPT ![s] = step],
         step \in {"idle", "count", "oldest", "expire"},
         zset' \in SUBSET zset
  PROVE  CountInv'
<1>1. pc \in [Slots -> {"idle", "count", "oldest", "add", "expire"}]
  BY DEF CountInv, Countable
<1>2. pc' \in [Slots -> {"idle", "count", "oldest", "add", "expire"}]
  BY <1>1
<1>3. Adding' \in SUBSET Adding
  BY <1>1, <1>2 DEF Adding, At
<1>4. IsFiniteSet(zset') /\ StoredBounded'
  BY <1>3, Shrinking
<1> QED
  BY <1>2, <1>4 DEF CountInv, Countable

(* Counting: whoever goes on to the insertion has found room.              *)
LEMMA CountStep ==
  ASSUME CountInv, NEW s \in Slots, Count(s)
  PROVE  CountInv'
<1> DEFINE left == Live(zset, now[s])
<1>1. left \in SUBSET zset /\ zset' = left
  BY DEF Count, Store, Live
<1>2. pc \in [Slots -> {"idle", "count", "oldest", "add", "expire"}]
  BY DEF CountInv, Countable
<1>3. CASE Cardinality(left) >= Limit
  <2>1. pc' = [pc EXCEPT ![s] = "oldest"]
    BY <1>3 DEF Count, Goto
  <2> QED
    BY <1>1, <2>1, Elsewhere
<1>4. CASE ~(Cardinality(left) >= Limit)
  <2>1. pc' = [pc EXCEPT ![s] = "add"]
    BY <1>4 DEF Count, Goto
  <2>2. pc' \in [Slots -> {"idle", "count", "oldest", "add", "expire"}]
    BY <1>2, <2>1
  <2>3. IsFiniteSet(left)
    BY <1>1, FS_Subset DEF CountInv, Countable
  <2>4. Cardinality(left) \in Nat /\ Limit \in Nat
    BY <2>3, FS_CardinalityType, BoundAssumption
  <2>5. Cardinality(left) <= Limit - 1
    BY <1>4, <2>4
  <2>6. Adding' \subseteq Slots
    BY DEF Adding
  <2>7. /\ Cardinality(Adding') \in Nat
        /\ Cardinality(Slots) \in Nat
        /\ Cardinality(Adding') <= Cardinality(Slots)
    BY <2>6, AddingBounded
  <2>8. Cardinality(left) + Cardinality(Adding')
          <= Limit - 1 + Cardinality(Slots)
    BY <2>4, <2>5, <2>7
  <2> QED
    BY <1>1, <2>2, <2>3, <2>8 DEF CountInv, Countable, StoredBounded
<1> QED
  BY <1>3, <1>4

(* Inserting: one more member at most, one fewer request about to insert.  *)
LEMMA AddStep ==
  ASSUME CountInv, NEW s \in Slots, Add(s)
  PROVE  CountInv'
<1> DEFINE m == NewMember(now[s])
<1>1. zset' = zset \cup {m} /\ pc' = [pc EXCEPT ![s] = "expire"]
  BY DEF Add, Store, Goto
<1>2. pc \in [Slots -> {"idle", "count", "oldest", "add", "expire"}]
  BY DEF CountInv, Countable
<1>3. pc' \in [Slots -> {"idle", "count", "oldest", "add", "expire"}]
  BY <1>1, <1>2
<1>4. s \in Adding /\ Adding' = Adding \ {s}
  BY <1>1, <1>2 DEF Add, Adding, At
<1>5. Adding \subseteq Slots
  BY DEF Adding
<1>6. /\ IsFiniteSet(Adding)
      /\ Cardinality(Adding) \in Nat
      /\ Cardinality(Slots) \in Nat
  BY <1>5, AddingBounded
<1>7. Cardinality(Adding') = Cardinality(Adding) - 1
  BY <1>4, <1>6, FS_RemoveElement
<1>8. /\ IsFiniteSet(zset)
      /\ Cardinality(zset) \in Nat
  BY FS_CardinalityType DEF CountInv, Countable
<1>9. /\ IsFiniteSet(zset \cup {m})
      /\ Cardinality(zset \cup {m}) \in Nat
      /\ Cardinality(zset \cup {m}) <= Cardinality(zset) + 1
  <2> HIDE DEF m
  <2>1. /\ IsFiniteSet(zset \cup {m})
        /\ Cardinality(zset \cup {m}) =
             IF m \in zset THEN Cardinality(zset) ELSE Cardinality(zset) + 1
    BY <1>8, FS_AddElement
  <2> QED
    BY <1>8, <2>1
<1>10. Cardinality(zset) + Cardinality(Adding)
         <= Limit - 1 + Cardinality(Slots)
  BY DEF CountInv, StoredBounded
<1>11. Limit \in Nat
  BY BoundAssumption
<1>12. Cardinality(zset') + Cardinality(Adding')
         <= Limit - 1 + Cardinality(Slots)
  <2>1. Cardinality(zset') = Cardinality(zset \cup {m})
    BY <1>1
  <2> HIDE DEF m
  <2> QED
    BY <1>6, <1>7, <1>8, <1>9, <1>10, <1>11, <2>1
<1> QED
  BY <1>1, <1>3, <1>9, <1>12 DEF CountInv, Countable, StoredBounded

(* Every step keeps the invariant.                                         *)
LEMMA Step == CountInv /\ [Next]_vars => CountInv'
<1> SUFFICES ASSUME CountInv, [Next]_vars PROVE CountInv'
    OBVIOUS
<1>1. ASSUME NEW s \in Slots, Arrive(s) PROVE CountInv'
  <2>1. pc' = [pc EXCEPT ![s] = "count"] /\ zset' = zset
    BY <1>1 DEF Arrive, Goto
  <2> QED
    BY <2>1, Elsewhere
<1>2. ASSUME NEW s \in Slots, Count(s) PROVE CountInv'
  BY <1>2, CountStep
<1>3. ASSUME NEW s \in Slots, Refuse(s) PROVE CountInv'
  <2>1. pc' = [pc EXCEPT ![s] = "idle"] /\ zset' = zset
    BY <1>3 DEF Refuse, Done, Goto
  <2> QED
    BY <2>1, Elsewhere
<1>4. ASSUME NEW s \in Slots, Add(s) PROVE CountInv'
  BY <1>4, AddStep
<1>5. ASSUME NEW s \in Slots, Admit(s) PROVE CountInv'
  <2>1. pc' = [pc EXCEPT ![s] = "idle"] /\ zset' = zset
    BY <1>5 DEF Admit, Done, Goto
  <2> QED
    BY <2>1, Elsewhere
<1>6. ASSUME NEW s \in Slots, Throw(s) PROVE CountInv'
  <2>1. pc' = [pc EXCEPT ![s] = "idle"] /\ zset' = zset
    BY <1>6 DEF Throw, Done, Goto
  <2> QED
    BY <2>1, Elsewhere
<1>7. ASSUME Tick PROVE CountInv'
  <2>1. zset' \in SUBSET zset /\ pc' = pc
    BY <1>7 DEF Tick, Store
  <2>2. Adding' \in SUBSET Adding
    BY <2>1 DEF Adding, At
  <2> QED
    BY <2>1, <2>2, Shrinking DEF CountInv, Countable
<1>8. ASSUME UNCHANGED vars PROVE CountInv'
  BY <1>8 DEF vars, CountInv, Countable, StoredBounded, Adding, At
<1> QED
  BY <1>1, <1>2, <1>3, <1>4, <1>5, <1>6, <1>7, <1>8 DEF Next, RequestStep

(* The sorted set is within the limit and the requests in flight, with any *)
(* number of requests, any limit and any delays: counting and inserting    *)
(* apart (rateLimiter.service.ts:17-31) costs no more than that.           *)
THEOREM Stored == Spec => []StoredBounded
<1>1. Init => CountInv
  <2> SUFFICES ASSUME Init PROVE CountInv
      OBVIOUS
  <2>1. Adding = {} /\ zset = {}
    BY DEF Init, Adding, At
  <2>2. /\ IsFiniteSet(zset)
        /\ Cardinality(zset) = 0
        /\ Cardinality(Adding) = 0
    BY <2>1, FS_EmptySet
  <2>3. Cardinality(Slots) \in Nat /\ Limit \in Nat \ {0}
    BY SlotAssumption, FS_CardinalityType, BoundAssumption
  <2>4. StoredBounded
    BY <2>2, <2>3 DEF StoredBounded
  <2>5. pc \in [Slots -> {"idle", "count", "oldest", "add", "expire"}]
    BY DEF Init
  <2> QED
    BY <2>2, <2>4, <2>5 DEF CountInv, Countable
<1>2. CountInv => StoredBounded
  BY DEF CountInv
<1> QED
  BY <1>1, <1>2, Step, PTL DEF Spec

-----------------------------------------------------------------------------
(* Types.  A member's random name is new because there are always more     *)
(* names than members: a finite set does not hold all the numbers up to    *)
(* its size and one more.                                                  *)
TInv == TypeOK /\ IsFiniteSet(admitted)

(* One of the first n + 1 numbers is not in a set of n.                    *)
LEMMA NewNumber ==
  ASSUME NEW S, IsFiniteSet(S)
  PROVE  \E i \in 1 .. Cardinality(S) + 1 : i \notin S
<1> DEFINE n == Cardinality(S)
<1>1. n \in Nat
  BY FS_CardinalityType
<1> SUFFICES ASSUME 1 .. n + 1 \subseteq S PROVE FALSE
    OBVIOUS
<1>2. Cardinality(1 .. n + 1) <= n
  BY FS_Subset
<1>3. Cardinality(1 .. n + 1) = n + 1
  <2> HIDE DEF n
  <2>1. 1 \in Int /\ n + 1 \in Int /\ ~(1 > n + 1)
    BY <1>1
  <2>2. Cardinality(1 .. n + 1) = (n + 1) - 1 + 1
    BY <2>1, FS_Interval
  <2> QED BY <1>1, <2>2
<1> HIDE DEF n
<1> QED BY <1>1, <1>2, <1>3

(* The members of a finite set have finitely many names.                   *)
LEMMA FiniteNames ==
  ASSUME NEW S, IsFiniteSet(S)
  PROVE  IsFiniteSet({m.id : m \in S})
<1> DEFINE T == {m.id : m \in S}
<1> DEFINE f == [m \in S |-> m.id]
<1>1. f \in Surjection(S, T)
  BY DEF Surjection
<1> HIDE DEF T, f
<1>2. IsFiniteSet(T)
  BY <1>1, FS_Surjection
<1> QED BY <1>2 DEF T

LEMMA FiniteSlotNames ==
  IsFiniteSet({member[s].id : s \in Slots})
<1> DEFINE T == {member[s].id : s \in Slots}
<1> DEFINE f == [s \in Slots |-> member[s].id]
<1>1. f \in Surjection(Slots, T)
  BY DEF Surjection
<1> HIDE DEF T, f
<1>2. IsFiniteSet(T)
  BY <1>1, SlotAssumption, FS_Surjection
<1> QED BY <1>2 DEF T

(* ZADD's member is a member.                                              *)
LEMMA NewMemberType ==
  ASSUME TInv, NEW t \in 0 .. MaxTime
  PROVE  NewMember(t) \in Members
<1> DEFINE same == {n \in zset \cup admitted : n.score = t}
<1> DEFINE taken == {m.id : m \in same} \cup {member[s].id : s \in Slots}
<1>1. IsFiniteSet(zset \cup admitted)
  BY FS_Union DEF TInv, TypeOK
<1>2. IsFiniteSet(same)
  BY <1>1, FS_Subset
<1>3. IsFiniteSet(taken)
  <2>1. IsFiniteSet({m.id : m \in same})
    <3> HIDE DEF same
    <3> QED BY <1>2, FiniteNames
  <2> QED BY <2>1, FiniteSlotNames, FS_Union
<1>4. Cardinality(taken) \in Nat
  BY <1>3, FS_CardinalityType
<1> DEFINE new == CHOOSE i \in 1 .. Cardinality(taken) + 1 : i \notin taken
<1>5. NewMember(t) = [score |-> t, id |-> new]
  BY DEF NewMember
<1>6. new \in 1 .. Cardinality(taken) + 1
  <2> HIDE DEF taken
  <2> QED BY <1>3, NewNumber
<1> HIDE DEF taken, new
<1>7. new \in Nat \ {0}
  BY <1>4, <1>6
<1> QED BY <1>5, <1>7 DEF Members

(* The request is over.                                                    *)
LEMMA DoneTypes ==
  ASSUME TInv, NEW s \in Slots, Done(s)
  PROVE  /\ pc' \in [Slots -> {"idle", "count", "oldest", "add", "expire"}]
         /\ now' \in [Slots -> 0 .. MaxTime]
         /\ member' \in [Slots -> Members \cup {NoMember}]
         /\ \A r \in Slots : pc'[r] = "expire" => member'[r] \in Members
<1>1. 0 \in 0 .. MaxTime
  BY BoundAssumption
<1>2. /\ pc \in [Slots -> {"idle", "count", "oldest", "add", "expire"}]
      /\ now \in [Slots -> 0 .. MaxTime]
      /\ member \in [Slots -> Members \cup {NoMember}]
      /\ \A r \in Slots : pc[r] = "expire" => member[r] \in Members
  BY DEF TInv, TypeOK
<1> QED BY <1>1, <1>2 DEF Done, Goto

(* What Redis keeps after a command that stores a part of the set.         *)
LEMMA StoreTypes ==
  ASSUME TInv, NEW S, S \subseteq zset, Store(S)
  PROVE  /\ zset' \subseteq Members /\ IsFiniteSet(zset')
         /\ expiry' \in Nat
<1>1. zset' = S /\ expiry' \in {Never, expiry}
  BY DEF Store
<1>2. IsFiniteSet(S) /\ S \subseteq Members
  BY FS_Subset DEF TInv, TypeOK
<1>3. Never \in Nat /\ expiry \in Nat
  BY BoundAssumption DEF Never, TInv, TypeOK
<1> QED BY <1>1, <1>2, <1>3

(* Every step keeps the types.                                             *)
LEMMA TypeStep == TInv /\ [Next]_vars => TInv'
<1> SUFFICES ASSUME TInv, [Next]_vars PROVE TInv'
    OBVIOUS
<1>0. /\ clock \in 0 .. MaxTime
      /\ zset \subseteq Members /\ IsFiniteSet(zset)
      /\ expiry \in Nat
      /\ pc \in [Slots -> {"idle", "count", "oldest", "add", "expire"}]
      /\ now \in [Slots -> 0 .. MaxTime]
      /\ member \in [Slots -> Members \cup {NoMember}]
      /\ \A s \in Slots : pc[s] = "expire" => member[s] \in Members
      /\ hint \in [Slots -> Nat]
      /\ admitted \subseteq Members /\ IsFiniteSet(admitted)
  BY DEF TInv, TypeOK
<1>1. ASSUME NEW s \in Slots, Arrive(s) PROVE TInv'
  <2>1. pc' = [pc EXCEPT ![s] = "count"] /\ now' = [now EXCEPT ![s] = clock]
        /\ hint' = [hint EXCEPT ![s] = 0]
    BY <1>1 DEF Arrive, Goto
  <2>2. pc' \in [Slots -> {"idle", "count", "oldest", "add", "expire"}]
        /\ now' \in [Slots -> 0 .. MaxTime] /\ hint' \in [Slots -> Nat]
    BY <1>0, <2>1
  <2>3. \A r \in Slots : pc'[r] = "expire" => pc[r] = "expire"
    BY <1>0, <2>1
  <2> QED BY <1>0, <1>1, <2>2, <2>3 DEF Arrive, TInv, TypeOK
<1>2. ASSUME NEW s \in Slots, Count(s) PROVE TInv'
  <2>1. Store(Live(zset, now[s])) /\ Live(zset, now[s]) \subseteq zset
    BY <1>2 DEF Count, Live
  <2>2. /\ zset' \subseteq Members /\ IsFiniteSet(zset')
        /\ expiry' \in Nat
    BY <2>1, StoreTypes
  <2>3. PICK step \in {"oldest", "add"} : pc' = [pc EXCEPT ![s] = step]
    BY <1>2 DEF Count, Goto
  <2>4. /\ pc' \in [Slots -> {"idle", "count", "oldest", "add", "expire"}]
        /\ \A r \in Slots : pc'[r] = "expire" => pc[r] = "expire"
    BY <1>0, <2>3
  <2> QED BY <1>0, <1>2, <2>2, <2>4 DEF Count, TInv, TypeOK
<1>3. ASSUME NEW s \in Slots, Refuse(s) PROVE TInv'
  <2>1. hint' \in [Slots -> Nat]
    <3>1. \A m \in zset : Positive(m.score + Window - now[s]) \in Nat
      <4> SUFFICES ASSUME NEW m \in zset
                   PROVE  Positive(m.score + Window - now[s]) \in Nat
          OBVIOUS
      <4>1. m.score \in Nat /\ Window \in Nat /\ now[s] \in Nat
        BY <1>0, BoundAssumption DEF Members
      <4> QED BY <4>1 DEF Positive
    <3>2. PICK h \in Nat : hint' = [hint EXCEPT ![s] = h]
      BY <1>3, <3>1 DEF Refuse
    <3> QED BY <1>0, <3>2
  <2>2. Done(s)
    BY <1>3 DEF Refuse
  <2> QED BY <1>0, <1>3, <2>1, <2>2, DoneTypes DEF Refuse, TInv, TypeOK
<1>4. ASSUME NEW s \in Slots, Add(s) PROVE TInv'
  <2>1. PICK m \in Members : /\ zset' = zset \cup {m}
                             /\ member' = [member EXCEPT ![s] = m]
                             /\ expiry' = expiry
    <3>1. NewMember(now[s]) \in Members
      BY <1>0, NewMemberType
    <3> QED BY <1>4, <3>1 DEF Add, Store
  <2>2. pc' = [pc EXCEPT ![s] = "expire"]
    BY <1>4 DEF Add, Goto
  <2>3. zset' \subseteq Members /\ IsFiniteSet(zset')
    BY <1>0, <2>1, FS_AddElement
  <2>4. /\ pc' \in [Slots -> {"idle", "count", "oldest", "add", "expire"}]
        /\ member' \in [Slots -> Members \cup {NoMember}]
        /\ \A r \in Slots : pc'[r] = "expire" => member'[r] \in Members
    BY <1>0, <2>1, <2>2
  <2> QED BY <1>0, <1>4, <2>1, <2>3, <2>4 DEF Add, TInv, TypeOK
<1>5. ASSUME NEW s \in Slots, Admit(s) \/ Throw(s) PROVE TInv'
  <2>1. Done(s) /\ UNCHANGED <<clock, zset, hint>>
    BY <1>5 DEF Admit, Throw
  <2>2. expiry' \in Nat
    <3>1. clock + Window + Margin \in Nat
      BY <1>0, BoundAssumption
    <3>2. expiry' \in {expiry, clock + Window + Margin}
      BY <1>5 DEF Admit, Throw, Prolong
    <3> QED BY <1>0, <3>1, <3>2
  <2>3. admitted' \subseteq Members /\ IsFiniteSet(admitted')
    <3>1. CASE Admit(s)
      <4>1. member[s] \in Members /\ admitted' = admitted \cup {member[s]}
        BY <1>0, <3>1 DEF Admit, At
      <4> QED BY <1>0, <4>1, FS_AddElement
    <3>2. CASE Throw(s)
      BY <1>0, <3>2 DEF Throw
    <3> QED BY <1>5, <3>1, <3>2
  <2> QED BY <1>0, <2>1, <2>2, <2>3, DoneTypes DEF TInv, TypeOK
<1>6. ASSUME Tick PROVE TInv'
  <2>1. clock' \in 0 .. MaxTime
    BY <1>0, <1>6, BoundAssumption DEF Tick
  <2>2. PICK S \in SUBSET zset : Store(S)
    BY <1>6 DEF Tick
  <2>3. /\ zset' \subseteq Members /\ IsFiniteSet(zset')
        /\ expiry' \in Nat
    BY <2>2, StoreTypes
  <2>4. admitted' \in SUBSET admitted
    BY <1>6 DEF Tick
  <2>5. admitted' \subseteq Members /\ IsFiniteSet(admitted')
    BY <1>0, <2>4, FS_Subset
  <2> QED BY <1>0, <1>6, <2>1, <2>3, <2>5 DEF Tick, TInv, TypeOK
<1>7. ASSUME UNCHANGED vars PROVE TInv'
  BY <1>7 DEF vars, TInv, TypeOK
<1> QED
  BY <1>1, <1>2, <1>3, <1>4, <1>5, <1>6, <1>7 DEF Next, RequestStep

(* The types hold initially.                                               *)
LEMMA TypesInitially == Init => TInv
<1> SUFFICES ASSUME Init PROVE TInv
    OBVIOUS
<1>1. 0 \in 0 .. MaxTime /\ Never \in Nat
  BY BoundAssumption DEF Never
<1>2. IsFiniteSet({})
  BY FS_EmptySet
<1> QED BY <1>1, <1>2 DEF Init, TInv, TypeOK

(* Every variable keeps its type: in particular no retryAfterMs is ever    *)
(* negative, and there is always a new name for ZADD's member.            *)
THEOREM TypeCorrect == Spec => []TypeOK
<1>1. TInv => TypeOK
  BY DEF TInv
<1> QED BY <1>1, TypesInitially, TypeStep, PTL DEF Spec
-----------------------------------------------------------------------------
(* What HintSuffices says of one step.                                     *)
HintStep ==
  \A s \in Slots :
    Refuse(s) /\ Cardinality(zset) <= Limit =>
      Cardinality(Live(zset, now[s] + hint'[s])) < Limit

(* Once the oldest member is as old as the window, it is no longer         *)
(* counted, and the others are fewer than the limit.                       *)
LEMMA OldestLeaves ==
  ASSUME TInv, Cardinality(zset) <= Limit,
         NEW m \in zset, NEW t \in Nat, m.score + Window <= t
  PROVE  Cardinality(Live(zset, t)) < Limit
<1> DEFINE others == zset \ {m}
<1>1. /\ IsFiniteSet(others)
      /\ Cardinality(others) = Cardinality(zset) - 1
  BY FS_RemoveElement DEF TInv, TypeOK
<1>2. m.score \in Nat /\ Window \in Nat
  BY BoundAssumption DEF TInv, TypeOK, Members
<1>3. ~(m.score > t - Window)
  BY <1>2
<1>4. Live(zset, t) \in SUBSET others
  BY <1>3 DEF Live
<1>5. /\ Cardinality(Live(zset, t)) <= Cardinality(others)
      /\ IsFiniteSet(Live(zset, t))
  BY <1>1, <1>4, FS_Subset
<1>6. /\ Cardinality(zset) \in Nat
      /\ Cardinality(Live(zset, t)) \in Nat
      /\ Limit \in Nat
  BY <1>5, FS_CardinalityType, BoundAssumption DEF TInv, TypeOK
<1> QED BY <1>1, <1>5, <1>6

(* Every step satisfies HintStep.                                          *)
LEMMA HintStepNext == TInv => HintStep
<1> SUFFICES ASSUME TInv, NEW s \in Slots, Refuse(s),
                    Cardinality(zset) <= Limit
             PROVE  Cardinality(Live(zset, now[s] + hint'[s])) < Limit
    BY DEF HintStep
<1>1. hint \in [Slots -> Nat] /\ now[s] \in Nat
  BY BoundAssumption DEF TInv, TypeOK
<1>2. CASE zset = {}
  <2>1. Live(zset, now[s] + hint'[s]) = {}
    BY <1>2 DEF Live
  <2>2. 0 < Limit
    BY BoundAssumption
  <2> QED BY <2>1, <2>2, FS_EmptySet
<1>3. CASE \E m \in zset :
             hint' = [hint EXCEPT ![s] = Positive(m.score + Window - now[s])]
  <2>1. PICK m \in zset :
          hint' = [hint EXCEPT ![s] = Positive(m.score + Window - now[s])]
    BY <1>3
  <2>2. hint'[s] = Positive(m.score + Window - now[s])
    BY <1>1, <2>1
  <2>3. m.score \in Nat /\ Window \in Nat
    BY BoundAssumption DEF TInv, TypeOK, Members
  <2>4. hint'[s] \in Nat /\ m.score + Window <= now[s] + hint'[s]
    BY <1>1, <2>2, <2>3 DEF Positive
  <2>5. now[s] + hint'[s] \in Nat
    BY <1>1, <2>4
  <2> QED BY <2>4, <2>5, OldestLeaves
<1> QED BY <1>2, <1>3 DEF Refuse

(* retryAfterMs is honest: whoever waits that long finds room, unless      *)
(* others were let through meanwhile or the limit had been exceeded.       *)
THEOREM HintHonest == Spec => HintSuffices
<1>1. TInv /\ [Next]_vars => [HintStep]_vars
  BY HintStepNext
<1>2. Spec => []TInv
  BY TypesInitially, TypeStep, PTL DEF Spec
<1>3. Spec => [][HintStep]_vars
  BY <1>1, <1>2, PTL DEF Spec
<1> QED BY <1>3 DEF HintSuffices, HintStep
-----------------------------------------------------------------------------
(* What is let through in a stretch of time.  A request that goes on from  *)
(* its count has found every member of its stretch, or the member went     *)
(* with an expired key; and there are no more of those than slots.         *)

(* Numbers and records, taken from the types.                              *)
LEMMA Typed ==
  ASSUME TInv
  PROVE  /\ clock \in Nat /\ expiry \in Nat
         /\ Window \in Nat /\ Margin \in Nat /\ MaxDelay \in Nat
         /\ MaxDelay < Window /\ MaxTime \in Nat /\ clock <= MaxTime
         /\ \A s \in Slots : now[s] \in Nat
         /\ \A m \in zset \cup admitted :
              m \in Members /\ m.score \in Nat /\ m.score <= MaxTime
         /\ \A m \in Members : m.score \in Nat /\ m.score <= MaxTime
         /\ pc \in [Slots -> {"idle", "count", "oldest", "add", "expire"}]
         /\ now \in [Slots -> 0 .. MaxTime]
         /\ member \in [Slots -> Members \cup {NoMember}]
         /\ \A s \in Slots : pc[s] = "expire" => member[s] \in Members
<1>1. \A m \in Members : m.score \in Nat /\ m.score <= MaxTime
  BY BoundAssumption DEF Members
<1> QED BY <1>1, BoundAssumption DEF TInv, TypeOK

(* What the answer of a request leaves behind.                             *)
LEMMA DoneFacts ==
  ASSUME TInv, NEW s \in Slots, Done(s)
  PROVE  /\ pc'[s] = "idle"
         /\ \A r \in Slots \ {s} :
              pc'[r] = pc[r] /\ now'[r] = now[r] /\ member'[r] = member[r]
BY Typed DEF Done, Goto

(* A member's name is chosen, its score is given.                          *)
LEMMA NewScore == \A t : NewMember(t).score = t
BY DEF NewMember

(* Every step keeps InTime.                                                *)
LEMMA InTimeStep ==
  ASSUME TInv, TInv', InTime, [Next]_vars
  PROVE  InTime'
<1>0. /\ \A s \in Slots :
           pc[s] # "idle" => now[s] <= clock /\ clock <= now[s] + MaxDelay
      /\ \A s \in Slots : pc[s] = "expire" => member[s].score = now[s]
  BY DEF InTime, At
<1> SUFFICES ASSUME NEW r \in Slots
             PROVE  /\ pc'[r] # "idle" =>
                         now'[r] <= clock' /\ clock' <= now'[r] + MaxDelay
                    /\ pc'[r] = "expire" => member'[r].score = now'[r]
    BY DEF InTime, At
<1>1. ASSUME NEW s \in Slots, Arrive(s)
      PROVE  /\ pc'[r] # "idle" =>
                  now'[r] <= clock' /\ clock' <= now'[r] + MaxDelay
             /\ pc'[r] = "expire" => member'[r].score = now'[r]
  <2>1. CASE r = s
    <3>1. pc'[r] = "count" /\ now'[r] = clock /\ clock' = clock
      BY <1>1, <2>1, Typed DEF Arrive, Goto
    <3> QED BY <3>1, Typed
  <2>2. CASE r # s
    BY <1>0, <1>1, <2>2, Typed DEF Arrive, Goto
  <2> QED BY <2>1, <2>2
<1>2. ASSUME NEW s \in Slots, Count(s)
      PROVE  /\ pc'[r] # "idle" =>
                  now'[r] <= clock' /\ clock' <= now'[r] + MaxDelay
             /\ pc'[r] = "expire" => member'[r].score = now'[r]
  <2>1. PICK step \in {"oldest", "add"} : pc' = [pc EXCEPT ![s] = step]
    BY <1>2 DEF Count, Goto
  <2>2. pc[s] # "idle" /\ UNCHANGED <<clock, now, member>>
    BY <1>2 DEF Count, At
  <2> QED BY <1>0, <2>1, <2>2, Typed
<1>3. ASSUME NEW s \in Slots, Add(s)
      PROVE  /\ pc'[r] # "idle" =>
                  now'[r] <= clock' /\ clock' <= now'[r] + MaxDelay
             /\ pc'[r] = "expire" => member'[r].score = now'[r]
  <2>1. /\ pc' = [pc EXCEPT ![s] = "expire"] /\ pc[s] = "add"
        /\ member' = [member EXCEPT ![s] = NewMember(now[s])]
        /\ UNCHANGED <<clock, now>>
    BY <1>3 DEF Add, Goto, At
  <2> QED BY <1>0, <2>1, Typed, NewScore
<1>4. ASSUME NEW s \in Slots, Done(s), clock' = clock
      PROVE  /\ pc'[r] # "idle" =>
                  now'[r] <= clock' /\ clock' <= now'[r] + MaxDelay
             /\ pc'[r] = "expire" => member'[r].score = now'[r]
  <2>1. CASE r = s
    BY <1>4, <2>1, DoneFacts
  <2>2. CASE r # s
    BY <1>0, <1>4, <2>2, DoneFacts
  <2> QED BY <2>1, <2>2
<1>5. ASSUME Tick
      PROVE  /\ pc'[r] # "idle" =>
                  now'[r] <= clock' /\ clock' <= now'[r] + MaxDelay
             /\ pc'[r] = "expire" => member'[r].score = now'[r]
  <2>1. /\ clock' = clock + 1 /\ UNCHANGED <<pc, now, member>>
        /\ pc[r] = "idle" \/ clock - now[r] < MaxDelay
    BY <1>5 DEF Tick, At
  <2> QED BY <1>0, <2>1, Typed
<1>6. ASSUME UNCHANGED vars
      PROVE  /\ pc'[r] # "idle" =>
                  now'[r] <= clock' /\ clock' <= now'[r] + MaxDelay
             /\ pc'[r] = "expire" => member'[r].score = now'[r]
  BY <1>0, <1>6 DEF vars
<1> QED
  BY <1>1, <1>2, <1>3, <1>4, <1>5, <1>6
     DEF Next, RequestStep, Refuse, Admit, Throw

(* PEXPIRE reaches beyond the window of whatever is let through.           *)
LEMMA ProlongReaches ==
  ASSUME TInv, ExpiresLate, Prolong
  PROVE  /\ zset = {} => expiry' = Never
         /\ \A n \in Nat : n <= clock => n + Window <= expiry'
<1>1. CASE zset = {}
  <2>1. expiry' = MaxTime + Window + Margin + 1
    BY <1>1 DEF Prolong, ExpiresLate, Never
  <2> QED BY <1>1, <2>1, Typed DEF Never
<1>2. CASE zset # {}
  <2>1. expiry' = clock + Window + Margin
    BY <1>2 DEF Prolong
  <2> QED BY <1>2, <2>1, Typed
<1> QED BY <1>1, <1>2

(* Every step keeps ExpiresLate.                                           *)
LEMMA ExpiresLateStep ==
  ASSUME TInv, TInv', InTime, ExpiresLate, [Next]_vars
  PROVE  ExpiresLate'
<1>0. /\ zset = {} => expiry = Never
      /\ \A m \in admitted : m.score <= clock /\ m.score + Window <= expiry
  BY DEF ExpiresLate
<1>1. ASSUME NEW S, Store(S), admitted' \subseteq admitted, clock <= clock'
      PROVE  ExpiresLate'
  <2>1. zset' = S /\ expiry' = IF S = {} THEN Never ELSE expiry
    BY <1>1 DEF Store
  <2>2. ASSUME NEW m \in admitted'
        PROVE  m.score <= clock' /\ m.score + Window <= expiry'
    <3>1. /\ m.score \in Nat /\ m.score <= MaxTime
          /\ m.score <= clock /\ m.score + Window <= expiry
      BY <1>0, <1>1, <2>2, Typed
    <3>2. clock' \in Nat
      BY DEF TInv, TypeOK
    <3> QED BY <1>1, <2>1, <3>1, <3>2, Typed DEF Never
  <2>3. zset' = {} => expiry' = Never'
    BY <2>1 DEF Never
  <2> QED BY <2>2, <2>3 DEF ExpiresLate
<1>2. ASSUME UNCHANGED <<clock, zset, expiry, admitted>> PROVE ExpiresLate'
  BY <1>0, <1>2 DEF ExpiresLate, Never
<1>3. ASSUME Prolong, UNCHANGED <<clock, zset>>,
             \A m \in admitted' : m.score \in Nat /\ m.score <= clock
      PROVE  ExpiresLate'
  BY <1>3, ProlongReaches DEF ExpiresLate, Never
<1>4. ASSUME NEW s \in Slots, Count(s) PROVE ExpiresLate'
  BY <1>1, <1>4, Typed DEF Count
<1>5. ASSUME NEW s \in Slots, Add(s) PROVE ExpiresLate'
  BY <1>1, <1>5, Typed DEF Add
<1>6. ASSUME NEW s \in Slots, Admit(s) PROVE ExpiresLate'
  <2>1. /\ Prolong /\ UNCHANGED <<clock, zset>> /\ pc[s] = "expire"
        /\ admitted' = admitted \cup {member[s]}
    BY <1>6 DEF Admit, At
  <2>2. /\ member[s].score = now[s] /\ now[s] <= clock
        /\ member[s] \in Members
    BY <2>1, Typed DEF InTime, At
  <2>3. \A m \in admitted' : m.score \in Nat /\ m.score <= clock
    BY <1>0, <2>1, <2>2, Typed
  <2> QED BY <1>3, <2>1, <2>3
<1>7. ASSUME NEW s \in Slots, Throw(s) PROVE ExpiresLate'
  <2>1. \A m \in admitted' : m.score \in Nat /\ m.score <= clock
    BY <1>0, <1>7, Typed DEF Throw
  <2> QED BY <1>2, <1>3, <1>7, <2>1 DEF Throw
<1>8. ASSUME Tick PROVE ExpiresLate'
  <2>1. PICK S : Store(S)
    BY <1>8 DEF Tick
  <2>2. admitted' \subseteq admitted /\ clock <= clock'
    BY <1>8, Typed DEF Tick
  <2> QED BY <1>1, <2>1, <2>2
<1> QED
  BY <1>2, <1>4, <1>5, <1>6, <1>7, <1>8
     DEF Next, RequestStep, Arrive, Refuse, vars

(* The members in the hands of requests past their insertion are finitely  *)
(* many, and no more than slots.                                           *)
InHand == {member[s] : s \in {r \in Slots : At(r, "expire")}}

LEMMA InHandBounded ==
  /\ IsFiniteSet(InHand)
  /\ Cardinality(InHand) \in Nat
  /\ Cardinality(Slots) \in Nat
  /\ Cardinality(InHand) <= Cardinality(Slots)
<1> DEFINE S == {r \in Slots : At(r, "expire")}
<1> DEFINE f == [s \in S |-> member[s]]
<1>1. IsFiniteSet(S) /\ Cardinality(S) <= Cardinality(Slots)
  BY SlotAssumption, FS_Subset
<1>2. f \in Surjection(S, InHand)
  BY DEF Surjection, InHand
<1> HIDE DEF S, f
<1>3. IsFiniteSet(InHand) /\ Cardinality(InHand) <= Cardinality(S)
  BY <1>1, <1>2, FS_Surjection
<1>4. /\ Cardinality(S) \in Nat
      /\ Cardinality(InHand) \in Nat
      /\ Cardinality(Slots) \in Nat
  BY <1>1, <1>3, SlotAssumption, FS_CardinalityType
<1> QED BY <1>1, <1>3, <1>4

LEMMA PassedTypes ==
  ASSUME TInv
  PROVE  /\ IsFiniteSet(Passed) /\ Passed \subseteq Members
         /\ Passed = admitted \cup InHand
         /\ \A m \in Passed : m.score \in Nat
<1>1. Passed = admitted \cup InHand
  BY DEF Passed, InHand
<1>2. IsFiniteSet(Passed)
  BY <1>1, InHandBounded, FS_Union DEF TInv
<1>3. Passed \subseteq Members
  BY Typed DEF Passed, At, TInv, TypeOK
<1> QED BY <1>1, <1>2, <1>3, Typed

LEMMA SlackType == Slack \in Nat /\ Slack <= Cardinality(Slots)
BY SlotAssumption, FS_CardinalityType DEF Slack

(* Only an insertion brings a member to the passed ones.                   *)
LEMMA PassedShrinks ==
  ASSUME TInv, [Next]_vars, ~ \E s \in Slots : Add(s)
  PROVE  Passed' \subseteq Passed
<1>0. Passed' = admitted' \cup {member'[r] : r \in {q \in Slots : pc'[q] = "expire"}}
  BY DEF Passed, At
<1>a. /\ \A r \in Slots : pc[r] = "expire" => member[r] \in Passed
      /\ admitted \subseteq Passed
  BY DEF Passed, At
<1> SUFFICES /\ admitted' \subseteq Passed
             /\ \A r \in Slots : pc'[r] = "expire" => member'[r] \in Passed
    BY <1>0
<1>1. ASSUME NEW s \in Slots, NEW step \in {"count", "oldest", "add"},
             pc' = [pc EXCEPT ![s] = step], UNCHANGED <<member, admitted>>
      PROVE  /\ admitted' \subseteq Passed
             /\ \A r \in Slots : pc'[r] = "expire" => member'[r] \in Passed
  BY <1>a, <1>1, Typed
<1>2. ASSUME NEW s \in Slots, Done(s), admitted' \subseteq Passed
      PROVE  /\ admitted' \subseteq Passed
             /\ \A r \in Slots : pc'[r] = "expire" => member'[r] \in Passed
  <2> SUFFICES ASSUME NEW r \in Slots, pc'[r] = "expire"
               PROVE  member'[r] \in Passed
      BY <1>2
  <2>1. r # s /\ pc[r] = "expire" /\ member'[r] = member[r]
    BY <1>2, DoneFacts
  <2> QED BY <1>a, <2>1
<1>3. ASSUME NEW s \in Slots, Admit(s)
      PROVE  /\ admitted' \subseteq Passed
             /\ \A r \in Slots : pc'[r] = "expire" => member'[r] \in Passed
  <2>1. admitted' \subseteq Passed /\ Done(s)
    BY <1>a, <1>3 DEF Admit, At
  <2> QED BY <1>2, <2>1
<1>4. ASSUME NEW s \in Slots, Throw(s) \/ Refuse(s)
      PROVE  /\ admitted' \subseteq Passed
             /\ \A r \in Slots : pc'[r] = "expire" => member'[r] \in Passed
  <2>1. admitted' \subseteq Passed /\ Done(s)
    BY <1>a, <1>4 DEF Throw, Refuse
  <2> QED BY <1>2, <2>1
<1>5. ASSUME NEW s \in Slots, Arrive(s) \/ Count(s)
      PROVE  /\ admitted' \subseteq Passed
             /\ \A r \in Slots : pc'[r] = "expire" => member'[r] \in Passed
  <2>1. /\ UNCHANGED <<member, admitted>>
        /\ \E step \in {"count", "oldest", "add"} : pc' = [pc EXCEPT ![s] = step]
    BY <1>5 DEF Arrive, Count, Goto
  <2> QED BY <1>1, <2>1
<1>6. ASSUME Tick
      PROVE  /\ admitted' \subseteq Passed
             /\ \A r \in Slots : pc'[r] = "expire" => member'[r] \in Passed
  <2>1. admitted' \subseteq admitted /\ UNCHANGED <<pc, member>>
    BY <1>6 DEF Tick
  <2> QED BY <1>a, <2>1
<1>7. ASSUME UNCHANGED vars
      PROVE  /\ admitted' \subseteq Passed
             /\ \A r \in Slots : pc'[r] = "expire" => member'[r] \in Passed
  BY <1>a, <1>7 DEF vars
<1> QED BY <1>3, <1>4, <1>5, <1>6, <1>7 DEF Next, RequestStep

(* What an insertion does.                                                 *)
LEMMA AddFacts ==
  ASSUME TInv, NEW s \in Slots, Add(s)
  PROVE  /\ pc[s] = "add" /\ pc' = [pc EXCEPT ![s] = "expire"]
         /\ zset' = zset \cup {NewMember(now[s])}
         /\ Passed' \subseteq Passed \cup {NewMember(now[s])}
         /\ UNCHANGED <<clock, now>>
<1>1. /\ pc[s] = "add" /\ pc' = [pc EXCEPT ![s] = "expire"]
      /\ zset' = zset \cup {NewMember(now[s])}
      /\ member' = [member EXCEPT ![s] = NewMember(now[s])]
      /\ UNCHANGED <<clock, now, admitted>>
  BY DEF Add, At, Goto, Store
<1>2. \A r \in Slots : pc'[r] = "expire" =>
        \/ member'[r] = NewMember(now[s])
        \/ pc[r] = "expire" /\ member'[r] = member[r]
  BY <1>1, Typed
<1>3. Passed' = admitted' \cup {member'[r] : r \in {q \in Slots : pc'[q] = "expire"}}
  BY DEF Passed, At
<1>4. Passed' \subseteq Passed \cup {NewMember(now[s])}
  BY <1>1, <1>2, <1>3 DEF Passed, At
<1> QED BY <1>1, <1>4

(* A part of a set that is within a bound is, too.                         *)
LEMMA PartBounded ==
  ASSUME NEW S, IsFiniteSet(S), NEW T \in SUBSET S, NEW n \in Nat,
         Cardinality(S) <= n
  PROVE  Cardinality(T) <= n
<1>1. IsFiniteSet(T) /\ Cardinality(T) <= Cardinality(S)
  BY FS_Subset
<1>2. Cardinality(S) \in Nat /\ Cardinality(T) \in Nat
  BY <1>1, FS_CardinalityType
<1> QED BY <1>1, <1>2

(* What was lost as long as the key is there.                              *)
LEMMA LostShrinks ==
  ASSUME TInv, LostFew, Lost' \subseteq Lost
  PROVE  LostFew'
<1>1. IsFiniteSet(Lost)
  BY PassedTypes, FS_Subset DEF Lost
<1>2. Cardinality(Lost') <= Slack
  BY <1>1, SlackType, PartBounded DEF LostFew
<1> QED BY <1>2 DEF LostFew, Slack

(* Every step keeps LostFew: members are trimmed when they have left the   *)
(* window, and when a key expires only those in hand are lost that have    *)
(* not.                                                                    *)
LEMMA LostFewStep ==
  ASSUME TInv, TInv', InTime, ExpiresLate, LostFew, [Next]_vars
  PROVE  LostFew'
<1>a. Passed' \subseteq Members /\ clock' \in Nat
  BY DEF Passed, At, TInv, TypeOK
<1>0. /\ Passed' \subseteq Members /\ clock' \in Nat
      /\ Lost' = {m \in Passed' \ zset' : m.score > clock' - Window}
      /\ Lost = {m \in Passed \ zset : m.score > clock - Window}
      /\ \A m \in Members : m.score \in Nat
  BY <1>a, Typed DEF Lost
<1>1. ASSUME NEW s \in Slots, Add(s) PROVE LostFew'
  <2>1. /\ zset' = zset \cup {NewMember(now[s])}
        /\ Passed' \subseteq Passed \cup {NewMember(now[s])}
        /\ clock' = clock
    BY <1>1, AddFacts
  <2>2. Lost' \subseteq Lost
    BY <1>0, <2>1
  <2> QED BY <2>2, LostShrinks
<1>2. ASSUME ~ \E s \in Slots : Add(s), clock <= clock',
             \A m \in zset \ zset' : ~(m.score > clock' - Window)
      PROVE  LostFew'
  <2>1. Passed' \subseteq Passed
    BY <1>2, PassedShrinks
  <2>2. Lost' \subseteq Lost
    <3> SUFFICES ASSUME NEW m \in Lost' PROVE m \in Lost
        OBVIOUS
    <3>1. m \in Passed' /\ m \notin zset' /\ m.score > clock' - Window
      BY <1>0
    <3>2. m \in Passed /\ m \notin zset
      BY <1>2, <2>1, <3>1
    <3>3. m.score > clock - Window
      BY <1>0, <1>2, <3>1, Typed
    <3> QED BY <1>0, <3>2, <3>3
  <2> QED BY <2>2, LostShrinks
<1>3. ASSUME Tick, clock' >= expiry, ~ \E s \in Slots : Add(s) PROVE LostFew'
  <2>1. \A m \in admitted' : ~(m.score > clock' - Window)
    <3> SUFFICES ASSUME NEW m \in admitted'
                 PROVE  ~(m.score > clock' - Window)
        OBVIOUS
    <3>1. m \in admitted
      BY <1>3 DEF Tick
    <3>2. m.score + Window <= expiry /\ m.score \in Nat
      BY <3>1, Typed DEF ExpiresLate
    <3> QED BY <1>0, <1>3, <3>2, Typed
  <2>2. Lost' \subseteq InHand'
    BY <1>0, <2>1 DEF Passed, InHand
  <2>3. InHand' = InHand
    BY <1>3 DEF Tick, InHand, At
  <2>4. CASE MaxDelay = 0
    <3>1. \A s \in Slots : pc[s] # "expire"
      BY <1>3, <2>4, Typed DEF Tick, At, InTime
    <3>2. InHand = {}
      BY <3>1 DEF InHand, At
    <3>3. Lost' = {}
      BY <2>2, <2>3, <3>2
    <3> QED BY <2>4, <3>3, FS_EmptySet DEF LostFew, Slack
  <2>5. CASE MaxDelay # 0
    <3>1. Cardinality(Lost') <= Cardinality(Slots)
      BY <2>2, <2>3, InHandBounded, PartBounded
    <3> QED BY <2>5, <3>1 DEF LostFew, Slack
  <2> QED BY <2>4, <2>5
<1>4. ASSUME NEW s \in Slots, Count(s), ~ \E r \in Slots : Add(r) PROVE LostFew'
  <2>1. zset' = Live(zset, now[s]) /\ pc[s] = "count" /\ clock' = clock
    BY <1>4 DEF Count, Store, At
  <2>2. now[s] <= clock
    BY <2>1 DEF InTime, At
  <2>3. \A m \in zset \ zset' : ~(m.score > clock' - Window)
    BY <2>1, <2>2, Typed DEF Live
  <2> QED BY <1>2, <1>4, <2>1, <2>3, Typed
<1>5. ASSUME Tick, ~(clock' >= expiry), ~ \E s \in Slots : Add(s) PROVE LostFew'
  <2>1. zset' = zset /\ clock <= clock'
    BY <1>5, Typed DEF Tick, Store
  <2> QED BY <1>2, <1>5, <2>1
<1>6. ASSUME UNCHANGED <<clock, zset>>, ~ \E s \in Slots : Add(s) PROVE LostFew'
  BY <1>2, <1>6, Typed
<1> QED
  BY <1>1, <1>3, <1>4, <1>5, <1>6
     DEF Next, RequestStep, Arrive, Refuse, Admit, Throw, vars

(* The two counts of PassedBounded.                                        *)
PassedIn(t) == {m \in Passed : Within(m.score, t)}

AddingIn(t) == {s \in Adding : Within(now[s], t)}

Bound == Limit - 1 + Cardinality(Slots) + Slack

LEMMA CountsFinite ==
  ASSUME TInv, NEW t \in 0 .. MaxTime
  PROVE  /\ IsFiniteSet(PassedIn(t)) /\ Cardinality(PassedIn(t)) \in Nat
         /\ IsFiniteSet(AddingIn(t)) /\ Cardinality(AddingIn(t)) \in Nat
         /\ Limit - 1 \in Nat /\ Cardinality(Slots) \in Nat /\ Slack \in Nat
<1>1. IsFiniteSet(PassedIn(t))
  BY PassedTypes, FS_Subset DEF PassedIn
<1>2. AddingIn(t) \subseteq Slots
  BY DEF AddingIn, Adding
<1>3. IsFiniteSet(AddingIn(t))
  BY <1>2, AddingBounded
<1>4. Limit - 1 \in Nat
  BY BoundAssumption
<1> QED
  BY <1>1, <1>3, <1>4, FS_CardinalityType, SlotAssumption, SlackType

(* A step that brings nobody to the insertion and inserts nothing.         *)
LEMMA CountsShrink ==
  ASSUME TInv, PassedBounded, Passed' \subseteq Passed,
         NEW t \in 0 .. MaxTime, AddingIn(t)' \subseteq AddingIn(t)
  PROVE  Cardinality(PassedIn(t)') + Cardinality(AddingIn(t)') <= Bound
<1>1. PassedIn(t)' \subseteq PassedIn(t)
  BY DEF PassedIn, Within
<1>2. /\ Cardinality(PassedIn(t)') <= Cardinality(PassedIn(t))
      /\ Cardinality(AddingIn(t)') <= Cardinality(AddingIn(t))
      /\ IsFiniteSet(PassedIn(t)') /\ IsFiniteSet(AddingIn(t)')
  BY <1>1, CountsFinite, FS_Subset
<1>3. /\ Cardinality(PassedIn(t)') \in Nat
      /\ Cardinality(AddingIn(t)') \in Nat
  BY <1>2, FS_CardinalityType
<1>4. Cardinality(PassedIn(t)) + Cardinality(AddingIn(t)) <= Bound
  BY DEF PassedBounded, PassedIn, AddingIn, Bound
<1>5. Bound \in Nat
  BY CountsFinite DEF Bound
<1> QED BY <1>2, <1>3, <1>4, <1>5, CountsFinite

(* An insertion moves one from the second count to the first.              *)
LEMMA CountsMove ==
  ASSUME TInv, PassedBounded, NEW s \in Slots, Add(s), NEW t \in 0 .. MaxTime
  PROVE  Cardinality(PassedIn(t)') + Cardinality(AddingIn(t)') <= Bound
<1> DEFINE m == NewMember(now[s])
<1>1. /\ pc[s] = "add" /\ pc' = [pc EXCEPT ![s] = "expire"]
      /\ Passed' \subseteq Passed \cup {m}
      /\ now' = now /\ m.score = now[s]
  BY AddFacts, NewScore
<1> HIDE DEF m
<1>2. Cardinality(PassedIn(t)) + Cardinality(AddingIn(t)) <= Bound
  BY DEF PassedBounded, PassedIn, AddingIn, Bound
<1>3. Bound \in Nat
  BY CountsFinite DEF Bound
<1>4. Adding' = Adding \ {s} /\ s \in Adding
  BY <1>1, Typed DEF Adding, At
<1>5. CASE Within(now[s], t)
  <2>1. s \in AddingIn(t) /\ AddingIn(t)' = AddingIn(t) \ {s}
    <3>1. AddingIn(t)' = {r \in Adding' : Within(now[r], t)}
      BY <1>1 DEF AddingIn, Within
    <3> QED BY <1>4, <1>5, <3>1 DEF AddingIn
  <2>2. Cardinality(AddingIn(t)') = Cardinality(AddingIn(t)) - 1
    BY <2>1, CountsFinite, FS_RemoveElement
  <2>3. PassedIn(t)' \subseteq PassedIn(t) \cup {m}
    BY <1>1 DEF PassedIn, Within
  <2>4. /\ IsFiniteSet(PassedIn(t) \cup {m})
        /\ Cardinality(PassedIn(t) \cup {m}) <= Cardinality(PassedIn(t)) + 1
    <3>1. IsFiniteSet(PassedIn(t)) /\ Cardinality(PassedIn(t)) \in Nat
      BY CountsFinite
    <3>2. /\ IsFiniteSet(PassedIn(t) \cup {m})
          /\ Cardinality(PassedIn(t) \cup {m}) =
               IF m \in PassedIn(t) THEN Cardinality(PassedIn(t))
                                    ELSE Cardinality(PassedIn(t)) + 1
      BY <3>1, FS_AddElement
    <3> QED BY <3>1, <3>2
  <2>5. Cardinality(PassedIn(t)') <= Cardinality(PassedIn(t)) + 1
    <3>1. Cardinality(PassedIn(t)) + 1 \in Nat
      BY CountsFinite
    <3>2. PassedIn(t)' \in SUBSET (PassedIn(t) \cup {m})
      BY <2>3
    <3> QED BY <2>4, <3>1, <3>2, PartBounded
  <2>6. Cardinality(PassedIn(t)') \in Nat
    BY <2>3, <2>4, FS_Subset, FS_CardinalityType
  <2> QED BY <1>2, <1>3, <2>2, <2>5, <2>6, CountsFinite
<1>6. CASE ~Within(now[s], t)
  <2>1. PassedIn(t)' \subseteq PassedIn(t)
    BY <1>1, <1>6 DEF PassedIn, Within
  <2>2. AddingIn(t)' \subseteq AddingIn(t)
    BY <1>1, <1>4 DEF AddingIn, Within
  <2>3. /\ Cardinality(PassedIn(t)') <= Cardinality(PassedIn(t))
        /\ Cardinality(AddingIn(t)') <= Cardinality(AddingIn(t))
        /\ IsFiniteSet(PassedIn(t)') /\ IsFiniteSet(AddingIn(t)')
    BY <2>1, <2>2, CountsFinite, FS_Subset
  <2>4. /\ Cardinality(PassedIn(t)') \in Nat
        /\ Cardinality(AddingIn(t)') \in Nat
    BY <2>3, FS_CardinalityType
  <2> QED BY <1>2, <1>3, <2>3, <2>4, CountsFinite
<1> QED BY <1>5, <1>6

(* A request that goes on from its count in a stretch has counted what is  *)
(* passed in the stretch, up to what was lost: nothing of the stretch has  *)
(* been trimmed, because whoever trims now began at most MaxDelay after    *)
(* its end.                                                                *)
LEMMA CountedOrLost ==
  ASSUME TInv, InTime, NEW s \in Slots, pc[s] = "count",
         NEW t \in 0 .. MaxTime, Within(now[s], t)
  PROVE  PassedIn(t) \subseteq Live(zset, now[s]) \cup Lost
<1> SUFFICES ASSUME NEW m \in Passed, Within(m.score, t)
             PROVE  m \in Live(zset, now[s]) \cup Lost
    BY DEF PassedIn
<1>1. /\ m.score \in Nat /\ now[s] \in Nat /\ t \in Int
      /\ m.score > t - (Window - MaxDelay) /\ now[s] <= t
  BY PassedTypes, Typed DEF Within
<1>2. clock <= now[s] + MaxDelay
  BY DEF InTime, At
<1>3. m.score > now[s] - Window /\ m.score > clock - Window
  BY <1>1, <1>2, Typed
<1> QED BY <1>3 DEF Live, Lost

(* Whoever goes on to the insertion has found room.                        *)
LEMMA CountsAtCount ==
  ASSUME TInv, InTime, LostFew, NEW s \in Slots, Count(s),
         Passed' \subseteq Passed,
         Cardinality(Live(zset, now[s])) < Limit,
         NEW t \in 0 .. MaxTime, Within(now[s], t)
  PROVE  Cardinality(PassedIn(t)') + Cardinality(AddingIn(t)') <= Bound
<1> DEFINE L == Live(zset, now[s])
<1>1. PassedIn(t) \subseteq L \cup Lost
  BY CountedOrLost DEF Count, At
<1>2. PassedIn(t)' \subseteq PassedIn(t)
  BY DEF PassedIn, Within
<1>3. IsFiniteSet(L) /\ IsFiniteSet(Lost)
  BY PassedTypes, FS_Subset DEF Lost, Live, TInv, TypeOK
<1>4. Cardinality(L) < Limit
  OBVIOUS
<1> HIDE DEF L
<1>5. /\ Cardinality(L) \in Nat /\ Cardinality(Lost) \in Nat
      /\ Cardinality(L) <= Limit - 1 /\ Limit - 1 \in Nat
  BY <1>3, <1>4, FS_CardinalityType, BoundAssumption
<1>6. /\ IsFiniteSet(L \cup Lost)
      /\ Cardinality(L \cup Lost) <= Cardinality(L) + Cardinality(Lost)
  <2>1. /\ IsFiniteSet(L \cup Lost)
        /\ Cardinality(L \cup Lost) =
             Cardinality(L) + Cardinality(Lost) - Cardinality(L \cap Lost)
    BY <1>3, FS_Union
  <2>2. Cardinality(L \cap Lost) \in Nat
    BY <1>3, FS_Intersection, FS_CardinalityType
  <2> QED BY <1>5, <2>1, <2>2
<1>7. Cardinality(L \cup Lost) <= Limit - 1 + Slack
  <2>1. Cardinality(L \cup Lost) \in Nat
    BY <1>6, FS_CardinalityType
  <2> QED BY <1>5, <1>6, <2>1, SlackType DEF LostFew
<1>8. Cardinality(PassedIn(t)') <= Limit - 1 + Slack
  BY <1>1, <1>2, <1>5, <1>6, <1>7, SlackType, PartBounded
<1>9. AddingIn(t)' \subseteq Slots
  BY DEF AddingIn, Adding
<1>10. /\ Cardinality(AddingIn(t)') <= Cardinality(Slots)
       /\ Cardinality(AddingIn(t)') \in Nat
  BY <1>9, AddingBounded
<1>11. Cardinality(PassedIn(t)') \in Nat
  <2>1. PassedIn(t)' \in SUBSET (L \cup Lost)
    BY <1>1, <1>2
  <2>2. IsFiniteSet(PassedIn(t)')
    BY <1>6, <2>1, FS_Subset
  <2> QED BY <2>2, FS_CardinalityType
<1> QED BY <1>5, <1>8, <1>10, <1>11, CountsFinite DEF Bound

(* Every step keeps PassedBounded.                                         *)
LEMMA PassedBoundedStep ==
  ASSUME TInv, TInv', InTime, ExpiresLate, LostFew, PassedBounded, [Next]_vars
  PROVE  PassedBounded'
<1> SUFFICES ASSUME NEW t \in 0 .. MaxTime
             PROVE  Cardinality(PassedIn(t)') + Cardinality(AddingIn(t)')
                      <= Bound
    BY DEF PassedBounded, PassedIn, AddingIn, Bound, Slack
<1>1. CASE \E s \in Slots : Add(s)
  BY <1>1, CountsMove
<1>2. CASE ~ \E s \in Slots : Add(s)
  <2>0. Passed' \subseteq Passed
    BY <1>2, PassedShrinks
  <2>1. ASSUME NEW s \in Slots, Count(s)
        PROVE  Cardinality(PassedIn(t)') + Cardinality(AddingIn(t)') <= Bound
    <3> DEFINE n == Cardinality(Live(zset, now[s]))
    <3>1. /\ pc[s] = "count" /\ now' = now
          /\ pc' = [pc EXCEPT ![s] = IF n >= Limit THEN "oldest" ELSE "add"]
      BY <2>1 DEF Count, Goto, At
    <3>2. n \in Nat /\ Limit \in Nat
      <4>1. IsFiniteSet(Live(zset, now[s]))
        BY FS_Subset DEF Live, TInv, TypeOK
      <4> QED BY <4>1, FS_CardinalityType, BoundAssumption
    <3>3. CASE n < Limit /\ Within(now[s], t)
      <4>1. Cardinality(Live(zset, now[s])) < Limit
        BY <3>3
      <4> QED BY <2>0, <2>1, <3>3, <4>1, CountsAtCount
    <3>4. CASE ~(n < Limit /\ Within(now[s], t))
      <4> HIDE DEF n
      <4>1. AddingIn(t)' \subseteq AddingIn(t)
        <5> SUFFICES ASSUME NEW r \in Slots, pc'[r] = "add", Within(now[r], t)
                     PROVE  pc[r] = "add"
            BY <3>1 DEF AddingIn, Adding, At, Within
        <5>1. CASE r = s
          BY <3>1, <3>2, <3>4, <5>1, Typed
        <5>2. CASE r # s
          BY <3>1, <5>2, Typed
        <5> QED BY <5>1, <5>2
      <4> QED BY <2>0, <4>1, CountsShrink
    <3> QED BY <3>3, <3>4
  <2>2. ASSUME \A r \in Slots :
                 pc'[r] = "add" => pc[r] = "add" /\ now'[r] = now[r]
        PROVE  Cardinality(PassedIn(t)') + Cardinality(AddingIn(t)') <= Bound
    <3>1. AddingIn(t)' \subseteq AddingIn(t)
      BY <2>2 DEF AddingIn, Adding, At, Within
    <3> QED BY <2>0, <3>1, CountsShrink
  <2>3. ASSUME NEW s \in Slots, Done(s)
        PROVE  \A r \in Slots :
                 pc'[r] = "add" => pc[r] = "add" /\ now'[r] = now[r]
    <3> SUFFICES ASSUME NEW r \in Slots, pc'[r] = "add"
                 PROVE  pc[r] = "add" /\ now'[r] = now[r]
        OBVIOUS
    <3>1. r # s
      BY <2>3, DoneFacts
    <3> QED BY <2>3, <3>1, DoneFacts
  <2>4. ASSUME NEW s \in Slots, Arrive(s)
        PROVE  \A r \in Slots :
                 pc'[r] = "add" => pc[r] = "add" /\ now'[r] = now[r]
    <3>1. /\ pc' = [pc EXCEPT ![s] = "count"]
          /\ now' = [now EXCEPT ![s] = clock]
      BY <2>4 DEF Arrive, Goto
    <3> QED BY <3>1, Typed
  <2>5. ASSUME UNCHANGED <<pc, now>>
        PROVE  \A r \in Slots :
                 pc'[r] = "add" => pc[r] = "add" /\ now'[r] = now[r]
    BY <2>5
  <2> QED
    BY <1>2, <2>1, <2>2, <2>3, <2>4, <2>5
       DEF Next, RequestStep, Refuse, Admit, Throw, Tick, vars
<1> QED BY <1>1, <1>2

(* IInv holds in every reachable state.                                    *)
THEOREM Invariance == Spec => []IInv
<1> DEFINE W == InTime /\ ExpiresLate /\ LostFew /\ PassedBounded
<1>1. Init => W
  <2> SUFFICES ASSUME Init PROVE W
      OBVIOUS
  <2>1. /\ \A s \in Slots : pc[s] = "idle"
        /\ zset = {} /\ admitted = {} /\ expiry = Never
    BY DEF Init
  <2>2. Passed = {} /\ Adding = {}
    BY <2>1 DEF Passed, Adding, At
  <2>3. InTime /\ ExpiresLate
    BY <2>1 DEF InTime, ExpiresLate, At
  <2>4. TInv
    BY TypesInitially
  <2>5. LostFew
    <3>1. Lost = {}
      BY <2>2 DEF Lost
    <3> QED BY <3>1, SlackType, FS_EmptySet DEF LostFew
  <2>6. PassedBounded
    <3> SUFFICES ASSUME NEW t \in 0 .. MaxTime
                 PROVE  Cardinality(PassedIn(t)) + Cardinality(AddingIn(t))
                          <= Limit - 1 + Cardinality(Slots) + Slack
        BY DEF PassedBounded, PassedIn, AddingIn
    <3>1. PassedIn(t) = {} /\ AddingIn(t) = {}
      BY <2>2 DEF PassedIn, AddingIn
    <3>2. Cardinality(PassedIn(t)) = 0 /\ Cardinality(AddingIn(t)) = 0
      BY <3>1, FS_EmptySet
    <3> QED BY <2>4, <3>2, CountsFinite
  <2> QED BY <2>3, <2>5, <2>6
<1>2. TInv /\ TInv' /\ W /\ [Next]_vars => W'
  BY InTimeStep, ExpiresLateStep, LostFewStep, PassedBoundedStep
<1>3. TInv /\ StoredBounded /\ W => IInv
  BY DEF IInv, TInv
<1> HIDE DEF W
<1>4. Spec => []TInv
  BY TypesInitially, TypeStep, PTL DEF Spec
<1>5. Spec => []W
  BY <1>1, <1>2, <1>4, PTL DEF Spec
<1> QED BY <1>3, <1>4, <1>5, Stored, PTL

(* What the limiter is for: the requests let through in any stretch of     *)
(* time, as long as the window less the longest delay, are within the      *)
(* limit and the requests in flight (twice those, when delays let a key    *)
(* expire under them): rateLimiter.service.ts:13-38.                       *)
THEOREM WindowHolds == Spec => []WindowBounded
<1>1. IInv => WindowBounded
  <2> SUFFICES ASSUME IInv, NEW t \in 0 .. MaxTime
               PROVE  Cardinality({m \in admitted : Within(m.score, t)})
                        <= Bound
      BY DEF WindowBounded, Bound
  <2>1. TInv
    BY DEF IInv, TInv
  <2>2. Cardinality(PassedIn(t)) + Cardinality(AddingIn(t)) <= Bound
    BY DEF IInv, PassedBounded, PassedIn, AddingIn, Bound
  <2>3. {m \in admitted : Within(m.score, t)} \subseteq PassedIn(t)
    BY DEF PassedIn, Passed
  <2>4. Bound \in Nat
    BY <2>1, CountsFinite DEF Bound
  <2>5. Cardinality(PassedIn(t)) <= Bound
    BY <2>1, <2>2, <2>4, CountsFinite
  <2> QED BY <2>1, <2>3, <2>4, <2>5, CountsFinite, PartBounded
<1> QED BY <1>1, Invariance, PTL

=============================================================================

------------------------ MODULE GatewayClient_proofs ------------------------
(***************************************************************************)
(* The breaker's one number says how bad the worst stretch of answers up   *)
(* to now has been.  From that follow, for any threshold, timeout and      *)
(* number of charges under way, when it is open, how often it probes, and  *)
(* when it overrules the gateway.                                          *)
(***************************************************************************)
EXTENDS GatewayClient, FiniteSetTheorems, SequenceTheorems, TLAPS

Answers == [ok : BOOLEAN, at : Nat]

Basics ==
  /\ clock \in Nat
  /\ failures \in Nat
  /\ log \in Seq(Answers)

(* The count is the greatest surplus of a stretch that ends now, or zero.  *)
FailuresExact ==
  /\ \A i \in 1 .. Len(log) : Surplus(log, i, Len(log)) <= failures
  /\ failures > 0 =>
       \E i \in 1 .. Len(log) : Surplus(log, i, Len(log)) = failures

CountDecides == state = IF failures >= Threshold THEN "open" ELSE "closed"

(* It was opened by the last answer let through.                           *)
OpenedByLast ==
  state = "open" => log # <<>> /\ openedAt = log[Len(log)].at

IInv ==
  /\ Basics
  /\ FailuresExact
  /\ CountDecides
  /\ OpenedByLast
  /\ ProbesSpaced

-----------------------------------------------------------------------------
(* Surpluses are integers.                                                 *)
LEMMA SurplusType ==
  ASSUME NEW s, NEW i \in Int, NEW j \in Int
  PROVE  /\ IsFiniteSet({k \in i .. j : ~s[k].ok})
         /\ IsFiniteSet({k \in i .. j : s[k].ok})
         /\ Surplus(s, i, j) \in Int
<1> DEFINE no == {k \in i .. j : ~s[k].ok}
           yes == {k \in i .. j : s[k].ok}
<1>1. no \in SUBSET (i .. j) /\ yes \in SUBSET (i .. j)
  OBVIOUS
<1>2. IsFiniteSet(i .. j)
  BY FS_Interval
<1>3. IsFiniteSet(no) /\ IsFiniteSet(yes)
  BY <1>1, <1>2, FS_Subset
<1>4. Cardinality(no) \in Nat /\ Cardinality(yes) \in Nat
  BY <1>3, FS_CardinalityType
<1>5. Surplus(s, i, j) = Cardinality(no) - Cardinality(yes)
  BY DEF Surplus
<1>6. Surplus(s, i, j) \in Int
  <2> HIDE DEF no, yes
  <2> QED
    BY <1>4, <1>5
<1> QED
  BY <1>3, <1>6

(* One more answer adds one to the surplus of every stretch that it        *)
(* prolongs, or takes one away; older stretches are as they were.          *)
LEMMA SurplusAppend ==
  ASSUME NEW s \in Seq(Answers), NEW e \in Answers,
         NEW i \in 1 .. Len(s) + 1
  PROVE  /\ Surplus(Append(s, e), i, Len(s) + 1) =
              IF e.ok THEN Surplus(s, i, Len(s)) - 1
                      ELSE Surplus(s, i, Len(s)) + 1
         /\ \A j \in 1 .. Len(s) :
              Surplus(Append(s, e), i, j) = Surplus(s, i, j)
<1> SUFFICES ASSUME NEW n, n = Len(s), NEW t, t = Append(s, e)
             PROVE  /\ Surplus(t, i, n + 1) =
                         IF e.ok THEN Surplus(s, i, n) - 1
                                 ELSE Surplus(s, i, n) + 1
                    /\ \A j \in 1 .. n : Surplus(t, i, j) = Surplus(s, i, j)
  OBVIOUS
<1>1. /\ n \in Nat
      /\ \A k \in 1 .. n : t[k] = s[k]
      /\ t[n + 1] = e
  OBVIOUS
<1>2. ASSUME NEW j \in 1 .. n
      PROVE  Surplus(t, i, j) = Surplus(s, i, j)
  <2>1. \A k \in i .. j : t[k] = s[k]
    BY <1>1
  <2>2. /\ {k \in i .. j : ~t[k].ok} = {k \in i .. j : ~s[k].ok}
        /\ {k \in i .. j : t[k].ok} = {k \in i .. j : s[k].ok}
    BY <2>1
  <2> QED
    BY <2>2 DEF Surplus
<1> DEFINE no == {k \in i .. n : ~s[k].ok}
           yes == {k \in i .. n : s[k].ok}
           no2 == {k \in i .. n + 1 : ~t[k].ok}
           yes2 == {k \in i .. n + 1 : t[k].ok}
<1>3. IsFiniteSet(no) /\ IsFiniteSet(yes)
  <2>1. i \in Int /\ n \in Int
    BY <1>1
  <2>2. /\ IsFiniteSet({k \in i .. n : ~s[k].ok})
        /\ IsFiniteSet({k \in i .. n : s[k].ok})
    BY <2>1, SurplusType
  <2> QED
    BY <2>2
<1>4. /\ Cardinality(no) \in Nat
      /\ Cardinality(yes) \in Nat
  BY <1>3, FS_CardinalityType
<1>5. n + 1 \notin no /\ n + 1 \notin yes
  BY <1>1
<1>6. \A k \in i .. n + 1 : k = n + 1 \/ (k \in i .. n /\ t[k] = s[k])
  BY <1>1
<1>7. n + 1 \in i .. n + 1 /\ i .. n \subseteq i .. n + 1
  BY <1>1
<1>8. /\ Surplus(s, i, n) = Cardinality(no) - Cardinality(yes)
      /\ Surplus(t, i, n + 1) = Cardinality(no2) - Cardinality(yes2)
  BY DEF Surplus
<1>9. CASE e.ok
  <2>1. no2 = no
    BY <1>1, <1>6, <1>7, <1>9
  <2>2. yes2 = yes \cup {n + 1}
    BY <1>1, <1>6, <1>7, <1>9
  <2>3. Cardinality(yes2) = Cardinality(yes) + 1
    BY <1>3, <1>5, <2>2, FS_AddElement
  <2>4. Surplus(t, i, n + 1) = Surplus(s, i, n) - 1
    <3> HIDE DEF no, yes, no2, yes2
    <3> QED
      BY <1>4, <1>8, <2>1, <2>3
  <2> QED
    BY <1>2, <1>9, <2>4
<1>10. CASE ~e.ok
  <2>1. yes2 = yes
    BY <1>1, <1>6, <1>7, <1>10
  <2>2. no2 = no \cup {n + 1}
    BY <1>1, <1>6, <1>7, <1>10
  <2>3. Cardinality(no2) = Cardinality(no) + 1
    BY <1>3, <1>5, <2>2, FS_AddElement
  <2>4. Surplus(t, i, n + 1) = Surplus(s, i, n) + 1
    <3> HIDE DEF no, yes, no2, yes2
    <3> QED
      BY <1>4, <1>8, <2>1, <2>3
  <2> QED
    BY <1>2, <1>10, <2>4
<1> QED
  BY <1>9, <1>10

(* A stretch of nothing has no surplus.                                    *)
LEMMA SurplusEmpty ==
  ASSUME NEW s, NEW n \in Nat
  PROVE  Surplus(s, n + 1, n) = 0
<1>1. n + 1 .. n = {}
  OBVIOUS
<1>2. /\ {k \in n + 1 .. n : ~s[k].ok} = {}
      /\ {k \in n + 1 .. n : s[k].ok} = {}
  BY <1>1
<1>3. Cardinality({}) = 0
  BY FS_EmptySet
<1>4. Surplus(s, n + 1, n) = 0 - 0
  BY <1>2, <1>3 DEF Surplus
<1> QED
  BY <1>4

-----------------------------------------------------------------------------
(* One number is enough: open means that some stretch up to now has the    *)
(* threshold's surplus.                                                    *)
LEMMA OutageByCount ==
  ASSUME Basics, FailuresExact
  PROVE  Outage(log, Len(log)) <=> failures >= Threshold
<1> DEFINE n == Len(log)
<1>1. /\ n \in Nat
      /\ failures \in Nat
      /\ Threshold \in Nat \ {0}
  BY BoundAssumption DEF Basics
<1>2. ASSUME NEW i \in 1 .. n PROVE Surplus(log, i, n) \in Int
  <2>1. i \in Int /\ n \in Int
    BY <1>1
  <2> QED
    BY <2>1, SurplusType
<1>3. ASSUME NEW i \in 1 .. n, Surplus(log, i, n) >= Threshold
      PROVE  failures >= Threshold
  <2>1. Surplus(log, i, n) <= failures /\ Surplus(log, i, n) \in Int
    BY <1>2 DEF FailuresExact
  <2> HIDE DEF n
  <2> QED
    BY <1>1, <1>3, <2>1
<1>4. ASSUME failures >= Threshold
      PROVE  \E i \in 1 .. n : Surplus(log, i, n) >= Threshold
  <2>1. failures > 0
    BY <1>1, <1>4
  <2>2. PICK i \in 1 .. n : Surplus(log, i, n) = failures
    BY <2>1 DEF FailuresExact
  <2> QED
    BY <1>4, <2>2
<1> QED
  BY <1>3, <1>4 DEF Outage

(* The breaker overrules an answer only when it is open and was opened     *)
(* recently.                                                               *)
LEMMA NotAdmitted ==
  ASSUME IInv, ~Admits
  PROVE  Outage(log, Len(log)) /\ Recent
<1>1. state = "open" /\ ~Probing
  BY DEF Admits
<1>2. failures >= Threshold
  BY <1>1 DEF IInv, CountDecides
<1>3. Outage(log, Len(log))
  BY <1>2, OutageByCount DEF IInv
<1>4. /\ log # <<>>
      /\ openedAt = log[Len(log)].at
  BY <1>1 DEF IInv, OpenedByLast
<1>5. openedAt \in Nat /\ clock \in Nat /\ ResetTimeout \in Nat
  <2>1. log \in Seq(Answers) /\ clock \in Nat
    BY DEF IInv, Basics
  <2>2. Len(log) \in 1 .. Len(log)
    BY <1>4, <2>1
  <2>3. log[Len(log)] \in Answers
    BY <2>1, <2>2
  <2> QED
    BY <1>4, <2>1, <2>3, BoundAssumption DEF Answers
<1>6. Recent
  BY <1>1, <1>4, <1>5 DEF Probing, Recent
<1> QED
  BY <1>3, <1>6

(* An answer let through keeps probes apart: if the ones before it ended   *)
(* in an outage the breaker was open, and the time was up.                 *)
LEMMA SpacedAppend ==
  ASSUME IInv, Admits, NEW e \in Answers, e.at = clock,
         log' = Append(log, e)
  PROVE  ProbesSpaced'
<1> DEFINE n == Len(log)
<1>1. /\ log \in Seq(Answers)
      /\ n \in Nat
      /\ Len(log') = n + 1
      /\ \A k \in 1 .. n : log'[k] = log[k]
      /\ log'[n + 1] = e
  BY DEF IInv, Basics
<1>2. ASSUME NEW i \in 1 .. n + 1
      PROVE  \A j \in 1 .. n : Surplus(log', i, j) = Surplus(log, i, j)
  <2>1. \A j \in 1 .. n : Surplus(Append(log, e), i, j) = Surplus(log, i, j)
    BY <1>1, SurplusAppend
  <2> QED
    BY <2>1
<1>3. \A j \in 1 .. n : Outage(log', j) <=> Outage(log, j)
  BY <1>1, <1>2 DEF Outage
<1>4. ASSUME NEW j \in 1 .. n, Outage(log, j)
      PROVE  log'[j + 1].at - log'[j].at > ResetTimeout
  <2>1. CASE j \in 1 .. n - 1
    <3>1. log[j + 1].at - log[j].at > ResetTimeout
      BY <1>4, <2>1 DEF IInv, ProbesSpaced
    <3>2. log'[j + 1] = log[j + 1] /\ log'[j] = log[j]
      BY <1>1, <2>1
    <3> QED
      BY <3>1, <3>2
  <2>2. CASE j = n
    <3>1. failures >= Threshold
      BY <1>4, <2>2, OutageByCount DEF IInv
    <3>2. state = "open"
      BY <3>1 DEF IInv, CountDecides
    <3>3. Probing /\ openedAt = log[n].at
      BY <3>2 DEF Admits, IInv, OpenedByLast
    <3>4. clock - log[n].at > ResetTimeout
      BY <3>3 DEF Probing
    <3>5. log'[j + 1].at = clock /\ log'[j].at = log[n].at
      BY <1>1, <2>2
    <3> QED
      BY <3>4, <3>5
  <2> QED
    BY <1>1, <2>1, <2>2
<1>5. Len(log') - 1 = n
  BY <1>1
<1> QED
  BY <1>3, <1>4, <1>5 DEF ProbesSpaced

(* The surpluses after one more answer, of all stretches that end now.     *)
LEMMA SurplusesNow ==
  ASSUME Basics, NEW e \in Answers, log' = Append(log, e)
  PROVE  LET n == Len(log)
             d == IF e.ok THEN -1 ELSE 1
         IN  /\ n \in Nat /\ Len(log') = n + 1
             /\ \A i \in 1 .. n :
                  /\ Surplus(log, i, n) \in Int
                  /\ Surplus(log', i, n + 1) = Surplus(log, i, n) + d
             /\ Surplus(log', n + 1, n + 1) = d
<1> DEFINE n == Len(log)
           d == IF e.ok THEN -1 ELSE 1
<1>1. log \in Seq(Answers) /\ n \in Nat /\ Len(log') = n + 1
  BY DEF Basics
<1>2. ASSUME NEW i \in 1 .. n + 1
      PROVE  /\ Surplus(log, i, n) \in Int
             /\ Surplus(log', i, n + 1) = Surplus(log, i, n) + d
  <2>1. i \in Int /\ n \in Int
    BY <1>1
  <2>2. Surplus(log, i, n) \in Int
    BY <2>1, SurplusType
  <2>3. Surplus(Append(log, e), i, n + 1) =
          IF e.ok THEN Surplus(log, i, n) - 1 ELSE Surplus(log, i, n) + 1
    BY <1>1, SurplusAppend
  <2> QED
    BY <2>2, <2>3
<1>3. Surplus(log, n + 1, n) = 0
  BY <1>1, SurplusEmpty
<1>4. n + 1 \in 1 .. n + 1 /\ \A i \in 1 .. n : i \in 1 .. n + 1
  BY <1>1
<1>5. Surplus(log', n + 1, n + 1) = d
  BY <1>2, <1>3, <1>4
<1> QED
  BY <1>1, <1>2, <1>4, <1>5

LEMMA SuccessStep ==
  ASSUME IInv, Admits, OnSuccess, UNCHANGED clock
  PROVE  IInv'
<1> DEFINE n == Len(log)
           e == [ok |-> TRUE, at |-> clock]
<1>1. /\ log \in Seq(Answers)
      /\ failures \in Nat
      /\ clock \in Nat /\ clock' = clock
      /\ Threshold \in Nat \ {0}
  BY BoundAssumption DEF IInv, Basics
<1>2. CASE state = "closed"
  <2>1. /\ log' = Append(log, e)
        /\ failures' = IF failures > 0 THEN failures - 1 ELSE 0
        /\ state' = "closed"
    BY <1>2 DEF OnSuccess
  <2>2. e \in Answers /\ e.ok /\ e.at = clock
    BY <1>1 DEF Answers
  <2>3. Basics'
    BY <1>1, <2>1, <2>2 DEF Basics
  <2>4. /\ n \in Nat /\ Len(log') = n + 1
        /\ \A i \in 1 .. n :
             /\ Surplus(log, i, n) \in Int
             /\ Surplus(log', i, n + 1) = Surplus(log, i, n) + (-1)
        /\ Surplus(log', n + 1, n + 1) = -1
    <3> HIDE DEF e
    <3> QED
      BY <2>1, <2>2, SurplusesNow DEF IInv
  <2>5. ASSUME NEW i \in 1 .. n + 1
        PROVE  Surplus(log', i, n + 1) <= failures'
    <3>1. CASE i \in 1 .. n
      <4>1. Surplus(log, i, n) <= failures
        BY <3>1 DEF IInv, FailuresExact
      <4>2. /\ Surplus(log, i, n) \in Int
            /\ Surplus(log', i, n + 1) = Surplus(log, i, n) + (-1)
        BY <2>4, <3>1
      <4> HIDE DEF n
      <4> QED
        BY <1>1, <2>1, <4>1, <4>2
    <3>2. CASE i = n + 1
      BY <1>1, <2>1, <2>4, <3>2
    <3> QED
      BY <2>4, <3>1, <3>2
  <2>6. ASSUME failures' > 0
        PROVE  \E i \in 1 .. n + 1 : Surplus(log', i, n + 1) = failures'
    <3>1. failures > 0 /\ failures' = failures - 1
      BY <1>1, <2>1, <2>6
    <3>2. PICK i \in 1 .. n : Surplus(log, i, n) = failures
      BY <3>1 DEF IInv, FailuresExact
    <3>3. i \in 1 .. n + 1
      BY <2>4
    <3>4. Surplus(log', i, n + 1) = failures'
      <4> HIDE DEF n
      <4> QED
        BY <1>1, <2>4, <3>1, <3>2
    <3> QED
      BY <3>3, <3>4
  <2>7. FailuresExact'
    BY <2>4, <2>5, <2>6 DEF FailuresExact
  <2>8. CountDecides'
    <3>1. ~(failures >= Threshold)
      BY <1>2 DEF IInv, CountDecides
    <3> QED
      BY <1>1, <2>1, <3>1 DEF CountDecides
  <2>9. ProbesSpaced'
    <3> HIDE DEF e
    <3> QED
      BY <2>1, <2>2, SpacedAppend
  <2> QED
    BY <2>1, <2>3, <2>7, <2>8, <2>9 DEF IInv, OpenedByLast
<1>3. CASE state # "closed"
  <2>1. log' = <<>> /\ failures' = 0 /\ state' = "closed"
    BY <1>3 DEF OnSuccess
  <2>2. Basics'
    BY <1>1, <2>1 DEF Basics
  <2>3. Len(log') = 0
    BY <2>1
  <2> QED
    BY <1>1, <2>1, <2>2, <2>3
       DEF IInv, FailuresExact, CountDecides, OpenedByLast, ProbesSpaced
<1> QED
  BY <1>2, <1>3

LEMMA FailureStep ==
  ASSUME IInv, Admits, OnFailure, UNCHANGED clock
  PROVE  IInv'
<1> DEFINE n == Len(log)
           e == [ok |-> FALSE, at |-> clock]
<1>1. /\ log \in Seq(Answers)
      /\ failures \in Nat
      /\ clock \in Nat /\ clock' = clock
      /\ Threshold \in Nat \ {0}
  BY BoundAssumption DEF IInv, Basics
<1>2. log' = Append(log, e) /\ failures' = failures + 1
  BY DEF OnFailure
<1>3. e \in Answers /\ ~e.ok /\ e.at = clock
  BY <1>1 DEF Answers
<1>4. Basics'
  BY <1>1, <1>2, <1>3 DEF Basics
<1>5. /\ n \in Nat /\ Len(log') = n + 1
      /\ \A i \in 1 .. n :
           /\ Surplus(log, i, n) \in Int
           /\ Surplus(log', i, n + 1) = Surplus(log, i, n) + 1
      /\ Surplus(log', n + 1, n + 1) = 1
  <2> HIDE DEF e
  <2> QED
    BY <1>2, <1>3, SurplusesNow DEF IInv
<1>6. ASSUME NEW i \in 1 .. n + 1
      PROVE  Surplus(log', i, n + 1) <= failures'
  <2>1. CASE i \in 1 .. n
    <3>1. Surplus(log, i, n) <= failures
      BY <2>1 DEF IInv, FailuresExact
    <3>2. /\ Surplus(log, i, n) \in Int
          /\ Surplus(log', i, n + 1) = Surplus(log, i, n) + 1
      BY <1>5, <2>1
    <3> HIDE DEF n
    <3> QED
      BY <1>1, <1>2, <3>1, <3>2
  <2>2. CASE i = n + 1
    BY <1>1, <1>2, <1>5, <2>2
  <2> QED
    BY <1>5, <2>1, <2>2
<1>7. \E i \in 1 .. n + 1 : Surplus(log', i, n + 1) = failures'
  <2>1. CASE failures > 0
    <3>1. PICK i \in 1 .. n : Surplus(log, i, n) = failures
      BY <2>1 DEF IInv, FailuresExact
    <3>2. i \in 1 .. n + 1
      BY <1>5
    <3>3. Surplus(log', i, n + 1) = failures'
      <4> HIDE DEF n
      <4> QED
        BY <1>1, <1>2, <1>5, <3>1
    <3> QED
      BY <3>2, <3>3
  <2>2. CASE failures = 0
    <3>1. n + 1 \in 1 .. n + 1
      BY <1>5
    <3>2. Surplus(log', n + 1, n + 1) = failures'
      BY <1>2, <1>5, <2>2
    <3> QED
      BY <3>1, <3>2
  <2> QED
    BY <1>1, <2>1, <2>2
<1>8. FailuresExact'
  BY <1>5, <1>6, <1>7 DEF FailuresExact
<1>9. CountDecides' /\ OpenedByLast'
  <2>1. CASE failures' >= Threshold
    <3>1. state' = "open" /\ openedAt' = clock
      BY <2>1 DEF OnFailure
    <3>2. log'[n + 1] = e /\ log' # <<>>
      BY <1>1, <1>2
    <3>3. openedAt' = log'[Len(log')].at
      BY <1>3, <1>5, <3>1, <3>2
    <3> QED
      BY <2>1, <3>1, <3>2, <3>3 DEF CountDecides, OpenedByLast
  <2>2. CASE ~(failures' >= Threshold)
    <3>1. ~(failures >= Threshold)
      BY <1>1, <1>2, <2>2
    <3>2. state = "closed"
      BY <3>1 DEF IInv, CountDecides
    <3>3. state' = "closed"
      BY <2>2, <3>2 DEF OnFailure
    <3> QED
      BY <2>2, <3>3 DEF CountDecides, OpenedByLast
  <2> QED
    BY <2>1, <2>2
<1>10. ProbesSpaced'
  <2> HIDE DEF e
  <2> QED
    BY <1>2, <1>3, SpacedAppend
<1> QED
  BY <1>4, <1>8, <1>9, <1>10 DEF IInv

(* The steps that leave the breaker alone.                                 *)
LEMMA Elsewhere ==
  ASSUME IInv, UNCHANGED <<state, failures, openedAt, log>>, clock' \in Nat
  PROVE  IInv'
BY DEF IInv, Basics, FailuresExact, CountDecides, OpenedByLast, ProbesSpaced

LEMMA Step == IInv /\ [Next]_vars => IInv'
<1> SUFFICES ASSUME IInv, [Next]_vars PROVE IInv'
  OBVIOUS
<1>0. clock \in Nat
  BY DEF IInv, Basics
<1>1. ASSUME Tick PROVE IInv'
  BY <1>0, <1>1, Elsewhere DEF Tick
<1>2. ASSUME Restart PROVE IInv'
  <2>1. /\ state' = "closed" /\ failures' = 0 /\ log' = <<>>
        /\ clock' = clock
    BY <1>2 DEF Restart
  <2>2. Len(log') = 0 /\ Threshold \in Nat \ {0}
    BY <2>1, BoundAssumption
  <2>3. Basics'
    BY <1>0, <2>1 DEF Basics
  <2> QED
    BY <2>1, <2>2, <2>3
       DEF IInv, FailuresExact, CountDecides, OpenedByLast, ProbesSpaced
<1>3. ASSUME NEW c \in Slots, Simulate(c) PROVE IInv'
  BY <1>0, <1>3, Elsewhere DEF Simulate
<1>4. ASSUME NEW c \in Slots, Succeed(c) PROVE IInv'
  BY <1>4, SuccessStep DEF Succeed, Return
<1>5. ASSUME NEW c \in Slots, Fail(c) PROVE IInv'
  BY <1>5, FailureStep DEF Fail, Return
<1>6. ASSUME NEW c \in Slots, Bypass(c) PROVE IInv'
  BY <1>0, <1>6, Elsewhere DEF Bypass, Return
<1>7. ASSUME NEW c \in Slots, Reject(c) PROVE IInv'
  BY <1>0, <1>7, Elsewhere DEF Reject, Return
<1>8. ASSUME UNCHANGED vars PROVE IInv'
  BY <1>0, <1>8, Elsewhere DEF vars
<1> QED
  BY <1>1, <1>2, <1>3, <1>4, <1>5, <1>6, <1>7, <1>8 DEF Next, Charge

LEMMA Start == Init => IInv
<1> SUFFICES ASSUME Init PROVE IInv
  OBVIOUS
<1>1. /\ clock = 0 /\ state = "closed" /\ failures = 0 /\ log = <<>>
      /\ Len(log) = 0
  BY DEF Init
<1>2. Threshold \in Nat \ {0}
  BY BoundAssumption
<1>3. Basics
  BY <1>1 DEF Basics
<1> QED
  BY <1>1, <1>2, <1>3
     DEF IInv, FailuresExact, CountDecides, OpenedByLast, ProbesSpaced

-----------------------------------------------------------------------------
(* The breaker is open exactly in an outage, for any threshold: its one    *)
(* counter forgets nothing that matters (circuitBreaker.service.ts:29-44). *)
THEOREM OpenExactly == Spec => []OpenForCause
<1>1. IInv => OpenForCause
  BY OutageByCount DEF IInv, CountDecides, OpenForCause
<1> QED
  BY <1>1, Start, Step, PTL DEF Spec

(* Probes are more than a reset timeout apart                              *)
(* (circuitBreaker.service.ts:18-24).                                      *)
THEOREM OneProbeAtATime == Spec => []ProbesSpaced
<1>1. IInv => ProbesSpaced
  BY DEF IInv
<1> QED
  BY <1>1, Start, Step, PTL DEF Spec

(* Times that have passed stay in the past.                                *)
LEMMA LaterLogs ==
  ASSUME NEW a \in Nat, NEW b \in Nat, a <= b,
         NEW s \in Seq([ok : BOOLEAN, at : 0 .. a])
  PROVE  s \in Seq([ok : BOOLEAN, at : 0 .. b])
<1> DEFINE A == [ok : BOOLEAN, at : 0 .. a]
           B == [ok : BOOLEAN, at : 0 .. b]
<1>1. A \subseteq B
  OBVIOUS
<1> HIDE DEF B
<1>2. s \in Seq(B)
  BY <1>1, SeqMonotonic
<1> QED
  BY <1>2 DEF B

(* Types are preserved by every step.                                      *)
LEMMA TypeNext == TypeOK /\ [Next]_vars => TypeOK'
<1> SUFFICES ASSUME TypeOK, [Next]_vars PROVE TypeOK'
  OBVIOUS
<1> USE BoundAssumption DEF TypeOK
<1>1. ASSUME Tick PROVE TypeOK'
  <2>1. clock \in Nat /\ clock' \in Nat /\ clock <= clock'
    BY <1>1 DEF Tick
  <2>2. log' \in Seq([ok : BOOLEAN, at : 0 .. clock'])
    BY <1>1, <2>1, LaterLogs DEF Tick
  <2> QED
    BY <1>1, <2>2 DEF Tick
<1>2. ASSUME Restart PROVE TypeOK'
  BY <1>2 DEF Restart
<1>3. ASSUME NEW c \in Slots, Simulate(c) PROVE TypeOK'
  BY <1>3 DEF Simulate, Kinds
<1>4. ASSUME NEW c \in Slots, Succeed(c) PROVE TypeOK'
  <2>1. [ok |-> TRUE, at |-> clock] \in [ok : BOOLEAN, at : 0 .. clock]
    OBVIOUS
  <2>2. /\ log' \in Seq([ok : BOOLEAN, at : 0 .. clock])
        /\ Len(log') <= MaxAnswers
    <3>1. CASE state = "closed"
      <4>1. log' = Append(log, [ok |-> TRUE, at |-> clock])
        BY <1>4, <3>1 DEF Succeed, OnSuccess
      <4>2. Len(log) \in Nat /\ Len(log) < MaxAnswers
        BY <1>4 DEF Succeed
      <4>3. Len(log') = Len(log) + 1
        BY <4>1
      <4> QED
        BY <2>1, <4>1, <4>2, <4>3
    <3>2. CASE state # "closed"
      <4>1. log' = <<>>
        BY <1>4, <3>2 DEF Succeed, OnSuccess
      <4> QED
        BY <4>1
    <3> QED
      BY <3>1, <3>2
  <2>3. failures' \in Nat /\ state' = "closed"
    BY <1>4 DEF Succeed, OnSuccess
  <2> QED
    BY <1>4, <2>2, <2>3 DEF Succeed, OnSuccess, Return, Answer, Captured, Kinds
<1>5. ASSUME NEW c \in Slots, Fail(c) PROVE TypeOK'
  <2>1. [ok |-> FALSE, at |-> clock] \in [ok : BOOLEAN, at : 0 .. clock]
    OBVIOUS
  <2>2. /\ log' \in Seq([ok : BOOLEAN, at : 0 .. clock])
        /\ Len(log') <= MaxAnswers
    BY <1>5, <2>1 DEF Fail, OnFailure
  <2>3. /\ failures' \in Nat
        /\ state' \in {"closed", "open", "half_open"}
        /\ openedAt' \in 0 .. clock
    BY <1>5 DEF Fail, OnFailure
  <2> QED
    BY <1>5, <2>2, <2>3 DEF Fail, Return, Answer, Captured, Kinds
<1>6. ASSUME NEW c \in Slots, Bypass(c) PROVE TypeOK'
  BY <1>6 DEF Bypass, Return, Answer, Captured, Kinds
<1>7. ASSUME NEW c \in Slots, Reject(c) PROVE TypeOK'
  BY <1>7 DEF Reject, Return, Kinds
<1>8. ASSUME UNCHANGED vars PROVE TypeOK'
  BY <1>8 DEF vars
<1> QED
  BY <1>1, <1>2, <1>3, <1>4, <1>5, <1>6, <1>7, <1>8 DEF Next, Charge

(* The breaker's and the charges' values are the ones declared.            *)
THEOREM TypeCorrect == Spec => []TypeOK
<1>1. Init => TypeOK
  BY BoundAssumption DEF Init, TypeOK
<1> QED
  BY <1>1, TypeNext, PTL DEF Spec

(* The gateway's word is passed on, except in a recent outage              *)
(* (gatewayClient.service.ts:39-67).                                       *)
THEOREM WordKept == Spec => AnswersTrue
<1> DEFINE Word(c) ==
      answer[c] = "none" /\ answer'[c] # "none" =>
        \/ answer'[c] = Answer(charging[c])
        \/ /\ answer'[c] = "transient"
           /\ charging[c] # "webhook_duplicate"
           /\ Outage(log, Len(log)) /\ Recent
<1>1. ASSUME TypeOK, IInv, [Next]_vars
      PROVE  [\A c \in Slots : Word(c)]_vars
  <2> SUFFICES ASSUME NEW c \in Slots PROVE Word(c)
    OBVIOUS
  <2>1. answer \in [Slots -> {"none", "success", "permanent", "transient"}]
    BY <1>1 DEF TypeOK
  <2>2. ASSUME NEW d \in Slots, Simulate(d) PROVE Word(c)
    BY <2>1, <2>2 DEF Simulate
  <2>3. ASSUME NEW d \in Slots, NEW result, Return(d, result)
        PROVE  c # d => answer'[c] = answer[c]
    BY <2>1, <2>3 DEF Return
  <2>4. ASSUME NEW d \in Slots, Return(d, Answer(charging[d]))
        PROVE  Word(c)
    <3>1. CASE c = d
      BY <2>1, <2>4, <3>1 DEF Return
    <3>2. CASE c # d
      BY <2>3, <2>4, <3>2
    <3> QED
      BY <3>1, <3>2
  <2>5. ASSUME NEW d \in Slots, Reject(d) PROVE Word(c)
    <3>1. Outage(log, Len(log)) /\ Recent
      BY <1>1, <2>5, NotAdmitted DEF Reject
    <3>2. Return(d, "transient") /\ charging[d] # "webhook_duplicate"
      BY <2>5 DEF Reject
    <3>3. CASE c = d
      BY <2>1, <3>1, <3>2, <3>3 DEF Return
    <3>4. CASE c # d
      BY <2>3, <3>2, <3>4
    <3> QED
      BY <3>3, <3>4
  <2>6. CASE Tick \/ UNCHANGED vars
    BY <2>6 DEF Tick, vars
  <2>7. CASE Restart
    BY <2>7 DEF Restart
  <2> QED
    BY <1>1, <2>2, <2>4, <2>5, <2>6, <2>7
       DEF Next, Charge, Succeed, Fail, Bypass
<1> QED
  BY <1>1, Start, Step, TypeCorrect, PTL DEF Spec, AnswersTrue

=============================================================================

----------------------- MODULE OutboxPublisher_proofs -----------------------
(***************************************************************************)
(* Proof, for any number of rows and publishers and any batch size, that   *)
(* no row is marked published before Kafka has its message, and of the     *)
(* bound on how often a message is sent.                                   *)
(***************************************************************************)
EXTENDS OutboxPublisher, FiniteSetTheorems, TLAPS

(* A claim takes some of the rows it is offered.                           *)
LEMMA OldestAreRows == \A n, rows : Oldest(n, rows) \subseteq rows
BY DEF Oldest

(* Types are preserved by every step.                                      *)
LEMMA TypeNext == TypeOK /\ [Next]_vars => TypeOK'
<1> SUFFICES ASSUME TypeOK, [Next]_vars PROVE TypeOK'
    OBVIOUS
<1> USE DEF TypeOK, At, Goto, Steps, Connections
<1>1. disruptions' \in 0 .. MaxDisruptions
  BY BoundAssumption
     DEF Next, PublisherStep, Enqueue, ClaimBatch, Publish, Refuse,
         MarkPublished, MarkFailure, PublishThrows, MarkPublishedThrows,
         MarkFailureThrows, Crash, vars, Disrupt, Connect,
         ConnectElsewhere, Connected, ConnectFails
<1>2. ASSUME NEW r \in Rows, Enqueue(r) PROVE TypeOK'
  BY <1>1, <1>2 DEF Enqueue
<1>3. ASSUME NEW p \in Publishers, ClaimBatch(p) PROVE TypeOK'
  <2>1. PICK rows \in SUBSET committed :
          batch' = [batch EXCEPT ![p] = Oldest(Limit, rows)]
    BY <1>3 DEF ClaimBatch
  <2>2. Oldest(Limit, rows) \subseteq committed
    BY OldestAreRows
  <2> QED BY <1>1, <1>3, <2>1, <2>2 DEF ClaimBatch
<1>4. ASSUME NEW p \in Publishers, NEW r \in Rows, Leave(p, r)
      PROVE  /\ batch' \in [Publishers -> SUBSET committed]
             /\ pc' \in [Publishers -> Steps]
  BY <1>4 DEF Leave
<1>5. ASSUME NEW p \in Publishers, NEW r \in Rows, Publish(p, r)
      PROVE TypeOK'
  BY <1>1, <1>5 DEF Publish
<1>6. ASSUME NEW p \in Publishers, NEW r \in Rows, Refuse(p, r)
      PROVE TypeOK'
  BY <1>1, <1>6 DEF Refuse
<1>7. ASSUME NEW p \in Publishers, NEW r \in Rows, PublishThrows(p, r)
      PROVE TypeOK'
  <2>1. sent' \in [Rows -> Nat]
    BY <1>7 DEF PublishThrows
  <2> QED BY <1>1, <1>7, <2>1 DEF PublishThrows
<1>8. ASSUME NEW p \in Publishers, NEW r \in Rows,
             MarkPublished(p, r) \/ MarkFailure(p, r)
      PROVE TypeOK'
  <2>1. UNCHANGED <<committed, sent, conn>> /\ Leave(p, r)
    BY <1>8 DEF MarkPublished, MarkFailure
  <2>2. published' \subseteq committed
    BY <1>8 DEF MarkPublished, MarkFailure, WorksOn
  <2> QED BY <1>1, <1>4, <2>1, <2>2
<1>9. ASSUME NEW p \in Publishers, NEW r \in Rows, MarkPublishedThrows(p, r)
      PROVE TypeOK'
  <2>1. published' \subseteq committed
    BY <1>9 DEF MarkPublishedThrows, WorksOn
  <2> QED BY <1>1, <1>9, <2>1 DEF MarkPublishedThrows
<1>10. ASSUME NEW p \in Publishers, MarkFailureThrows(p) \/ Crash(p)
       PROVE TypeOK'
  BY <1>1, <1>10 DEF MarkFailureThrows, Crash, Abort
<1>11. ASSUME NEW p \in Publishers,
              \/ Connect(p) \/ ConnectElsewhere(p)
              \/ Connected(p) \/ ConnectFails(p)
       PROVE TypeOK'
  <2>1. /\ UNCHANGED <<committed, published, sent, batch>>
        /\ conn' \in [Publishers -> Connections]
        /\ pc' \in [Publishers -> Steps]
    BY <1>11 DEF Connect, ConnectElsewhere, Connected, ConnectFails
  <2> QED BY <1>1, <2>1
<1>12. CASE UNCHANGED vars
  BY <1>12 DEF vars
<1> QED BY <1>2, <1>3, <1>5, <1>6, <1>7, <1>8, <1>9, <1>10, <1>11, <1>12
        DEF Next, PublisherStep

(* The flag of a row is only set by a publisher that has sent it.          *)
LEMMA SentNext ==
  TypeOK /\ PublishedWasSent /\ MarkedAfterSending /\ [Next]_vars
    => PublishedWasSent' /\ MarkedAfterSending'
<1> SUFFICES ASSUME TypeOK, PublishedWasSent, MarkedAfterSending, [Next]_vars
             PROVE  PublishedWasSent' /\ MarkedAfterSending'
    OBVIOUS
<1> USE DEF TypeOK, At, Goto, PublishedWasSent, MarkedAfterSending, WorksOn
<1>1. ASSUME NEW r \in Rows, Enqueue(r)
      PROVE  PublishedWasSent' /\ MarkedAfterSending'
  BY <1>1 DEF Enqueue
<1>2. ASSUME NEW p \in Publishers, ClaimBatch(p)
      PROVE  PublishedWasSent' /\ MarkedAfterSending'
  BY <1>2 DEF ClaimBatch
<1>3. ASSUME NEW p \in Publishers, NEW r \in Rows, Publish(p, r)
      PROVE  PublishedWasSent' /\ MarkedAfterSending'
  <2>1. \A q \in Rows : sent'[q] \in Nat /\ sent'[q] >= sent[q] /\ sent'[r] > 0
    BY <1>3 DEF Publish
  <2>2. \A q \in Rows : WorksOn(p, q) => q = r
    BY <1>3, RowAssumption DEF Publish
  <2> QED BY <1>3, <2>1, <2>2 DEF Publish
<1>4. ASSUME NEW p \in Publishers, NEW r \in Rows, Refuse(p, r)
      PROVE  PublishedWasSent' /\ MarkedAfterSending'
  BY <1>4 DEF Refuse
<1>5. ASSUME NEW p \in Publishers, NEW r \in Rows, MarkPublished(p, r)
      PROVE  PublishedWasSent' /\ MarkedAfterSending'
  BY <1>5 DEF MarkPublished, Leave
<1>6. ASSUME NEW p \in Publishers, NEW r \in Rows, MarkFailure(p, r)
      PROVE  PublishedWasSent' /\ MarkedAfterSending'
  BY <1>6 DEF MarkFailure, Leave
<1>7. ASSUME NEW p \in Publishers, NEW r \in Rows, PublishThrows(p, r)
      PROVE  PublishedWasSent' /\ MarkedAfterSending'
  <2>1. \A q \in Rows : sent'[q] \in Nat /\ sent'[q] >= sent[q]
    BY <1>7 DEF PublishThrows
  <2> QED BY <1>7, <2>1 DEF PublishThrows
<1>8. ASSUME NEW p \in Publishers, NEW r \in Rows, MarkPublishedThrows(p, r)
      PROVE  PublishedWasSent' /\ MarkedAfterSending'
  BY <1>8 DEF MarkPublishedThrows
<1>9. ASSUME NEW p \in Publishers, MarkFailureThrows(p) \/ Crash(p)
      PROVE  PublishedWasSent' /\ MarkedAfterSending'
  BY <1>9 DEF MarkFailureThrows, Crash, Abort
<1>10. ASSUME NEW p \in Publishers,
              \/ Connect(p) \/ ConnectElsewhere(p)
              \/ Connected(p) \/ ConnectFails(p)
       PROVE  PublishedWasSent' /\ MarkedAfterSending'
  <2>1. UNCHANGED <<published, sent, batch>>
    BY <1>10 DEF Connect, ConnectElsewhere, Connected, ConnectFails
  <2>2. \A q \in Publishers : pc'[q] = "mark" => pc[q] = "mark"
    BY <1>10 DEF Connect, ConnectElsewhere, Connected, ConnectFails
  <2> QED BY <2>1, <2>2
<1>11. CASE UNCHANGED vars
  BY <1>11 DEF vars
<1> QED BY <1>1, <1>2, <1>3, <1>4, <1>5, <1>6, <1>7, <1>8, <1>9, <1>10, <1>11
        DEF Next, PublisherStep

(* Only what has been claimed is sent.                                     *)
LEMMA CommittedNext ==
  TypeOK /\ OnlyCommittedSent /\ [Next]_vars => OnlyCommittedSent'
<1> SUFFICES ASSUME TypeOK, OnlyCommittedSent, [Next]_vars,
                    NEW q \in Rows, sent'[q] > 0
             PROVE  q \in committed'
    BY DEF OnlyCommittedSent
<1>1. committed \subseteq committed'
  BY DEF Next, PublisherStep, Enqueue, ClaimBatch, Publish, Refuse, MarkPublished,
         MarkFailure, PublishThrows, MarkPublishedThrows, MarkFailureThrows,
         Crash, vars, Connect, ConnectElsewhere, Connected, ConnectFails
<1>2. CASE UNCHANGED sent
  BY <1>1, <1>2 DEF OnlyCommittedSent
<1>3. ASSUME NEW p \in Publishers, NEW r \in Rows, WorksOn(p, r),
             sent' = [sent EXCEPT ![r] = @ + 1]
      PROVE  q \in committed
  <2>1. r \in committed
    BY <1>3 DEF WorksOn, TypeOK
  <2>2. q # r => sent'[q] = sent[q]
    BY <1>3 DEF TypeOK
  <2> QED BY <2>1, <2>2 DEF OnlyCommittedSent
<1> QED BY <1>1, <1>2, <1>3
        DEF Next, PublisherStep, Enqueue, ClaimBatch, Publish, Refuse,
            MarkPublished, MarkFailure, PublishThrows, MarkPublishedThrows,
            MarkFailureThrows, Crash, vars, Connect, ConnectElsewhere,
            Connected, ConnectFails

-----------------------------------------------------------------------------
(* Sets of publishers are finite.                                          *)
LEMMA Finite ==
  ASSUME NEW S \in SUBSET Publishers
  PROVE  /\ IsFiniteSet(S)
         /\ Cardinality(S) \in Nat
         /\ Cardinality(S) <= Cardinality(Publishers)
         /\ Cardinality(Publishers) \in Nat
BY PublisherAssumption, FS_Subset, FS_CardinalityType

(* A smaller set of publishers has no more of them.                        *)
LEMMA Fewer ==
  ASSUME NEW S \in SUBSET Publishers, NEW T \in SUBSET Publishers, S \subseteq T
  PROVE  Cardinality(S) <= Cardinality(T)
BY Finite, FS_Subset

(* One publisher joins, or leaves.                                         *)
LEMMA OneMore ==
  ASSUME NEW S \in SUBSET Publishers, NEW T \in SUBSET Publishers,
         NEW p \in T, p \notin S, S \subseteq T
  PROVE  Cardinality(S) + 1 <= Cardinality(T)
<1>1. T \ {p} \in SUBSET Publishers /\ S \subseteq T \ {p}
  OBVIOUS
<1>2. Cardinality(S) <= Cardinality(T \ {p})
  BY <1>1, Fewer
<1>3. Cardinality(T \ {p}) = Cardinality(T) - 1
  BY Finite, FS_RemoveElement
<1>4. Cardinality(S) \in Nat /\ Cardinality(T) \in Nat
  BY Finite
<1> QED BY <1>2, <1>3, <1>4

(* Only one publisher more.                                                *)
LEMMA AtMostOneMore ==
  ASSUME NEW S \in SUBSET Publishers, NEW T \in SUBSET Publishers,
         NEW p \in Publishers, S \subseteq T \cup {p}
  PROVE  Cardinality(S) <= Cardinality(T) + 1
<1>1. T \cup {p} \in SUBSET Publishers
  OBVIOUS
<1>2. Cardinality(S) <= Cardinality(T \cup {p})
  BY <1>1, Fewer
<1>3. Cardinality(T \cup {p}) = IF p \in T THEN Cardinality(T)
                                ELSE Cardinality(T) + 1
  BY Finite, FS_AddElement
<1>4. Cardinality(S) \in Nat /\ Cardinality(T) \in Nat
  BY Finite
<1> QED BY <1>2, <1>3, <1>4

(* Those about to mark a row are publishers that do not still have to send *)
(* it.                                                                     *)
LEMMA MarkingOrYet ==
  ASSUME NEW r \in Rows
  PROVE  Cardinality(Marking(r)) + Cardinality(Yet(r)) <= Cardinality(Publishers)
<1>1. /\ Marking(r) \in SUBSET Publishers
      /\ Yet(r) \in SUBSET Publishers \ Marking(r)
      /\ Publishers \ Marking(r) \in SUBSET Publishers
  BY DEF Marking, Yet
<1>2. Cardinality(Publishers \ Marking(r))
        = Cardinality(Publishers) - Cardinality(Publishers \cap Marking(r))
  BY PublisherAssumption, FS_Difference
<1>3. Publishers \cap Marking(r) = Marking(r)
  BY <1>1
<1>4. Cardinality(Yet(r)) <= Cardinality(Publishers \ Marking(r))
  BY <1>1, Fewer
<1>5. /\ Cardinality(Yet(r)) \in Nat /\ Cardinality(Marking(r)) \in Nat
      /\ Cardinality(Publishers) \in Nat
  BY <1>1, Finite
<1>6. Cardinality(Publishers \ Marking(r))
        = Cardinality(Publishers) - Cardinality(Marking(r))
  BY <1>2, <1>3
<1> DEFINE y == Cardinality(Yet(r))
           m == Cardinality(Marking(r))
           n == Cardinality(Publishers)
<1>7. y <= n - m /\ y \in Nat /\ m \in Nat /\ n \in Nat
  BY <1>4, <1>5, <1>6
<1> HIDE DEF y, m, n
<1>8. m + y <= n
  BY <1>7
<1> QED BY <1>8 DEF y, m, n

(* A step that sends nothing: the count holds if nobody drops out of       *)
(* marking without a disruption, and nobody claims a published row.        *)
LEMMA QuietCount ==
  ASSUME TypeOK, TypeOK', NEW r \in Rows,
         r \notin published =>
           sent[r] <= disruptions + Cardinality(Marking(r)),
         r \in published =>
           sent[r] + Cardinality(Yet(r))
             <= disruptions + Cardinality(Publishers),
         sent'[r] = sent[r],
         r \in published <=> r \in published',
         disruptions <= disruptions',
         \/ Marking(r) \subseteq Marking(r)'
         \/ /\ disruptions < disruptions'
            /\ \E p \in Publishers : Marking(r) \subseteq Marking(r)' \cup {p},
         r \in published => Yet(r)' \subseteq Yet(r)
  PROVE  /\ r \notin published' =>
              sent'[r] <= disruptions' + Cardinality(Marking(r)')
         /\ r \in published' =>
              sent'[r] + Cardinality(Yet(r)')
                <= disruptions' + Cardinality(Publishers)
<1>1. /\ Marking(r) \in SUBSET Publishers /\ Marking(r)' \in SUBSET Publishers
      /\ Yet(r) \in SUBSET Publishers /\ Yet(r)' \in SUBSET Publishers
  BY DEF Marking, Yet
<1> DEFINE m == Cardinality(Marking(r))
           mm == Cardinality(Marking(r)')
           y == Cardinality(Yet(r))
           yy == Cardinality(Yet(r)')
           n == Cardinality(Publishers)
<1>2. m \in Nat /\ mm \in Nat /\ y \in Nat /\ yy \in Nat /\ n \in Nat
  BY <1>1, Finite
<1>3. m <= mm \/ (disruptions < disruptions' /\ m <= mm + 1)
  <2>1. CASE Marking(r) \subseteq Marking(r)'
    BY <1>1, <2>1, Fewer
  <2>2. ASSUME disruptions < disruptions', NEW p \in Publishers,
               Marking(r) \subseteq Marking(r)' \cup {p}
        PROVE  m <= mm + 1
    BY <1>1, <2>2, AtMostOneMore
  <2> QED BY <2>1, <2>2
<1>4. r \in published => yy <= y
  BY <1>1, Fewer
<1>5. /\ sent[r] \in Nat /\ disruptions \in Nat /\ disruptions' \in Nat
  BY BoundAssumption DEF TypeOK
<1>6. /\ r \notin published => sent[r] <= disruptions + m
      /\ r \in published => sent[r] + y <= disruptions + n
  OBVIOUS
<1> HIDE DEF m, mm, y, yy, n
<1>7. /\ r \notin published' => sent'[r] <= disruptions' + mm
      /\ r \in published' => sent'[r] + yy <= disruptions' + n
  BY <1>2, <1>3, <1>4, <1>5, <1>6
<1> QED BY <1>7 DEF mm, yy, n

(* A row that a batch is at is at the head of it, and the only one.        *)
LEMMA OneAtATime ==
  ASSUME TypeOK, NEW p \in Publishers, NEW q \in Rows, NEW r \in Rows,
         WorksOn(p, q), WorksOn(p, r)
  PROVE  q = r
<1>1. q <= r /\ r <= q /\ q \in Nat /\ r \in Nat
  BY RowAssumption DEF WorksOn
<1> QED BY <1>1

(* What becomes of the others when one publisher moves.                    *)
LEMMA OthersStay ==
  ASSUME TypeOK, NEW p \in Publishers, NEW r \in Rows,
         \A q \in Publishers \ {p} : pc'[q] = pc[q] /\ batch'[q] = batch[q]
  PROVE  /\ Marking(r) \ {p} = Marking(r)' \ {p}
         /\ Yet(r) \ {p} = Yet(r)' \ {p}
BY DEF Marking, Yet, WorksOn

(* A row that stays published: fewer may still send it.                    *)
LEMMA PublishedCount ==
  ASSUME TypeOK, TypeOK', NEW r \in Rows,
         r \in published, r \in published',
         sent[r] + Cardinality(Yet(r)) <= disruptions + Cardinality(Publishers),
         sent'[r] = sent[r],
         disruptions <= disruptions',
         Yet(r)' \subseteq Yet(r)
  PROVE  sent'[r] + Cardinality(Yet(r)') <= disruptions' + Cardinality(Publishers)
<1>1. Yet(r) \in SUBSET Publishers /\ Yet(r)' \in SUBSET Publishers
  BY DEF Yet
<1> DEFINE y == Cardinality(Yet(r))
           yy == Cardinality(Yet(r)')
           n == Cardinality(Publishers)
<1>2. y \in Nat /\ yy \in Nat /\ n \in Nat /\ yy <= y
  BY <1>1, Finite, Fewer
<1>3. /\ sent[r] \in Nat /\ disruptions \in Nat /\ disruptions' \in Nat
  BY BoundAssumption DEF TypeOK
<1>4. sent[r] + y <= disruptions + n
  OBVIOUS
<1> HIDE DEF y, yy, n
<1>5. sent'[r] + yy <= disruptions' + n
  BY <1>2, <1>3, <1>4
<1> QED BY <1>5 DEF yy, n

(* A step that sends a message: its publisher is about to mark the row, or *)
(* the step is a disruption.                                               *)
LEMMA SendingCount ==
  ASSUME TypeOK, TypeOK', NEW r \in Rows, NEW p \in Publishers,
         r \notin published =>
           sent[r] <= disruptions + Cardinality(Marking(r)),
         r \in published =>
           sent[r] + Cardinality(Yet(r))
             <= disruptions + Cardinality(Publishers),
         sent'[r] = sent[r] + 1,
         r \in published <=> r \in published',
         Marking(r) \subseteq Marking(r)',
         Yet(r)' \subseteq Yet(r),
         \/ disruptions' = disruptions + 1
         \/ /\ disruptions' = disruptions
            /\ p \in Marking(r)' /\ p \notin Marking(r)
            /\ p \in Yet(r) /\ p \notin Yet(r)'
  PROVE  /\ r \notin published' =>
              sent'[r] <= disruptions' + Cardinality(Marking(r)')
         /\ r \in published' =>
              sent'[r] + Cardinality(Yet(r)')
                <= disruptions' + Cardinality(Publishers)
<1>1. /\ Marking(r) \in SUBSET Publishers /\ Marking(r)' \in SUBSET Publishers
      /\ Yet(r) \in SUBSET Publishers /\ Yet(r)' \in SUBSET Publishers
  BY DEF Marking, Yet
<1> DEFINE m == Cardinality(Marking(r))
           mm == Cardinality(Marking(r)')
           y == Cardinality(Yet(r))
           yy == Cardinality(Yet(r)')
           n == Cardinality(Publishers)
<1>2. m \in Nat /\ mm \in Nat /\ y \in Nat /\ yy \in Nat /\ n \in Nat
  BY <1>1, Finite
<1>3. m <= mm /\ yy <= y
  BY <1>1, Fewer
<1>4. disruptions' = disruptions => m + 1 <= mm /\ yy + 1 <= y
  <2> SUFFICES ASSUME disruptions' = disruptions
               PROVE  m + 1 <= mm /\ yy + 1 <= y
    OBVIOUS
  <2>1. disruptions \in Nat
    BY BoundAssumption DEF TypeOK
  <2>2. /\ p \in Marking(r)' /\ p \notin Marking(r)
        /\ p \in Yet(r) /\ p \notin Yet(r)'
    BY <2>1
  <2>3. m + 1 <= mm
    BY <1>1, <2>2, OneMore
  <2>4. yy + 1 <= y
    BY <1>1, <2>2, OneMore
  <2> QED BY <2>3, <2>4
<1>5. /\ sent[r] \in Nat /\ disruptions \in Nat
      /\ disruptions' = disruptions + 1 \/ disruptions' = disruptions
  BY BoundAssumption DEF TypeOK
<1>6. /\ r \notin published => sent[r] <= disruptions + m
      /\ r \in published => sent[r] + y <= disruptions + n
  OBVIOUS
<1> HIDE DEF m, mm, y, yy, n
<1>7. /\ r \notin published' => sent'[r] <= disruptions' + mm
      /\ r \in published' => sent'[r] + yy <= disruptions' + n
  BY <1>2, <1>3, <1>4, <1>5, <1>6
<1> QED BY <1>7 DEF mm, yy, n

(* A step that marks the row: those that marked are done, or will only     *)
(* mark it again.                                                          *)
LEMMA MarkingCount ==
  ASSUME TypeOK, TypeOK', NEW r \in Rows,
         r \notin published, r \in published',
         sent[r] <= disruptions + Cardinality(Marking(r)),
         sent'[r] = sent[r],
         disruptions <= disruptions',
         Yet(r)' \subseteq Yet(r)
  PROVE  sent'[r] + Cardinality(Yet(r)') <= disruptions' + Cardinality(Publishers)
<1>1. /\ Marking(r) \in SUBSET Publishers
      /\ Yet(r) \in SUBSET Publishers /\ Yet(r)' \in SUBSET Publishers
  BY DEF Marking, Yet
<1> DEFINE m == Cardinality(Marking(r))
           y == Cardinality(Yet(r))
           yy == Cardinality(Yet(r)')
           n == Cardinality(Publishers)
<1>2. m \in Nat /\ y \in Nat /\ yy \in Nat /\ n \in Nat
  BY <1>1, Finite
<1>3. yy <= y /\ m + y <= n
  BY <1>1, Fewer, MarkingOrYet
<1>4. /\ sent[r] \in Nat /\ disruptions \in Nat /\ disruptions' \in Nat
  BY BoundAssumption DEF TypeOK
<1>5. sent[r] <= disruptions + m
  OBVIOUS
<1> HIDE DEF m, y, yy, n
<1>6. sent'[r] + yy <= disruptions' + n
  BY <1>2, <1>3, <1>4, <1>5
<1> QED BY <1>6 DEF yy, n

(* The count of messages is kept by every step.                            *)
LEMMA CountNext ==
  ASSUME TypeOK, TypeOK', MessagesCounted, [Next]_vars
  PROVE  MessagesCounted'
<1> DEFINE Counted(r) ==
             /\ r \notin published' =>
                  sent'[r] <= disruptions' + Cardinality(Marking(r)')
             /\ r \in published' =>
                  sent'[r] + Cardinality(Yet(r)')
                    <= disruptions' + Cardinality(Publishers)
<1> SUFFICES ASSUME NEW r \in Rows PROVE Counted(r)
    BY DEF MessagesCounted
<1>0. /\ r \notin published =>
           sent[r] <= disruptions + Cardinality(Marking(r))
      /\ r \in published =>
           sent[r] + Cardinality(Yet(r))
             <= disruptions + Cardinality(Publishers)
      /\ sent[r] \in Nat /\ disruptions \in Nat
      /\ pc \in [Publishers -> Steps] /\ sent \in [Rows -> Nat]
      /\ batch \in [Publishers -> SUBSET committed]
  BY BoundAssumption DEF MessagesCounted, TypeOK
<1>1. CASE UNCHANGED vars \/ \E q \in Rows : Enqueue(q)
  <2>1. UNCHANGED <<published, sent, batch, pc, disruptions>>
    BY <1>1 DEF vars, Enqueue
  <2>2. Marking(r)' = Marking(r) /\ Yet(r)' = Yet(r)
    BY <2>1 DEF Marking, Yet, WorksOn
  <2>3. sent'[r] = sent[r] /\ published' = published /\ disruptions <= disruptions'
    BY <1>0, <2>1
  <2> QED BY <1>0, <2>2, <2>3, QuietCount
<1>2. ASSUME NEW p \in Publishers,
             \/ PublisherStep(p) \/ ConnectElsewhere(p) \/ Connected(p)
             \/ ConnectFails(p)
             \/ \E q \in Rows : PublishThrows(p, q) \/ MarkPublishedThrows(p, q)
             \/ MarkFailureThrows(p) \/ Crash(p)
      PROVE  Counted(r)
  <2>1. \A q \in Publishers \ {p} : pc'[q] = pc[q] /\ batch'[q] = batch[q]
    BY <1>0, <1>2
       DEF PublisherStep, ClaimBatch, Connect, Publish, Refuse, MarkPublished,
           MarkFailure, ConnectElsewhere, Connected, ConnectFails,
           PublishThrows, MarkPublishedThrows, MarkFailureThrows, Crash,
           Leave, Abort, Goto
  <2>2. /\ Marking(r) \ {p} = Marking(r)' \ {p}
        /\ Yet(r) \ {p} = Yet(r)' \ {p}
    BY <2>1, OthersStay
  <2>3. disruptions' = disruptions \/ disruptions' = disruptions + 1
    BY <1>2
       DEF PublisherStep, ClaimBatch, Connect, Publish, Refuse, MarkPublished,
           MarkFailure, ConnectElsewhere, Connected, ConnectFails,
           PublishThrows, MarkPublishedThrows, MarkFailureThrows, Crash, Disrupt
  <2>4. disruptions <= disruptions'
    BY <1>0, <2>3
  <2>5. p \notin Marking(r) => Marking(r) \subseteq Marking(r)'
    BY <2>2
  <2>6. (p \in Yet(r)' => p \in Yet(r)) => Yet(r)' \subseteq Yet(r)
    BY <2>2
  <2>7. CASE ClaimBatch(p)
    <3>1. /\ pc[p] = "claim" /\ UNCHANGED <<published, sent>>
      BY <2>7 DEF ClaimBatch, At
    <3>2. p \notin Marking(r)
      BY <3>1 DEF Marking
    <3>3. r \in published => p \notin Yet(r)'
      <4>1. PICK rows : /\ rows = committed \ published
                        /\ batch' = [batch EXCEPT ![p] = Oldest(Limit, rows)]
        BY <2>7 DEF ClaimBatch
      <4>2. batch'[p] \subseteq committed \ published
        BY <1>0, <4>1, OldestAreRows
      <4> QED BY <4>2 DEF Yet
    <3> QED BY <1>0, <2>4, <2>5, <2>6, <3>1, <3>2, <3>3, QuietCount
  <2>8. CASE \/ Connect(p) \/ ConnectElsewhere(p) \/ Connected(p)
             \/ ConnectFails(p)
    <3>1. UNCHANGED <<published, sent, batch>>
      BY <2>8 DEF Connect, ConnectElsewhere, Connected, ConnectFails
    <3>2. /\ pc[p] \in {"mark", "fail"} => pc'[p] = pc[p]
          /\ pc'[p] = "mark" => pc[p] = "mark"
      BY <1>0, <2>8
         DEF Connect, ConnectElsewhere, Connected, ConnectFails, Goto, At
    <3>3. /\ p \in Marking(r) => p \in Marking(r)'
          /\ p \in Yet(r)' => p \in Yet(r)
      BY <3>1, <3>2 DEF Marking, Yet, WorksOn
    <3>4. Marking(r) \subseteq Marking(r)'
      BY <2>2, <3>3
    <3> QED BY <1>0, <2>4, <2>6, <3>1, <3>3, <3>4, QuietCount
  <2>9. ASSUME NEW q \in Rows, Publish(p, q)
        PROVE  Counted(r)
    <3>1. /\ pc[p] = "send" /\ pc'[p] = "mark" /\ WorksOn(p, q)
          /\ UNCHANGED <<published, batch, disruptions>>
          /\ sent' = [sent EXCEPT ![q] = @ + 1]
      BY <1>0, <2>9 DEF Publish, At, Goto
    <3>2. p \notin Marking(r) /\ (p \in Yet(r)' => p \in Yet(r))
      BY <3>1 DEF Marking, Yet
    <3>3. CASE q # r
      <4>1. sent'[r] = sent[r]
        BY <1>0, <3>1, <3>3
      <4> QED BY <1>0, <2>4, <2>5, <2>6, <3>1, <3>2, <4>1, QuietCount
    <3>4. CASE q = r
      <4>1. sent'[r] = sent[r] + 1
        BY <1>0, <3>1, <3>4
      <4>2. p \in Marking(r)' /\ p \in Yet(r) /\ p \notin Yet(r)'
        BY <3>1, <3>4 DEF Marking, Yet, WorksOn
      <4> QED BY <1>0, <2>5, <2>6, <3>1, <3>2, <4>1, <4>2, SendingCount
    <3> QED BY <3>3, <3>4
  <2>10. ASSUME NEW q \in Rows, Refuse(p, q)
         PROVE  Counted(r)
    <3>1. pc[p] = "send" /\ UNCHANGED <<published, sent, batch>>
      BY <2>10 DEF Refuse, At
    <3>2. p \notin Marking(r) /\ (p \in Yet(r)' => p \in Yet(r))
      BY <3>1 DEF Marking, Yet
    <3> QED BY <1>0, <2>4, <2>5, <2>6, <3>1, <3>2, QuietCount
  <2>11. ASSUME NEW q \in Rows, MarkPublished(p, q) \/ MarkFailure(p, q)
         PROVE  Counted(r)
    <3>1. /\ WorksOn(p, q) /\ batch'[p] = batch[p] \ {q} /\ sent' = sent
          /\ \/ pc[p] = "mark" /\ published' = published \cup {q}
             \/ pc[p] = "fail" /\ published' = published
      BY <1>0, <2>11 DEF MarkPublished, MarkFailure, Leave, At
    <3>2. p \in Yet(r)' => p \in Yet(r)
      <4>1. p \in Yet(r)' => r \in batch[p] /\ r # q
        BY <3>1 DEF Yet
      <4>2. r # q => ~WorksOn(p, r)
        BY <3>1, OneAtATime
      <4> QED BY <4>1, <4>2 DEF Yet
    <3>3. CASE r \in published' /\ r \notin published
      BY <1>0, <2>4, <2>6, <3>1, <3>2, <3>3, MarkingCount
    <3>4. CASE r \in published
      <4>1. r \in published'
        BY <3>1, <3>4
      <4>2. sent'[r] = sent[r] /\ Yet(r)' \subseteq Yet(r)
        BY <2>6, <3>1, <3>2
      <4> QED BY <1>0, <2>4, <3>4, <4>1, <4>2, PublishedCount
    <3>5. CASE r \notin published' /\ r \notin published
      <4>1. p \notin Marking(r)
        <5>1. CASE pc[p] = "fail"
          BY <5>1 DEF Marking
        <5>2. CASE pc[p] = "mark"
          <6>1. r # q
            BY <3>1, <3>5, <5>2
          <6> QED BY <3>1, <6>1, OneAtATime DEF Marking
        <5> QED BY <3>1, <5>1, <5>2
      <4> QED BY <1>0, <2>4, <2>5, <2>6, <3>1, <3>2, <3>5, <4>1, QuietCount
    <3> QED BY <3>3, <3>4, <3>5
  <2>12. ASSUME NEW q \in Rows, PublishThrows(p, q)
         PROVE  Counted(r)
    <3>1. /\ pc[p] = "send" /\ UNCHANGED <<published, batch>>
          /\ disruptions' = disruptions + 1
          /\ sent' = sent \/ sent' = [sent EXCEPT ![q] = @ + 1]
      BY <2>12 DEF PublishThrows, At, Disrupt
    <3>2. p \notin Marking(r) /\ (p \in Yet(r)' => p \in Yet(r))
      BY <3>1 DEF Marking, Yet
    <3>3. CASE sent'[r] = sent[r]
      BY <1>0, <2>4, <2>5, <2>6, <3>1, <3>2, <3>3, QuietCount
    <3>4. CASE sent'[r] = sent[r] + 1
      BY <1>0, <2>5, <2>6, <3>1, <3>2, <3>4, SendingCount
    <3>5. sent'[r] = sent[r] \/ sent'[r] = sent[r] + 1
      BY <1>0, <3>1
    <3> QED BY <3>3, <3>4, <3>5
  <2>13. ASSUME NEW q \in Rows, MarkPublishedThrows(p, q)
         PROVE  Counted(r)
    <3>1. /\ pc[p] = "mark" /\ pc'[p] = "fail" /\ UNCHANGED <<sent, batch>>
          /\ disruptions' = disruptions + 1
          /\ published' = published \/ published' = published \cup {q}
      BY <1>0, <2>13 DEF MarkPublishedThrows, At, Goto, Disrupt
    <3>2. p \in Yet(r)' => p \in Yet(r)
      BY <3>1 DEF Yet, WorksOn
    <3>3. CASE r \in published' /\ r \notin published
      BY <1>0, <2>4, <2>6, <3>1, <3>2, <3>3, MarkingCount
    <3>4. CASE r \in published <=> r \in published'
      <4>1. disruptions < disruptions' /\ Marking(r) \subseteq Marking(r)' \cup {p}
        BY <1>0, <2>2, <3>1
      <4> QED BY <1>0, <2>4, <2>6, <3>1, <3>2, <3>4, <4>1, QuietCount
    <3> QED BY <3>1, <3>3, <3>4
  <2>14. CASE MarkFailureThrows(p) \/ Crash(p)
    <3>1. /\ UNCHANGED <<published, sent>> /\ batch'[p] = {}
          /\ disruptions' = disruptions + 1
      BY <1>0, <2>14 DEF MarkFailureThrows, Crash, Abort, Disrupt
    <3>2. p \notin Yet(r)'
      BY <3>1 DEF Yet
    <3>3. disruptions < disruptions' /\ Marking(r) \subseteq Marking(r)' \cup {p}
      BY <1>0, <2>2, <3>1
    <3> QED BY <1>0, <2>4, <2>6, <3>1, <3>2, <3>3, QuietCount
  <2> QED BY <1>2, <2>7, <2>8, <2>9, <2>10, <2>11, <2>12, <2>13, <2>14
          DEF PublisherStep
<1> QED BY <1>1, <1>2 DEF Next

-----------------------------------------------------------------------------
(* In every reachable state the invariant holds.                           *)
THEOREM Invariance == Spec => []IInv
<1>1. Init => IInv
  <2> SUFFICES ASSUME Init PROVE IInv
    OBVIOUS
  <2>1. TypeOK
    BY BoundAssumption DEF Init, TypeOK, Steps, Connections
  <2>2. ASSUME NEW r \in Rows
        PROVE  sent[r] <= disruptions + Cardinality(Marking(r))
    <3>1. Cardinality(Marking(r)) \in Nat
      <4>1. Marking(r) \in SUBSET Publishers
        BY DEF Marking
      <4> QED BY <4>1, Finite
    <3>2. sent[r] = 0 /\ disruptions = 0
      BY DEF Init
    <3> QED BY <3>1, <3>2
  <2>3. MessagesCounted
    BY <2>2 DEF Init, MessagesCounted
  <2> QED BY <2>1, <2>3
          DEF Init, IInv, PublishedWasSent, OnlyCommittedSent,
              MarkedAfterSending
<1>2. IInv /\ [Next]_vars => IInv'
  BY TypeNext, SentNext, CommittedNext, CountNext DEF IInv
<1> QED BY <1>1, <1>2, PTL DEF Spec

(* The variables keep their types; in particular only committed rows are   *)
(* ever claimed or marked.                                                 *)
THEOREM TypeCorrect == Spec => []TypeOK
BY Invariance, PTL DEF IInv

(* No row leaves the outbox before Kafka has its message, through any      *)
(* crash, failed statement or concurrent publisher.                        *)
THEOREM NothingLost == Spec => []PublishedWasSent
BY Invariance, PTL DEF IInv

(* No message is about a transaction that has not committed.               *)
THEOREM NothingInvented == Spec => []OnlyCommittedSent
BY Invariance, PTL DEF IInv

(* A message is sent once per publisher and once per disruption at most.   *)
THEOREM FewDuplicates == Spec => []DuplicatesBounded
<1>1. IInv => DuplicatesBounded
  <2> SUFFICES ASSUME IInv, NEW r \in Rows
               PROVE  sent[r] <= Cardinality(Publishers) + disruptions
    BY DEF DuplicatesBounded
  <2>1. /\ Marking(r) \in SUBSET Publishers /\ Yet(r) \in SUBSET Publishers
    BY DEF Marking, Yet
  <2> DEFINE m == Cardinality(Marking(r))
             y == Cardinality(Yet(r))
             n == Cardinality(Publishers)
  <2>2. m \in Nat /\ y \in Nat /\ n \in Nat /\ m <= n
    BY <2>1, Finite
  <2>3. sent[r] \in Nat /\ disruptions \in Nat
    BY BoundAssumption DEF IInv, TypeOK
  <2>4. sent[r] <= disruptions + m \/ sent[r] + y <= disruptions + n
    BY DEF IInv, MessagesCounted
  <2> HIDE DEF m, y, n
  <2>5. sent[r] <= n + disruptions
    BY <2>2, <2>3, <2>4
  <2> QED BY <2>5 DEF n
<1> QED BY <1>1, Invariance, PTL

-----------------------------------------------------------------------------
(* What AtLeastOnce calls delivered, and what it says of one step.         *)
Arrived == {r \in Rows : sent[r] > 0}

OutboxStep == [Outbox!Next]_(Outbox!vars)

(* A row that is about to be marked, and every marked one, has arrived.    *)
LEMMA MarkedHasArrived ==
  ASSUME TypeOK, PublishedWasSent, MarkedAfterSending
  PROVE  /\ published \subseteq Arrived
         /\ \A p \in Publishers, r \in Rows :
              pc[p] = "mark" /\ WorksOn(p, r) => r \in Arrived
BY DEF TypeOK, PublishedWasSent, MarkedAfterSending, Arrived

(* A send that reaches Kafka delivers its row, for the first time or again. *)
LEMMA SendDelivers ==
  ASSUME TypeOK, PublishedWasSent, MarkedAfterSending,
         NEW p \in Publishers, NEW r \in Rows, WorksOn(p, r),
         sent' = [sent EXCEPT ![r] = @ + 1], UNCHANGED <<committed, published>>
  PROVE  Outbox!Deliver(r)
<1>1. r \in committed
  BY DEF WorksOn, TypeOK
<1>2. Arrived' = Arrived \cup {r}
  <2>1. \A q \in Rows : sent[q] \in Nat /\ sent'[q] = IF q = r THEN sent[r] + 1 ELSE sent[q]
    BY DEF TypeOK
  <2> QED BY <2>1 DEF Arrived
<1> QED
  BY <1>1, <1>2, MarkedHasArrived DEF Outbox!Deliver, Outbox!Settle, Arrived

(* Marking a row settles it.                                               *)
LEMMA MarkSettles ==
  ASSUME TypeOK, PublishedWasSent, MarkedAfterSending,
         NEW p \in Publishers, NEW r \in Rows, pc[p] = "mark", WorksOn(p, r),
         published' = published \cup {r}, UNCHANGED <<committed, sent>>
  PROVE  OutboxStep
BY MarkedHasArrived DEF OutboxStep, Outbox!Next, Outbox!Settle, Arrived

LEMMA UntouchedStutters ==
  ASSUME UNCHANGED <<committed, published, sent>>
  PROVE  OutboxStep
BY DEF OutboxStep, Outbox!vars

LEMMA StepDelivers == IInv /\ [Next]_vars => OutboxStep
<1> SUFFICES ASSUME IInv, [Next]_vars PROVE OutboxStep
  OBVIOUS
<1>0. TypeOK /\ PublishedWasSent /\ MarkedAfterSending
  BY DEF IInv
<1>1. ASSUME NEW r \in Rows, Enqueue(r) PROVE OutboxStep
  <2>1. Outbox!Accept(r)
    BY <1>1 DEF Enqueue, Outbox!Accept
  <2> QED BY <2>1 DEF OutboxStep, Outbox!Next
<1>2. ASSUME NEW p \in Publishers, NEW r \in Rows,
             Publish(p, r) \/ PublishThrows(p, r)
      PROVE  OutboxStep
  <2>1. CASE UNCHANGED sent
    BY <1>2, <2>1, UntouchedStutters DEF Publish, PublishThrows
  <2>2. CASE sent' = [sent EXCEPT ![r] = @ + 1]
    <3>1. Outbox!Deliver(r)
      BY <1>0, <1>2, <2>2, SendDelivers DEF Publish, PublishThrows
    <3> QED BY <3>1 DEF OutboxStep, Outbox!Next
  <2> QED BY <1>2, <2>1, <2>2 DEF Publish, PublishThrows
<1>3. ASSUME NEW p \in Publishers, NEW r \in Rows,
             MarkPublished(p, r) \/ MarkPublishedThrows(p, r)
      PROVE  OutboxStep
  <2>1. /\ pc[p] = "mark" /\ WorksOn(p, r) /\ UNCHANGED <<committed, sent>>
        /\ published' = published \/ published' = published \cup {r}
    BY <1>3 DEF MarkPublished, MarkPublishedThrows, At
  <2> QED BY <1>0, <2>1, MarkSettles, UntouchedStutters
<1>4. ASSUME NEW p \in Publishers,
             \/ ClaimBatch(p) \/ Connect(p) \/ ConnectElsewhere(p)
             \/ Connected(p) \/ ConnectFails(p) \/ MarkFailureThrows(p) \/ Crash(p)
             \/ \E r \in Rows : Refuse(p, r) \/ MarkFailure(p, r)
      PROVE  OutboxStep
  BY <1>4, UntouchedStutters
     DEF ClaimBatch, Connect, ConnectElsewhere, Connected, ConnectFails,
         MarkFailureThrows, Crash, Refuse, MarkFailure
<1>5. CASE UNCHANGED vars
  BY <1>5, UntouchedStutters DEF vars
<1> QED BY <1>1, <1>2, <1>3, <1>4, <1>5 DEF Next, PublisherStep

(* The outbox delivers at least once: it implements AtLeastOnce, whatever  *)
(* its publishers, their connections and the disruptions do.               *)
THEOREM ImplementsDelivery == Spec => OutboxDelivers
<1>1. Init => Outbox!Init
  BY DEF Init, Outbox!Init
<1>2. IInv /\ [Next]_vars => [Outbox!Next]_(Outbox!vars)
  BY StepDelivers DEF OutboxStep
<1> QED BY <1>1, <1>2, Invariance, PTL DEF Spec, OutboxDelivers, Outbox!Spec
=============================================================================

----------------------- MODULE ObjectWalContractProofs -----------------------
(***************************************************************************)
(* ObjectWal implements Wal, for every value of its constants.  The proof  *)
(* reads the log of one writer as the batches of Wal (how many records a   *)
(* bulk holds, and what sealing, submitting and uploading do to the queue  *)
(* of bulks), then adds the invariant of the trims: that the offset of a   *)
(* trim is below the confirm offset needs how many records a bulk holds    *)
(* and what has happened before the reset of a recovered log.              *)
(***************************************************************************)
EXTENDS ObjectWalContract, ObjectWalProofs, FiniteSetTheorems

Counted(b) == IsFiniteSet(b.recs) /\ Cardinality(b.recs) <= b.size

Sizes(e) == Counted(active[e]) /\ \A i \in DOMAIN bulks[e] : Counted(bulks[e][i])

-----------------------------------------------------------------------------
(* Queues of bulks that grow without losing or answering one.              *)

Extends(bs, new) ==
  /\ Len(new) >= Len(bs)
  /\ \A i \in DOMAIN bs :
       /\ new[i].base = bs[i].base /\ new[i].size = bs[i].size /\ new[i].recs = bs[i].recs
       /\ new[i].st = bs[i].st \/ (new[i].st \notin Answer /\ bs[i].st \notin Answer)
  /\ \A i \in DOMAIN new : i > Len(bs) => new[i].st \notin Answer

AllCounted(bs) == \A i \in DOMAIN bs : Counted(bs[i])
AllBelow(bs, fl) == \A i \in DOMAIN bs : bs[i].st = "acked" => EndOffset(bs[i]) <= fl

\* A queue extends itself.
LEMMA ExtendsSelf ==
  ASSUME NEW bs \in Seq(Bulk)
  PROVE  Extends(bs, bs)
BY DEF Extends

\* Extending twice.
LEMMA ExtendsTwice ==
  ASSUME NEW a \in Seq(Bulk), NEW b \in Seq(Bulk), NEW c \in Seq(Bulk),
         Extends(a, b), Extends(b, c)
  PROVE  Extends(a, c)
<1>1. /\ Len(a) \in Nat /\ Len(b) \in Nat /\ Len(c) \in Nat
      /\ DOMAIN a = 1 .. Len(a) /\ DOMAIN b = 1 .. Len(b) /\ DOMAIN c = 1 .. Len(c)
  OBVIOUS
<1>2. Len(b) >= Len(a) /\ Len(c) >= Len(b) BY Zenon DEF Extends
<1>3. Len(c) >= Len(a) BY <1>1, <1>2
<1>4. ASSUME NEW i \in DOMAIN a
      PROVE  /\ c[i].base = a[i].base /\ c[i].size = a[i].size /\ c[i].recs = a[i].recs
             /\ c[i].st = a[i].st \/ (c[i].st \notin Answer /\ a[i].st \notin Answer)
  <2>1. i \in DOMAIN b BY <1>1, <1>2
  <2>. QED BY <2>1, Zenon DEF Extends
<1>5. ASSUME NEW i \in DOMAIN c, i > Len(a) PROVE c[i].st \notin Answer
  <2>1. CASE i > Len(b) BY <2>1, Zenon DEF Extends
  <2>2. CASE ~(i > Len(b))
    <3>1. i \in DOMAIN b BY <1>1, <2>2
    <3>. QED BY <1>5, <3>1, Zenon DEF Extends
  <2>. QED BY <2>1, <2>2, Zenon
<1>. QED BY <1>3, <1>4, <1>5, Zenon DEF Extends

\* A sealed bulk goes behind the others (seal_active).
LEMMA ExtendsAppend ==
  ASSUME NEW bs \in Seq(Bulk), NEW b \in Bulk, b.st = "waiting"
  PROVE  /\ Extends(bs, Append(bs, b))
         /\ AllCounted(bs) /\ Counted(b) => AllCounted(Append(bs, b))
<1> DEFINE new == Append(bs, b)
<1>1. /\ Len(bs) \in Nat /\ DOMAIN bs = 1 .. Len(bs)
      /\ Len(new) = Len(bs) + 1 /\ DOMAIN new = 1 .. (Len(bs) + 1)
      /\ new[Len(bs) + 1] = b /\ \A i \in 1 .. Len(bs) : new[i] = bs[i]
  OBVIOUS
<1> HIDE DEF new
<1>2. Extends(bs, new) BY <1>1 DEF Extends, Answer
<1>3. AllCounted(bs) /\ Counted(b) => AllCounted(new)
  <2> SUFFICES ASSUME AllCounted(bs), Counted(b), NEW i \in DOMAIN new PROVE Counted(new[i])
    BY Zenon DEF AllCounted
  <2>1. CASE i = Len(bs) + 1 BY <1>1, <2>1, Zenon
  <2>2. CASE i # Len(bs) + 1
    <3>1. i \in DOMAIN bs BY <1>1, <2>2
    <3>. QED BY <1>1, <3>1, Zenon DEF AllCounted
  <2>. QED BY <2>1, <2>2, Zenon
<1>. QED BY <1>2, <1>3, Zenon DEF new

\* Bulks are taken to be uploaded (try_upload_waiting).
LEMMA ExtendsUpload ==
  ASSUME NEW bs \in Seq(Bulk), NEW taken \in Nat
  PROVE  Extends(bs, try_upload_waiting(bs, taken))
<1> DEFINE new == try_upload_waiting(bs, taken)
<1>1. /\ Len(bs) \in Nat /\ DOMAIN bs = 1 .. Len(bs)
      /\ Len(new) = Len(bs) /\ DOMAIN new = DOMAIN bs
      /\ \A i \in DOMAIN bs :
           /\ new[i].base = bs[i].base /\ new[i].size = bs[i].size /\ new[i].recs = bs[i].recs
           /\ \/ new[i].st = bs[i].st
              \/ bs[i].st = "waiting" /\ new[i].st = "spawned"
  BY UploadWaiting
<1> HIDE DEF new
<1>2. Extends(bs, new) BY <1>1 DEF Extends, Answer
<1>. QED BY <1>2, Zenon DEF new

\* What an extended queue keeps.
LEMMA ExtendsKeeps ==
  ASSUME NEW bs \in Seq(Bulk), NEW new \in Seq(Bulk), NEW fl, Extends(bs, new)
  PROVE  /\ HasFailed(new) <=> HasFailed(bs)
         /\ AllBelow(bs, fl) => AllBelow(new, fl)
<1>1. /\ Len(bs) \in Nat /\ Len(new) \in Nat
      /\ DOMAIN bs = 1 .. Len(bs) /\ DOMAIN new = 1 .. Len(new)
  OBVIOUS
<1>2. \A i \in DOMAIN bs : i \in DOMAIN new BY <1>1 DEF Extends
<1>3. \A i \in DOMAIN new : new[i].st \in Answer => i \in DOMAIN bs /\ bs[i].st = new[i].st
  BY <1>1 DEF Extends
<1>4. \A i \in DOMAIN bs : EndOffset(new[i]) = EndOffset(bs[i]) BY Zenon DEF Extends, EndOffset
<1>5. HasFailed(new) <=> HasFailed(bs)
  <2>1. HasFailed(new) => HasFailed(bs) BY <1>3, Zenon DEF HasFailed, Answer
  <2>2. HasFailed(bs) => HasFailed(new) BY <1>2, Zenon DEF HasFailed, Answer, Extends
  <2>. QED BY <2>1, <2>2, Zenon
<1>6. AllBelow(bs, fl) => AllBelow(new, fl) BY <1>3, <1>4, Zenon DEF AllBelow, Answer
<1>. QED BY <1>5, <1>6, Zenon

-----------------------------------------------------------------------------
(* The log that a queue and an accumulating bulk make up.                  *)

Accumulating == [recs : SUBSET Rec, size : Nat]

\* What is in a log.
LEMMA LogMember ==
  ASSUME NEW bs \in Seq(Bulk), NEW a \in Accumulating, NEW p
  PROVE  p \in LogOf(bs, a) <=>
           \/ \E i \in DOMAIN bs : p \in {i} \X bs[i].recs
           \/ p \in {Len(bs) + 1} \X a.recs
BY Zenon DEF LogOf

\* Queues with the same records make up the same log.
LEMMA LogSame ==
  ASSUME NEW bs \in Seq(Bulk), NEW new \in Seq(Bulk), NEW a \in Accumulating,
         Len(new) = Len(bs), \A i \in DOMAIN bs : new[i].recs = bs[i].recs
  PROVE  LogOf(new, a) = LogOf(bs, a) /\ BatchCount(new, a) = BatchCount(bs, a)
<1>1. DOMAIN new = DOMAIN bs OBVIOUS
<1>2. \A i \in DOMAIN bs : new[i].recs = bs[i].recs BY Zenon
<1>3. \A p : p \in LogOf(new, a) <=> p \in LogOf(bs, a)
  <2> SUFFICES ASSUME NEW p PROVE p \in LogOf(new, a) <=> p \in LogOf(bs, a)
    BY Zenon
  <2>1. /\ p \in LogOf(new, a) <=> \/ \E i \in DOMAIN new : p \in {i} \X new[i].recs
                                   \/ p \in {Len(new) + 1} \X a.recs
        /\ p \in LogOf(bs, a) <=> \/ \E i \in DOMAIN bs : p \in {i} \X bs[i].recs
                                  \/ p \in {Len(bs) + 1} \X a.recs
    BY LogMember, Zenon
  <2>. QED BY <1>1, <1>2, <2>1, Zenon
<1>. QED BY <1>3, Zenon DEF BatchCount

\* Sealing moves no record (seal_active).
LEMMA LogSealed ==
  ASSUME NEW bs \in Seq(Bulk), NEW a \in Accumulating, a.size > 0,
         NEW b \in Bulk, b.recs = a.recs
  PROVE  /\ LogOf(Append(bs, b), NoBulk) = LogOf(bs, a)
         /\ BatchCount(Append(bs, b), NoBulk) = BatchCount(bs, a)
<1> DEFINE new == Append(bs, b)
           n == Len(bs)
<1>1. /\ n \in Nat /\ DOMAIN bs = 1 .. n /\ new \in Seq(Bulk)
      /\ Len(new) = n + 1 /\ DOMAIN new = 1 .. (n + 1)
      /\ new[n + 1] = b /\ \A i \in 1 .. n : new[i] = bs[i]
  OBVIOUS
<1>2. NoBulk \in Accumulating /\ NoBulk.recs = {} /\ NoBulk.size = 0
  BY Zenon DEF NoBulk, Accumulating
<1>3. DOMAIN new = DOMAIN bs \cup {n + 1} BY <1>1
<1>4. n + 1 \notin DOMAIN bs BY <1>1
<1>5. \A i \in DOMAIN bs : new[i].recs = bs[i].recs BY <1>1, Zenon
<1>6. new[n + 1].recs = a.recs BY <1>1, Zenon
<1> HIDE DEF new
<1>7. \A p : p \in LogOf(new, NoBulk) <=> p \in LogOf(bs, a)
  <2> SUFFICES ASSUME NEW p PROVE p \in LogOf(new, NoBulk) <=> p \in LogOf(bs, a)
    BY Zenon
  <2>1. p \in LogOf(bs, a) <=> \/ \E i \in DOMAIN bs : p \in {i} \X bs[i].recs
                               \/ p \in {n + 1} \X a.recs
    BY LogMember, Zenon
  <2>2. p \in LogOf(new, NoBulk) <=> \/ \E i \in DOMAIN new : p \in {i} \X new[i].recs
                                     \/ p \in {Len(new) + 1} \X NoBulk.recs
    BY <1>1, <1>2, LogMember, Zenon
  <2>3. p \notin {Len(new) + 1} \X NoBulk.recs BY <1>2, Zenon
  <2>4. (\E i \in DOMAIN new : p \in {i} \X new[i].recs)
          <=> \/ \E i \in DOMAIN bs : p \in {i} \X new[i].recs
              \/ p \in {n + 1} \X new[n + 1].recs
    BY <1>3, Zenon
  <2>5. (\E i \in DOMAIN bs : p \in {i} \X new[i].recs)
          <=> \E i \in DOMAIN bs : p \in {i} \X bs[i].recs
    BY <1>5, Zenon
  <2>. QED BY <1>6, <2>1, <2>2, <2>3, <2>4, <2>5, Zenon
<1>8. LogOf(new, NoBulk) = LogOf(bs, a) BY <1>7, Zenon
<1>9. BatchCount(new, NoBulk) = BatchCount(bs, a)
  BY <1>1, <1>2 DEF BatchCount, Accumulating
<1>. QED BY <1>8, <1>9, Zenon DEF new

\* A record joins the accumulating bulk (submit).
LEMMA LogPut ==
  ASSUME NEW bs \in Seq(Bulk), NEW a \in Accumulating, NEW b \in Accumulating, NEW r \in Rec,
         b.recs = a.recs \cup {r}
  PROVE  LogOf(bs, b) = LogOf(bs, a) \cup {<<Len(bs) + 1, r>>}
<1>1. \A p : p \in LogOf(bs, b) <=> p \in LogOf(bs, a) \cup {<<Len(bs) + 1, r>>}
  <2> SUFFICES ASSUME NEW p
               PROVE  p \in LogOf(bs, b) <=> p \in LogOf(bs, a) \cup {<<Len(bs) + 1, r>>}
    BY Zenon
  <2> DEFINE m == Len(bs) + 1
  <2>1. /\ p \in LogOf(bs, b) <=> \/ \E i \in DOMAIN bs : p \in {i} \X bs[i].recs
                                  \/ p \in {m} \X b.recs
        /\ p \in LogOf(bs, a) <=> \/ \E i \in DOMAIN bs : p \in {i} \X bs[i].recs
                                  \/ p \in {m} \X a.recs
    BY LogMember, Zenon
  <2> HIDE DEF m
  <2>2. p \in {m} \X (a.recs \cup {r}) <=> p \in {m} \X a.recs \/ p = <<m, r>>
    OBVIOUS
  <2>. QED BY <2>1, <2>2, Zenon DEF m
<1>. QED BY <1>1, Zenon

-----------------------------------------------------------------------------
(* How many records a bulk holds.                                          *)

\* The empty bulk.
LEMMA NoBulkCounted == NoBulk \in Accumulating /\ Counted(NoBulk)
BY FS_EmptySet DEF NoBulk, Counted, Accumulating

\* One more record (submit).
LEMMA CountedPut ==
  ASSUME NEW a \in Accumulating, NEW b \in Accumulating, NEW r \in Rec, Counted(a),
         b.recs = a.recs \cup {r}, b.size = a.size + 1
  PROVE  Counted(b)
<1>1. IsFiniteSet(a.recs) /\ Cardinality(a.recs) <= a.size BY Zenon DEF Counted
<1>2. Cardinality(a.recs) \in Nat BY <1>1, FS_CardinalityType, Zenon
<1>3. /\ IsFiniteSet(a.recs \cup {r})
      /\ Cardinality(a.recs \cup {r}) =
           IF r \in a.recs THEN Cardinality(a.recs) ELSE Cardinality(a.recs) + 1
  BY <1>1, FS_AddElement, Zenon
<1>4. a.size \in Nat BY Zenon DEF Accumulating
<1>. QED BY <1>1, <1>2, <1>3, <1>4 DEF Counted

\* The offset of a record lies below the end of its bulk (upload_bulk).
LEMMA OffsetBelowEnd ==
  ASSUME NEW b \in Bulk, Counted(b), NEW r \in b.recs
  PROVE  RecordOffset(b, r) \in Nat /\ RecordOffset(b, r) < EndOffset(b)
<1> DEFINE S == {q \in b.recs : RecordBefore(q, r)}
<1>1. b.recs \in SUBSET Rec /\ b.base \in Nat /\ b.size \in Nat BY Zenon DEF Bulk
<1>2. r \in Rec BY <1>1, Zenon
<1>3. r[2] \in Nat /\ r[3] \in Nat BY <1>2, ConstantsAssumption, Zenon DEF Rec
<1>4. ~RecordBefore(r, r) BY <1>3 DEF RecordBefore
<1>5. S \in SUBSET (b.recs \ {r}) BY <1>4, Zenon
<1>6. IsFiniteSet(b.recs) /\ Cardinality(b.recs) <= b.size BY Zenon DEF Counted
<1>7. /\ IsFiniteSet(b.recs \ {r})
      /\ Cardinality(b.recs \ {r}) = Cardinality(b.recs) - 1
  BY <1>6, FS_RemoveElement, Zenon
<1>8. IsFiniteSet(S) /\ Cardinality(S) <= Cardinality(b.recs \ {r})
  BY <1>5, <1>7, FS_Subset, Zenon
<1>9. Cardinality(S) \in Nat /\ Cardinality(b.recs) \in Nat
  BY <1>6, <1>8, FS_CardinalityType, Zenon
<1>10. EndOffset(b) \in Nat /\ EndOffset(b) >= b.base + b.size BY BulkOffsets, Zenon
<1>11. RecordOffset(b, r) = b.base + Cardinality(S) BY Zenon DEF RecordOffset
<1> HIDE DEF S
<1>. QED BY <1>1, <1>6, <1>7, <1>8, <1>9, <1>10, <1>11

-----------------------------------------------------------------------------
(* What sealing and submitting do to the log.                              *)

\* The sealed bulk takes the place of the accumulating one (seal_active).
LEMMA SealPlaced ==
  ASSUME NEW bs \in Seq(Bulk), NEW a \in Accumulating, a.size > 0, Counted(a),
         AllCounted(bs), NEW base \in Nat
  PROVE  LET new == Append(bs, Sealed(base, a))
         IN  /\ new \in Seq(Bulk) /\ Len(new) = Len(bs) + 1
             /\ Extends(bs, new) /\ AllCounted(new)
             /\ LogOf(new, NoBulk) = LogOf(bs, a)
             /\ BatchCount(new, NoBulk) = BatchCount(bs, a)
<1> DEFINE b == Sealed(base, a)
<1>1. b \in Bulk BY SealedType, Zenon DEF Accumulating
<1>2. b.recs = a.recs /\ b.size = a.size /\ b.st = "waiting" BY Zenon DEF Sealed
<1>3. Counted(b) BY <1>2, Zenon DEF Counted
<1> HIDE DEF b
<1>4. Append(bs, b) \in Seq(Bulk) /\ Len(Append(bs, b)) = Len(bs) + 1 BY <1>1
<1>5. Extends(bs, Append(bs, b)) /\ AllCounted(Append(bs, b))
  BY <1>1, <1>2, <1>3, ExtendsAppend, Zenon
<1>6. /\ LogOf(Append(bs, b), NoBulk) = LogOf(bs, a)
      /\ BatchCount(Append(bs, b), NoBulk) = BatchCount(bs, a)
  BY <1>1, <1>2, LogSealed, Zenon
<1>. QED BY <1>4, <1>5, <1>6, Zenon DEF b

\* Starting uploads moves no record (try_upload_waiting).
LEMMA UploadPlaced ==
  ASSUME NEW bs \in Seq(Bulk), NEW taken \in Nat, AllCounted(bs)
  PROVE  LET new == try_upload_waiting(bs, taken)
         IN  /\ new \in Seq(Bulk) /\ Len(new) = Len(bs)
             /\ Extends(bs, new) /\ AllCounted(new)
             /\ \A a \in Accumulating : /\ LogOf(new, a) = LogOf(bs, a)
                                        /\ BatchCount(new, a) = BatchCount(bs, a)
<1> DEFINE new == try_upload_waiting(bs, taken)
<1>1. new \in Seq(Bulk) /\ Len(new) = Len(bs) /\ DOMAIN new = DOMAIN bs BY UploadWaiting, Zenon
<1>2. Extends(bs, new) BY ExtendsUpload, Zenon
<1> HIDE DEF new
<1>3. AllCounted(new) BY <1>1, <1>2, Zenon DEF AllCounted, Extends, Counted
<1>4. ASSUME NEW a \in Accumulating
      PROVE  LogOf(new, a) = LogOf(bs, a) /\ BatchCount(new, a) = BatchCount(bs, a)
  <2>1. \A i \in DOMAIN bs : new[i].recs = bs[i].recs BY <1>2, Zenon DEF Extends
  <2>. QED BY <1>1, <2>1, LogSame, Zenon
<1>. QED BY <1>1, <1>2, <1>3, <1>4, Zenon DEF new

\* A bulk that changes its state moves no record (upload_bulk, complete_bulk).
LEMMA BulkReplaced ==
  ASSUME NEW bs \in Seq(Bulk), NEW new \in Seq(Bulk), AllCounted(bs), Len(new) = Len(bs),
         \A j \in DOMAIN bs :
           new[j].base = bs[j].base /\ new[j].size = bs[j].size /\ new[j].recs = bs[j].recs
  PROVE  /\ AllCounted(new) /\ DOMAIN new = DOMAIN bs
         /\ \A a \in Accumulating : LogOf(new, a) = LogOf(bs, a)
         /\ \A a \in Accumulating : BatchCount(new, a) = BatchCount(bs, a)
<1>1. DOMAIN new = DOMAIN bs /\ DOMAIN bs = 1 .. Len(bs) /\ Len(bs) \in Nat OBVIOUS
<1>2. AllCounted(new) BY <1>1, Zenon DEF AllCounted, Counted
<1>3. ASSUME NEW a \in Accumulating
      PROVE  LogOf(new, a) = LogOf(bs, a) /\ BatchCount(new, a) = BatchCount(bs, a)
  <2>1. \A j \in DOMAIN bs : new[j].recs = bs[j].recs BY Zenon
  <2>. QED BY <2>1, LogSame, Zenon
<1>. QED BY <1>1, <1>2, <1>3, Zenon

\* ... and extends the queue if it was not answered and is not answered (upload_bulk).
LEMMA BulkUploads ==
  ASSUME NEW bs \in Seq(Bulk), NEW new \in Seq(Bulk), Len(new) = Len(bs),
         \A j \in DOMAIN bs :
           new[j].base = bs[j].base /\ new[j].size = bs[j].size /\ new[j].recs = bs[j].recs,
         \A j \in DOMAIN bs :
           new[j].st = bs[j].st \/ (new[j].st \notin Answer /\ bs[j].st \notin Answer)
  PROVE  Extends(bs, new)
<1>1. Len(bs) \in Nat /\ DOMAIN bs = 1 .. Len(bs) /\ DOMAIN new = DOMAIN bs OBVIOUS
<1>. QED BY <1>1 DEF Extends

\* seal_active as a whole.
LEMMA SealStep ==
  ASSUME TypeOK, NEW e \in Epochs, active[e].size > 0, Sizes(e), seal_active(e)
  PROVE  /\ active'[e] = NoBulk
         /\ Extends(bulks[e], bulks'[e]) /\ AllCounted(bulks'[e])
         /\ LogOf(bulks'[e], active'[e]) = LogOf(bulks[e], active[e])
         /\ BatchCount(bulks'[e], active'[e]) = BatchCount(bulks[e], active[e])
<1> DEFINE q == Append(bulks[e], Sealed(next[e], active[e]))
           new == try_upload_waiting(q, popped[e])
<1>1. /\ bulks[e] \in Seq(Bulk) /\ next[e] \in Nat /\ popped[e] \in Nat
      /\ active[e] \in Accumulating
      /\ bulks \in [Epochs -> Seq(Bulk)]
      /\ active \in [Epochs -> Accumulating]
  BY Zenon DEF TypeOK, Accumulating
<1>2. Counted(active[e]) /\ AllCounted(bulks[e]) BY Zenon DEF Sizes, AllCounted
<1>3. bulks'[e] = new /\ active'[e] = NoBulk BY <1>1, Zenon DEF seal_active
<1>4. /\ q \in Seq(Bulk) /\ Extends(bulks[e], q) /\ AllCounted(q)
      /\ LogOf(q, NoBulk) = LogOf(bulks[e], active[e])
      /\ BatchCount(q, NoBulk) = BatchCount(bulks[e], active[e])
  BY <1>1, <1>2, SealPlaced, Zenon
<1> HIDE DEF q
<1>5. NoBulk \in Accumulating BY NoBulkCounted, Zenon
<1>6. /\ new \in Seq(Bulk) /\ Extends(q, new) /\ AllCounted(new)
      /\ LogOf(new, NoBulk) = LogOf(q, NoBulk)
      /\ BatchCount(new, NoBulk) = BatchCount(q, NoBulk)
  BY <1>1, <1>4, <1>5, UploadPlaced, Zenon
<1> HIDE DEF new
<1>7. Extends(bulks[e], new) BY <1>1, <1>4, <1>6, ExtendsTwice, Zenon
<1>. QED BY <1>3, <1>4, <1>6, <1>7, Zenon

\* The locked section of submit puts the record behind all the others: into the last
\* batch or into a new one (submit).
LEMMA SubmitStep ==
  ASSUME TypeOK, NEW e \in Epochs, NEW r \in Rec, Sizes(e), Submit(e, r)
  PROVE  /\ Extends(bulks[e], bulks'[e]) /\ AllCounted(bulks'[e]) /\ Counted(active'[e])
         /\ \E n \in {BatchCount(bulks[e], active[e]), BatchCount(bulks[e], active[e]) + 1} :
              /\ Len(bulks[e]) < n
              /\ BatchCount(bulks'[e], active'[e]) = n
              /\ LogOf(bulks'[e], active'[e]) = LogOf(bulks[e], active[e]) \cup {<<n, r>>}
<1> DEFINE q == QueueFor(e)
           a == IF Fits(e) THEN active[e] ELSE NoBulk
           b == BulkWith(e, r)
           n == Len(q) + 1
<1>1. /\ bulks[e] \in Seq(Bulk) /\ next[e] \in Nat /\ popped[e] \in Nat
      /\ active[e] \in Accumulating
      /\ bulks \in [Epochs -> Seq(Bulk)]
      /\ active \in [Epochs -> Accumulating]
  BY Zenon DEF TypeOK, Accumulating
<1>2. Counted(active[e]) /\ AllCounted(bulks[e]) BY Zenon DEF Sizes, AllCounted
<1>3. /\ q \in Seq(Bulk) /\ BaseFor(e) \in Nat /\ b \in Accumulating /\ b.size > 0
  BY PlaceTyped, Zenon DEF Accumulating
<1>4. /\ Extends(bulks[e], q) /\ AllCounted(q) /\ a \in Accumulating /\ Counted(a)
      /\ LogOf(q, a) = LogOf(bulks[e], active[e])
      /\ BatchCount(q, a) = BatchCount(bulks[e], active[e])
      /\ b.recs = a.recs \cup {r} /\ b.size = a.size + 1
  <2>1. CASE Fits(e)
    <3>1. q = bulks[e] /\ a = active[e] BY <2>1, Zenon DEF QueueFor
    <3>2. b.recs = active[e].recs \cup {r} /\ b.size = active[e].size + 1
      BY <2>1, Zenon DEF BulkWith
    <3>3. Extends(bulks[e], bulks[e]) BY <1>1, ExtendsSelf, Zenon
    <3> HIDE DEF q, a, b
    <3>. QED BY <1>1, <1>2, <3>1, <3>2, <3>3, Zenon
  <2>2. CASE ~Fits(e)
    <3>1. q = Append(bulks[e], Sealed(next[e], active[e])) /\ a = NoBulk
      BY <2>2, Zenon DEF QueueFor
    <3>2. b.recs = NoBulk.recs \cup {r} /\ b.size = NoBulk.size + 1
      BY <2>2 DEF BulkWith, NoBulk
    <3>3. active[e].size > 0 BY <1>1, <2>2, ConstantsAssumption DEF Fits, Accumulating
    <3> HIDE DEF q, a, b
    <3>4. /\ Extends(bulks[e], q) /\ AllCounted(q)
          /\ LogOf(q, NoBulk) = LogOf(bulks[e], active[e])
          /\ BatchCount(q, NoBulk) = BatchCount(bulks[e], active[e])
      BY <1>1, <1>2, <3>1, <3>3, SealPlaced, Zenon
    <3>. QED BY <3>1, <3>2, <3>4, NoBulkCounted, Zenon
  <2>. QED BY <2>1, <2>2, Zenon
<1>5. Len(q) \in Nat /\ Len(bulks[e]) \in Nat BY <1>1, <1>3
<1>6. Len(bulks[e]) < n BY <1>4, <1>5 DEF Extends
<1>7. n \in {BatchCount(q, a), BatchCount(q, a) + 1}
  <2> HIDE DEF q, a
  <2>. QED BY <1>5 DEF BatchCount
<1>8. BatchCount(q, b) = n
  <2> HIDE DEF q, b
  <2>. QED BY <1>3, <1>5, Zenon DEF BatchCount
<1>9. LogOf(q, b) = LogOf(q, a) \cup {<<n, r>>}
  <2> HIDE DEF q, a, b
  <2>. QED BY <1>3, <1>4, LogPut
<1>10. Counted(b)
  <2> HIDE DEF q, a, b
  <2>. QED BY <1>3, <1>4, CountedPut, Zenon
<1>11. /\ Extends(bulks[e], bulks'[e]) /\ AllCounted(bulks'[e]) /\ Counted(active'[e])
       /\ BatchCount(bulks'[e], active'[e]) = BatchCount(q, b)
       /\ LogOf(bulks'[e], active'[e]) = LogOf(q, b)
  <2>1. CASE SealsAtOnce(e, r)
    <3> DEFINE q1 == Append(q, Sealed(BaseFor(e), b))
               q2 == try_upload_waiting(q1, popped[e])
    <3>1. bulks'[e] = q2 /\ active'[e] = NoBulk BY <1>1, <2>1, Zenon DEF Submit
    <3> HIDE DEF q, a, b
    <3>2. /\ q1 \in Seq(Bulk) /\ Extends(q, q1) /\ AllCounted(q1)
          /\ LogOf(q1, NoBulk) = LogOf(q, b) /\ BatchCount(q1, NoBulk) = BatchCount(q, b)
      BY <1>3, <1>4, <1>10, SealPlaced, Zenon
    <3> HIDE DEF q1
    <3>3. /\ q2 \in Seq(Bulk) /\ Extends(q1, q2) /\ AllCounted(q2)
          /\ LogOf(q2, NoBulk) = LogOf(q1, NoBulk)
          /\ BatchCount(q2, NoBulk) = BatchCount(q1, NoBulk)
      BY <1>1, <3>2, UploadPlaced, NoBulkCounted, Zenon
    <3> HIDE DEF q2
    <3>4. Extends(bulks[e], q1) BY <1>1, <1>3, <1>4, <3>2, ExtendsTwice, Zenon
    <3>5. Extends(bulks[e], q2) BY <1>1, <3>2, <3>3, <3>4, ExtendsTwice, Zenon
    <3>. QED BY <3>1, <3>2, <3>3, <3>5, NoBulkCounted, Zenon
  <2>2. CASE ~SealsAtOnce(e, r)
    <3>1. bulks'[e] = q /\ active'[e] = b BY <1>1, <2>2, Zenon DEF Submit
    <3> HIDE DEF q, a, b
    <3>. QED BY <1>4, <1>10, <3>1, Zenon
  <2>. QED BY <2>1, <2>2, Zenon
<1> HIDE DEF q, a, b
<1>12. /\ n \in {BatchCount(bulks[e], active[e]), BatchCount(bulks[e], active[e]) + 1}
       /\ BatchCount(bulks'[e], active'[e]) = n
       /\ LogOf(bulks'[e], active'[e]) = LogOf(bulks[e], active[e]) \cup {<<n, r>>}
  BY <1>4, <1>7, <1>8, <1>9, <1>11, Zenon
<1>. QED BY <1>6, <1>11, <1>12, Zenon

-----------------------------------------------------------------------------
(* The invariant of one writer's trims.                                    *)

\* The log is not used before its writer has started.
CallsIdle(e) ==
  /\ status[e] \notin {"ready", "closed"} => \A c \in Callers : calls[e][c].pc = "idle"
  /\ status[e] \notin {"recovered", "ready", "closed"} => calls[e][ResetCaller].pc = "idle"

Fresh(e) ==
  status[e] \in {"open", "recovered"} /\ calls[e][ResetCaller].pc = "idle" =>
    bulks[e] = <<>> /\ active[e] = NoBulk /\ next[e] = flushed[e]

TrimsBelow(e) ==
  \A c \in AllCallers : calls[e][c].pc # "idle" => calls[e][c].t < flushed[e]

AckedBelow(e) ==
  \A i \in DOMAIN bulks[e] : bulks[e][i].st = "acked" => EndOffset(bulks[e][i]) <= flushed[e]

TrimInv(e) == CallsIdle(e) /\ Fresh(e) /\ TrimsBelow(e) /\ Sizes(e) /\ AckedBelow(e)

CInv == \A e \in Epochs : TrimInv(e)

-----------------------------------------------------------------------------
(* The invariant of the trims, action by action.                           *)

\* A step that answers no bulk and neither starts a trim nor forgets one keeps the
\* invariant, if it leaves a log alone that waits for its reset.
LEMMA TrimKept ==
  ASSUME TypeOK, TypeOK', NEW f \in Epochs, TrimInv(f),
         status'[f] = status[f] \/ (status[f] = "ready" /\ status'[f] = "closed"),
         \A d \in AllCallers : /\ calls'[f][d].pc = "idle" <=> calls[f][d].pc = "idle"
                               /\ calls'[f][d].t = calls[f][d].t,
         flushed'[f] = flushed[f],
         Extends(bulks[f], bulks'[f]), AllCounted(bulks'[f]), Counted(active'[f]),
         (status[f] \in {"open", "recovered"} /\ calls'[f][ResetCaller].pc = "idle") =>
           bulks'[f] = bulks[f] /\ active'[f] = active[f] /\ next'[f] = next[f]
  PROVE  TrimInv(f)'
<1>0. ResetCaller \in AllCallers /\ \A c \in Callers : c \in AllCallers BY Zenon DEF AllCallers
<1>1. CallsIdle(f)' BY <1>0, Zenon DEF TrimInv, CallsIdle
<1>2. Fresh(f)' BY <1>0, Zenon DEF TrimInv, Fresh
<1>3. TrimsBelow(f)' BY Zenon DEF TrimInv, TrimsBelow
<1>4. Sizes(f)' BY Zenon DEF Sizes, AllCounted
<1>5. AckedBelow(f)'
  <2>1. bulks[f] \in Seq(Bulk) /\ bulks'[f] \in Seq(Bulk) BY Zenon DEF TypeOK
  <2>2. AllBelow(bulks[f], flushed[f]) BY Zenon DEF TrimInv, AckedBelow, AllBelow
  <2>3. AllBelow(bulks'[f], flushed[f]) BY <2>1, <2>2, ExtendsKeeps, Zenon
  <2>. QED BY <2>3, Zenon DEF AckedBelow, AllBelow
<1>. QED BY <1>1, <1>2, <1>3, <1>4, <1>5, Zenon DEF TrimInv

\* In particular one that leaves the log alone.
LEMMA TrimSame ==
  ASSUME TypeOK, TypeOK', NEW f \in Epochs, TrimInv(f),
         status'[f] = status[f] \/ (status[f] = "ready" /\ status'[f] = "closed"),
         \A d \in AllCallers : /\ calls'[f][d].pc = "idle" <=> calls[f][d].pc = "idle"
                               /\ calls'[f][d].t = calls[f][d].t,
         flushed'[f] = flushed[f], next'[f] = next[f],
         bulks'[f] = bulks[f], active'[f] = active[f]
  PROVE  TrimInv(f)'
<1>1. bulks[f] \in Seq(Bulk) BY Zenon DEF TypeOK
<1>2. Extends(bulks[f], bulks'[f]) BY <1>1, ExtendsSelf, Zenon
<1>3. AllCounted(bulks'[f]) /\ Counted(active'[f]) BY Zenon DEF TrimInv, Sizes, AllCounted
<1>. QED BY <1>2, <1>3, TrimKept, Zenon

\* A trim call that goes on keeps its offset.
LEMMA CallMoves ==
  ASSUME TypeOK, NEW e \in Epochs, NEW c \in AllCallers, calls[e][c].pc # "idle",
         NEW pc \in CallStates, pc # "idle", SetCall(e, c, pc, calls[e][c].t)
  PROVE  \A f \in Epochs, d \in AllCallers :
           /\ calls'[f][d].pc = "idle" <=> calls[f][d].pc = "idle"
           /\ calls'[f][d].t = calls[f][d].t
<1>1. calls \in [Epochs -> [AllCallers -> [pc : CallStates, t : Int]]] BY Zenon DEF TypeOK
<1>2. calls' = [calls EXCEPT ![e][c] = [pc |-> pc, t |-> calls[e][c].t]] BY Zenon DEF SetCall
<1> SUFFICES ASSUME NEW f \in Epochs, NEW d \in AllCallers
             PROVE  /\ calls'[f][d].pc = "idle" <=> calls[f][d].pc = "idle"
                    /\ calls'[f][d].t = calls[f][d].t
  BY Zenon
<1>3. CASE f = e /\ d = c
  <2>1. calls'[f][d] = [pc |-> pc, t |-> calls[e][c].t] BY <1>1, <1>2, <1>3, Zenon
  <2>. QED BY <1>3, <2>1
<1>4. CASE ~(f = e /\ d = c)
  <2>1. calls'[f][d] = calls[f][d] BY <1>1, <1>2, <1>4, Zenon
  <2>. QED BY <2>1, Zenon
<1>. QED BY <1>3, <1>4, Zenon

\* A submit takes place in a log that has been reset or is being reset.
LEMMA TrimSubmitted ==
  ASSUME TypeOK, TypeOK', NEW e \in Epochs, NEW r \in Rec, TrimInv(e), Submit(e, r),
         status'[e] = status[e], flushed'[e] = flushed[e],
         \A d \in AllCallers : /\ calls'[e][d].pc = "idle" <=> calls[e][d].pc = "idle"
                               /\ calls'[e][d].t = calls[e][d].t,
         status[e] = "ready" \/ \E c \in AllCallers : calls[e][c].pc # "idle"
  PROVE  TrimInv(e)'
<1>1. Sizes(e) BY Zenon DEF TrimInv
<1>2. Extends(bulks[e], bulks'[e]) /\ AllCounted(bulks'[e]) /\ Counted(active'[e])
  BY <1>1, SubmitStep, Zenon
<1>3. ~(status[e] \in {"open", "recovered"} /\ calls'[e][ResetCaller].pc = "idle")
  <2>1. CallsIdle(e) BY Zenon DEF TrimInv
  <2>. QED BY <2>1, Zenon DEF CallsIdle, AllCallers
<1>. QED BY <1>2, <1>3, TrimKept, Zenon

\* The next bulk is answered (complete_bulk): the first one without an answer, and
\* with a success only if none has failed, which moves the confirm offset.
LEMMA Completes ==
  ASSUME TypeOK, NEW e \in Epochs, WriterInv(e), Sizes(e), AckedBelow(e), CompleteBulk(e)
  PROVE  /\ completed[e] < BatchCount(bulks[e], active[e]) /\ bulks[e] # <<>>
         /\ AllCounted(bulks'[e]) /\ AllBelow(bulks'[e], flushed'[e])
         /\ LogOf(bulks'[e], active[e]) = LogOf(bulks[e], active[e])
         /\ BatchCount(bulks'[e], active[e]) = BatchCount(bulks[e], active[e])
         /\ flushed'[e] \in Nat /\ flushed[e] <= flushed'[e]
         /\ \A f \in Epochs : f # e => bulks'[f] = bulks[f] /\ flushed'[f] = flushed[f]
         /\ \/ /\ flushed[e] < flushed'[e] /\ flushed' = [flushed EXCEPT ![e] = flushed'[e]]
               /\ ~HasFailed(bulks[e]) /\ ~HasFailed(bulks'[e])
            \/ flushed' = flushed /\ HasFailed(bulks'[e])
<1> DEFINE i == completed[e] + 1
           b == bulks[e][i]
<1>1. /\ bulks \in [Epochs -> Seq(Bulk)] /\ flushed \in [Epochs -> Nat]
      /\ bulks[e] \in Seq(Bulk) /\ Len(bulks[e]) \in Nat /\ popped[e] \in Nat
      /\ DOMAIN bulks[e] = 1 .. Len(bulks[e])
      /\ completed[e] \in Nat /\ flushed[e] \in Nat /\ active[e] \in Accumulating
  <2>1. /\ bulks \in [Epochs -> Seq(Bulk)] /\ flushed \in [Epochs -> Nat]
        /\ popped[e] \in Nat /\ completed[e] \in Nat /\ active[e] \in Accumulating
    BY Zenon DEF TypeOK, Accumulating
  <2>2. bulks[e] \in Seq(Bulk) /\ flushed[e] \in Nat BY <2>1, Zenon
  <2>. QED BY <2>1, <2>2
<1>2. i <= popped[e] /\ popped[e] <= Len(bulks[e]) BY Zenon DEF CompleteBulk, WriterInv
<1>3. i \in DOMAIN bulks[e] BY <1>1, <1>2
<1>4. b \in Bulk BY <1>1, <1>3
<1>5. completed[e] < Len(bulks[e]) BY <1>1, <1>2
<1>6. completed[e] < BatchCount(bulks[e], active[e]) BY <1>1, <1>5 DEF BatchCount
<1>7. BatchInv(bulks[e], next[e], flushed[e], completed[e]) BY Zenon DEF WriterInv
<1>8. b.st \notin Answer BY <1>1, <1>3, <1>7 DEF BatchInv, AnsweredUpTo
<1>9. /\ EndOffset(b) \in Nat /\ b.base \in Nat /\ b.base < EndOffset(b)
  <2>1. EndOffset(b) \in Nat /\ EndOffset(b) >= b.base + b.size BY <1>4, BulkOffsets, Zenon
  <2>2. b.base \in Nat /\ b.size \in Nat \ {0} BY <1>4, Zenon DEF Bulk
  <2> HIDE DEF b
  <2>. QED BY <2>1, <2>2
<1>10. flushed[e] <= b.base BY <1>3, <1>7, <1>8, Zenon DEF BatchInv, ConfirmedTo, Answer
<1>11. AllCounted(bulks[e]) BY Zenon DEF Sizes, AllCounted
<1>12. AllBelow(bulks[e], flushed[e]) BY Zenon DEF AckedBelow, AllBelow
<1>13. ASSUME NEW st \in {"acked", "failed"}, bulks' = [bulks EXCEPT ![e][i].st = st]
       PROVE  /\ AllCounted(bulks'[e]) /\ DOMAIN bulks'[e] = DOMAIN bulks[e]
              /\ LogOf(bulks'[e], active[e]) = LogOf(bulks[e], active[e])
              /\ BatchCount(bulks'[e], active[e]) = BatchCount(bulks[e], active[e])
              /\ \A f \in Epochs : f # e => bulks'[f] = bulks[f]
              /\ bulks'[e][i].st = st /\ EndOffset(bulks'[e][i]) = EndOffset(b)
              /\ \A j \in DOMAIN bulks[e] : j # i => bulks'[e][j] = bulks[e][j]
  <2>1. st \in BulkStates BY Zenon DEF BulkStates
  <2> HIDE DEF i
  <2>2. /\ bulks'[e] = [bulks[e] EXCEPT ![i] = [bulks[e][i] EXCEPT !.st = st]]
        /\ \A f \in Epochs : f # e => bulks'[f] = bulks[f]
        /\ bulks' \in [Epochs -> Seq(Bulk)]
    BY <1>3, <1>13, <2>1, SetBulkState, Zenon
  <2> DEFINE bs == bulks[e]
             new == bulks'[e]
             c == [bs[i] EXCEPT !.st = st]
  <2>3. /\ bs \in Seq(Bulk) /\ i \in DOMAIN bs /\ AllCounted(bs) /\ new \in Seq(Bulk)
        /\ new = [bs EXCEPT ![i] = c] /\ b = bs[i] /\ bs[i] \in Bulk
    BY <1>1, <1>3, <1>4, <1>11, <2>2, Zenon
  <2> HIDE DEF bs, new, b
  <2>4. /\ c \in Bulk /\ c.st = st
        /\ c.base = bs[i].base /\ c.size = bs[i].size /\ c.recs = bs[i].recs
    BY <2>1, <2>3, Zenon DEF Bulk
  <2> HIDE DEF c
  <2>5. /\ AllCounted(new) /\ DOMAIN new = DOMAIN bs
        /\ \A a \in Accumulating : LogOf(new, a) = LogOf(bs, a)
        /\ \A a \in Accumulating : BatchCount(new, a) = BatchCount(bs, a)
        /\ new[i] = c /\ EndOffset(new[i]) = EndOffset(bs[i])
        /\ \A j \in DOMAIN bs : j # i => new[j] = bs[j]
    <3>1. Len(new) = Len(bs) /\ \A j \in DOMAIN bs : new[j] = IF j = i THEN c ELSE bs[j]
      BY <2>3, <2>4, SeqExcept
    <3>2. \A j \in DOMAIN bs :
            new[j].base = bs[j].base /\ new[j].size = bs[j].size /\ new[j].recs = bs[j].recs
      BY <2>4, <3>1, Zenon
    <3>3. /\ AllCounted(new) /\ DOMAIN new = DOMAIN bs
          /\ \A a \in Accumulating : LogOf(new, a) = LogOf(bs, a)
          /\ \A a \in Accumulating : BatchCount(new, a) = BatchCount(bs, a)
      BY <2>3, <3>1, <3>2, BulkReplaced, Zenon
    <3>4. new[i] = c BY <2>3, <3>1, Zenon
    <3>5. EndOffset(c) = EndOffset(bs[i]) BY <2>4, Zenon DEF EndOffset
    <3>. QED BY <3>1, <3>3, <3>4, <3>5, Zenon
  <2>. QED BY <1>1, <2>2, <2>3, <2>4, <2>5, Zenon DEF bs, new
<1>14. CASE cb[e] = "ack"
  <2>1. /\ flushed' = [flushed EXCEPT ![e] = EndOffset(b)]
        /\ bulks' = [bulks EXCEPT ![e][i].st = "acked"]
    BY <1>14, Zenon DEF CompleteBulk, ConfirmedBy
  <2>2. NoneFailed(bulks[e]) BY <1>14, Zenon DEF WriterInv
  <2> HIDE DEF b, i
  <2>3. /\ flushed'[e] = EndOffset(b) /\ \A f \in Epochs : f # e => flushed'[f] = flushed[f]
    BY <1>1, <2>1, Zenon
  <2>4. /\ AllCounted(bulks'[e]) /\ DOMAIN bulks'[e] = DOMAIN bulks[e]
        /\ LogOf(bulks'[e], active[e]) = LogOf(bulks[e], active[e])
        /\ BatchCount(bulks'[e], active[e]) = BatchCount(bulks[e], active[e])
        /\ \A f \in Epochs : f # e => bulks'[f] = bulks[f]
        /\ bulks'[e][i].st = "acked" /\ EndOffset(bulks'[e][i]) = EndOffset(b)
        /\ \A j \in DOMAIN bulks[e] : j # i => bulks'[e][j] = bulks[e][j]
    BY <1>13, <2>1, Zenon
  <2>5. ~HasFailed(bulks[e]) /\ ~HasFailed(bulks'[e])
    BY <2>2, <2>4, Zenon DEF HasFailed, NoneFailed
  <2>6. flushed[e] < flushed'[e] /\ flushed'[e] \in Nat BY <1>1, <1>9, <1>10, <2>3
  <2>7. AllBelow(bulks'[e], flushed'[e])
    <3> SUFFICES ASSUME NEW j \in DOMAIN bulks[e], bulks'[e][j].st = "acked"
                 PROVE  EndOffset(bulks'[e][j]) <= flushed'[e]
      BY <2>4, Zenon DEF AllBelow
    <3>1. CASE j = i BY <1>9, <2>3, <2>4, <3>1
    <3>2. CASE j # i
      <4>1. bulks'[e][j] = bulks[e][j] BY <2>4, <3>2, Zenon
      <4>2. EndOffset(bulks[e][j]) <= flushed[e] BY <1>12, <4>1, Zenon DEF AllBelow
      <4>3. bulks[e][j] \in Bulk BY <1>1
      <4>4. EndOffset(bulks[e][j]) \in Nat BY <4>3, BulkOffsets, Zenon
      <4>. QED BY <1>1, <2>6, <4>1, <4>2, <4>4
    <3>. QED BY <3>1, <3>2, Zenon
  <2>8. bulks[e] # <<>> /\ flushed[e] <= flushed'[e] BY <1>1, <1>5, <2>6
  <2>9. flushed' = [flushed EXCEPT ![e] = flushed'[e]] BY <2>1, <2>3, Zenon
  <2>. QED BY <1>6, <2>3, <2>4, <2>5, <2>6, <2>7, <2>8, <2>9, Zenon
<1>15. CASE cb[e] # "ack"
  <2>1. flushed' = flushed /\ bulks' = [bulks EXCEPT ![e][i].st = "failed"]
    BY <1>15, Zenon DEF CompleteBulk
  <2> HIDE DEF b, i
  <2>2. /\ AllCounted(bulks'[e]) /\ DOMAIN bulks'[e] = DOMAIN bulks[e]
        /\ LogOf(bulks'[e], active[e]) = LogOf(bulks[e], active[e])
        /\ BatchCount(bulks'[e], active[e]) = BatchCount(bulks[e], active[e])
        /\ \A f \in Epochs : f # e => bulks'[f] = bulks[f]
        /\ bulks'[e][i].st = "failed"
        /\ \A j \in DOMAIN bulks[e] : j # i => bulks'[e][j] = bulks[e][j]
    BY <1>13, <2>1, Zenon
  <2>3. HasFailed(bulks'[e]) BY <1>3, <2>2, Zenon DEF HasFailed
  <2>4. AllBelow(bulks'[e], flushed'[e]) BY <1>12, <2>1, <2>2, Zenon DEF AllBelow
  <2>5. bulks[e] # <<>> /\ flushed[e] <= flushed'[e] /\ flushed'[e] \in Nat BY <1>1, <1>5, <2>1
  <2>. QED BY <1>6, <2>1, <2>2, <2>3, <2>4, <2>5, Zenon
<1>. QED BY <1>14, <1>15, Zenon

\* A trim is called with an offset below the confirm offset (trim, reset).
LEMMA TargetsBelow ==
  ASSUME TypeOK, NEW e \in Epochs, NEW c \in AllCallers, TrimInv(e),
         calls[e][c].pc = "idle", NEW t \in TrimTargets(e, c)
  PROVE  /\ t < flushed[e]
         /\ \/ c = ResetCaller /\ status[e] = "recovered"
            \/ c # ResetCaller /\ status[e] = "ready"
<1>1. next[e] \in Nat /\ flushed[e] \in Nat /\ bulks[e] \in Seq(Bulk) BY Zenon DEF TypeOK
<1>2. CASE c = ResetCaller
  <2>1. status[e] = "recovered" /\ t = next[e] - 1 BY <1>2, Zenon DEF TrimTargets
  <2>2. next[e] = flushed[e] BY <1>2, <2>1, Zenon DEF TrimInv, Fresh
  <2>. QED BY <1>1, <1>2, <2>1, <2>2
<1>3. CASE c # ResetCaller
  <2>1. status[e] = "ready" /\ t \in AckedUserOffsets(e) BY <1>3, Zenon DEF TrimTargets
  <2>2. PICK i \in DOMAIN bulks[e] : \E r \in bulks[e][i].recs :
          bulks[e][i].st = "acked" /\ RecordOffset(bulks[e][i], r) = t
    BY <2>1, Zenon DEF AckedUserOffsets
  <2>3. PICK r \in bulks[e][i].recs : RecordOffset(bulks[e][i], r) = t BY <2>2, Zenon
  <2>4. bulks[e][i] \in Bulk /\ Counted(bulks[e][i]) BY <1>1 DEF TrimInv, Sizes
  <2>5. t \in Nat /\ t < EndOffset(bulks[e][i]) BY <2>3, <2>4, OffsetBelowEnd, Zenon
  <2>6. EndOffset(bulks[e][i]) <= flushed[e] BY <2>2, Zenon DEF TrimInv, AckedBelow
  <2>7. EndOffset(bulks[e][i]) \in Nat BY <2>4, BulkOffsets, Zenon
  <2>. QED BY <1>1, <1>3, <2>1, <2>5, <2>6, <2>7
<1>. QED BY <1>2, <1>3, Zenon

\* The status of a writer that has not been given a trim yet changes.
LEMMA TrimStatus ==
  ASSUME NEW f \in Epochs, TrimInv(f), NEW st, status'[f] = st,
         \/ status[f] \in {"down", "acquired"} /\ st \in {"acquired", "verified", "failed"}
         \/ status[f] = "open" /\ st \in {"recovered", "failed"}
         \/ status[f] = "recovered" /\ st = "ready",
         calls'[f] = calls[f], flushed'[f] = flushed[f], next'[f] = next[f],
         bulks'[f] = bulks[f], active'[f] = active[f]
  PROVE  TrimInv(f)'
<1>1. CallsIdle(f)' BY Zenon DEF TrimInv, CallsIdle
<1>2. Fresh(f)' BY Zenon DEF TrimInv, Fresh
<1>3. TrimsBelow(f)' BY Zenon DEF TrimInv, TrimsBelow
<1>4. Sizes(f)' BY Zenon DEF TrimInv, Sizes
<1>5. AckedBelow(f)' BY Zenon DEF TrimInv, AckedBelow
<1>. QED BY <1>1, <1>2, <1>3, <1>4, <1>5, Zenon DEF TrimInv

\* A writer that lists the bucket has no batch and no trim yet (start).
LEMMA TrimListed ==
  ASSUME TypeOK, TypeOK', NEW e \in Epochs, WriterInv(e), TrimInv(e), StartList(e)
  PROVE  TrimInv(e)'
<1>1. status \in [Epochs -> Statuses] /\ flushed \in [Epochs -> Nat] /\ next \in [Epochs -> Nat]
  BY Zenon DEF TypeOK
<1>2. /\ status[e] = "verified" /\ UNCHANGED <<calls, bulks, active>>
  BY Zenon DEF StartList, trimVars
<1>3. bulks[e] = <<>> /\ active[e] = NoBulk BY <1>2, Zenon DEF WriterInv, HasListed
<1>4. \A c \in AllCallers : calls[e][c].pc = "idle"
  BY <1>2, Zenon DEF TrimInv, CallsIdle, AllCallers
<1>5. \/ status'[e] = "open" /\ flushed'[e] = next'[e]
      \/ status'[e] = "failed"
  <2>1. \/ /\ status' = [status EXCEPT ![e] = "open"]
           /\ \E offset : /\ flushed' = [flushed EXCEPT ![e] = offset]
                          /\ next' = [next EXCEPT ![e] = offset]
        \/ status' = [status EXCEPT ![e] = "failed"]
    BY Zenon DEF StartList
  <2>2. CASE status' = [status EXCEPT ![e] = "failed"] BY <1>1, <2>2, Zenon
  <2>3. CASE /\ status' = [status EXCEPT ![e] = "open"]
             /\ \E offset : /\ flushed' = [flushed EXCEPT ![e] = offset]
                            /\ next' = [next EXCEPT ![e] = offset]
    BY <1>1, <2>3, Zenon
  <2>. QED BY <2>1, <2>2, <2>3, Zenon
<1>6. CallsIdle(e)' BY <1>2, <1>4, Zenon DEF CallsIdle, AllCallers
<1>7. Fresh(e)' BY <1>2, <1>3, <1>5, Zenon DEF Fresh
<1>8. TrimsBelow(e)' BY <1>2, <1>4, Zenon DEF TrimsBelow
<1>9. Sizes(e)' BY <1>2, Zenon DEF TrimInv, Sizes
<1>10. AckedBelow(e)' BY <1>2, <1>3, EmptySeq, Zenon DEF AckedBelow
<1>. QED BY <1>6, <1>7, <1>8, <1>9, <1>10, Zenon DEF TrimInv

\* A trim starts (trim0).
LEMMA TrimStarted ==
  ASSUME TypeOK, TypeOK', NEW e \in Epochs, NEW c \in AllCallers, TrimInv(e), TrimStart(e, c)
  PROVE  TrimInv(e)'
<1>1. calls \in [Epochs -> [AllCallers -> [pc : CallStates, t : Int]]] BY Zenon DEF TypeOK
<1>2. PICK t \in TrimTargets(e, c), pc \in {"wait", "submit"} : SetCall(e, c, pc, t)
  BY Zenon DEF TrimStart
<1>3. /\ calls[e][c].pc = "idle" /\ UNCHANGED <<status, bulks, active, next, flushed>>
  BY Zenon DEF TrimStart, openVars, offsetVars, loopVars
<1>4. /\ t < flushed[e]
      /\ \/ c = ResetCaller /\ status[e] = "recovered"
         \/ c # ResetCaller /\ status[e] = "ready"
  BY <1>3, TargetsBelow, Zenon
<1>5. /\ calls'[e][c] = [pc |-> pc, t |-> t]
      /\ \A d \in AllCallers : d # c => calls'[e][d] = calls[e][d]
  BY <1>1, <1>2, Zenon DEF SetCall
<1>6. calls'[e][c].pc # "idle" /\ calls'[e][c].t = t BY <1>5
<1>7. CallsIdle(e)'
  <2>1. ResetCaller \notin Callers BY ConstantsAssumption, Zenon DEF ResetCaller
  <2>2. \A d \in Callers : d \in AllCallers BY Zenon DEF AllCallers
  <2>3. CallsIdle(e) BY Zenon DEF TrimInv
  <2>. QED BY <1>3, <1>4, <1>5, <2>1, <2>2, <2>3, Zenon DEF CallsIdle
<1>8. Fresh(e)' BY <1>3, <1>4, <1>6, Zenon DEF Fresh
<1>9. TrimsBelow(e)'
  <2> SUFFICES ASSUME NEW d \in AllCallers, calls'[e][d].pc # "idle"
               PROVE  calls'[e][d].t < flushed[e]
    BY <1>3, Zenon DEF TrimsBelow
  <2>1. CASE d = c BY <1>4, <1>6, <2>1, Zenon
  <2>2. CASE d # c BY <1>5, <2>2 DEF TrimInv, TrimsBelow
  <2>. QED BY <2>1, <2>2, Zenon
<1>10. Sizes(e)' /\ AckedBelow(e)' BY <1>3, Zenon DEF TrimInv, Sizes, AckedBelow
<1>. QED BY <1>7, <1>8, <1>9, <1>10, Zenon DEF TrimInv

\* A bulk is answered: the confirm offset only grows.
LEMMA TrimCompleted ==
  ASSUME TypeOK, TypeOK', NEW e \in Epochs, WriterInv(e), TrimInv(e), CompleteBulk(e)
  PROVE  TrimInv(e)'
<1>1. UNCHANGED <<status, active, calls>> BY Zenon DEF CompleteBulk, openVars, trimVars
<1>2. Sizes(e) /\ AckedBelow(e) BY Zenon DEF TrimInv
<1>3. /\ bulks[e] # <<>> /\ AllCounted(bulks'[e]) /\ AllBelow(bulks'[e], flushed'[e])
      /\ flushed'[e] \in Nat /\ flushed[e] <= flushed'[e]
  BY <1>2, Completes, Zenon
<1>4. flushed[e] \in Nat /\ \A c \in AllCallers : calls[e][c].t \in Int BY Zenon DEF TypeOK
<1>5. CallsIdle(e)' BY <1>1, Zenon DEF TrimInv, CallsIdle
<1>6. Fresh(e)' BY <1>1, <1>3, Zenon DEF TrimInv, Fresh
<1>7. TrimsBelow(e)'
  <2>1. \A c \in AllCallers : calls[e][c].pc # "idle" => calls[e][c].t < flushed[e]
    BY Zenon DEF TrimInv, TrimsBelow
  <2>2. \A c \in AllCallers : calls[e][c].pc # "idle" => calls[e][c].t < flushed'[e]
    BY <1>3, <1>4, <2>1
  <2>. QED BY <1>1, <2>2, Zenon DEF TrimsBelow
<1>8. Sizes(e)' BY <1>1, <1>2, <1>3, Zenon DEF Sizes, AllCounted
<1>9. AckedBelow(e)' BY <1>3, Zenon DEF AckedBelow, AllBelow
<1>. QED BY <1>5, <1>6, <1>7, <1>8, <1>9 DEF TrimInv

\* An upload task moves a bulk that has no answer (upload_bulk).
LEMMA UploadStep ==
  ASSUME TypeOK, TypeOK', NEW e \in Epochs, NEW i \in DOMAIN bulks[e], Sizes(e),
         UploadBulk(e, i) \/ UploadOk(e, i) \/ UploadErr(e, i)
  PROVE  /\ Extends(bulks[e], bulks'[e]) /\ AllCounted(bulks'[e]) /\ bulks[e] # <<>>
         /\ LogOf(bulks'[e], active[e]) = LogOf(bulks[e], active[e])
         /\ BatchCount(bulks'[e], active[e]) = BatchCount(bulks[e], active[e])
         /\ \A f \in Epochs : f # e => bulks'[f] = bulks[f]
<1>1. /\ bulks \in [Epochs -> Seq(Bulk)] /\ bulks[e] \in Seq(Bulk) /\ bulks'[e] \in Seq(Bulk)
      /\ trim[e] \in Int /\ active[e] \in Accumulating
  BY Zenon DEF TypeOK, Accumulating
<1>2. bulks[e][i] \in Bulk BY <1>1, ElementType, Zenon
<1>3. AllCounted(bulks[e]) BY Zenon DEF Sizes, AllCounted
<1>4. bulks[e][i].st \in {"spawned", "put"} BY Zenon DEF UploadBulk, UploadOk, UploadErr
<1>5. PICK b \in Bulk :
        /\ bulks' = [bulks EXCEPT ![e][i] = b] /\ b.st \in {"put", "ok", "err"}
        /\ b.base = bulks[e][i].base /\ b.size = bulks[e][i].size /\ b.recs = bulks[e][i].recs
  <2>1. CASE UploadBulk(e, i)
    <3> DEFINE b == [bulks[e][i] EXCEPT !.st = "put", !.trim = HeaderTrim(e)]
    <3>1. bulks' = [bulks EXCEPT ![e][i] = b] BY <2>1, Zenon DEF UploadBulk
    <3>2. /\ b \in Bulk /\ b.base = bulks[e][i].base /\ b.size = bulks[e][i].size
          /\ b.recs = bulks[e][i].recs /\ b.st = "put"
      BY <1>1, <1>2, Zenon DEF Bulk, BulkStates, HeaderTrim
    <3> HIDE DEF b
    <3>. QED BY <3>1, <3>2, Zenon
  <2>2. CASE UploadOk(e, i) \/ UploadErr(e, i)
    <3>1. PICK st \in {"ok", "err"} : bulks' = [bulks EXCEPT ![e][i].st = st]
      BY <2>2, Zenon DEF UploadOk, UploadErr
    <3> DEFINE b == [bulks[e][i] EXCEPT !.st = st]
    <3>2. /\ b \in Bulk /\ b.base = bulks[e][i].base /\ b.size = bulks[e][i].size
          /\ b.recs = bulks[e][i].recs /\ b.st = st
      BY <1>2, Zenon DEF Bulk, BulkStates
    <3>3. bulks' = [bulks EXCEPT ![e][i] = b] BY <3>1, Zenon
    <3> HIDE DEF b
    <3>. QED BY <3>2, <3>3, Zenon
  <2>. QED BY <2>1, <2>2, Zenon
<1>6. /\ bulks'[e] = [bulks[e] EXCEPT ![i] = b] /\ \A f \in Epochs : f # e => bulks'[f] = bulks[f]
  BY <1>1, <1>5, Zenon
<1>7. b.st \notin Answer /\ bulks[e][i].st \notin Answer BY <1>4, <1>5, Zenon DEF Answer
<1> DEFINE bs == bulks[e]
           new == bulks'[e]
<1>8. /\ bs \in Seq(Bulk) /\ new \in Seq(Bulk) /\ i \in DOMAIN bs /\ AllCounted(bs)
      /\ new = [bs EXCEPT ![i] = b] /\ bs[i].st \notin Answer
      /\ b.base = bs[i].base /\ b.size = bs[i].size /\ b.recs = bs[i].recs
  BY <1>1, <1>3, <1>5, <1>6, <1>7, Zenon
<1> HIDE DEF bs, new
<1>9. /\ Extends(bs, new) /\ AllCounted(new) /\ bs # <<>>
      /\ \A a \in Accumulating : LogOf(new, a) = LogOf(bs, a)
      /\ \A a \in Accumulating : BatchCount(new, a) = BatchCount(bs, a)
  <2>1. /\ Len(new) = Len(bs) /\ bs # <<>>
        /\ \A j \in DOMAIN bs : new[j] = IF j = i THEN b ELSE bs[j]
    BY <1>8, SeqExcept
  <2>2. \A j \in DOMAIN bs :
          new[j].base = bs[j].base /\ new[j].size = bs[j].size /\ new[j].recs = bs[j].recs
    BY <1>8, <2>1, Zenon
  <2>3. \A j \in DOMAIN bs :
          new[j].st = bs[j].st \/ (new[j].st \notin Answer /\ bs[j].st \notin Answer)
    BY <1>7, <1>8, <2>1, Zenon
  <2>4. Extends(bs, new) BY <1>8, <2>1, <2>2, <2>3, BulkUploads, Zenon
  <2>5. /\ AllCounted(new)
        /\ \A a \in Accumulating : LogOf(new, a) = LogOf(bs, a)
        /\ \A a \in Accumulating : BatchCount(new, a) = BatchCount(bs, a)
    BY <1>8, <2>1, <2>2, BulkReplaced, Zenon
  <2>. QED BY <2>1, <2>4, <2>5, Zenon
<1>. QED BY <1>1, <1>6, <1>9, Zenon DEF bs, new

\* The callback loop takes finished bulks off and starts uploads (callback_loop).
LEMMA PopStep ==
  ASSUME TypeOK, NEW e \in Epochs, Sizes(e), CallbackPop(e)
  PROVE  /\ Extends(bulks[e], bulks'[e]) /\ AllCounted(bulks'[e]) /\ bulks[e] # <<>>
         /\ LogOf(bulks'[e], active[e]) = LogOf(bulks[e], active[e])
         /\ BatchCount(bulks'[e], active[e]) = BatchCount(bulks[e], active[e])
         /\ \A f \in Epochs : f # e => bulks'[f] = bulks[f]
<1>1. /\ bulks \in [Epochs -> Seq(Bulk)] /\ bulks[e] \in Seq(Bulk)
      /\ popped[e] \in Nat /\ active[e] \in Accumulating
  BY Zenon DEF TypeOK, Accumulating
<1>2. PICK n \in popped[e] + 1 .. Len(bulks[e]) :
        bulks' = [bulks EXCEPT ![e] = try_upload_waiting(bulks[e], n)]
  BY Zenon DEF CallbackPop
<1>3. AllCounted(bulks[e]) BY Zenon DEF Sizes, AllCounted
<1>4. Len(bulks[e]) \in Nat BY <1>1, LenNat, Zenon
<1>5. n \in Nat BY <1>1, <1>4, Between, Zenon
<1>6. Len(bulks[e]) # 0 BY <1>1, <1>4, Beyond, GeqSelf, Zenon
<1>7. bulks[e] # <<>> BY <1>1, <1>6, LenNat, Zenon
<1>8. /\ bulks'[e] = try_upload_waiting(bulks[e], n)
      /\ \A f \in Epochs : f # e => bulks'[f] = bulks[f]
  BY <1>1, <1>2, Zenon
<1> DEFINE bs == bulks[e]
           new == try_upload_waiting(bs, n)
<1>9. bs \in Seq(Bulk) /\ AllCounted(bs) BY <1>1, <1>3, Zenon
<1> HIDE DEF bs
<1>10. /\ Extends(bs, new) /\ AllCounted(new)
       /\ \A a \in Accumulating : /\ LogOf(new, a) = LogOf(bs, a)
                                  /\ BatchCount(new, a) = BatchCount(bs, a)
  BY <1>5, <1>9, UploadPlaced, Zenon
<1> HIDE DEF new
<1>11. bulks'[e] = new BY <1>8, Zenon DEF new, bs
<1>. QED BY <1>1, <1>7, <1>8, <1>10, <1>11, Zenon DEF bs

\* The step of the induction: one case per action of the log.
LEMMA CInvStep == IInv /\ CInv /\ [Next]_vars => CInv'
<1> SUFFICES ASSUME IInv, CInv, [Next]_vars, NEW f \in Epochs PROVE TrimInv(f)'
  BY Zenon DEF CInv
<1>0. TypeOK /\ \A e \in Epochs : WriterInv(e) /\ TrimInv(e) BY Zenon DEF IInv, CInv
<1>1. IInv' BY InvStep, Zenon
<1>2. TypeOK' BY <1>1, Zenon DEF IInv
<1>f. WriterInv(f) /\ TrimInv(f) BY <1>0, Zenon
<1> DEFINE sameCalls(g) ==
      \A d \in AllCallers : /\ calls'[g][d].pc = "idle" <=> calls[g][d].pc = "idle"
                            /\ calls'[g][d].t = calls[g][d].t
      same(g) == /\ status'[g] = status[g] /\ sameCalls(g)
                 /\ flushed'[g] = flushed[g] /\ next'[g] = next[g]
                 /\ bulks'[g] = bulks[g] /\ active'[g] = active[g]
<1>s. same(f) => TrimInv(f)' BY <1>0, <1>2, <1>f, TrimSame, Zenon
<1>t. /\ status \in [Epochs -> Statuses]
      /\ bulks \in [Epochs -> Seq(Bulk)] /\ active \in [Epochs -> [recs : SUBSET Rec, size : Nat]]
      /\ next \in [Epochs -> Nat] /\ flushed \in [Epochs -> Nat]
      /\ calls \in [Epochs -> [AllCallers -> [pc : CallStates, t : Int]]]
  BY <1>0, Zenon DEF TypeOK
<1>k. /\ Sizes(f) /\ AllCounted(bulks[f]) /\ Counted(active[f])
  BY <1>f, Zenon DEF TrimInv, Sizes, AllCounted
<1> USE DEF bucketVars, openVars, offsetVars, loopVars, trimVars
<1>3. CASE UNCHANGED vars BY <1>3, <1>s, Zenon DEF vars
<1>4. ASSUME NEW e \in Epochs, Acquire(e) \/ StartVerify(e) \/ Recover(e) \/ Ready(e)
      PROVE  TrimInv(f)'
  <2>1. UNCHANGED <<calls, flushed, next, bulks, active>>
    BY <1>4, Zenon DEF Acquire, StartVerify, Recover, Ready
  <2>2. PICK st : /\ status' = [status EXCEPT ![e] = st]
                  /\ \/ status[e] \in {"down", "acquired"} /\ st \in {"acquired", "verified", "failed"}
                     \/ status[e] = "open" /\ st \in {"recovered", "failed"}
                     \/ status[e] = "recovered" /\ st = "ready"
    BY <1>4, Zenon DEF Acquire, StartVerify, Recover, Ready
  <2>3. CASE f # e BY <1>s, <1>t, <2>1, <2>2, <2>3, Zenon
  <2>4. CASE f = e
    <3>1. status'[f] = st BY <1>t, <2>2, <2>4, Zenon
    <3>. QED BY <1>f, <2>1, <2>2, <2>4, <3>1, TrimStatus, Zenon
  <2>. QED BY <2>3, <2>4, Zenon
<1>5. ASSUME NEW e \in Epochs, StartList(e) PROVE TrimInv(f)'
  <2>1. CASE f # e
    <3>1. UNCHANGED <<calls, bulks, active>> BY <1>5, Zenon DEF StartList
    <3>2. status'[f] = status[f] /\ flushed'[f] = flushed[f] /\ next'[f] = next[f]
      BY <1>5, <1>t, <2>1, Zenon DEF StartList
    <3>. QED BY <1>s, <3>1, <3>2, Zenon
  <2>2. CASE f = e BY <1>0, <1>2, <1>5, <2>2, TrimListed, Zenon
  <2>. QED BY <2>1, <2>2
<1>6. ASSUME NEW e \in Epochs, NEW s \in Streams, AppendRecord(e, s) PROVE TrimInv(f)'
  <2> DEFINE r == <<e, s, appended[e]>>
  <2>1. r \in Rec BY <1>0, Zenon DEF TypeOK, Rec
  <2>2. Submit(e, r) /\ status[e] = "ready" /\ UNCHANGED <<status, calls, flushed>>
    BY <1>6, Zenon DEF AppendRecord
  <2> HIDE DEF r
  <2>3. CASE f # e BY <1>s, <1>t, <2>2, <2>3, Zenon DEF Submit
  <2>4. CASE f = e
    <3>1. sameCalls(f) /\ status'[f] = status[f] /\ flushed'[f] = flushed[f] BY <2>2, Zenon
    <3>. QED BY <1>0, <1>2, <1>f, <2>1, <2>2, <2>4, <3>1, TrimSubmitted, Zenon
  <2>. QED BY <2>3, <2>4, Zenon
<1>7. ASSUME NEW e \in Epochs, SealActive(e) \/ Close(e) PROVE TrimInv(f)'
  <2>1. /\ UNCHANGED <<calls, flushed>>
        /\ status' = status \/ (status[e] = "ready" /\ status' = [status EXCEPT ![e] = "closed"])
        /\ \/ active[e].size > 0 /\ seal_active(e)
           \/ UNCHANGED <<next, bulks, active>> /\ Close(e)
    BY <1>7, Zenon DEF SealActive, Close
  <2>2. /\ status'[f] = status[f] \/ (status[f] = "ready" /\ status'[f] = "closed")
        /\ f # e => status'[f] = status[f]
    BY <1>t, <2>1, Zenon
  <2>3. sameCalls(f) /\ flushed'[f] = flushed[f] BY <2>1, Zenon
  <2>4. CASE UNCHANGED <<next, bulks, active>>
    BY <1>0, <1>2, <1>f, <2>2, <2>3, <2>4, TrimSame, Zenon
  <2>5. CASE active[e].size > 0 /\ seal_active(e) /\ f # e
    BY <1>s, <1>t, <2>2, <2>3, <2>5, Zenon DEF seal_active
  <2>6. CASE active[e].size > 0 /\ seal_active(e) /\ f = e
    <3>1. Extends(bulks[f], bulks'[f]) /\ AllCounted(bulks'[f]) /\ active'[f] = NoBulk
      BY <1>0, <1>k, <2>6, SealStep, Zenon
    <3>2. Counted(active'[f]) BY <3>1, NoBulkCounted, Zenon
    <3>3. active[f] # NoBulk BY <2>6 DEF NoBulk
    <3>4. ~(status[f] \in {"open", "recovered"} /\ calls'[f][ResetCaller].pc = "idle")
      BY <1>f, <2>1, <3>3, Zenon DEF TrimInv, Fresh
    <3>. QED BY <1>0, <1>2, <1>f, <2>2, <2>3, <3>1, <3>2, <3>4, TrimKept, Zenon
  <2>. QED BY <2>1, <2>4, <2>5, <2>6, Zenon
<1>8. ASSUME NEW e \in Epochs,
             Extends(bulks[e], bulks'[e]), AllCounted(bulks'[e]), bulks[e] # <<>>,
             \A g \in Epochs : g # e => bulks'[g] = bulks[g],
             UNCHANGED <<status, calls, flushed, active, next>>
      PROVE  TrimInv(f)'
  <2>1. CASE f # e BY <1>8, <1>s, <2>1, Zenon
  <2>2. CASE f = e
    <3>1. ~(status[f] \in {"open", "recovered"} /\ calls'[f][ResetCaller].pc = "idle")
      BY <1>8, <1>f, <2>2, Zenon DEF TrimInv, Fresh
    <3>2. sameCalls(f) /\ Counted(active'[f]) BY <1>8, <1>k, Zenon
    <3>. QED BY <1>0, <1>2, <1>8, <1>f, <2>2, <3>1, <3>2, TrimKept, Zenon
  <2>. QED BY <2>1, <2>2
<1>9. ASSUME NEW e \in Epochs, NEW i \in DOMAIN bulks[e],
             UploadBulk(e, i) \/ UploadOk(e, i) \/ UploadErr(e, i)
      PROVE  TrimInv(f)'
  <2>1. UNCHANGED <<status, calls, flushed, active, next>>
    BY <1>9, Zenon DEF UploadBulk, UploadOk, UploadErr
  <2>2. Sizes(e) BY <1>0, Zenon DEF TrimInv
  <2>3. /\ Extends(bulks[e], bulks'[e]) /\ AllCounted(bulks'[e]) /\ bulks[e] # <<>>
        /\ \A g \in Epochs : g # e => bulks'[g] = bulks[g]
    BY <1>0, <1>2, <1>9, <2>2, UploadStep, Zenon
  <2>. QED BY <1>8, <2>1, <2>3, Zenon
<1>10. ASSUME NEW e \in Epochs, CallbackPop(e) PROVE TrimInv(f)'
  <2>1. UNCHANGED <<status, calls, flushed, active, next>> BY <1>10, Zenon DEF CallbackPop
  <2>2. Sizes(e) BY <1>0, Zenon DEF TrimInv
  <2>3. /\ Extends(bulks[e], bulks'[e]) /\ AllCounted(bulks'[e]) /\ bulks[e] # <<>>
        /\ \A g \in Epochs : g # e => bulks'[g] = bulks[g]
    BY <1>0, <1>10, <2>2, PopStep, Zenon
  <2>. QED BY <1>8, <2>1, <2>3, Zenon
<1>11. ASSUME NEW e \in Epochs, CallbackVerify(e) PROVE TrimInv(f)'
  BY <1>11, <1>s, Zenon DEF CallbackVerify
<1>12. ASSUME NEW e \in Epochs, CompleteBulk(e) PROVE TrimInv(f)'
  <2>1. CASE f # e
    <3>1. Sizes(e) /\ AckedBelow(e) /\ WriterInv(e) BY <1>0, Zenon DEF TrimInv
    <3>2. \A g \in Epochs : g # e => bulks'[g] = bulks[g] /\ flushed'[g] = flushed[g]
      BY <1>0, <1>12, <3>1, Completes, Zenon
    <3>3. UNCHANGED <<status, calls, active, next>> BY <1>12, Zenon DEF CompleteBulk
    <3>. QED BY <1>s, <2>1, <3>2, <3>3, Zenon
  <2>2. CASE f = e BY <1>0, <1>2, <1>12, <2>2, TrimCompleted, Zenon
  <2>. QED BY <2>1, <2>2
<1>13. ASSUME NEW e \in Epochs, NEW c \in AllCallers, TrimStart(e, c) PROVE TrimInv(f)'
  <2>1. CASE f # e
    <3>1. UNCHANGED <<status, flushed, next, bulks, active>> BY <1>13, Zenon DEF TrimStart
    <3>2. calls'[f] = calls[f] BY <1>13, <1>t, <2>1, Zenon DEF TrimStart, SetCall
    <3>. QED BY <1>s, <3>1, <3>2, Zenon
  <2>2. CASE f = e BY <1>0, <1>2, <1>13, <2>2, TrimStarted, Zenon
  <2>. QED BY <2>1, <2>2, Zenon
<1>14. ASSUME NEW e \in Epochs, NEW c \in AllCallers, TrimStep(e, c) PROVE TrimInv(f)'
  <2>1. PICK pc \in CallStates \ {"idle"} : SetCall(e, c, pc, calls[e][c].t)
    BY <1>14, Zenon
    DEF TrimStep, TrimSubmit, TrimDelete, TrimFails, TrimDone, TrimWaited, CallStates
  <2>2. /\ calls[e][c].pc # "idle" /\ UNCHANGED <<status, flushed>>
        /\ \/ UNCHANGED offsetVars
           \/ Submit(e, FakeRecord(e, c))
    BY <1>14, Zenon DEF TrimStep, TrimSubmit, TrimDelete, TrimFails, TrimDone, TrimWaited
  <2>3. sameCalls(f) BY <1>0, <2>1, <2>2, CallMoves, Zenon
  <2>4. CASE UNCHANGED offsetVars BY <1>s, <2>2, <2>3, <2>4, Zenon
  <2>5. CASE Submit(e, FakeRecord(e, c)) /\ f # e BY <1>s, <1>t, <2>2, <2>3, <2>5, Zenon DEF Submit
  <2>6. CASE Submit(e, FakeRecord(e, c)) /\ f = e
    <3>1. FakeRecord(e, c) \in Rec
      BY ConstantsAssumption DEF FakeRecord, Rec, AllCallers, ResetCaller
    <3>2. status'[f] = status[f] /\ flushed'[f] = flushed[f] BY <2>2, Zenon
    <3>. QED BY <1>0, <1>2, <1>f, <2>2, <2>3, <2>6, <3>1, <3>2, TrimSubmitted, Zenon
  <2>. QED BY <2>2, <2>4, <2>5, <2>6, Zenon
<1>15. ASSUME NEW o, PutLands(o) \/ Reap(o) PROVE TrimInv(f)'
  BY <1>15, <1>s, Zenon DEF PutLands, Reap
<1>. QED
  BY <1>3, <1>4, <1>5, <1>6, <1>7, <1>9, <1>10, <1>11, <1>12, <1>13, <1>14, <1>15, Zenon
  DEF Next, WriterStep

\* Nobody trims a log that was not opened.
LEMMA CInvInit == Init => CInv
<1> SUFFICES ASSUME Init, NEW e \in Epochs PROVE TrimInv(e)
  BY Zenon DEF CInv
<1>1. /\ bulks[e] = <<>> /\ active[e] = NoBulk /\ next[e] = flushed[e]
      /\ \A c \in AllCallers : calls[e][c].pc = "idle"
  BY Zenon DEF Init
<1>2. CallsIdle(e) BY <1>1, Zenon DEF CallsIdle, AllCallers
<1>3. Fresh(e) /\ TrimsBelow(e) BY <1>1, Zenon DEF Fresh, TrimsBelow
<1>4. Sizes(e) /\ AckedBelow(e) BY <1>1, EmptySeq, NoBulkCounted, Zenon DEF Sizes, AckedBelow
<1>. QED BY <1>2, <1>3, <1>4, Zenon DEF TrimInv

\* Whatever records a host trims to after their acknowledgement, and however trims and
\* uploads interleave, a trim under way in the writer is below the confirm offset.
THEOREM TrimsAreBelowConfirm == Spec => [](\A e \in Epochs : TrimsBelow(e))
<1>1. Init => IInv /\ CInv BY InvInit, CInvInit, Zenon
<1>2. IInv /\ CInv /\ [Next]_vars => IInv' /\ CInv' BY InvStep, CInvStep, Zenon
<1>3. CInv => \A e \in Epochs : TrimsBelow(e) BY Zenon DEF CInv, TrimInv
<1>. QED BY <1>1, <1>2, <1>3, PTL DEF Spec

-----------------------------------------------------------------------------
(* Every step of the log is a step of the contract, or none of it.         *)

LogView == [f \in Epochs |-> LogOf(bulks[f], active[f])]
CountView == [f \in Epochs |-> BatchCount(bulks[f], active[f])]
FailedView == [f \in Epochs |-> HasFailed(bulks[f])]

\* No batch fails, and none that has failed recovers.
LEMMA FailedStays ==
  ASSUME \A f \in Epochs : HasFailed(bulks'[f]) <=> HasFailed(bulks[f])
  PROVE  FailedView' = FailedView
<1>1. \A f \in Epochs : HasFailed(bulks'[f]) \in BOOLEAN /\ HasFailed(bulks[f]) \in BOOLEAN
  BY Zenon DEF HasFailed
<1>2. \A f \in Epochs : HasFailed(bulks'[f]) = HasFailed(bulks[f]) BY <1>1, Zenon
<1>. QED BY <1>2, Zenon DEF FailedView

\* A step that changes one writer changes its part of the views.
LEMMA ViewsMove ==
  ASSUME NEW e \in Epochs,
         \A f \in Epochs : f # e => bulks'[f] = bulks[f] /\ active'[f] = active[f]
  PROVE  /\ LogView' = [LogView EXCEPT ![e] = LogOf(bulks'[e], active'[e])]
         /\ CountView' = [CountView EXCEPT ![e] = BatchCount(bulks'[e], active'[e])]
         /\ FailedView' = [FailedView EXCEPT ![e] = HasFailed(bulks'[e])]
<1>1. LogView' = [LogView EXCEPT ![e] = LogOf(bulks'[e], active'[e])] BY Zenon DEF LogView
<1>2. CountView' = [CountView EXCEPT ![e] = BatchCount(bulks'[e], active'[e])] BY Zenon DEF CountView
<1>3. FailedView' = [FailedView EXCEPT ![e] = HasFailed(bulks'[e])] BY Zenon DEF FailedView
<1>. QED BY <1>1, <1>2, <1>3, Zenon

\* ... and none of them when its part stays the same.
LEMMA ViewsStay ==
  ASSUME NEW e \in Epochs,
         \A f \in Epochs : f # e => bulks'[f] = bulks[f] /\ active'[f] = active[f],
         LogOf(bulks'[e], active'[e]) = LogOf(bulks[e], active[e]),
         BatchCount(bulks'[e], active'[e]) = BatchCount(bulks[e], active[e])
  PROVE  LogView' = LogView /\ CountView' = CountView
BY Zenon DEF LogView, CountView

\* Steps that are no step of the contract.
LEMMA Stutters ==
  ASSUME LogView' = LogView, CountView' = CountView, FailedView' = FailedView,
         UNCHANGED <<completed, flushed, completedTrim>>
  PROVE  UNCHANGED Contract!walVars
BY Zenon DEF Contract!walVars, LogView, CountView, FailedView

\* The number of batches, and what the callback loop has done of them.
LEMMA CountNat ==
  ASSUME NEW bs \in Seq(Bulk), NEW a PROVE BatchCount(bs, a) \in Nat
BY DEF BatchCount

LEMMA BelowCount ==
  ASSUME NEW done \in Nat, NEW taken \in Nat, NEW len \in Nat, NEW m \in Nat, NEW n,
         n = m \/ n = m + 1, done <= taken, taken <= len, len < n
  PROVE  done < n
OBVIOUS

\* A record is submitted.
LEMMA Submits ==
  ASSUME TypeOK, NEW e \in Epochs, NEW r \in Rec, WriterInv(e), Sizes(e), Submit(e, r),
         UNCHANGED <<completed, flushed, completedTrim>>, TypeOK'
  PROVE  Contract!Next
<1>1. /\ bulks \in [Epochs -> Seq(Bulk)] /\ bulks[e] \in Seq(Bulk) /\ bulks'[e] \in Seq(Bulk)
      /\ active \in [Epochs -> [recs : SUBSET Rec, size : Nat]]
      /\ completed[e] \in Nat /\ popped[e] \in Nat
  BY Zenon DEF TypeOK
<1>2. /\ Extends(bulks[e], bulks'[e])
      /\ \E n \in {BatchCount(bulks[e], active[e]), BatchCount(bulks[e], active[e]) + 1} :
           /\ Len(bulks[e]) < n
           /\ BatchCount(bulks'[e], active'[e]) = n
           /\ LogOf(bulks'[e], active'[e]) = LogOf(bulks[e], active[e]) \cup {<<n, r>>}
  BY SubmitStep, Zenon
<1>3. PICK n \in {BatchCount(bulks[e], active[e]), BatchCount(bulks[e], active[e]) + 1} :
           /\ Len(bulks[e]) < n
           /\ BatchCount(bulks'[e], active'[e]) = n
           /\ LogOf(bulks'[e], active'[e]) = LogOf(bulks[e], active[e]) \cup {<<n, r>>}
  BY <1>2, Zenon
<1>4. \A f \in Epochs : f # e => bulks'[f] = bulks[f] /\ active'[f] = active[f]
  BY <1>1, Zenon DEF Submit
<1>5. /\ LogView' = [LogView EXCEPT ![e] = LogOf(bulks'[e], active'[e])]
      /\ CountView' = [CountView EXCEPT ![e] = BatchCount(bulks'[e], active'[e])]
  BY <1>4, ViewsMove, Zenon
<1>6. HasFailed(bulks'[e]) <=> HasFailed(bulks[e]) BY <1>1, <1>2, ExtendsKeeps, Zenon
<1>7. FailedView' = FailedView
  <2>1. \A f \in Epochs : HasFailed(bulks'[f]) <=> HasFailed(bulks[f]) BY <1>4, <1>6, Zenon
  <2>. QED BY <2>1, FailedStays, Zenon
<1>8. LogView[e] = LogOf(bulks[e], active[e]) /\ CountView[e] = BatchCount(bulks[e], active[e])
      /\ LogView'[e] = LogOf(bulks'[e], active'[e])
  BY Zenon DEF LogView, CountView
<1>9. completed[e] < n
  <2>1. completed[e] <= popped[e] /\ popped[e] <= Len(bulks[e]) BY Zenon DEF WriterInv
  <2>2. Len(bulks[e]) \in Nat BY <1>1, LenNat, Zenon
  <2>3. BatchCount(bulks[e], active[e]) \in Nat BY <1>1, CountNat, Zenon
  <2>4. n = BatchCount(bulks[e], active[e]) \/ n = BatchCount(bulks[e], active[e]) + 1 BY <1>3, Zenon
  <2>5. Len(bulks[e]) < n BY <1>3, Zenon
  <2>6. completed[e] \in Nat /\ popped[e] \in Nat BY Zenon DEF TypeOK
  <2>. QED BY <2>1, <2>2, <2>3, <2>4, <2>5, <2>6, BelowCount, Zenon
<1>10. Contract!Submit(e)
  <2> DEFINE p == <<n, r>>
  <2>1. p \in {n} \X Rec BY Zenon
  <2>2. n \in {CountView[e], CountView[e] + 1} BY <1>3, <1>8, Zenon
  <2>3. CountView' = [CountView EXCEPT ![e] = n] BY <1>3, <1>5, Zenon
  <2>4. LogView' = [LogView EXCEPT ![e] = LogView[e] \cup {p}] /\ p \in LogView'[e]
    BY <1>3, <1>5, <1>8, Zenon
  <2> HIDE DEF p
  <2>. QED BY <1>7, <1>9, <2>1, <2>2, <2>3, <2>4, Zenon
       DEF Contract!Submit, LogView, CountView, FailedView
<1>. QED BY <1>10, Zenon DEF Contract!Next

\* A writer starts to log where the listing ends: it has no batch yet.
LEMMA Starts ==
  ASSUME TypeOK, TypeOK', NEW e \in Epochs, WriterInv(e), StartList(e)
  PROVE  Contract!Next \/ UNCHANGED Contract!walVars
<1>1. UNCHANGED <<bulks, active, completed, completedTrim>> BY Zenon DEF StartList, trimVars
<1>2. LogView' = LogView /\ CountView' = CountView /\ FailedView' = FailedView
  BY <1>1, Zenon DEF LogView, CountView, FailedView
<1>3. \/ flushed' = flushed
      \/ \E offset : flushed' = [flushed EXCEPT ![e] = offset]
  BY Zenon DEF StartList
<1>4. CASE flushed' = flushed BY <1>1, <1>2, <1>4, Stutters, Zenon
<1>5. CASE \E offset : flushed' = [flushed EXCEPT ![e] = offset]
  <2>1. flushed \in [Epochs -> Nat] /\ flushed'[e] \in Nat BY Zenon DEF TypeOK
  <2>2. flushed' = [flushed EXCEPT ![e] = flushed'[e]] BY <1>5, <2>1, Zenon
  <2>3. status[e] = "verified" BY Zenon DEF StartList
  <2>4. bulks[e] = <<>> /\ active[e] = NoBulk BY <2>3, Zenon DEF WriterInv, HasListed
  <2>5. BatchCount(bulks[e], active[e]) = 0 BY <2>4 DEF BatchCount, NoBulk
  <2>6. CountView[e] = 0 BY <2>5, Zenon DEF CountView
  <2>7. Contract!Start(e)
    BY <1>1, <1>2, <2>1, <2>2, <2>6, Zenon
    DEF Contract!Start, LogView, CountView, FailedView
  <2>. QED BY <2>7, Zenon DEF Contract!Next
<1>. QED BY <1>3, <1>4, <1>5, Zenon

\* The next batch is answered.
LEMMA Answers ==
  ASSUME TypeOK, NEW e \in Epochs, WriterInv(e), Sizes(e), AckedBelow(e), CompleteBulk(e)
  PROVE  Contract!Next
<1>1. /\ completed' = [completed EXCEPT ![e] = completed[e] + 1]
      /\ UNCHANGED <<active, completedTrim>>
  BY Zenon DEF CompleteBulk, trimVars
<1>2. /\ completed[e] < BatchCount(bulks[e], active[e])
      /\ LogOf(bulks'[e], active[e]) = LogOf(bulks[e], active[e])
      /\ BatchCount(bulks'[e], active[e]) = BatchCount(bulks[e], active[e])
      /\ flushed'[e] \in Nat
      /\ \A f \in Epochs : f # e => bulks'[f] = bulks[f]
      /\ \/ /\ flushed[e] < flushed'[e] /\ flushed' = [flushed EXCEPT ![e] = flushed'[e]]
            /\ ~HasFailed(bulks[e]) /\ ~HasFailed(bulks'[e])
         \/ flushed' = flushed /\ HasFailed(bulks'[e])
  BY Completes, Zenon
<1>3. LogView' = LogView /\ CountView' = CountView BY <1>1, <1>2, ViewsStay, Zenon
<1>4. CountView[e] = BatchCount(bulks[e], active[e]) BY Zenon DEF CountView
<1>5. FailedView[e] <=> HasFailed(bulks[e]) BY Zenon DEF FailedView
<1>6. CASE /\ flushed[e] < flushed'[e] /\ flushed' = [flushed EXCEPT ![e] = flushed'[e]]
           /\ ~HasFailed(bulks[e]) /\ ~HasFailed(bulks'[e])
  <2>1. \A f \in Epochs : HasFailed(bulks'[f]) <=> HasFailed(bulks[f]) BY <1>2, <1>6, Zenon
  <2>2. FailedView' = FailedView BY <2>1, FailedStays, Zenon
  <2>3. flushed[e] \in Nat BY Zenon DEF TypeOK
  <2>4. flushed'[e] > flushed[e] BY <1>2, <1>6, <2>3, Zenon
  <2>5. Contract!Confirm(e)
    BY <1>1, <1>2, <1>3, <1>4, <1>5, <1>6, <2>2, <2>4, Zenon
    DEF Contract!Confirm, LogView, CountView, FailedView
  <2>. QED BY <2>5, Zenon DEF Contract!Next
<1>7. CASE flushed' = flushed /\ HasFailed(bulks'[e])
  <2>1. FailedView' = [FailedView EXCEPT ![e] = HasFailed(bulks'[e])]
    BY <1>1, <1>2, ViewsMove, Zenon
  <2>2. HasFailed(bulks'[e]) = TRUE BY <1>7, Zenon DEF HasFailed
  <2>3. FailedView' = [FailedView EXCEPT ![e] = TRUE] BY <2>1, <2>2, Zenon
  <2>4. Contract!Fail(e)
    BY <1>1, <1>2, <1>3, <1>4, <1>7, <2>3, Zenon
    DEF Contract!Fail, LogView, CountView, FailedView
  <2>. QED BY <2>4, Zenon DEF Contract!Next
<1>. QED BY <1>2, <1>6, <1>7, Zenon

\* A trim returns: it was called with an offset below the confirm offset.
LEMMA Trims ==
  ASSUME TypeOK, NEW e \in Epochs, NEW c \in AllCallers, TrimsBelow(e), TrimDone(e, c)
  PROVE  Contract!Next \/ UNCHANGED Contract!walVars
<1>1. UNCHANGED <<bulks, active, completed, flushed>>
  BY Zenon DEF TrimDone, offsetVars, loopVars
<1>2. LogView' = LogView /\ CountView' = CountView /\ FailedView' = FailedView
  BY <1>1, Zenon DEF LogView, CountView, FailedView
<1> DEFINE t == calls[e][c].t
<1>3. /\ completedTrim' = [completedTrim EXCEPT ![e] =
                             IF completedTrim[e] < t THEN t ELSE completedTrim[e]]
      /\ calls[e][c].pc = "delete"
  BY Zenon DEF TrimDone
<1>4. completedTrim \in [Epochs -> Int] /\ flushed[e] \in Nat /\ t \in Int BY Zenon DEF TypeOK
<1>5. t < flushed[e] BY <1>3, Zenon DEF TrimsBelow
<1> HIDE DEF t
<1>6. CASE completedTrim[e] < t
  <2>1. completedTrim' = [completedTrim EXCEPT ![e] = t] /\ completedTrim'[e] = t
    BY <1>3, <1>4, <1>6, Zenon
  <2>2. completedTrim'[e] \in completedTrim[e] + 1 .. flushed[e] - 1
    BY <1>4, <1>5, <1>6, <2>1
  <2>3. Contract!Trim(e)
    BY <1>1, <1>2, <2>1, <2>2, Zenon DEF Contract!Trim, LogView, CountView, FailedView
  <2>. QED BY <2>3, Zenon DEF Contract!Next
<1>7. CASE ~(completedTrim[e] < t)
  <2>1. completedTrim' = completedTrim BY <1>3, <1>4, <1>7, Zenon
  <2>. QED BY <1>1, <1>2, <2>1, Stutters, Zenon
<1>. QED BY <1>6, <1>7, Zenon

\* Every step of the log is a step of the contract or leaves its view alone.
LEMMA Simulates == IInv /\ CInv /\ [Next]_vars => Contract!Next \/ UNCHANGED Contract!walVars
<1> SUFFICES ASSUME IInv, CInv, [Next]_vars PROVE Contract!Next \/ UNCHANGED Contract!walVars
  BY Zenon
<1>0. TypeOK /\ \A e \in Epochs : WriterInv(e) /\ TrimInv(e) BY Zenon DEF IInv, CInv
<1>1. IInv' BY InvStep, Zenon
<1>2. TypeOK' BY <1>1, Zenon DEF IInv
<1>i. \A e \in Epochs : Sizes(e) /\ AckedBelow(e) /\ TrimsBelow(e) BY <1>0, Zenon DEF TrimInv
<1>t. /\ bulks \in [Epochs -> Seq(Bulk)] /\ active \in [Epochs -> [recs : SUBSET Rec, size : Nat]]
      /\ bulks' \in [Epochs -> Seq(Bulk)]
  BY <1>0, <1>2, Zenon DEF TypeOK
<1> USE DEF bucketVars, openVars, offsetVars, loopVars, trimVars
<1>3. ASSUME UNCHANGED <<bulks, active, completed, flushed, completedTrim>>
      PROVE  UNCHANGED Contract!walVars
  <2>1. LogView' = LogView /\ CountView' = CountView /\ FailedView' = FailedView
    BY <1>3, Zenon DEF LogView, CountView, FailedView
  <2>. QED BY <1>3, <2>1, Stutters, Zenon
<1>4. ASSUME NEW e \in Epochs, Extends(bulks[e], bulks'[e]),
             LogOf(bulks'[e], active'[e]) = LogOf(bulks[e], active[e]),
             BatchCount(bulks'[e], active'[e]) = BatchCount(bulks[e], active[e]),
             \A f \in Epochs : f # e => bulks'[f] = bulks[f] /\ active'[f] = active[f],
             UNCHANGED <<completed, flushed, completedTrim>>
      PROVE  UNCHANGED Contract!walVars
  <2>1. LogView' = LogView /\ CountView' = CountView BY <1>4, ViewsStay, Zenon
  <2>2. bulks[e] \in Seq(Bulk) /\ bulks'[e] \in Seq(Bulk) BY <1>t, Zenon
  <2>3. HasFailed(bulks'[e]) <=> HasFailed(bulks[e]) BY <1>4, <2>2, ExtendsKeeps, Zenon
  <2>4. \A f \in Epochs : HasFailed(bulks'[f]) <=> HasFailed(bulks[f]) BY <1>4, <2>3, Zenon
  <2>5. FailedView' = FailedView BY <2>4, FailedStays, Zenon
  <2>. QED BY <1>4, <2>1, <2>5, Stutters, Zenon
<1>5. CASE UNCHANGED vars BY <1>3, <1>5, Zenon DEF vars
<1>6. ASSUME NEW e \in Epochs,
             Acquire(e) \/ StartVerify(e) \/ Recover(e) \/ Ready(e) \/ CallbackVerify(e)
      PROVE  UNCHANGED Contract!walVars
  BY <1>3, <1>6, Zenon DEF Acquire, StartVerify, Recover, Ready, CallbackVerify
<1>7. ASSUME NEW e \in Epochs, StartList(e)
      PROVE  Contract!Next \/ UNCHANGED Contract!walVars
  BY <1>0, <1>2, <1>7, Starts, Zenon
<1>8. ASSUME NEW e \in Epochs, NEW s \in Streams, AppendRecord(e, s) PROVE Contract!Next
  <2> DEFINE r == <<e, s, appended[e]>>
  <2>1. r \in Rec BY <1>0, Zenon DEF TypeOK, Rec
  <2>2. Submit(e, r) /\ UNCHANGED <<completed, flushed, completedTrim>> BY <1>8, Zenon DEF AppendRecord
  <2> HIDE DEF r
  <2>. QED BY <1>0, <1>2, <1>i, <2>1, <2>2, Submits, Zenon
<1>9. ASSUME NEW e \in Epochs, SealActive(e) \/ Close(e) PROVE UNCHANGED Contract!walVars
  <2>1. /\ UNCHANGED <<completed, flushed, completedTrim>>
        /\ \/ active[e].size > 0 /\ seal_active(e)
           \/ UNCHANGED <<bulks, active>>
    BY <1>9, Zenon DEF SealActive, Close
  <2>2. CASE UNCHANGED <<bulks, active>> BY <1>3, <2>1, <2>2, Zenon
  <2>3. CASE active[e].size > 0 /\ seal_active(e)
    <3>1. /\ Extends(bulks[e], bulks'[e])
          /\ LogOf(bulks'[e], active'[e]) = LogOf(bulks[e], active[e])
          /\ BatchCount(bulks'[e], active'[e]) = BatchCount(bulks[e], active[e])
      BY <1>0, <1>i, <2>3, SealStep, Zenon
    <3>2. \A f \in Epochs : f # e => bulks'[f] = bulks[f] /\ active'[f] = active[f]
      BY <1>t, <2>3, Zenon DEF seal_active
    <3>. QED BY <1>4, <2>1, <3>1, <3>2, Zenon
  <2>. QED BY <2>1, <2>2, <2>3, Zenon
<1>10. ASSUME NEW e \in Epochs, NEW i \in DOMAIN bulks[e],
              UploadBulk(e, i) \/ UploadOk(e, i) \/ UploadErr(e, i)
       PROVE  UNCHANGED Contract!walVars
  <2>1. UNCHANGED <<active, completed, flushed, completedTrim>>
    BY <1>10, Zenon DEF UploadBulk, UploadOk, UploadErr
  <2>2. /\ Extends(bulks[e], bulks'[e])
        /\ LogOf(bulks'[e], active[e]) = LogOf(bulks[e], active[e])
        /\ BatchCount(bulks'[e], active[e]) = BatchCount(bulks[e], active[e])
        /\ \A f \in Epochs : f # e => bulks'[f] = bulks[f]
    BY <1>0, <1>2, <1>10, <1>i, UploadStep, Zenon
  <2>. QED BY <1>4, <2>1, <2>2, Zenon
<1>11. ASSUME NEW e \in Epochs, CallbackPop(e) PROVE UNCHANGED Contract!walVars
  <2>1. UNCHANGED <<active, completed, flushed, completedTrim>> BY <1>11, Zenon DEF CallbackPop
  <2>2. /\ Extends(bulks[e], bulks'[e])
        /\ LogOf(bulks'[e], active[e]) = LogOf(bulks[e], active[e])
        /\ BatchCount(bulks'[e], active[e]) = BatchCount(bulks[e], active[e])
        /\ \A f \in Epochs : f # e => bulks'[f] = bulks[f]
    BY <1>0, <1>11, <1>i, PopStep, Zenon
  <2>. QED BY <1>4, <2>1, <2>2, Zenon
<1>12. ASSUME NEW e \in Epochs, CompleteBulk(e) PROVE Contract!Next
  BY <1>0, <1>12, <1>i, Answers, Zenon
<1>13. ASSUME NEW e \in Epochs, NEW c \in AllCallers,
              TrimStart(e, c) \/ TrimDelete(e, c) \/ TrimFails(e, c) \/ TrimWaited(e, c)
       PROVE  UNCHANGED Contract!walVars
  BY <1>3, <1>13, Zenon DEF TrimStart, TrimDelete, TrimFails, TrimWaited
<1>14. ASSUME NEW e \in Epochs, NEW c \in AllCallers, TrimSubmit(e, c)
       PROVE  Contract!Next \/ UNCHANGED Contract!walVars
  <2>1. UNCHANGED <<completed, flushed, completedTrim>> BY <1>14, Zenon DEF TrimSubmit
  <2>2. CASE UNCHANGED offsetVars BY <1>3, <2>1, <2>2, Zenon
  <2>3. CASE Submit(e, FakeRecord(e, c))
    <3>1. FakeRecord(e, c) \in Rec
      BY ConstantsAssumption DEF FakeRecord, Rec, AllCallers, ResetCaller
    <3>. QED BY <1>0, <1>2, <1>i, <2>1, <2>3, <3>1, Submits, Zenon
  <2>. QED BY <1>14, <2>2, <2>3, Zenon DEF TrimSubmit
<1>15. ASSUME NEW e \in Epochs, NEW c \in AllCallers, TrimDone(e, c)
       PROVE  Contract!Next \/ UNCHANGED Contract!walVars
  BY <1>0, <1>15, <1>i, Trims, Zenon
<1>16. ASSUME NEW o, PutLands(o) \/ Reap(o) PROVE UNCHANGED Contract!walVars
  BY <1>3, <1>16, Zenon DEF PutLands, Reap
<1>. QED
  BY <1>5, <1>6, <1>7, <1>8, <1>9, <1>10, <1>11, <1>12, <1>13, <1>14, <1>15, <1>16, Zenon
  DEF Next, WriterStep, TrimStep

\* A log that nobody has opened keeps the contract.
LEMMA SimulatesInit == Init => CInv /\ Contract!Init
<1> SUFFICES ASSUME Init PROVE CInv /\ Contract!Init
  BY Zenon
<1>1. \A e \in Epochs : bulks[e] = <<>> /\ active[e] = NoBulk
  BY Zenon DEF Init
<1>2. CInv BY CInvInit, Zenon
<1>3. /\ \A e \in Epochs : LogOf(bulks[e], active[e]) = {}
      /\ \A e \in Epochs : BatchCount(bulks[e], active[e]) = 0
      /\ \A e \in Epochs : HasFailed(bulks[e]) = FALSE
  <2> SUFFICES ASSUME NEW e \in Epochs
               PROVE  /\ LogOf(<<>>, NoBulk) = {} /\ BatchCount(<<>>, NoBulk) = 0
                      /\ HasFailed(<<>>) = FALSE
    BY <1>1, Zenon
  <2>1. LogOf(<<>>, NoBulk) = {} BY EmptySeq, Zenon DEF LogOf, NoBulk
  <2>2. BatchCount(<<>>, NoBulk) = 0 BY EmptySeq DEF BatchCount, NoBulk
  <2>3. HasFailed(<<>>) = FALSE BY EmptySeq, Zenon DEF HasFailed
  <2>. QED BY <2>1, <2>2, <2>3, Zenon
<1>4. Contract!Init BY <1>3, Zenon DEF Init, Contract!Init, TRIM_OFFSET_NONE
<1>. QED BY <1>2, <1>4, Zenon

\* The object WAL keeps the contract of a write-ahead log, whatever its writers do and
\* in whatever order uploads end: appends are answered in order, nothing is confirmed
\* after a failure, no trim that returns reaches the confirm offset.
THEOREM ImplementsContract == Spec => ImplementsWal
<1>1. Init => IInv BY InvInit, Zenon
<1>2. Init => CInv /\ Contract!Init BY SimulatesInit, Zenon
<1>3. IInv /\ CInv /\ [Next]_vars => IInv' BY InvStep, Zenon
<1>4. IInv /\ CInv /\ [Next]_vars => CInv' BY CInvStep, Zenon
<1>5. IInv /\ CInv /\ [Next]_vars => [Contract!Next]_(Contract!walVars) BY Simulates, Zenon
<1>. QED BY <1>1, <1>2, <1>3, <1>4, <1>5, PTL DEF Spec, ImplementsWal, Contract!Spec
=============================================================================

--------------------------- MODULE ObjectWalProofs ---------------------------
(***************************************************************************)
(* Proofs about ObjectWal for every value of its constants: type           *)
(* correctness, that the bulks of a writer tile the offset space, and that *)
(* the confirm offset has no hole below it.                                *)
(***************************************************************************)
EXTENDS ObjectWal, TLAPS

-----------------------------------------------------------------------------
(* Sequences.                                                              *)

\* The length of a sequence and its domain.
LEMMA LenNat ==
  ASSUME NEW S, NEW s \in Seq(S)
  PROVE  Len(s) \in Nat /\ DOMAIN s = 1 .. Len(s) /\ (s = <<>> <=> Len(s) = 0)
OBVIOUS

\* The elements of a sequence.
LEMMA ElementType ==
  ASSUME NEW S, NEW s \in Seq(S), NEW i \in DOMAIN s
  PROVE  s[i] \in S
OBVIOUS

\* ... of which there is none in the empty one.
LEMMA NotEmpty ==
  ASSUME NEW S, NEW s \in Seq(S), NEW i \in DOMAIN s
  PROVE  s # <<>>
OBVIOUS

\* Replacing an element keeps the length and the other elements.
LEMMA SeqExcept ==
  ASSUME NEW S, NEW s \in Seq(S), NEW i \in DOMAIN s, NEW x \in S,
         NEW t \in Seq(S), t = [s EXCEPT ![i] = x]
  PROVE  /\ Len(t) = Len(s) /\ s # <<>>
         /\ \A j \in DOMAIN s : t[j] = IF j = i THEN x ELSE s[j]
<1>1. s # <<>> OBVIOUS
<1>2. DOMAIN t = DOMAIN s /\ \A j \in DOMAIN s : t[j] = IF j = i THEN x ELSE s[j] BY Zenon
<1>3. Len(t) = Len(s) BY <1>2
<1>. QED BY <1>1, <1>2, <1>3, Zenon

\* The empty sequence.
LEMMA EmptySeq == DOMAIN <<>> = {} /\ Len(<<>>) = 0
OBVIOUS

\* A member of an interval lies between its ends.
LEMMA Between ==
  ASSUME NEW a \in Nat, NEW b \in Nat, NEW n \in a + 1 .. b
  PROVE  a + 1 <= n /\ n <= b /\ n \in Nat
OBVIOUS

\* ... and beyond everything up to the lower end.
LEMMA Beyond ==
  ASSUME NEW a \in Nat, NEW b \in Nat, NEW n \in a + 1 .. b, NEW k \in Nat, k <= a
  PROVE  k <= n /\ b # 0
OBVIOUS

LEMMA GeqSelf ==
  ASSUME NEW a \in Nat
  PROVE  a >= a
OBVIOUS

-----------------------------------------------------------------------------
(* Offsets.                                                                *)

\* Rounding up to the alignment yields a natural number no smaller than the
\* offset (ceil_align_offset in keys.rs).
LEMMA CeilAlign ==
  ASSUME NEW x \in Nat
  PROVE  ceil_align_offset(x) \in Nat /\ ceil_align_offset(x) >= x
<1> DEFINE y == x + Align - 1
           q == y \div Align
           r == y % Align
<1>0. Align \in Nat \ {0} BY ConstantsAssumption, Zenon
<1>1. y \in Nat BY <1>0
<1>2. q \in Int /\ r \in 0 .. (Align - 1) /\ y = Align * q + r BY <1>0, <1>1
<1>3. q >= 0 BY <1>0, <1>1, <1>2
<1>4. q * Align = Align * q BY <1>0, <1>2
<1>5. q * Align \in Nat BY <1>0, <1>2, <1>3
<1>. QED BY <1>0, <1>2, <1>4, <1>5 DEF ceil_align_offset

\* A sealed bulk is a bulk that starts at its base (seal_active in writer.rs).
LEMMA SealedType ==
  ASSUME NEW base \in Nat, NEW b \in [recs : SUBSET Rec, size : Nat], b.size > 0
  PROVE  Sealed(base, b) \in Bulk
BY DEF Sealed, Bulk, BulkStates, TRIM_OFFSET_NONE

\* The offsets of a bulk (upload_bulk).
LEMMA BulkOffsets ==
  ASSUME NEW b \in Bulk
  PROVE  /\ EndOffset(b) \in Nat /\ EndOffset(b) >= b.base + b.size
         /\ LastOffset(b) \in Nat
<1>1. b.base \in Nat /\ b.size \in Nat \ {0} BY Zenon DEF Bulk
<1>2. b.base + b.size \in Nat BY <1>1
<1>3. EndOffset(b) \in Nat /\ EndOffset(b) >= b.base + b.size
  BY <1>2, CeilAlign, Zenon DEF EndOffset
<1>4. LastOffset(b) \in Nat BY <1>1 DEF LastOffset
<1>. QED BY <1>3, <1>4, Zenon

\* try_upload_waiting moves bulks from "waiting" to "spawned" and nothing else.
LEMMA UploadWaiting ==
  ASSUME NEW bs \in Seq(Bulk), NEW taken \in Nat
  PROVE  LET new == try_upload_waiting(bs, taken)
         IN  /\ new \in Seq(Bulk)
             /\ Len(new) = Len(bs)
             /\ DOMAIN new = DOMAIN bs
             /\ \A i \in DOMAIN bs :
                  /\ new[i].base = bs[i].base
                  /\ new[i].size = bs[i].size
                  /\ new[i].recs = bs[i].recs
                  /\ \/ new[i].st = bs[i].st
                     \/ bs[i].st = "waiting" /\ new[i].st = "spawned"
<1> DEFINE new == try_upload_waiting(bs, taken)
<1>1. DOMAIN bs = 1 .. Len(bs) /\ Len(bs) \in Nat OBVIOUS
<1>2. ASSUME NEW i \in DOMAIN bs
      PROVE  /\ new[i] \in Bulk
             /\ new[i].base = bs[i].base
             /\ new[i].size = bs[i].size
             /\ new[i].recs = bs[i].recs
             /\ \/ new[i].st = bs[i].st
                \/ bs[i].st = "waiting" /\ new[i].st = "spawned"
  <2>1. bs[i] \in Bulk BY <1>1
  <2>2. new[i] = IF bs[i].st = "waiting" /\ i <= taken + MaxInflightUploadCount
                 THEN [bs[i] EXCEPT !.st = "spawned"] ELSE bs[i]
    BY Zenon DEF try_upload_waiting
  <2>. QED BY <2>1, <2>2, Zenon DEF Bulk, BulkStates
<1>3. DOMAIN new = DOMAIN bs BY Zenon DEF try_upload_waiting
<1>4. new \in [1 .. Len(bs) -> Bulk]
  <2>1. new = [i \in 1 .. Len(bs) |-> new[i]] BY <1>1, Zenon DEF try_upload_waiting
  <2>. QED BY <1>1, <1>2, <2>1, Zenon
<1>5. new \in Seq(Bulk) /\ Len(new) = Len(bs)
  BY <1>1, <1>3, <1>4
<1>. QED BY <1>2, <1>3, <1>5, Zenon

-----------------------------------------------------------------------------
(* Type correctness.                                                       *)

\* Where submit puts a record is typed (submit, new_active_bulk).
LEMMA PlaceTyped ==
  ASSUME TypeOK, NEW e \in Epochs, NEW r \in Rec
  PROVE  /\ BaseFor(e) \in Nat
         /\ QueueFor(e) \in Seq(Bulk)
         /\ BulkWith(e, r) \in [recs : SUBSET Rec, size : Nat]
         /\ BulkWith(e, r).size > 0
         /\ ceil_align_offset(BaseFor(e) + BulkWith(e, r).size) \in Nat
         /\ Sealed(BaseFor(e), BulkWith(e, r)) \in Bulk
<1>1. /\ next[e] \in Nat
      /\ active[e] \in [recs : SUBSET Rec, size : Nat]
      /\ bulks[e] \in Seq(Bulk)
  BY Zenon DEF TypeOK
<1>2. next[e] + active[e].size \in Nat BY <1>1
<1>3. SealedTo(e) \in Nat BY <1>2, CeilAlign, Zenon DEF SealedTo
<1>4. BaseFor(e) \in Nat BY <1>1, <1>3, Zenon DEF BaseFor
<1>5. QueueFor(e) \in Seq(Bulk)
  <2>1. CASE Fits(e) BY <1>1, <2>1, Zenon DEF QueueFor
  <2>2. CASE ~Fits(e)
    <3>1. active[e].size > 0 BY <1>1, <2>2, ConstantsAssumption DEF Fits
    <3>2. Sealed(next[e], active[e]) \in Bulk BY <1>1, <3>1, SealedType, Zenon
    <3>. QED BY <1>1, <2>2, <3>2 DEF QueueFor
  <2>. QED BY <2>1, <2>2, Zenon
<1>6. BulkWith(e, r) \in [recs : SUBSET Rec, size : Nat] /\ BulkWith(e, r).size > 0
  BY <1>1 DEF BulkWith
<1>7. BaseFor(e) + BulkWith(e, r).size \in Nat BY <1>4, <1>6
<1>8. ceil_align_offset(BaseFor(e) + BulkWith(e, r).size) \in Nat BY <1>7, CeilAlign, Zenon
<1>9. Sealed(BaseFor(e), BulkWith(e, r)) \in Bulk BY <1>4, <1>6, SealedType, Zenon
<1>. QED BY <1>4, <1>5, <1>6, <1>8, <1>9, Zenon

CallsType == [Epochs -> [AllCallers -> [pc : CallStates, t : Int]]]

\* Changing the state of one bulk keeps the bulks typed and everything else
\* about them (upload_bulk, complete_bulk).
LEMMA SetBulkState ==
  ASSUME TypeOK, NEW e \in Epochs, NEW i \in DOMAIN bulks[e], NEW st \in BulkStates,
         bulks' = [bulks EXCEPT ![e][i].st = st]
  PROVE  /\ bulks' \in [Epochs -> Seq(Bulk)]
         /\ bulks'[e] = [bulks[e] EXCEPT ![i] = [bulks[e][i] EXCEPT !.st = st]]
         /\ \A f \in Epochs : f # e => bulks'[f] = bulks[f]
         /\ Len(bulks'[e]) = Len(bulks[e])
<1>1. bulks \in [Epochs -> Seq(Bulk)] /\ bulks[e] \in Seq(Bulk) BY Zenon DEF TypeOK
<1>2. bulks[e][i] \in Bulk BY <1>1
<1> DEFINE b == [bulks[e][i] EXCEPT !.st = st]
           q == [bulks[e] EXCEPT ![i] = b]
<1>3. b \in Bulk BY <1>2, Zenon DEF Bulk
<1>4. bulks' = [bulks EXCEPT ![e] = q] BY Zenon
<1>5. q \in Seq(Bulk) /\ Len(q) = Len(bulks[e])
  <2> HIDE DEF b
  <2>. QED BY <1>1, <1>3
<1> HIDE DEF q
<1>6. bulks'[e] = q BY <1>1, <1>4, Zenon
<1>. QED BY <1>1, <1>4, <1>5, <1>6, Zenon DEF q

-----------------------------------------------------------------------------
(* The callback loop never runs ahead of the bulks. *)
CountersOrdered ==
  \A e \in Epochs : completed[e] <= popped[e] /\ popped[e] <= Len(bulks[e])

\* The offsets a trim may be called with are integers (trim, reset).
LEMMA TrimTargetsTyped ==
  ASSUME TypeOK, NEW e \in Epochs, NEW c \in AllCallers, NEW t \in TrimTargets(e, c)
  PROVE  t \in Int
<1>1. next[e] \in Nat BY Zenon DEF TypeOK
<1>2. \A u \in AckedUserOffsets(e) : u \in Int BY <1>1 DEF AckedUserOffsets
<1>. QED BY <1>1, <1>2 DEF TrimTargets

\* A step of the log keeps every variable typed.
LEMMA TypeStep == TypeOK /\ CountersOrdered /\ [Next]_vars => TypeOK'
\* The object a bulk is written as (upload_bulk).
<1>ObjectTyped. ASSUME NEW b \in Bulk, NEW e \in Epochs
      PROVE  WalObjectOf(e, b) \in WalObject
  <2> USE <1>ObjectTyped
  <2>1. b.base \in Nat /\ b.trim \in Int /\ b.recs \in SUBSET Rec BY Zenon DEF Bulk
  <2>2. EndOffset(b) \in Nat /\ LastOffset(b) \in Nat BY BulkOffsets, Zenon
  <2>. QED BY <2>1, <2>2, Zenon DEF WalObjectOf, WalObject
\* Sealing the active bulk keeps the batch state typed (seal_active).
<1>SealTyped. ASSUME TypeOK, NEW e \in Epochs, active[e].size > 0, seal_active(e)
      PROVE  /\ next' \in [Epochs -> Nat]
             /\ bulks' \in [Epochs -> Seq(Bulk)]
             /\ active' \in [Epochs -> [recs : SUBSET Rec, size : Nat]]
  <2> USE <1>SealTyped
  <2> DEFINE queue == Append(bulks[e], Sealed(next[e], active[e]))
  <2>1. /\ next \in [Epochs -> Nat] /\ next[e] \in Nat
        /\ active \in [Epochs -> [recs : SUBSET Rec, size : Nat]]
        /\ active[e] \in [recs : SUBSET Rec, size : Nat]
        /\ bulks \in [Epochs -> Seq(Bulk)] /\ bulks[e] \in Seq(Bulk)
        /\ popped[e] \in Nat
    BY Zenon DEF TypeOK
  <2>2. next[e] + active[e].size \in Nat BY <2>1
  <2>3. SealedTo(e) \in Nat BY <2>2, CeilAlign, Zenon DEF SealedTo
  <2>4. Sealed(next[e], active[e]) \in Bulk BY <2>1, SealedType, Zenon
  <2>5. queue \in Seq(Bulk) BY <2>1, <2>4
  <2>6. try_upload_waiting(queue, popped[e]) \in Seq(Bulk) BY <2>1, <2>5, UploadWaiting, Zenon
  <2>7. NoBulk \in [recs : SUBSET Rec, size : Nat] BY Zenon DEF NoBulk
  <2>. QED BY <2>1, <2>3, <2>6, <2>7, Zenon DEF seal_active
\* The locked section of submit keeps the batch state typed (submit).
<1>SubmitTyped. ASSUME TypeOK, NEW e \in Epochs, NEW r \in Rec, Submit(e, r)
      PROVE  /\ next' \in [Epochs -> Nat]
             /\ bulks' \in [Epochs -> Seq(Bulk)]
             /\ active' \in [Epochs -> [recs : SUBSET Rec, size : Nat]]
             /\ buffered' \in [Epochs -> Int]
  <2> USE <1>SubmitTyped
  <2> DEFINE queue == Append(QueueFor(e), Sealed(BaseFor(e), BulkWith(e, r)))
  <2>1. /\ next \in [Epochs -> Nat]
        /\ active \in [Epochs -> [recs : SUBSET Rec, size : Nat]]
        /\ bulks \in [Epochs -> Seq(Bulk)]
        /\ popped[e] \in Nat
        /\ buffered \in [Epochs -> Int] /\ buffered[e] \in Int
    BY Zenon DEF TypeOK
  <2>2. queue \in Seq(Bulk) BY PlaceTyped
  <2>3. try_upload_waiting(queue, popped[e]) \in Seq(Bulk)
    <3> HIDE DEF queue
    <3>. QED BY <2>1, <2>2, UploadWaiting, Zenon
  <2>4. NoBulk \in [recs : SUBSET Rec, size : Nat] BY Zenon DEF NoBulk
  <2>5. buffered' \in [Epochs -> Int] BY <2>1 DEF Submit
  <2>6. next' \in [Epochs -> Nat]
    <3>1. PICK n \in Nat : next' = [next EXCEPT ![e] = n] BY PlaceTyped, Zenon DEF Submit
    <3>. QED BY <2>1, <3>1, Zenon
  <2>7. active' \in [Epochs -> [recs : SUBSET Rec, size : Nat]]
    <3>1. PICK a \in [recs : SUBSET Rec, size : Nat] : active' = [active EXCEPT ![e] = a]
      BY <2>4, PlaceTyped, Zenon DEF Submit
    <3>. QED BY <2>1, <3>1, Zenon
  <2>8. bulks' \in [Epochs -> Seq(Bulk)]
    <3>1. PICK q \in Seq(Bulk) : bulks' = [bulks EXCEPT ![e] = q]
      BY <2>3, PlaceTyped, Zenon DEF Submit
    <3>. QED BY <2>1, <3>1, Zenon
  <2>. QED BY <2>5, <2>6, <2>7, <2>8, Zenon
\* Moving one trim call on keeps the calls typed (trim0).
<1>SetCallTyped. ASSUME TypeOK, NEW e \in Epochs, NEW c \in AllCallers,
             NEW pc \in CallStates, NEW t \in Int, SetCall(e, c, pc, t)
      PROVE  calls' \in CallsType
  <2> USE <1>SetCallTyped
  <2>1. calls \in CallsType BY Zenon DEF TypeOK, CallsType
  <2>2. [pc |-> pc, t |-> t] \in [pc : CallStates, t : Int] BY Zenon
  <2>3. calls' = [calls EXCEPT ![e] = [calls[e] EXCEPT ![c] = [pc |-> pc, t |-> t]]]
    BY <2>1, Zenon DEF SetCall, CallsType
  <2>4. [calls[e] EXCEPT ![c] = [pc |-> pc, t |-> t]] \in [AllCallers -> [pc : CallStates, t : Int]]
    BY <2>1, <2>2, Zenon DEF CallsType
  <2>. QED BY <2>1, <2>3, <2>4, Zenon DEF CallsType
<1> SUFFICES ASSUME TypeOK, CountersOrdered, [Next]_vars PROVE TypeOK'
  BY Zenon
<1> USE DEF bucketVars, openVars, offsetVars, loopVars, trimVars
<1>1. CASE UNCHANGED vars BY <1>1, Zenon DEF TypeOK, vars
<1>2. ASSUME NEW e \in Epochs, Acquire(e) PROVE TypeOK'
  BY <1>2, Zenon DEF Acquire, TypeOK, Statuses
<1>3. ASSUME NEW e \in Epochs, StartVerify(e) PROVE TypeOK'
  BY <1>3, Zenon DEF StartVerify, TypeOK, Statuses
<1>4. ASSUME NEW e \in Epochs, StartList(e) PROVE TypeOK'
  <2>1. OverlapObjects(store) \subseteq WalObject /\ skip_overlap_objects(store) \subseteq WalObject
    BY Zenon DEF TypeOK, OverlapObjects, skip_overlap_objects
  <2>2. \A o \in WalObject : o.end \in Nat BY Zenon DEF WalObject
  <2>3. reaper' \subseteq WalObject BY <1>4, <2>1, Zenon DEF StartList, TypeOK
  <2>4. /\ status' \in [Epochs -> Statuses] /\ fenced' \in [Epochs -> BOOLEAN]
        /\ next' \in [Epochs -> Nat] /\ flushed' \in [Epochs -> Nat]
        /\ prev' \in [Epochs -> SUBSET WalObject]
    <3>1. PICK st \in Statuses : status' = [status EXCEPT ![e] = st]
      BY <1>4, Zenon DEF StartList, Statuses
    <3>2. fenced' = [fenced EXCEPT ![e] = TRUE] \/ fenced' = fenced
      BY <1>4, Zenon DEF StartList
    <3>3. (\E n \in Nat : next' = [next EXCEPT ![e] = n]) \/ next' = next
      BY <1>4, <2>1, <2>2, Zenon DEF StartList
    <3>4. (\E n \in Nat : flushed' = [flushed EXCEPT ![e] = n]) \/ flushed' = flushed
      BY <1>4, <2>1, <2>2, Zenon DEF StartList
    <3>5. (\E S \in SUBSET WalObject : prev' = [prev EXCEPT ![e] = S]) \/ prev' = prev
      BY <1>4, <2>1, Zenon DEF StartList
    <3>6. /\ status \in [Epochs -> Statuses] /\ fenced \in [Epochs -> BOOLEAN]
          /\ next \in [Epochs -> Nat] /\ flushed \in [Epochs -> Nat]
          /\ prev \in [Epochs -> SUBSET WalObject]
      BY Zenon DEF TypeOK
    <3>. QED BY <3>1, <3>2, <3>3, <3>4, <3>5, <3>6, Zenon
  <2>. QED BY <1>4, <2>3, <2>4, Zenon DEF StartList, TypeOK
<1>5. ASSUME NEW e \in Epochs, Recover(e) PROVE TypeOK'
  <2>1. \A t : RecordsPast(get_continuous_from_trim_offset(prev[e], t), t) \subseteq Rec
    <3> SUFFICES ASSUME NEW t
                 PROVE  RecordsPast(get_continuous_from_trim_offset(prev[e], t), t) \subseteq Rec
      BY Zenon
    <3>1. get_continuous_from_trim_offset(prev[e], t) \subseteq WalObject
      BY Zenon DEF get_continuous_from_trim_offset, TypeOK
    <3>2. \A o \in WalObject : o.recs \subseteq Rec BY Zenon DEF WalObject
    <3>. QED BY <3>1, <3>2, Zenon DEF RecordsPast
  <2>2. recovered' \in [Epochs -> SUBSET Rec] /\ status' \in [Epochs -> Statuses]
    <3>1. PICK st \in Statuses : status' = [status EXCEPT ![e] = st]
      BY <1>5, Zenon DEF Recover, Statuses
    <3>2. \/ \E R \in SUBSET Rec : recovered' = [recovered EXCEPT ![e] = R]
          \/ recovered' = recovered
      BY <1>5, <2>1, Zenon DEF Recover
    <3>3. status \in [Epochs -> Statuses] /\ recovered \in [Epochs -> SUBSET Rec] BY Zenon DEF TypeOK
    <3>. QED BY <3>1, <3>2, <3>3, Zenon
  <2>. QED BY <1>5, <2>2, Zenon DEF Recover, TypeOK
<1>6. ASSUME NEW e \in Epochs, Ready(e) PROVE TypeOK'
  BY <1>6, Zenon DEF Ready, TypeOK, Statuses
<1>7. ASSUME NEW e \in Epochs, NEW s \in Streams, AppendRecord(e, s) PROVE TypeOK'
  <2>1. <<e, s, appended[e]>> \in Rec BY Zenon DEF TypeOK, Rec
  <2>2. Submit(e, <<e, s, appended[e]>>) BY <1>7, Zenon DEF AppendRecord
  <2>3. /\ next' \in [Epochs -> Nat] /\ bulks' \in [Epochs -> Seq(Bulk)]
        /\ active' \in [Epochs -> [recs : SUBSET Rec, size : Nat]]
        /\ buffered' \in [Epochs -> Int]
    BY <2>1, <2>2, <1>SubmitTyped, Zenon
  <2>4. appended' \in [Epochs -> Nat]
    <3>1. appended' = [appended EXCEPT ![e] = appended[e] + 1] BY <1>7, Zenon DEF AppendRecord
    <3>2. appended \in [Epochs -> Nat] BY Zenon DEF TypeOK
    <3>. QED BY <3>1, <3>2
  <2>. QED BY <1>7, <2>3, <2>4, Zenon DEF AppendRecord, TypeOK
<1>8. ASSUME NEW e \in Epochs, SealActive(e) PROVE TypeOK'
  <2>1. active[e].size > 0 /\ seal_active(e) BY <1>8, Zenon DEF SealActive
  <2>. QED BY <1>8, <2>1, <1>SealTyped, Zenon DEF SealActive, TypeOK
<1>9. ASSUME NEW e \in Epochs, Close(e) PROVE TypeOK'
  <2>1. status' \in [Epochs -> Statuses] BY <1>9, Zenon DEF Close, TypeOK, Statuses
  <2>2. /\ next' \in [Epochs -> Nat] /\ bulks' \in [Epochs -> Seq(Bulk)]
        /\ active' \in [Epochs -> [recs : SUBSET Rec, size : Nat]]
    <3>1. CASE active[e].size > 0
      <4>1. seal_active(e) BY <1>9, <3>1, Zenon DEF Close
      <4>. QED BY <3>1, <4>1, <1>SealTyped, Zenon
    <3>2. CASE ~(active[e].size > 0) BY <1>9, <3>2, Zenon DEF Close, TypeOK
    <3>. QED BY <3>1, <3>2, Zenon
  <2>. QED BY <1>9, <2>1, <2>2, Zenon DEF Close, TypeOK
<1>10. ASSUME NEW e \in Epochs, NEW i \in DOMAIN bulks[e], UploadBulk(e, i) PROVE TypeOK'
  <2> DEFINE b == [bulks[e][i] EXCEPT !.st = "put", !.trim = HeaderTrim(e)]
             q == [bulks[e] EXCEPT ![i] = b]
  <2>1. bulks \in [Epochs -> Seq(Bulk)] /\ bulks[e] \in Seq(Bulk) /\ trim[e] \in Int
    BY Zenon DEF TypeOK
  <2>2. bulks[e][i] \in Bulk BY <2>1
  <2>3. b \in Bulk BY <2>1, <2>2, Zenon DEF Bulk, BulkStates, HeaderTrim
  <2>4. bulks' = [bulks EXCEPT ![e] = q] /\ sent' = sent \cup {WalObjectOf(e, b)}
    BY <1>10, Zenon DEF UploadBulk
  <2> HIDE DEF b
  <2>5. q \in Seq(Bulk) BY <2>1, <2>3
  <2>6. WalObjectOf(e, b) \in WalObject BY <2>3, <1>ObjectTyped, Zenon
  <2> HIDE DEF q
  <2>7. bulks' \in [Epochs -> Seq(Bulk)] BY <2>1, <2>4, <2>5, Zenon
  <2>8. sent' \subseteq WalObject BY <2>4, <2>6, Zenon DEF TypeOK
  <2>. QED BY <1>10, <2>7, <2>8, Zenon DEF UploadBulk, TypeOK
<1>11. ASSUME NEW o \in sent, PutLands(o) PROVE TypeOK'
  BY <1>11, Zenon DEF PutLands, TypeOK
<1>12. ASSUME NEW e \in Epochs, NEW i \in DOMAIN bulks[e], UploadOk(e, i) PROVE TypeOK'
  <2>1. bulks' \in [Epochs -> Seq(Bulk)]
    BY <1>12, SetBulkState, Zenon DEF UploadOk, BulkStates
  <2>2. WalObjectOf(e, bulks[e][i]) \in WalObject BY <1>12, Zenon DEF UploadOk, TypeOK
  <2>3. own' \in [Epochs -> SUBSET WalObject] BY <1>12, <2>2, Zenon DEF UploadOk, TypeOK
  <2>. QED BY <1>12, <2>1, <2>3, Zenon DEF UploadOk, TypeOK
<1>13. ASSUME NEW e \in Epochs, NEW i \in DOMAIN bulks[e], UploadErr(e, i) PROVE TypeOK'
  <2>1. bulks' \in [Epochs -> Seq(Bulk)]
    BY <1>13, SetBulkState, Zenon DEF UploadErr, BulkStates
  <2>. QED BY <1>13, <2>1, Zenon DEF UploadErr, TypeOK
<1>14. ASSUME NEW e \in Epochs, CallbackPop(e) PROVE TypeOK'
  <2>1. PICK n \in popped[e] + 1 .. Len(bulks[e]) :
          /\ popped' = [popped EXCEPT ![e] = n]
          /\ bulks' = [bulks EXCEPT ![e] = try_upload_waiting(bulks[e], n)]
    BY <1>14, Zenon DEF CallbackPop
  <2>2. n \in Nat /\ bulks[e] \in Seq(Bulk) BY DEF TypeOK
  <2>3. try_upload_waiting(bulks[e], n) \in Seq(Bulk) BY <2>2, UploadWaiting, Zenon
  <2>4. bulks' \in [Epochs -> Seq(Bulk)] BY <2>1, <2>3, Zenon DEF TypeOK
  <2>5. popped' \in [Epochs -> Nat] BY <2>1, <2>2, Zenon DEF TypeOK
  <2>6. cb' \in [Epochs -> {"idle", "verify", "ack", "fail"}] BY <1>14, Zenon DEF CallbackPop, TypeOK
  <2>. QED BY <1>14, <2>4, <2>5, <2>6, Zenon DEF CallbackPop, TypeOK
<1>15. ASSUME NEW e \in Epochs, CallbackVerify(e) PROVE TypeOK'
  BY <1>15, Zenon DEF CallbackVerify, TypeOK
<1>16. ASSUME NEW e \in Epochs, CompleteBulk(e) PROVE TypeOK'
  <2> DEFINE i == completed[e] + 1
  <2>1. /\ completed[e] \in Nat /\ popped[e] \in Nat /\ i <= popped[e]
        /\ bulks[e] \in Seq(Bulk) /\ popped[e] <= Len(bulks[e])
    BY <1>16, Zenon DEF CompleteBulk, TypeOK, CountersOrdered
  <2>2. i \in DOMAIN bulks[e] /\ i \in Nat BY <2>1
  <2>3. bulks[e][i] \in Bulk BY <2>1, <2>2
  <2>4. EndOffset(bulks[e][i]) \in Nat BY <2>3, BulkOffsets, Zenon
  <2>5. bulks[e][i].size \in Nat BY <2>3, Zenon DEF Bulk
  <2>6. \E st \in {"acked", "failed"} : bulks' = [bulks EXCEPT ![e][i].st = st]
    BY <1>16, Zenon DEF CompleteBulk
  <2>7. bulks' \in [Epochs -> Seq(Bulk)]
    <3>1. PICK st \in {"acked", "failed"} : bulks' = [bulks EXCEPT ![e][i].st = st] BY <2>6, Zenon
    <3>2. st \in BulkStates BY Zenon DEF BulkStates
    <3> HIDE DEF i
    <3>. QED BY <2>2, <3>1, <3>2, SetBulkState, Zenon
  <2>8. flushed' \in [Epochs -> Nat]
    <3>1. flushed \in [Epochs -> Nat] BY Zenon DEF TypeOK
    <3>2. flushed' = flushed \/ flushed' = [flushed EXCEPT ![e] = EndOffset(bulks[e][i])]
      BY <1>16, Zenon DEF CompleteBulk, ConfirmedBy
    <3> HIDE DEF i
    <3>. QED BY <2>4, <3>1, <3>2, Zenon
  <2>9. completed' \in [Epochs -> Nat] BY <1>16, <2>2, Zenon DEF CompleteBulk, TypeOK
  <2>10. buffered' \in [Epochs -> Int]
    <3>1. buffered' = [buffered EXCEPT ![e] = buffered[e] - bulks[e][i].size]
      BY <1>16, Zenon DEF CompleteBulk
    <3>2. buffered \in [Epochs -> Int] BY Zenon DEF TypeOK
    <3>3. buffered[e] - bulks[e][i].size \in Int BY <2>5, <3>2
    <3>. QED BY <3>1, <3>2, <3>3, Zenon
  <2>11. cb' \in [Epochs -> {"idle", "verify", "ack", "fail"}] BY <1>16, Zenon DEF CompleteBulk, TypeOK
  <2>. QED BY <1>16, <2>7, <2>8, <2>9, <2>10, <2>11, Zenon DEF CompleteBulk, TypeOK
<1>17. ASSUME NEW e \in Epochs, NEW c \in AllCallers, TrimStart(e, c) PROVE TypeOK'
  <2>1. PICK t \in TrimTargets(e, c) :
          \/ SetCall(e, c, "wait", t) /\ UNCHANGED trim
          \/ trim' = [trim EXCEPT ![e] = t] /\ SetCall(e, c, "submit", t)
    BY <1>17, Zenon DEF TrimStart
  <2>2. t \in Int BY TrimTargetsTyped, Zenon
  <2>3. calls' \in CallsType BY <2>1, <2>2, <1>SetCallTyped, Zenon DEF CallStates
  <2>4. trim' \in [Epochs -> Int] BY <2>1, <2>2, Zenon DEF TypeOK
  <2>. QED BY <1>17, <2>3, <2>4, Zenon DEF TrimStart, TypeOK, CallsType
<1>18. ASSUME NEW e \in Epochs, NEW c \in AllCallers, TrimSubmit(e, c) PROVE TypeOK'
  <2>1. calls[e][c].t \in Int BY Zenon DEF TypeOK
  <2>2. calls' \in CallsType BY <1>18, <2>1, <1>SetCallTyped, Zenon DEF TrimSubmit, CallStates
  <2>3. FakeRecord(e, c) \in Rec BY ConstantsAssumption DEF FakeRecord, Rec, AllCallers, ResetCaller
  <2>4. /\ next' \in [Epochs -> Nat] /\ bulks' \in [Epochs -> Seq(Bulk)]
        /\ active' \in [Epochs -> [recs : SUBSET Rec, size : Nat]]
        /\ buffered' \in [Epochs -> Int]
    <3>1. CASE Submit(e, FakeRecord(e, c)) BY <2>3, <3>1, <1>SubmitTyped, Zenon
    <3>2. CASE UNCHANGED offsetVars BY <3>2, Zenon DEF TypeOK
    <3>. QED BY <1>18, <3>1, <3>2, Zenon DEF TrimSubmit
  <2>. QED BY <1>18, <2>2, <2>4, Zenon DEF TrimSubmit, TypeOK, CallsType
<1>19. ASSUME NEW e \in Epochs, NEW c \in AllCallers, TrimDelete(e, c) PROVE TypeOK'
  <2>1. calls[e][c].t \in Int BY DEF TypeOK
  <2>2. calls' \in CallsType BY <1>19, <2>1, <1>SetCallTyped, Zenon DEF TrimDelete, CallStates
  <2>3. \A t : CoveredOwn(e, t) \subseteq WalObject /\ CoveredPrevious(e, t) \subseteq WalObject
    BY Zenon DEF TypeOK, CoveredOwn, CoveredPrevious
  <2>4. reaper' \subseteq WalObject BY <1>19, <2>3, Zenon DEF TrimDelete, TypeOK
  <2>5. own' \in [Epochs -> SUBSET WalObject] /\ prev' \in [Epochs -> SUBSET WalObject]
    BY <1>19, Zenon DEF TrimDelete, TypeOK
  <2>. QED BY <1>19, <2>2, <2>4, <2>5, Zenon DEF TrimDelete, TypeOK, CallsType
<1>20. ASSUME NEW e \in Epochs, NEW c \in AllCallers, TrimFails(e, c) PROVE TypeOK'
  <2>1. calls[e][c].t \in Int BY DEF TypeOK
  <2>2. calls' \in CallsType BY <1>20, <2>1, <1>SetCallTyped, Zenon DEF TrimFails, CallStates
  <2>. QED BY <1>20, <2>2, Zenon DEF TrimFails, TypeOK, CallsType
<1>21. ASSUME NEW e \in Epochs, NEW c \in AllCallers, TrimDone(e, c) PROVE TypeOK'
  <2>1. calls[e][c].t \in Int BY DEF TypeOK
  <2>2. calls' \in CallsType BY <1>21, <2>1, <1>SetCallTyped, Zenon DEF TrimDone, CallStates
  <2>3. completedTrim' \in [Epochs -> Int] BY <1>21, <2>1, Zenon DEF TrimDone, TypeOK
  <2>. QED BY <1>21, <2>2, <2>3, Zenon DEF TrimDone, TypeOK, CallsType
<1>22. ASSUME NEW e \in Epochs, NEW c \in AllCallers, TrimWaited(e, c) PROVE TypeOK'
  <2>1. calls[e][c].t \in Int BY DEF TypeOK
  <2>2. calls' \in CallsType BY <1>22, <2>1, <1>SetCallTyped, Zenon DEF TrimWaited, CallStates
  <2>. QED BY <1>22, <2>2, Zenon DEF TrimWaited, TypeOK, CallsType
<1>23. ASSUME NEW o \in reaper, Reap(o) PROVE TypeOK'
  BY <1>23, Zenon DEF Reap, TypeOK
<1>. QED
  BY <1>1, <1>2, <1>3, <1>4, <1>5, <1>6, <1>7, <1>8, <1>9, <1>10, <1>11, <1>12, <1>13,
     <1>14, <1>15, <1>16, <1>17, <1>18, <1>19, <1>20, <1>21, <1>22, <1>23, Zenon
  DEF Next, WriterStep, TrimStep

-----------------------------------------------------------------------------
(* The inductive invariant of one writer.                                  *)

Answer == {"acked", "failed"}

\* The bulks bs tile the offset space up to nx, the first k of them are the
\* answered ones, and fl, the confirm offset, is at or below every other one.
Tiles(bs, nx) ==
  /\ \A i \in DOMAIN bs : EndOffset(bs[i]) = (IF i < Len(bs) THEN bs[i + 1].base ELSE nx)
  /\ \A i \in DOMAIN bs : EndOffset(bs[i]) <= nx
  /\ \A i, j \in DOMAIN bs : i < j => EndOffset(bs[i]) <= bs[j].base

AnsweredUpTo(bs, k) == \A i \in DOMAIN bs : bs[i].st \in Answer <=> i <= k

ConfirmedTo(bs, nx, fl) ==
  /\ fl <= nx
  /\ \A i \in DOMAIN bs : bs[i].st # "acked" => fl <= bs[i].base

BatchInv(bs, nx, fl, k) == Tiles(bs, nx) /\ AnsweredUpTo(bs, k) /\ ConfirmedTo(bs, nx, fl)

NoneFailed(bs) == \A i \in DOMAIN bs : bs[i].st # "failed"

WriterInv(e) ==
  /\ completed[e] <= popped[e] /\ popped[e] <= Len(bulks[e])
  /\ ~HasListed(e) => bulks[e] = <<>> /\ active[e] = NoBulk
  /\ BatchInv(bulks[e], next[e], flushed[e], completed[e])
  /\ cb[e] = "fail" => fenced[e]
  /\ cb[e] = "ack" => NoneFailed(bulks[e])
  /\ ~fenced[e] => NoneFailed(bulks[e])

IInv == TypeOK /\ \A e \in Epochs : WriterInv(e)

\* The step of the induction: one case per action of the log.
LEMMA InvStep == IInv /\ [Next]_vars => IInv'

\* The positions of a sequence that got one more element.
<1>Position. ASSUME NEW n \in Nat, NEW i \in 1 .. n + 1
      PROVE  i = n + 1 \/ (i = n /\ n > 0) \/ i < n
  BY <1>Position
\* Transitivity of the order on Nat.
<1>LeqTrans. ASSUME NEW a \in Nat, NEW b \in Nat, NEW c \in Nat, a <= b, b <= c
      PROVE  a <= c
  BY <1>LeqTrans
<1>LeqGeq. ASSUME NEW a \in Nat, NEW b \in Nat, NEW c \in Nat, a <= b, c >= b
      PROVE  a <= c
  BY <1>LeqGeq
\* One more than a bound is beyond it.
<1>LeqNext. ASSUME NEW a \in Nat, NEW b \in Nat, NEW c, b >= a, c = b + 1
      PROVE  c >= a
  BY <1>LeqNext
\* An index between two counters below the length is an index.
<1>NextIndex. ASSUME NEW S, NEW s \in Seq(S), NEW k \in Nat, NEW p \in Nat, k + 1 <= p, p <= Len(s)
      PROVE  k + 1 \in DOMAIN s
  BY <1>NextIndex, LenNat
\* Appending a freshly sealed bulk keeps the batch invariant (seal_active).
<1>BatchAppend. ASSUME NEW bs \in Seq(Bulk), NEW nx \in Nat, NEW fl \in Nat, NEW k \in Nat,
             NEW b \in Bulk, b.base = nx, b.st = "waiting", k <= Len(bs),
             BatchInv(bs, nx, fl, k)
      PROVE  /\ BatchInv(Append(bs, b), EndOffset(b), fl, k)
             /\ NoneFailed(bs) => NoneFailed(Append(bs, b))
  <2> USE <1>BatchAppend
  <2> DEFINE n == Len(bs)
             new == Append(bs, b)
  <2>1. /\ n \in Nat /\ DOMAIN bs = 1 .. n
        /\ Len(new) = n + 1 /\ DOMAIN new = 1 .. (n + 1)
        /\ new[n + 1] = b /\ \A i \in 1 .. n : new[i] = bs[i]
    OBVIOUS
  <2>2. EndOffset(b) \in Nat /\ EndOffset(b) >= nx
    <3>1. b.size \in Nat BY Zenon DEF Bulk
    <3>2. EndOffset(b) \in Nat /\ EndOffset(b) >= b.base + b.size
      BY BulkOffsets, Zenon
    <3>. QED BY <3>1, <3>2
  <2>3. \A i \in 1 .. n : bs[i].base \in Nat /\ EndOffset(bs[i]) \in Nat
    <3>1. \A i \in 1 .. n : bs[i] \in Bulk BY <2>1
    <3>. QED BY <3>1, BulkOffsets, Zenon DEF Bulk
  <2> HIDE DEF new
  <2>4. Tiles(new, EndOffset(b))
    <3>0. Tiles(bs, nx) BY Zenon DEF BatchInv
    <3>1. ASSUME NEW i \in 1 .. n + 1
          PROVE  EndOffset(new[i]) = (IF i < n + 1 THEN new[i + 1].base ELSE EndOffset(b))
      <4>1. CASE i = n + 1 BY <2>1, <4>1
      <4>2. CASE i = n /\ n > 0 BY <2>1, <3>0, <4>2 DEF Tiles
      <4>3. CASE i < n
        <5>1. i \in 1 .. n /\ i + 1 \in 1 .. n /\ i < n + 1 BY <2>1, <4>3
        <5>2. new[i] = bs[i] /\ new[i + 1] = bs[i + 1] BY <2>1, <5>1, Zenon
        <5>3. i \in DOMAIN bs /\ i < Len(bs) BY <2>1, <4>3, <5>1, Zenon
        <5>4. EndOffset(bs[i]) = bs[i + 1].base BY <3>0, <5>3, Zenon DEF Tiles
        <5>. QED BY <5>1, <5>2, <5>4, Zenon
      <4>. QED BY <2>1, <4>1, <4>2, <4>3, <1>Position, Zenon
    <3>2. ASSUME NEW i \in 1 .. n + 1 PROVE EndOffset(new[i]) <= EndOffset(b)
      <4>1. CASE i = n + 1 BY <2>1, <2>2, <4>1
      <4>2. CASE i # n + 1
        <5>1. i \in 1 .. n BY <2>1, <4>2
        <5>2. new[i] = bs[i] /\ EndOffset(bs[i]) \in Nat BY <2>1, <2>3, <5>1, Zenon
        <5>3. EndOffset(bs[i]) <= nx BY <2>1, <3>0, <5>1, Zenon DEF Tiles
        <5>. QED BY <2>2, <5>2, <5>3
      <4>. QED BY <4>1, <4>2, Zenon
    <3>3. ASSUME NEW i \in 1 .. n + 1, NEW j \in 1 .. n + 1, i < j
          PROVE  EndOffset(new[i]) <= new[j].base
      <4>1. i \in 1 .. n BY <2>1, <3>3
      <4>2. CASE j = n + 1 BY <2>1, <3>0, <4>1, <4>2, Zenon DEF Tiles
      <4>3. CASE j # n + 1
        <5>1. j \in 1 .. n BY <2>1, <4>3
        <5>. QED BY <2>1, <3>0, <3>3, <4>1, <5>1, Zenon DEF Tiles
      <4>. QED BY <4>2, <4>3, Zenon
    <3>. QED BY <2>1, <3>1, <3>2, <3>3, Zenon DEF Tiles
  <2>5. AnsweredUpTo(new, k) BY <2>1 DEF BatchInv, AnsweredUpTo, Answer
  <2>6. ConfirmedTo(new, EndOffset(b), fl) BY <2>1, <2>2 DEF BatchInv, ConfirmedTo
  <2>7. NoneFailed(bs) => NoneFailed(new) BY <2>1 DEF NoneFailed
  <2>. QED BY <2>4, <2>5, <2>6, <2>7, Zenon DEF BatchInv, new
\* Bulks that keep their offsets keep the tiling.
<1>TilesSame. ASSUME NEW bs, NEW new, NEW nx, Len(bs) \in Nat, DOMAIN bs = 1 .. Len(bs),
             Len(new) = Len(bs), DOMAIN new = DOMAIN bs, Tiles(bs, nx),
             \A j \in DOMAIN bs : new[j].base = bs[j].base /\ EndOffset(new[j]) = EndOffset(bs[j])
      PROVE  Tiles(new, nx)
  <2> USE <1>TilesSame
  <2>1. \A j \in DOMAIN bs : EndOffset(new[j]) = (IF j < Len(bs) THEN new[j + 1].base ELSE nx)
    <3> SUFFICES ASSUME NEW j \in DOMAIN bs
                 PROVE  EndOffset(new[j]) = (IF j < Len(bs) THEN new[j + 1].base ELSE nx)
      BY Zenon
    <3>1. EndOffset(bs[j]) = (IF j < Len(bs) THEN bs[j + 1].base ELSE nx) BY Zenon DEF Tiles
    <3>2. j < Len(bs) => j + 1 \in DOMAIN bs OBVIOUS
    <3>. QED BY <3>1, <3>2, Zenon
  <2>2. \A j \in DOMAIN bs : EndOffset(new[j]) <= nx BY Zenon DEF Tiles
  <2>3. \A j, m \in DOMAIN bs : j < m => EndOffset(new[j]) <= new[m].base BY Zenon DEF Tiles
  <2>. QED BY <2>1, <2>2, <2>3, Zenon DEF Tiles
\* Changing bulks without moving them, answering or unanswering them keeps the
\* batch invariant (try_upload_waiting, upload_bulk).
<1>BatchSame. ASSUME NEW bs \in Seq(Bulk), NEW new \in Seq(Bulk), NEW nx, NEW fl, NEW k,
             Len(new) = Len(bs),
             \A i \in DOMAIN bs : /\ new[i].base = bs[i].base
                                  /\ new[i].size = bs[i].size
                                  /\ \/ new[i].st = bs[i].st
                                     \/ new[i].st \notin Answer /\ bs[i].st \notin Answer,
             BatchInv(bs, nx, fl, k)
      PROVE  /\ BatchInv(new, nx, fl, k)
             /\ NoneFailed(bs) => NoneFailed(new)
  <2> USE <1>BatchSame
  <2>1. /\ Len(bs) \in Nat /\ DOMAIN bs = 1 .. Len(bs) /\ DOMAIN new = DOMAIN bs
    OBVIOUS
  <2>2. \A i \in DOMAIN bs : EndOffset(new[i]) = EndOffset(bs[i]) BY Zenon DEF EndOffset
  <2>3. Tiles(new, nx) BY <2>1, <2>2, <1>TilesSame, Zenon DEF BatchInv
  <2>4. AnsweredUpTo(new, k) BY <2>1, Zenon DEF BatchInv, AnsweredUpTo
  <2>5. ConfirmedTo(new, nx, fl) BY <2>1, Zenon DEF BatchInv, ConfirmedTo, Answer
  <2>6. NoneFailed(bs) => NoneFailed(new) BY <2>1, Zenon DEF NoneFailed, Answer
  <2>. QED BY <2>3, <2>4, <2>5, <2>6, Zenon DEF BatchInv
\* try_upload_waiting keeps the length of the queue.
<1>UploadLen. ASSUME NEW bs \in Seq(Bulk), NEW taken \in Nat
      PROVE  Len(try_upload_waiting(bs, taken)) = Len(bs)
  BY <1>UploadLen, UploadWaiting, Zenon
\* try_upload_waiting keeps the batch invariant.
<1>BatchUpload. ASSUME NEW bs \in Seq(Bulk), NEW taken \in Nat, NEW nx, NEW fl, NEW k,
             BatchInv(bs, nx, fl, k)
      PROVE  /\ BatchInv(try_upload_waiting(bs, taken), nx, fl, k)
             /\ NoneFailed(bs) => NoneFailed(try_upload_waiting(bs, taken))
  <2> USE <1>BatchUpload
  <2> DEFINE new == try_upload_waiting(bs, taken)
  <2>1. /\ new \in Seq(Bulk) /\ Len(new) = Len(bs)
        /\ \A i \in DOMAIN bs : /\ new[i].base = bs[i].base
                                /\ new[i].size = bs[i].size
                                /\ \/ new[i].st = bs[i].st
                                   \/ new[i].st \notin Answer /\ bs[i].st \notin Answer
    BY UploadWaiting DEF Answer
  <2> HIDE DEF new
  <2>2. BatchInv(new, nx, fl, k) /\ (NoneFailed(bs) => NoneFailed(new))
    BY <2>1, <1>BatchSame, Zenon
  <2>. QED BY <2>2, Zenon DEF new
\* Sealing a bulk of the right base keeps the batch invariant (seal_active).
<1>BatchSealed. ASSUME NEW bs \in Seq(Bulk), NEW nx \in Nat, NEW fl \in Nat, NEW k \in Nat,
             NEW a \in [recs : SUBSET Rec, size : Nat], a.size > 0, k <= Len(bs),
             BatchInv(bs, nx, fl, k)
      PROVE  /\ Append(bs, Sealed(nx, a)) \in Seq(Bulk)
             /\ Len(Append(bs, Sealed(nx, a))) = Len(bs) + 1
             /\ BatchInv(Append(bs, Sealed(nx, a)), ceil_align_offset(nx + a.size), fl, k)
             /\ NoneFailed(bs) => NoneFailed(Append(bs, Sealed(nx, a)))
  <2> USE <1>BatchSealed
  <2> DEFINE b == Sealed(nx, a)
  <2>1. b \in Bulk BY SealedType, Zenon
  <2>2. b.base = nx /\ b.st = "waiting" /\ b.size = a.size BY Zenon DEF Sealed
  <2>3. EndOffset(b) = ceil_align_offset(nx + a.size) BY <2>2, Zenon DEF EndOffset
  <2> HIDE DEF b
  <2>4. BatchInv(Append(bs, b), EndOffset(b), fl, k) /\ (NoneFailed(bs) => NoneFailed(Append(bs, b)))
    BY <2>1, <2>2, <1>BatchAppend, Zenon
  <2>5. Append(bs, b) \in Seq(Bulk) /\ Len(Append(bs, b)) = Len(bs) + 1 BY <2>1
  <2>. QED BY <2>3, <2>4, <2>5, Zenon DEF b
\* The same, followed by the promotion of waiting bulks.
<1>BatchSealedUpload. ASSUME NEW bs \in Seq(Bulk), NEW nx \in Nat, NEW fl \in Nat, NEW k \in Nat, NEW taken \in Nat,
             NEW a \in [recs : SUBSET Rec, size : Nat], a.size > 0, k <= Len(bs),
             BatchInv(bs, nx, fl, k)
      PROVE  /\ Len(try_upload_waiting(Append(bs, Sealed(nx, a)), taken)) = Len(bs) + 1
             /\ BatchInv(try_upload_waiting(Append(bs, Sealed(nx, a)), taken),
                         ceil_align_offset(nx + a.size), fl, k)
             /\ NoneFailed(bs) => NoneFailed(try_upload_waiting(Append(bs, Sealed(nx, a)), taken))
  <2> USE <1>BatchSealedUpload
  <2> DEFINE q == Append(bs, Sealed(nx, a))
  <2>1. /\ q \in Seq(Bulk) /\ Len(q) = Len(bs) + 1
        /\ BatchInv(q, ceil_align_offset(nx + a.size), fl, k)
        /\ NoneFailed(bs) => NoneFailed(q)
    BY <1>BatchSealed
  <2> HIDE DEF q
  <2>2. Len(try_upload_waiting(q, taken)) = Len(q) BY <2>1, UploadWaiting, Zenon
  <2>3. /\ BatchInv(try_upload_waiting(q, taken), ceil_align_offset(nx + a.size), fl, k)
        /\ NoneFailed(q) => NoneFailed(try_upload_waiting(q, taken))
    BY <2>1, <1>BatchUpload, Zenon
  <2>. QED BY <2>1, <2>2, <2>3, Zenon DEF q
\* Sealing the active bulk keeps the batch invariant (seal_active).
<1>SealInv. ASSUME TypeOK, NEW e \in Epochs, WriterInv(e), active[e].size > 0, seal_active(e)
      PROVE  /\ Len(bulks'[e]) >= Len(bulks[e])
             /\ BatchInv(bulks'[e], next'[e], flushed[e], completed[e])
             /\ NoneFailed(bulks[e]) => NoneFailed(bulks'[e])
  <2> USE <1>SealInv
  <2> DEFINE q == Append(bulks[e], Sealed(next[e], active[e]))
             to == ceil_align_offset(next[e] + active[e].size)
  <2>1. /\ bulks[e] \in Seq(Bulk) /\ next[e] \in Nat /\ flushed[e] \in Nat
        /\ completed[e] \in Nat /\ popped[e] \in Nat
        /\ active[e] \in [recs : SUBSET Rec, size : Nat]
        /\ bulks \in [Epochs -> Seq(Bulk)] /\ next \in [Epochs -> Nat]
    BY Zenon DEF TypeOK
  <2>2. completed[e] <= Len(bulks[e]) /\ Len(bulks[e]) \in Nat
    <3>1. Len(bulks[e]) \in Nat BY <2>1, LenNat, Zenon
    <3>2. completed[e] <= popped[e] /\ popped[e] <= Len(bulks[e]) BY Zenon DEF WriterInv
    <3>. QED BY <2>1, <3>1, <3>2, <1>LeqTrans, Zenon
  <2>3. BatchInv(bulks[e], next[e], flushed[e], completed[e]) BY Zenon DEF WriterInv
  <2>4. bulks'[e] = try_upload_waiting(q, popped[e]) /\ next'[e] = to
    BY <2>1, Zenon DEF seal_active, SealedTo
  <2>5. /\ Len(try_upload_waiting(q, popped[e])) = Len(bulks[e]) + 1
        /\ BatchInv(try_upload_waiting(q, popped[e]), to, flushed[e], completed[e])
        /\ NoneFailed(bulks[e]) => NoneFailed(try_upload_waiting(q, popped[e]))
    BY <2>1, <2>2, <2>3, <1>BatchSealedUpload, Zenon
  <2> HIDE DEF q, to
  <2>6. Len(bulks[e]) >= Len(bulks[e]) BY <2>2, GeqSelf, Zenon
  <2>7. Len(bulks'[e]) = Len(bulks[e]) + 1 BY <2>4, <2>5, Zenon
  <2>8. Len(bulks'[e]) >= Len(bulks[e]) BY <2>2, <2>6, <2>7, <1>LeqNext, Zenon
  <2>. QED BY <2>4, <2>5, <2>8, Zenon
\* The locked section of submit keeps the batch invariant (submit).
<1>SubmitInv. ASSUME TypeOK, NEW e \in Epochs, NEW r \in Rec, WriterInv(e), Submit(e, r)
      PROVE  /\ Len(bulks'[e]) >= Len(bulks[e])
             /\ BatchInv(bulks'[e], next'[e], flushed[e], completed[e])
             /\ NoneFailed(bulks[e]) => NoneFailed(bulks'[e])
  <2> USE <1>SubmitInv
  <2> DEFINE q == QueueFor(e)
             b == BulkWith(e, r)
             base == BaseFor(e)
  <2>1. /\ bulks[e] \in Seq(Bulk) /\ next[e] \in Nat /\ flushed[e] \in Nat
        /\ completed[e] \in Nat /\ popped[e] \in Nat
        /\ active[e] \in [recs : SUBSET Rec, size : Nat]
        /\ bulks \in [Epochs -> Seq(Bulk)] /\ next \in [Epochs -> Nat]
    BY Zenon DEF TypeOK
  <2>2. completed[e] <= Len(bulks[e]) /\ Len(bulks[e]) \in Nat
    <3>1. Len(bulks[e]) \in Nat BY <2>1, LenNat, Zenon
    <3>2. completed[e] <= popped[e] /\ popped[e] <= Len(bulks[e]) BY Zenon DEF WriterInv
    <3>. QED BY <2>1, <3>1, <3>2, <1>LeqTrans, Zenon
  <2>3. BatchInv(bulks[e], next[e], flushed[e], completed[e]) BY Zenon DEF WriterInv
  <2>4. /\ q \in Seq(Bulk) /\ base \in Nat
        /\ b \in [recs : SUBSET Rec, size : Nat] /\ b.size > 0
    BY PlaceTyped, Zenon
  <2>5. /\ Len(q) >= Len(bulks[e])
        /\ BatchInv(q, base, flushed[e], completed[e])
        /\ NoneFailed(bulks[e]) => NoneFailed(q)
    <3>1. CASE Fits(e)
      <4>1. q = bulks[e] /\ base = next[e] BY <3>1, Zenon DEF QueueFor, BaseFor
      <4>2. Len(bulks[e]) >= Len(bulks[e]) BY <2>2, GeqSelf, Zenon
      <4> HIDE DEF q, base
      <4>. QED BY <2>3, <4>1, <4>2, Zenon
    <3>2. CASE ~Fits(e)
      <4> DEFINE q1 == Append(bulks[e], Sealed(next[e], active[e]))
                 to == ceil_align_offset(next[e] + active[e].size)
      <4>1. active[e].size > 0 BY <2>1, <3>2, ConstantsAssumption DEF Fits
      <4>2. /\ Len(q1) = Len(bulks[e]) + 1
            /\ BatchInv(q1, to, flushed[e], completed[e])
            /\ NoneFailed(bulks[e]) => NoneFailed(q1)
        <5> DEFINE bs == bulks[e]  a == active[e]  nx == next[e]  fl == flushed[e]  k == completed[e]
        <5>1. /\ bs \in Seq(Bulk) /\ nx \in Nat /\ fl \in Nat /\ k \in Nat
              /\ a \in [recs : SUBSET Rec, size : Nat] /\ a.size > 0 /\ k <= Len(bs)
              /\ BatchInv(bs, nx, fl, k)
          BY <2>1, <2>2, <2>3, <4>1, Zenon
        <5> HIDE DEF bs, a, nx, fl, k
        <5>2. /\ Len(Append(bs, Sealed(nx, a))) = Len(bs) + 1
              /\ BatchInv(Append(bs, Sealed(nx, a)), ceil_align_offset(nx + a.size), fl, k)
              /\ NoneFailed(bs) => NoneFailed(Append(bs, Sealed(nx, a)))
          BY <5>1, <1>BatchSealed
        <5>. QED BY <5>2, Zenon DEF bs, a, nx, fl, k
      <4>3. q = q1 /\ base = to BY <3>2, Zenon DEF QueueFor, BaseFor, SealedTo
      <4> HIDE DEF q1, to, q, base
      <4>4. Len(bulks[e]) >= Len(bulks[e]) BY <2>2, GeqSelf, Zenon
      <4>5. Len(q1) >= Len(bulks[e]) BY <2>2, <4>2, <4>4, <1>LeqNext, Zenon
      <4>. QED BY <4>2, <4>3, <4>5, Zenon
    <3>. QED BY <3>1, <3>2, Zenon
  <2>6. CASE SealsAtOnce(e, r)
    <3> DEFINE q2 == try_upload_waiting(Append(q, Sealed(base, b)), popped[e])
               to == ceil_align_offset(base + b.size)
    <3>1. bulks'[e] = q2 /\ next'[e] = to BY <2>1, <2>6, Zenon DEF Submit
    <3> HIDE DEF q, b, base
    <3>0. Len(q) \in Nat BY <2>4, LenNat, Zenon
    <3>2. completed[e] <= Len(q) BY <2>1, <2>2, <2>5, <3>0, <1>LeqGeq, Zenon
    <3>3. /\ Len(q2) = Len(q) + 1
          /\ BatchInv(q2, to, flushed[e], completed[e])
          /\ NoneFailed(q) => NoneFailed(q2)
      BY <2>1, <2>4, <2>5, <3>2, <1>BatchSealedUpload, Zenon
    <3> HIDE DEF q2, to
    <3>4. Len(q2) >= Len(bulks[e]) BY <2>2, <2>5, <3>0, <3>3, <1>LeqNext, Zenon
    <3>. QED BY <2>5, <3>1, <3>3, <3>4, Zenon
  <2>7. CASE ~SealsAtOnce(e, r)
    <3>1. bulks'[e] = q /\ next'[e] = base BY <2>1, <2>7, Zenon DEF Submit
    <3> HIDE DEF q, b, base
    <3>. QED BY <2>5, <3>1, Zenon
  <2>. QED BY <2>6, <2>7, Zenon
\* A step that leaves a writer's batch state alone keeps its invariant.
<1>Untouched. ASSUME NEW f \in Epochs, WriterInv(f),
             bulks'[f] = bulks[f], active'[f] = active[f], next'[f] = next[f],
             flushed'[f] = flushed[f], popped'[f] = popped[f], completed'[f] = completed[f],
             cb'[f] = cb[f], fenced[f] => fenced'[f],
             HasListed(f) => HasListed(f)'
      PROVE  WriterInv(f)'
  BY <1>Untouched, Zenon DEF WriterInv
\* A step that only adds bulks to a writer that has listed keeps its invariant.
<1>BatchGrows. ASSUME TypeOK, TypeOK', NEW e \in Epochs, WriterInv(e), HasListed(e)',
             Len(bulks'[e]) >= Len(bulks[e]),
             BatchInv(bulks'[e], next'[e], flushed[e], completed[e]),
             NoneFailed(bulks[e]) => NoneFailed(bulks'[e]),
             flushed'[e] = flushed[e], popped'[e] = popped[e], completed'[e] = completed[e],
             cb'[e] = cb[e], fenced'[e] = fenced[e]
      PROVE  WriterInv(e)'
  <2> USE <1>BatchGrows
  <2>0. popped[e] \in Nat /\ bulks[e] \in Seq(Bulk) /\ bulks'[e] \in Seq(Bulk) BY Zenon DEF TypeOK
  <2>1. popped[e] \in Nat /\ Len(bulks[e]) \in Nat /\ Len(bulks'[e]) \in Nat
    BY <2>0, LenNat, Zenon
  <2>i. popped[e] <= Len(bulks[e]) BY Zenon DEF WriterInv
  <2>j. Len(bulks[e]) <= Len(bulks'[e]) BY <2>1, Zenon
  <2>2. popped'[e] <= Len(bulks'[e]) BY <2>i, <2>j, <2>1, <1>LeqTrans, Zenon
  <2>. QED BY <2>2, Zenon DEF WriterInv
\* The same for a queue in which one unanswered bulk is replaced.
<1>BatchMoved. ASSUME NEW bs \in Seq(Bulk), NEW new \in Seq(Bulk), NEW nx, NEW fl, NEW k,
             NEW i \in DOMAIN bs, NEW b \in Bulk, new = [bs EXCEPT ![i] = b],
             b.base = bs[i].base, b.size = bs[i].size,
             b.st \notin Answer, bs[i].st \notin Answer,
             BatchInv(bs, nx, fl, k)
      PROVE  /\ BatchInv(new, nx, fl, k)
             /\ NoneFailed(bs) => NoneFailed(new)
             /\ Len(new) = Len(bs) /\ bs # <<>>
  <2> USE <1>BatchMoved
  <2>1. /\ Len(new) = Len(bs) /\ bs # <<>>
        /\ \A j \in DOMAIN bs : new[j] = IF j = i THEN b ELSE bs[j]
    BY SeqExcept
  <2>2. \A j \in DOMAIN bs :
          /\ new[j].base = bs[j].base
          /\ new[j].size = bs[j].size
          /\ \/ new[j].st = bs[j].st
             \/ new[j].st \notin Answer /\ bs[j].st \notin Answer
    BY <2>1, Zenon
  <2>3. BatchInv(new, nx, fl, k) /\ (NoneFailed(bs) => NoneFailed(new))
    <3> USE <2>1, <2>2
    <3>. QED BY <1>BatchSame, Zenon
  <2>. QED BY <2>1, <2>3, Zenon
\* A step that changes the state of one unanswered bulk to another unanswered
\* state keeps the invariant (upload_bulk).
<1>BulkMoves. ASSUME TypeOK, TypeOK', NEW e \in Epochs, WriterInv(e), NEW i \in DOMAIN bulks[e], NEW b \in Bulk,
             bulks'[e] = [bulks[e] EXCEPT ![i] = b],
             b.base = bulks[e][i].base, b.size = bulks[e][i].size,
             b.st \notin Answer, bulks[e][i].st \notin Answer,
             active'[e] = active[e], next'[e] = next[e], flushed'[e] = flushed[e],
             popped'[e] = popped[e], completed'[e] = completed[e], cb'[e] = cb[e],
             status'[e] = status[e], fenced[e] => fenced'[e]
      PROVE  WriterInv(e)'
  <2> USE <1>BulkMoves
  <2>1. bulks[e] \in Seq(Bulk) /\ bulks'[e] \in Seq(Bulk) BY Zenon DEF TypeOK
  <2>5. BatchInv(bulks[e], next[e], flushed[e], completed[e]) BY Zenon DEF WriterInv
  <2>6. /\ BatchInv(bulks'[e], next[e], flushed[e], completed[e])
        /\ NoneFailed(bulks[e]) => NoneFailed(bulks'[e])
        /\ Len(bulks'[e]) = Len(bulks[e]) /\ bulks[e] # <<>>
    <3> DEFINE bs == bulks[e]  new == bulks'[e]  nx == next[e]  fl == flushed[e]  k == completed[e]
    <3>1. /\ bs \in Seq(Bulk) /\ new \in Seq(Bulk) /\ BatchInv(bs, nx, fl, k)
          /\ i \in DOMAIN bs /\ new = [bs EXCEPT ![i] = b]
          /\ b.base = bs[i].base /\ b.size = bs[i].size /\ bs[i].st \notin Answer
      BY <2>1, <2>5, Zenon
    <3> HIDE DEF bs, new, nx, fl, k
    <3>2. /\ BatchInv(new, nx, fl, k) /\ (NoneFailed(bs) => NoneFailed(new))
          /\ Len(new) = Len(bs) /\ bs # <<>>
      BY <3>1, <1>BatchMoved, Zenon
    <3>. QED BY <3>2, Zenon DEF bs, new, nx, fl, k
  <2>8. HasListed(e) BY <2>6, Zenon DEF WriterInv
  <2>9. HasListed(e)' BY <2>8, Zenon DEF HasListed
  <2>. QED BY <2>6, <2>9, Zenon DEF WriterInv
\* Confirming the next bulk of a popped batch keeps the invariant: every
\* earlier bulk is confirmed, every later one starts at or past its end
\* (callback_loop, complete_bulk).
<1>BulkConfirmed. ASSUME NEW bs \in Seq(Bulk), NEW nx \in Nat, NEW fl \in Nat, NEW k \in Nat,
             k + 1 \in DOMAIN bs, BatchInv(bs, nx, fl, k), NoneFailed(bs)
      PROVE  /\ BatchInv([bs EXCEPT ![k + 1] = [bs[k + 1] EXCEPT !.st = "acked"]],
                         nx, EndOffset(bs[k + 1]), k + 1)
             /\ NoneFailed([bs EXCEPT ![k + 1] = [bs[k + 1] EXCEPT !.st = "acked"]])
  <2> USE <1>BulkConfirmed
  <2> DEFINE i == k + 1
             b == [bs[i] EXCEPT !.st = "acked"]
             new == [bs EXCEPT ![i] = b]
  <2>1. Len(bs) \in Nat /\ DOMAIN bs = 1 .. Len(bs) /\ \A j \in DOMAIN bs : bs[j] \in Bulk OBVIOUS
  <2>2. b.base = bs[i].base /\ b.size = bs[i].size /\ b.st = "acked" BY <2>1, Zenon DEF Bulk
  <2> HIDE DEF b
  <2>3. /\ Len(new) = Len(bs) /\ DOMAIN new = DOMAIN bs
        /\ \A j \in DOMAIN bs : new[j] = IF j = i THEN b ELSE bs[j]
    <3>1. DOMAIN new = DOMAIN bs /\ \A j \in DOMAIN bs : new[j] = IF j = i THEN b ELSE bs[j]
      BY Zenon
    <3>2. new \in [1 .. Len(bs) -> {bs[j] : j \in DOMAIN bs} \cup {b}] BY <2>1, Zenon
    <3>3. Len(new) = Len(bs) BY <2>1, <3>2
    <3>. QED BY <3>1, <3>3, Zenon
  <2> HIDE DEF new
  <2>4. \A j \in DOMAIN bs : /\ new[j].base = bs[j].base
                             /\ EndOffset(new[j]) = EndOffset(bs[j])
                             /\ EndOffset(bs[j]) \in Nat /\ bs[j].base \in Nat
    <3>1. \A j \in DOMAIN bs : EndOffset(bs[j]) \in Nat /\ bs[j].base \in Nat
      BY <2>1, BulkOffsets, Zenon DEF Bulk
    <3>. QED BY <2>2, <2>3, <3>1, Zenon DEF EndOffset
  <2>5. Tiles(bs, nx) /\ AnsweredUpTo(bs, k) /\ ConfirmedTo(bs, nx, fl) BY Zenon DEF BatchInv
  <2>6. Tiles(new, nx) BY <2>1, <2>3, <2>4, <2>5, <1>TilesSame, Zenon
  <2>7. AnsweredUpTo(new, i)
    <3> SUFFICES ASSUME NEW j \in DOMAIN bs PROVE new[j].st \in Answer <=> j <= i
      BY <2>3, Zenon DEF AnsweredUpTo
    <3>1. bs[j].st \in Answer <=> j <= k BY <2>5, Zenon DEF AnsweredUpTo
    <3>2. CASE j = i BY <2>2, <2>3, <3>2 DEF Answer
    <3>3. CASE j # i BY <2>1, <2>3, <3>1, <3>3
    <3>. QED BY <3>2, <3>3, Zenon
  <2>8. ConfirmedTo(new, nx, EndOffset(bs[i]))
    <3>1. EndOffset(bs[i]) <= nx BY <2>5, Zenon DEF Tiles
    <3>2. ASSUME NEW j \in DOMAIN bs, new[j].st # "acked" PROVE EndOffset(bs[i]) <= new[j].base
      <4>1. j # i /\ new[j] = bs[j] BY <2>2, <2>3, <3>2, Zenon
      <4>2. bs[j].st \notin Answer BY <3>2, <4>1, Zenon DEF NoneFailed, Answer
      <4>3. i < j BY <2>1, <2>5, <4>1, <4>2 DEF AnsweredUpTo
      <4>. QED BY <2>5, <4>1, <4>3, Zenon DEF Tiles
    <3>. QED BY <2>3, <3>1, <3>2, Zenon DEF ConfirmedTo
  <2>9. NoneFailed(new) BY <2>2, <2>3, Zenon DEF NoneFailed
  <2>. QED BY <2>6, <2>7, <2>8, <2>9, Zenon DEF BatchInv, new, b
\* Failing the next bulk of a popped batch leaves the confirm offset alone.
<1>BulkFailed. ASSUME NEW bs \in Seq(Bulk), NEW nx \in Nat, NEW fl \in Nat, NEW k \in Nat,
             k + 1 \in DOMAIN bs, BatchInv(bs, nx, fl, k)
      PROVE  BatchInv([bs EXCEPT ![k + 1] = [bs[k + 1] EXCEPT !.st = "failed"]], nx, fl, k + 1)
  <2> USE <1>BulkFailed
  <2> DEFINE i == k + 1
             b == [bs[i] EXCEPT !.st = "failed"]
             new == [bs EXCEPT ![i] = b]
  <2>1. Len(bs) \in Nat /\ DOMAIN bs = 1 .. Len(bs) /\ \A j \in DOMAIN bs : bs[j] \in Bulk OBVIOUS
  <2>2. b.base = bs[i].base /\ b.size = bs[i].size /\ b.st = "failed" BY <2>1, Zenon DEF Bulk
  <2> HIDE DEF b
  <2>3. /\ Len(new) = Len(bs) /\ DOMAIN new = DOMAIN bs
        /\ \A j \in DOMAIN bs : new[j] = IF j = i THEN b ELSE bs[j]
    <3>1. DOMAIN new = DOMAIN bs /\ \A j \in DOMAIN bs : new[j] = IF j = i THEN b ELSE bs[j]
      BY Zenon
    <3>2. new \in [1 .. Len(bs) -> {bs[j] : j \in DOMAIN bs} \cup {b}] BY <2>1, Zenon
    <3>3. Len(new) = Len(bs) BY <2>1, <3>2
    <3>. QED BY <3>1, <3>3, Zenon
  <2> HIDE DEF new
  <2>4. \A j \in DOMAIN bs : new[j].base = bs[j].base /\ EndOffset(new[j]) = EndOffset(bs[j])
    BY <2>2, <2>3, Zenon DEF EndOffset
  <2>5. Tiles(bs, nx) /\ AnsweredUpTo(bs, k) /\ ConfirmedTo(bs, nx, fl) BY Zenon DEF BatchInv
  <2>6. Tiles(new, nx) BY <2>1, <2>3, <2>4, <2>5, <1>TilesSame, Zenon
  <2>7. AnsweredUpTo(new, i)
    <3> SUFFICES ASSUME NEW j \in DOMAIN bs PROVE new[j].st \in Answer <=> j <= i
      BY <2>3, Zenon DEF AnsweredUpTo
    <3>1. bs[j].st \in Answer <=> j <= k BY <2>5, Zenon DEF AnsweredUpTo
    <3>2. CASE j = i BY <2>2, <2>3, <3>2 DEF Answer
    <3>3. CASE j # i BY <2>1, <2>3, <3>1, <3>3
    <3>. QED BY <3>2, <3>3, Zenon
  <2>8. ConfirmedTo(new, nx, fl)
    <3>1. bs[i].st # "acked" BY <2>1, <2>5 DEF AnsweredUpTo, Answer
    <3>2. fl <= bs[i].base BY <2>5, <3>1, Zenon DEF ConfirmedTo
    <3>. QED BY <2>2, <2>3, <2>5, <3>2, Zenon DEF ConfirmedTo
  <2>. QED BY <2>6, <2>7, <2>8, Zenon DEF BatchInv, new, b
<1> SUFFICES ASSUME IInv, [Next]_vars PROVE IInv'
  BY Zenon
<1>0. TypeOK /\ \A e \in Epochs : WriterInv(e) BY Zenon DEF IInv
<1>1. CountersOrdered BY <1>0, Zenon DEF CountersOrdered, WriterInv
<1>2. TypeOK' BY <1>0, <1>1, TypeStep, Zenon
<1> SUFFICES ASSUME NEW f \in Epochs PROVE WriterInv(f)'
  BY <1>2, Zenon DEF IInv
<1>f. WriterInv(f) BY <1>0, Zenon
<1> DEFINE same(g) ==
      /\ bulks'[g] = bulks[g] /\ active'[g] = active[g] /\ next'[g] = next[g]
      /\ flushed'[g] = flushed[g] /\ popped'[g] = popped[g] /\ completed'[g] = completed[g]
      /\ cb'[g] = cb[g] /\ (fenced[g] => fenced'[g])
      /\ (HasListed(g) => HasListed(g)')
<1>s. same(f) => WriterInv(f)' BY <1>f, <1>Untouched, Zenon
<1>t. /\ status \in [Epochs -> Statuses] /\ fenced \in [Epochs -> BOOLEAN]
      /\ bulks \in [Epochs -> Seq(Bulk)] /\ active \in [Epochs -> [recs : SUBSET Rec, size : Nat]]
      /\ next \in [Epochs -> Nat] /\ flushed \in [Epochs -> Nat]
      /\ popped \in [Epochs -> Nat] /\ completed \in [Epochs -> Nat]
      /\ cb \in [Epochs -> {"idle", "verify", "ack", "fail"}]
  BY <1>0, Zenon DEF TypeOK
<1> USE DEF bucketVars, openVars, offsetVars, loopVars, trimVars
<1>3. CASE UNCHANGED vars BY <1>3, <1>s, Zenon DEF vars, HasListed
<1>4. ASSUME NEW e \in Epochs, Acquire(e) PROVE WriterInv(f)'
  BY <1>4, <1>s, <1>t, Zenon DEF Acquire, HasListed
<1>5. ASSUME NEW e \in Epochs, StartVerify(e) PROVE WriterInv(f)'
  BY <1>5, <1>s, <1>t, Zenon DEF StartVerify, HasListed
<1>6. ASSUME NEW e \in Epochs, StartList(e) PROVE WriterInv(f)'
  <2>1. CASE f # e BY <1>6, <1>s, <1>t, <2>1, Zenon DEF StartList, HasListed
  <2>2. CASE f = e
    <3>1. bulks[e] = <<>> BY <1>6, <1>f, <2>2, Zenon DEF StartList, WriterInv, HasListed
    <3>2. UNCHANGED <<bulks, active, popped, completed, cb>> BY <1>6, Zenon DEF StartList
    <3>3. fenced[e] => fenced'[e] BY <1>6, <1>t, Zenon DEF StartList
    <3>4. \/ next'[e] = next[e] /\ flushed'[e] = flushed[e]
          \/ flushed'[e] = next'[e]
      <4>1. \/ UNCHANGED <<flushed, next>>
            \/ \E offset : /\ flushed' = [flushed EXCEPT ![e] = offset]
                           /\ next' = [next EXCEPT ![e] = offset]
        BY <1>6, Zenon DEF StartList
      <4>2. CASE UNCHANGED <<flushed, next>> BY <4>2, Zenon
      <4>3. CASE \E offset : /\ flushed' = [flushed EXCEPT ![e] = offset]
                             /\ next' = [next EXCEPT ![e] = offset]
        BY <1>t, <4>3, Zenon
      <4>. QED BY <4>1, <4>2, <4>3, Zenon
    <3>5. next'[e] \in Nat /\ flushed'[e] \in Nat BY <1>2, Zenon DEF TypeOK
    <3>6. status'[e] \in {"open", "failed"} BY <1>6, <1>t, Zenon DEF StartList
    <3>7. HasListed(e)' BY <3>6, Zenon DEF HasListed
    <3>8. BatchInv(bulks'[e], next'[e], flushed'[e], completed'[e])
      <4>1. flushed[e] <= next[e] BY <1>f, <2>2, Zenon DEF WriterInv, BatchInv, ConfirmedTo
      <4>2. flushed'[e] <= next'[e] BY <3>4, <3>5, <4>1
      <4>3. DOMAIN bulks'[e] = {}
        <5>1. bulks'[e] = <<>> BY <3>1, <3>2, Zenon
        <5>. QED BY <5>1, EmptySeq, Zenon
      <4>. QED BY <4>2, <4>3, Zenon DEF BatchInv, Tiles, AnsweredUpTo, ConfirmedTo
    <3>. QED BY <1>f, <2>2, <3>2, <3>3, <3>7, <3>8, Zenon DEF WriterInv
  <2>. QED BY <2>1, <2>2, Zenon
<1>7. ASSUME NEW e \in Epochs, Recover(e) PROVE WriterInv(f)'
  BY <1>7, <1>s, <1>t, Zenon DEF Recover, HasListed
<1>8. ASSUME NEW e \in Epochs, Ready(e) PROVE WriterInv(f)'
  BY <1>8, <1>s, <1>t, Zenon DEF Ready, HasListed
<1>9. ASSUME NEW e \in Epochs, NEW s \in Streams, AppendRecord(e, s) PROVE WriterInv(f)'
  <2> DEFINE r == <<e, s, appended[e]>>
  <2>1. r \in Rec BY <1>0, Zenon DEF TypeOK, Rec
  <2>2. Submit(e, r) /\ UNCHANGED <<status, loopVars, fenced>> BY <1>9, Zenon DEF AppendRecord
  <2> HIDE DEF r
  <2>3. CASE f # e BY <1>s, <1>t, <2>2, <2>3, Zenon DEF Submit, HasListed
  <2>4. CASE f = e
    <3>1. /\ Len(bulks'[e]) >= Len(bulks[e])
          /\ BatchInv(bulks'[e], next'[e], flushed[e], completed[e])
          /\ NoneFailed(bulks[e]) => NoneFailed(bulks'[e])
      BY <1>0, <1>f, <2>1, <2>2, <2>4, <1>SubmitInv, Zenon
    <3>2. HasListed(e)' BY <1>9, <2>2, Zenon DEF AppendRecord, HasListed
    <3>3. /\ flushed'[e] = flushed[e] /\ popped'[e] = popped[e] /\ completed'[e] = completed[e]
          /\ cb'[e] = cb[e] /\ fenced'[e] = fenced[e]
      BY <2>2, Zenon
    <3>. QED BY <1>0, <1>2, <1>f, <2>4, <3>1, <3>2, <3>3, <1>BatchGrows, Zenon
  <2>. QED BY <2>3, <2>4, Zenon
<1>10. ASSUME NEW e \in Epochs, SealActive(e) PROVE WriterInv(f)'
  <2>1. /\ active[e].size > 0 /\ seal_active(e)
        /\ UNCHANGED <<status, loopVars, fenced>>
    BY <1>10, Zenon DEF SealActive
  <2>2. CASE f # e BY <1>s, <1>t, <2>1, <2>2, Zenon DEF seal_active, HasListed
  <2>3. CASE f = e
    <3>1. /\ Len(bulks'[e]) >= Len(bulks[e])
          /\ BatchInv(bulks'[e], next'[e], flushed[e], completed[e])
          /\ NoneFailed(bulks[e]) => NoneFailed(bulks'[e])
      BY <1>0, <1>f, <2>1, <2>3, <1>SealInv, Zenon
    <3>2. HasListed(e)
      <4>1. active[e] # NoBulk BY <2>1 DEF NoBulk
      <4>. QED BY <1>f, <2>3, <4>1, Zenon DEF WriterInv
    <3>3. HasListed(e)' BY <2>1, <3>2, Zenon DEF HasListed
    <3>4. /\ flushed'[e] = flushed[e] /\ popped'[e] = popped[e] /\ completed'[e] = completed[e]
          /\ cb'[e] = cb[e] /\ fenced'[e] = fenced[e]
      BY <2>1, Zenon
    <3>. QED BY <1>0, <1>2, <1>f, <2>3, <3>1, <3>3, <3>4, <1>BatchGrows, Zenon
  <2>. QED BY <2>2, <2>3
<1>11. ASSUME NEW e \in Epochs, Close(e) PROVE WriterInv(f)'
  <2>1. /\ status' = [status EXCEPT ![e] = "closed"] /\ status[e] = "ready"
        /\ UNCHANGED <<loopVars, fenced>>
        /\ IF active[e].size > 0 THEN seal_active(e) ELSE UNCHANGED <<next, bulks, active>>
    BY <1>11, Zenon DEF Close
  <2>2. CASE ~(active[e].size > 0) BY <1>s, <1>t, <2>1, <2>2, Zenon DEF HasListed
  <2>3. CASE active[e].size > 0 /\ f # e BY <1>s, <1>t, <2>1, <2>3, Zenon DEF seal_active, HasListed
  <2>4. CASE active[e].size > 0 /\ f = e
    <3>1. /\ Len(bulks'[e]) >= Len(bulks[e])
          /\ BatchInv(bulks'[e], next'[e], flushed[e], completed[e])
          /\ NoneFailed(bulks[e]) => NoneFailed(bulks'[e])
      BY <1>0, <1>f, <2>1, <2>4, <1>SealInv, Zenon
    <3>2. HasListed(e)' BY <1>t, <2>1, Zenon DEF HasListed
    <3>3. /\ flushed'[e] = flushed[e] /\ popped'[e] = popped[e] /\ completed'[e] = completed[e]
          /\ cb'[e] = cb[e] /\ fenced'[e] = fenced[e]
      BY <2>1, Zenon
    <3>. QED BY <1>0, <1>2, <1>f, <2>4, <3>1, <3>2, <3>3, <1>BatchGrows, Zenon
  <2>. QED BY <2>2, <2>3, <2>4, Zenon
<1>12. ASSUME NEW e \in Epochs, NEW i \in DOMAIN bulks[e], UploadBulk(e, i) PROVE WriterInv(f)'
  <2> DEFINE b == [bulks[e][i] EXCEPT !.st = "put", !.trim = HeaderTrim(e)]
  <2>1. /\ bulks' = [bulks EXCEPT ![e][i] = b] /\ bulks[e][i].st = "spawned"
        /\ UNCHANGED <<status, active, next, loopVars, fenced>>
    BY <1>12, Zenon DEF UploadBulk
  <2>2. CASE f # e BY <1>s, <1>t, <2>1, <2>2, Zenon DEF HasListed
  <2>3. CASE f = e
    <3>1. bulks[e][i] \in Bulk BY <1>t
    <3>2. trim[e] \in Int BY <1>0, Zenon DEF TypeOK
    <3>3. b \in Bulk /\ b.base = bulks[e][i].base /\ b.size = bulks[e][i].size /\ b.st = "put"
      BY <3>1, <3>2, Zenon DEF Bulk, BulkStates, HeaderTrim
    <3>4. b.st \notin Answer /\ bulks[e][i].st \notin Answer BY <2>1, <3>3, Zenon DEF Answer
    <3> HIDE DEF b
    <3>5. bulks'[e] = [bulks[e] EXCEPT ![i] = b] BY <1>t, <2>1, Zenon
    <3>. QED BY <1>0, <1>2, <1>f, <2>1, <2>3, <3>3, <3>4, <3>5, <1>BulkMoves, Zenon
  <2>. QED BY <2>2, <2>3, Zenon
<1>13. ASSUME NEW e \in Epochs, NEW i \in DOMAIN bulks[e],
              UploadOk(e, i) \/ UploadErr(e, i) PROVE WriterInv(f)'
  <2>1. PICK st \in {"ok", "err"} : bulks' = [bulks EXCEPT ![e][i].st = st]
    BY <1>13, Zenon DEF UploadOk, UploadErr
  <2>2. /\ bulks[e][i].st = "put" /\ UNCHANGED <<status, active, next, loopVars>>
        /\ fenced' = [fenced EXCEPT ![e] = TRUE] \/ fenced' = fenced
    BY <1>13, Zenon DEF UploadOk, UploadErr
  <2>3. CASE f # e BY <1>s, <1>t, <2>1, <2>2, <2>3, Zenon DEF HasListed
  <2>4. CASE f = e
    <3> DEFINE b == [bulks[e][i] EXCEPT !.st = st]
    <3>1. bulks[e][i] \in Bulk BY <1>t
    <3>2. b \in Bulk /\ b.base = bulks[e][i].base /\ b.size = bulks[e][i].size /\ b.st = st
      BY <3>1, Zenon DEF Bulk, BulkStates
    <3>3. b.st \notin Answer /\ bulks[e][i].st \notin Answer BY <2>2, <3>2, Zenon DEF Answer
    <3>4. bulks'[e] = [bulks[e] EXCEPT ![i] = b] BY <1>t, <2>1, Zenon
    <3>5. fenced[e] => fenced'[e] BY <1>t, <2>2, Zenon
    <3> HIDE DEF b
    <3>. QED BY <1>0, <1>2, <1>f, <2>2, <2>4, <3>2, <3>3, <3>4, <3>5, <1>BulkMoves, Zenon
  <2>. QED BY <2>3, <2>4, Zenon
<1>14. ASSUME NEW e \in Epochs, CallbackPop(e) PROVE WriterInv(f)'
  <2>1. PICK n \in popped[e] + 1 .. Len(bulks[e]) :
          /\ popped' = [popped EXCEPT ![e] = n]
          /\ bulks' = [bulks EXCEPT ![e] = try_upload_waiting(bulks[e], n)]
    BY <1>14, Zenon DEF CallbackPop
  <2>2. /\ cb' = [cb EXCEPT ![e] = "verify"]
        /\ UNCHANGED <<status, active, next, flushed, completed, fenced>>
    BY <1>14, Zenon DEF CallbackPop
  <2>3. CASE f # e BY <1>s, <1>t, <2>1, <2>2, <2>3, Zenon DEF HasListed
  <2>4. CASE f = e
    <3>1. bulks[e] \in Seq(Bulk) /\ Len(bulks[e]) \in Nat /\ popped[e] \in Nat /\ n \in Nat
          /\ completed[e] \in Nat
      <4>1. bulks[e] \in Seq(Bulk) /\ popped[e] \in Nat /\ completed[e] \in Nat BY <1>t, Zenon
      <4>2. Len(bulks[e]) \in Nat BY <4>1, LenNat, Zenon
      <4>. QED BY <4>1, <4>2, Between, Zenon
    <3>2. bulks'[e] = try_upload_waiting(bulks[e], n) /\ popped'[e] = n BY <1>t, <2>1, Zenon
    <3>3. BatchInv(bulks[e], next[e], flushed[e], completed[e]) BY <1>f, <2>4, Zenon DEF WriterInv
    <3>4. /\ BatchInv(bulks'[e], next[e], flushed[e], completed[e])
          /\ NoneFailed(bulks[e]) => NoneFailed(bulks'[e])
      BY <3>1, <3>2, <3>3, <1>BatchUpload, Zenon
    <3>5. Len(bulks'[e]) = Len(bulks[e]) BY <3>1, <3>2, <1>UploadLen, Zenon
    <3>n. popped[e] + 1 <= n /\ n <= Len(bulks[e]) BY <3>1, Between, Zenon
    <3>c. completed[e] <= popped[e] BY <1>f, <2>4, Zenon DEF WriterInv
    <3>d. completed[e] <= n /\ Len(bulks[e]) # 0 BY <3>1, <3>c, Beyond, Zenon
    <3>6. completed[e] <= popped'[e] /\ popped'[e] <= Len(bulks'[e])
      BY <3>2, <3>5, <3>n, <3>d, Zenon
    <3>7. bulks[e] # <<>> BY <3>1, <3>d, LenNat, Zenon
    <3>8. HasListed(e) BY <1>f, <2>4, <3>7, Zenon DEF WriterInv
    <3>9. HasListed(e)' BY <2>2, <3>8, Zenon DEF HasListed
    <3>10. cb'[e] = "verify" BY <1>t, <2>2, Zenon
    <3>11. /\ completed'[e] = completed[e] /\ next'[e] = next[e] /\ flushed'[e] = flushed[e]
           /\ fenced'[e] = fenced[e]
      BY <2>2, Zenon
    <3>12. cb'[e] # "fail" /\ cb'[e] # "ack" BY <3>10, Zenon
    <3>. QED BY <1>f, <2>4, <3>4, <3>6, <3>9, <3>11, <3>12, Zenon DEF WriterInv
  <2>. QED BY <2>3, <2>4, Zenon
<1>15. ASSUME NEW e \in Epochs, CallbackVerify(e) PROVE WriterInv(f)'
  <2>1. UNCHANGED <<status, active, bulks, next, flushed, popped, completed>>
    BY <1>15, Zenon DEF CallbackVerify
  <2>2. \/ ~fenced[e] /\ cb' = [cb EXCEPT ![e] = "ack"] /\ fenced' = fenced
        \/ cb' = [cb EXCEPT ![e] = "fail"] /\ fenced' = [fenced EXCEPT ![e] = TRUE]
    BY <1>15, Zenon DEF CallbackVerify
  <2>3. CASE f # e BY <1>s, <1>t, <2>1, <2>2, <2>3, Zenon DEF HasListed
  <2>4. CASE f = e
    <3>1. /\ cb'[e] = "fail" => fenced'[e]
          /\ cb'[e] = "ack" => ~fenced[e]
          /\ fenced[e] => fenced'[e]
      BY <1>t, <2>2, Zenon
    <3>2. HasListed(e)' = HasListed(e) BY <2>1, Zenon DEF HasListed
    <3>. QED BY <1>f, <2>1, <2>4, <3>1, <3>2, Zenon DEF WriterInv
  <2>. QED BY <2>3, <2>4
<1>16. ASSUME NEW e \in Epochs, CompleteBulk(e) PROVE WriterInv(f)'
  <2> DEFINE i == completed[e] + 1
  <2>1. /\ i <= popped[e]
        /\ completed' = [completed EXCEPT ![e] = i]
        /\ cb' = [cb EXCEPT ![e] = IF i = popped[e] THEN "idle" ELSE cb[e]]
        /\ UNCHANGED <<status, active, next, popped, fenced>>
    BY <1>16, Zenon DEF CompleteBulk
  <2>2. \/ /\ cb[e] = "ack"
           /\ flushed' = [flushed EXCEPT ![e] = EndOffset(bulks[e][i])]
           /\ bulks' = [bulks EXCEPT ![e][i].st = "acked"]
        \/ /\ cb[e] = "fail"
           /\ bulks' = [bulks EXCEPT ![e][i].st = "failed"]
           /\ flushed' = flushed
    BY <1>16, Zenon DEF CompleteBulk, ConfirmedBy
  <2>3. CASE f # e BY <1>s, <1>t, <2>1, <2>2, <2>3, Zenon DEF HasListed
  <2>4. CASE f = e
    <3>1. /\ bulks[e] \in Seq(Bulk) /\ Len(bulks[e]) \in Nat /\ popped[e] \in Nat
          /\ completed[e] \in Nat /\ next[e] \in Nat /\ flushed[e] \in Nat
      BY <1>t
    <3>p. popped[e] <= Len(bulks[e]) BY <1>f, <2>4, Zenon DEF WriterInv
    <3>2. i \in DOMAIN bulks[e] BY <2>1, <3>1, <3>p, <1>NextIndex, Zenon
    <3>3. BatchInv(bulks[e], next[e], flushed[e], completed[e]) BY <1>f, <2>4, Zenon DEF WriterInv
    <3>4. \A st \in {"acked", "failed"} :
            bulks' = [bulks EXCEPT ![e][i].st = st] =>
              /\ bulks'[e] = [bulks[e] EXCEPT ![i] = [bulks[e][i] EXCEPT !.st = st]]
              /\ Len(bulks'[e]) = Len(bulks[e])
      <4> HIDE DEF i
      <4>1. \A st \in {"acked", "failed"} : st \in BulkStates BY Zenon DEF BulkStates
      <4>. QED BY <1>0, <3>2, <4>1, SetBulkState, Zenon
    <3>5. /\ BatchInv(bulks'[e], next[e], flushed'[e], i)
          /\ Len(bulks'[e]) = Len(bulks[e])
          /\ cb[e] = "ack" => NoneFailed(bulks'[e])
          /\ cb[e] # "ack" => fenced[e]
      <4>1. CASE cb[e] = "ack"
        <5>1. NoneFailed(bulks[e]) BY <1>f, <2>4, <4>1, Zenon DEF WriterInv
        <5>2. /\ bulks'[e] = [bulks[e] EXCEPT ![i] = [bulks[e][i] EXCEPT !.st = "acked"]]
              /\ Len(bulks'[e]) = Len(bulks[e])
          BY <2>2, <3>4, <4>1, Zenon
        <5>3. flushed'[e] = EndOffset(bulks[e][i]) BY <1>t, <2>2, <4>1, Zenon
        <5>4. BatchInv(bulks'[e], next[e], EndOffset(bulks[e][i]), i) /\ NoneFailed(bulks'[e])
          <6> DEFINE new == [bulks[e] EXCEPT ![i] = [bulks[e][i] EXCEPT !.st = "acked"]]
          <6>1. BatchInv(new, next[e], EndOffset(bulks[e][i]), i) /\ NoneFailed(new)
            BY <3>1, <3>2, <3>3, <5>1, <1>BulkConfirmed, Zenon
          <6>2. bulks'[e] = new BY <5>2, Zenon
          <6> HIDE DEF new, i
          <6>. QED BY <6>1, <6>2, Zenon
        <5>. QED BY <4>1, <5>2, <5>3, <5>4, Zenon
      <4>2. CASE cb[e] # "ack"
        <5>1. /\ bulks'[e] = [bulks[e] EXCEPT ![i] = [bulks[e][i] EXCEPT !.st = "failed"]]
              /\ Len(bulks'[e]) = Len(bulks[e]) /\ flushed'[e] = flushed[e] /\ cb[e] = "fail"
          BY <2>2, <3>4, <4>2, Zenon
        <5>2. BatchInv(bulks'[e], next[e], flushed[e], i)
          <6> DEFINE new == [bulks[e] EXCEPT ![i] = [bulks[e][i] EXCEPT !.st = "failed"]]
          <6>1. BatchInv(new, next[e], flushed[e], i)
            BY <3>1, <3>2, <3>3, <1>BulkFailed, Zenon
          <6>2. bulks'[e] = new BY <5>1, Zenon
          <6> HIDE DEF new, i
          <6>. QED BY <6>1, <6>2, Zenon
        <5>3. fenced[e] BY <1>f, <2>4, <5>1, Zenon DEF WriterInv
        <5>. QED BY <4>2, <5>1, <5>2, <5>3, Zenon
      <4>. QED BY <4>1, <4>2, Zenon
    <3>6. i <= popped'[e] /\ popped'[e] <= Len(bulks'[e])
      BY <1>f, <2>1, <2>4, <3>5, Zenon DEF WriterInv
    <3>7. completed'[e] = i /\ next'[e] = next[e] /\ fenced'[e] = fenced[e]
          /\ cb'[e] \in {"idle", cb[e]}
      BY <1>t, <2>1, Zenon
    <3>8. bulks[e] # <<>>
      <4> HIDE DEF i
      <4>. QED BY <3>1, <3>2
    <3>9. HasListed(e) BY <1>f, <2>4, <3>8, Zenon DEF WriterInv
    <3>10. HasListed(e)' BY <2>1, <3>9, Zenon DEF HasListed
    <3>11. /\ cb'[e] = "fail" => fenced'[e]
           /\ cb'[e] = "ack" => NoneFailed(bulks'[e])
           /\ ~fenced'[e] => NoneFailed(bulks'[e])
      BY <1>f, <2>4, <3>5, <3>7, Zenon DEF WriterInv
    <3> HIDE DEF i
    <3>. QED BY <2>4, <3>5, <3>6, <3>7, <3>10, <3>11, Zenon DEF WriterInv
  <2>. QED BY <2>3, <2>4
<1>17. ASSUME NEW o \in sent, PutLands(o) PROVE WriterInv(f)'
  BY <1>17, <1>s, Zenon DEF PutLands, HasListed
<1>18. ASSUME NEW e \in Epochs, NEW c \in AllCallers, TrimStart(e, c) PROVE WriterInv(f)'
  BY <1>18, <1>s, Zenon DEF TrimStart, HasListed
<1>19. ASSUME NEW e \in Epochs, NEW c \in AllCallers, TrimSubmit(e, c) PROVE WriterInv(f)'
  <2>1. UNCHANGED <<status, loopVars, fenced>> BY <1>19, Zenon DEF TrimSubmit
  <2>2. CASE UNCHANGED offsetVars BY <1>s, <2>1, <2>2, Zenon DEF HasListed
  <2>3. CASE Accepts(e) /\ Submit(e, FakeRecord(e, c))
    <3>1. FakeRecord(e, c) \in Rec BY ConstantsAssumption DEF FakeRecord, Rec, AllCallers, ResetCaller
    <3>2. CASE f # e BY <1>s, <1>t, <2>1, <2>3, <3>2, Zenon DEF Submit, HasListed
    <3>3. CASE f = e
      <4>1. /\ Len(bulks'[e]) >= Len(bulks[e])
            /\ BatchInv(bulks'[e], next'[e], flushed[e], completed[e])
            /\ NoneFailed(bulks[e]) => NoneFailed(bulks'[e])
        BY <1>0, <1>f, <2>3, <3>1, <3>3, <1>SubmitInv, Zenon
      <4>2. HasListed(e)' BY <2>1, <2>3, Zenon DEF Accepts, check_status, HasListed
      <4>3. /\ flushed'[e] = flushed[e] /\ popped'[e] = popped[e] /\ completed'[e] = completed[e]
            /\ cb'[e] = cb[e] /\ fenced'[e] = fenced[e]
        BY <2>1, Zenon
      <4>. QED BY <1>0, <1>2, <1>f, <3>3, <4>1, <4>2, <4>3, <1>BatchGrows, Zenon
    <3>. QED BY <3>2, <3>3, Zenon
  <2>. QED BY <1>19, <2>2, <2>3, Zenon DEF TrimSubmit
<1>20. ASSUME NEW e \in Epochs, NEW c \in AllCallers, TrimDelete(e, c) PROVE WriterInv(f)'
  BY <1>20, <1>s, Zenon DEF TrimDelete, HasListed
<1>21. ASSUME NEW e \in Epochs, NEW c \in AllCallers, TrimFails(e, c) PROVE WriterInv(f)'
  BY <1>21, <1>s, Zenon DEF TrimFails, HasListed
<1>22. ASSUME NEW e \in Epochs, NEW c \in AllCallers, TrimDone(e, c) PROVE WriterInv(f)'
  BY <1>22, <1>s, Zenon DEF TrimDone, HasListed
<1>23. ASSUME NEW e \in Epochs, NEW c \in AllCallers, TrimWaited(e, c) PROVE WriterInv(f)'
  BY <1>23, <1>s, Zenon DEF TrimWaited, HasListed
<1>24. ASSUME NEW o \in reaper, Reap(o) PROVE WriterInv(f)'
  BY <1>24, <1>s, Zenon DEF Reap, HasListed
<1>. QED
  BY <1>3, <1>4, <1>5, <1>6, <1>7, <1>8, <1>9, <1>10, <1>11, <1>12, <1>13, <1>14, <1>15,
     <1>16, <1>17, <1>18, <1>19, <1>20, <1>21, <1>22, <1>23, <1>24, Zenon
  DEF Next, WriterStep, TrimStep

\* The initial state satisfies the invariant.
LEMMA InvInit == Init => IInv
<1> SUFFICES ASSUME Init PROVE IInv
  BY Zenon
<1>1. TypeOK
  <2>1. calls \in [Epochs -> [AllCallers -> [pc : CallStates, t : Int]]]
    <3>1. [pc |-> "idle", t |-> 0] \in [pc : CallStates, t : Int] BY DEF CallStates
    <3>2. [c \in AllCallers |-> [pc |-> "idle", t |-> 0]] \in
            [AllCallers -> [pc : CallStates, t : Int]]
      BY <3>1, Zenon
    <3>. QED BY <3>2, Zenon DEF Init
  <2>2. NoBulk \in [recs : SUBSET Rec, size : Nat] BY Zenon DEF NoBulk
  <2>3. active \in [Epochs -> [recs : SUBSET Rec, size : Nat]] BY <2>2, Zenon DEF Init
  <2>4. bulks \in [Epochs -> Seq(Bulk)] BY DEF Init
  <2>5. /\ reservation \in Epochs \cup {0}
        /\ sent \subseteq WalObject /\ store \subseteq WalObject /\ reaper \subseteq WalObject
    BY Zenon DEF Init
  <2>6. status \in [Epochs -> Statuses] /\ fenced \in [Epochs -> BOOLEAN]
    BY Zenon DEF Init, Statuses
  <2>7. /\ next \in [Epochs -> Nat] /\ flushed \in [Epochs -> Nat]
        /\ trim \in [Epochs -> Int] /\ completedTrim \in [Epochs -> Int]
    BY DEF Init, TRIM_OFFSET_NONE
  <2>8. /\ prev \in [Epochs -> SUBSET WalObject] /\ own \in [Epochs -> SUBSET WalObject]
        /\ recovered \in [Epochs -> SUBSET Rec]
    BY Zenon DEF Init
  <2>9. /\ popped \in [Epochs -> Nat] /\ completed \in [Epochs -> Nat]
        /\ cb \in [Epochs -> {"idle", "verify", "ack", "fail"}]
        /\ buffered \in [Epochs -> Int] /\ appended \in [Epochs -> Nat]
    BY DEF Init
  <2>. QED BY <2>1, <2>3, <2>4, <2>5, <2>6, <2>7, <2>8, <2>9, Zenon DEF TypeOK
<1>2. ASSUME NEW e \in Epochs PROVE WriterInv(e)
  <2>1. /\ bulks[e] = <<>> /\ completed[e] = 0 /\ popped[e] = 0 /\ next[e] = 0 /\ flushed[e] = 0
        /\ cb[e] = "idle" /\ active[e] = NoBulk
    BY Zenon DEF Init
  <2>2. DOMAIN bulks[e] = {} /\ Len(bulks[e]) = 0 BY <2>1, EmptySeq, Zenon
  <2>3. Tiles(bulks[e], next[e]) /\ AnsweredUpTo(bulks[e], completed[e]) /\ NoneFailed(bulks[e])
    BY <2>2, Zenon DEF Tiles, AnsweredUpTo, NoneFailed
  <2>4. flushed[e] <= next[e] /\ completed[e] <= popped[e] /\ popped[e] <= Len(bulks[e])
    BY <2>1, <2>2
  <2>5. ConfirmedTo(bulks[e], next[e], flushed[e]) BY <2>2, <2>4, Zenon DEF ConfirmedTo
  <2>6. cb[e] # "fail" BY <2>1, Zenon
  <2>. QED BY <2>1, <2>3, <2>4, <2>5, <2>6, Zenon DEF WriterInv, BatchInv
<1>. QED BY <1>1, <1>2, Zenon DEF IInv

\* The inductive invariant holds in every reachable state.
THEOREM Invariance == Spec => []IInv
BY InvInit, InvStep, PTL DEF Spec

\* Every variable of the log always holds a value of its type.
THEOREM TypeCorrect == Spec => []TypeOK
<1>1. IInv => TypeOK BY Zenon DEF IInv
<1>. QED BY <1>1, Invariance, PTL

\* The confirm offset never has a hole below it: a bulk that starts below
\* flushed_offset has been confirmed (callback_loop pops, verifies and
\* completes in order, and a failed bulk fences the writer for good).
THEOREM ConfirmContiguous == Spec => []NoHoleBelowConfirm
<1>1. IInv => NoHoleBelowConfirm
  <2> SUFFICES ASSUME IInv, NEW e \in Epochs, NEW i \in DOMAIN bulks[e],
                      bulks[e][i].base < flushed[e], bulks[e][i].st # "acked"
               PROVE  FALSE
    BY Zenon DEF NoHoleBelowConfirm
  <2>1. bulks[e] \in Seq(Bulk) /\ flushed[e] \in Nat BY Zenon DEF IInv, TypeOK
  <2>2. bulks[e][i] \in Bulk BY <2>1, ElementType, Zenon
  <2>3. bulks[e][i].base \in Nat BY <2>2, Zenon DEF Bulk
  <2>4. flushed[e] <= bulks[e][i].base BY Zenon DEF IInv, WriterInv, BatchInv, ConfirmedTo
  <2> DEFINE base == bulks[e][i].base
  <2>5. base \in Nat /\ flushed[e] <= base /\ base < flushed[e] BY <2>3, <2>4, Zenon
  <2> HIDE DEF base
  <2>. QED BY <2>1, <2>5
<1>. QED BY <1>1, Invariance, PTL

\* The bulks of a writer always tile the offset space without a gap, so that
\* recovery's continuous run does not end inside one writer's objects.
THEOREM Contiguous == Spec => []BulksAreContiguous
<1>1. IInv => BulksAreContiguous
  BY Zenon DEF IInv, WriterInv, BatchInv, Tiles, BulksAreContiguous
<1>. QED BY <1>1, Invariance, PTL

=============================================================================

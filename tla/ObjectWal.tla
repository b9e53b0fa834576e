------------------------------ MODULE ObjectWal ------------------------------
(***************************************************************************)
(* The object write-ahead log of s3stream-wal: one writer per node epoch   *)
(* over a shared bucket.  A writer batches records into bulks, PUTs each   *)
(* bulk as one object, confirms bulks strictly in order after re-checking  *)
(* the reservation object, and trims by appending a fake record whose      *)
(* object header carries the watermark before it deletes anything.  A new  *)
(* epoch acquires the reservation, lists the bucket and recovers.          *)
(*                                                                         *)
(* Every epoch has its own copy of the writer state, so an old writer that *)
(* was superseded (a zombie) keeps taking steps beside its successor.  A   *)
(* crash is a writer that takes no further step: what it had sent to the   *)
(* object store may still land.                                            *)
(*                                                                         *)
(* Records have size 1, Align stands for the 64 MiB alignment.             *)
(***************************************************************************)
EXTENDS Integers, FiniteSets, Sequences

CONSTANTS
  Epochs,                  \* node epochs, one writer instance each
  Streams,                 \* stream ids
  TrimRecordSentinel,      \* stream id of the fake trim record, above all others
  Callers,                 \* concurrent callers of trim
  Align,                   \* DATA_FILE_ALIGN_SIZE
  MaxBytesInBatch,
  MaxInflightUploadCount,
  MaxUnflushedBytes,
  MaxAppends,              \* bound: user records appended by each epoch
  RecoveryModeEpochs,      \* epochs opened with OpenMode::Recovery
  OrderedAcquire,          \* the host never lets an older epoch acquire after a newer one
  ZombieWritesLand         \* an old writer's PUT may land after its successor's listing

ASSUME ConstantsAssumption ==
  /\ Epochs \subseteq Nat \ {0}
  /\ Streams \subseteq Nat
  /\ TrimRecordSentinel \in Nat
  /\ \A s \in Streams : s < TrimRecordSentinel
  /\ Callers \subseteq Nat \ {0}
  /\ Align \in Nat \ {0}
  /\ MaxBytesInBatch \in Nat \ {0}
  /\ MaxInflightUploadCount \in Nat \ {0}
  /\ MaxUnflushedBytes \in Nat
  /\ MaxAppends \in [Epochs -> Nat]
  /\ RecoveryModeEpochs \subseteq Epochs
  /\ OrderedAcquire \in BOOLEAN
  /\ ZombieWritesLand \in BOOLEAN

VARIABLES
  reservation,   \* the reservation object: the epoch written last, 0 before
  sent,          \* every object some writer has issued a PUT for
  store,         \* the objects in the bucket
  reaper,        \* objects some delete request was issued for
  status,        \* life cycle of each writer
  fenced,
  next,          \* next_offset
  flushed,       \* flushed_offset, the confirm offset
  trim,          \* trim_offset
  completedTrim, \* completed_trim_tx
  prev,          \* previous_objects
  own,           \* last_record_offset_to_object
  active,        \* the accumulating bulk; size 0 means None
  bulks,         \* the sealed bulks of the writer, in sequence order
  popped,        \* how many bulks the callback loop has taken off `uploading`
  completed,     \* how many bulks it has completed
  cb,            \* where the callback loop is
  calls,         \* the trim calls and the reset call
  buffered,      \* buffered_data_bytes
  appended,      \* how many user records the writer has been given
  recovered      \* the user records recovery yielded

bucketVars == <<reservation, sent, store, reaper>>
openVars   == <<status, prev, recovered>>
offsetVars == <<next, active, bulks, buffered>>
loopVars   == <<flushed, popped, completed, cb>>
trimVars   == <<trim, completedTrim, own, calls>>
vars == <<bucketVars, openVars, offsetVars, loopVars, trimVars, fenced, appended>>

-----------------------------------------------------------------------------
(* Offsets, records, objects.                                              *)

TRIM_OFFSET_NONE == -1

ResetCaller == 0
AllCallers == Callers \cup {ResetCaller}

\* A record is <<epoch, stream, number>>; numbers grow within an epoch.
Rec == Epochs \X (Streams \cup {TrimRecordSentinel}) \X Nat

FakeRecord(e, c) == <<e, TrimRecordSentinel, c>>
IsFake(r) == r[2] = TrimRecordSentinel

ceil_align_offset(x) == ((x + Align - 1) \div Align) * Align

\* A bulk is written in <stream, base offset> order, so a record's offset is
\* the bulk's base plus the number of records that sort before it.
RecordBefore(q, r) == q[2] < r[2] \/ (q[2] = r[2] /\ q[3] < r[3])
RecordOffset(b, r) == b.base + Cardinality({q \in b.recs : RecordBefore(q, r)})

NoBulk == [recs |-> {}, size |-> 0]

BulkStates == {"waiting", "spawned", "put", "ok", "err", "acked", "failed"}

EndOffset(b) == ceil_align_offset(b.base + b.size)

\* (mutant) the last record's offset taken one too low
LastOffset_OffByOne(b) == b.base - 1
LastOffset(b) == b.base + b.size - 1

\* The object a bulk is written as: key (epoch, base, end), header (trim), body.
WalObjectOf(e, b) ==
  [ep |-> e, base |-> b.base, end |-> EndOffset(b), last |-> LastOffset(b),
   trim |-> b.trim, recs |-> b.recs]

WalObject == [ep : Epochs, base : Nat, end : Nat, last : Nat,
              trim : Int, recs : SUBSET Rec]

-----------------------------------------------------------------------------
(* Listing and recovery of a set of objects, ordered by (epoch, base).     *)

ObjectBefore(a, b) == a.ep < b.ep \/ (a.ep = b.ep /\ a.base < b.base)
IsFirstObject(o, S) == \A p \in S : p = o \/ ObjectBefore(o, p)
IsLastObject(o, S) == \A p \in S : p = o \/ ObjectBefore(p, o)
LastObject(S) == CHOOSE o \in S : IsLastObject(o, S)
PrecedingObject(S, o) == LastObject({p \in S : ObjectBefore(p, o)})

\* Only the first object of the listing is ever compared with the others.
OverlapObjects(S) ==
  {o \in S : /\ IsFirstObject(o, S)
             /\ \E p \in S : p.ep # o.ep /\ o.end > p.base}

skip_overlap_objects(S) == S \ OverlapObjects(S)

get_trim_offset(S) ==
  IF S = {} THEN TRIM_OFFSET_NONE ELSE LastObject(S).trim

\* From the first object that ends past the trim offset, up to the first gap.
get_continuous_from_trim_offset(S, t) ==
  LET live == {o \in S : \E p \in S : p.end > t /\ (p = o \/ ObjectBefore(p, o))}
      joined(o) == IsFirstObject(o, live) \/ o.base = PrecedingObject(live, o).end
  IN  {o \in live : \A p \in live : (p = o \/ ObjectBefore(p, o)) => joined(p)}

\* (mutant) an object whose first record is trimmed is skipped whole
RecordsPast_WholeObjects(S, t) ==
  UNION {{r \in o.recs : ~IsFake(r)} : o \in {p \in S : p.base > t}}

\* The user records of the objects in S past offset t.
RecordsPast(S, t) ==
  UNION {{r \in o.recs : RecordOffset(o, r) > t /\ ~IsFake(r)} : o \in S}

-----------------------------------------------------------------------------
Init ==
  /\ reservation = 0
  /\ sent = {}
  /\ store = {}
  /\ reaper = {}
  /\ status = [e \in Epochs |-> "down"]
  /\ fenced = [e \in Epochs |-> FALSE]
  /\ next = [e \in Epochs |-> 0]
  /\ flushed = [e \in Epochs |-> 0]
  /\ trim = [e \in Epochs |-> TRIM_OFFSET_NONE]
  /\ completedTrim = [e \in Epochs |-> TRIM_OFFSET_NONE]
  /\ prev = [e \in Epochs |-> {}]
  /\ own = [e \in Epochs |-> {}]
  /\ active = [e \in Epochs |-> NoBulk]
  /\ bulks = [e \in Epochs |-> <<>>]
  /\ popped = [e \in Epochs |-> 0]
  /\ completed = [e \in Epochs |-> 0]
  /\ cb = [e \in Epochs |-> "idle"]
  /\ calls = [e \in Epochs |-> [c \in AllCallers |-> [pc |-> "idle", t |-> 0]]]
  /\ buffered = [e \in Epochs |-> 0]
  /\ appended = [e \in Epochs |-> 0]
  /\ recovered = [e \in Epochs |-> {}]

-----------------------------------------------------------------------------
(* Opening: acquire, verify, list, recover, reset.                         *)

\* (mutant) any reservation object passes for our own
HoldsReservation_Any(e) == reservation # 0

\* verify: the reservation object holds our epoch.
HoldsReservation(e) == reservation = e

\* The reservation is overwritten whatever it holds.
Acquire(e) ==
  /\ status[e] = "down"
  /\ OrderedAcquire => reservation < e
  /\ reservation' = e
  /\ status' = [status EXCEPT ![e] = "acquired"]
  /\ UNCHANGED <<sent, store, reaper, prev, recovered, offsetVars, loopVars,
                 trimVars, fenced, appended>>

StartVerify(e) ==
  /\ status[e] = "acquired"
  /\ \/ /\ HoldsReservation(e)
        /\ status' = [status EXCEPT ![e] = "verified"]
        /\ UNCHANGED fenced
     \/ /\ ~HoldsReservation(e)
        /\ status' = [status EXCEPT ![e] = "failed"]
        /\ fenced' = [fenced EXCEPT ![e] = TRUE]
  /\ UNCHANGED <<bucketVars, prev, recovered, offsetVars, loopVars, trimVars, appended>>

\* The first object is deleted in the background when it overlaps.
StartList(e) ==
  /\ status[e] = "verified"
  /\ LET objects == skip_overlap_objects(store)
         OpenAt(offset) ==
           /\ prev' = [prev EXCEPT ![e] = objects]
           /\ flushed' = [flushed EXCEPT ![e] = offset]
           /\ next' = [next EXCEPT ![e] = offset]
           /\ status' = [status EXCEPT ![e] = "open"]
           /\ UNCHANGED fenced
     IN  \/ objects = {} /\ OpenAt(0)
         \/ \E last \in objects :
              /\ IsLastObject(last, objects)
              /\ \/ last.ep <= e /\ OpenAt(last.end)
                 \/ /\ last.ep > e
                    /\ status' = [status EXCEPT ![e] = "failed"]
                    /\ fenced' = [fenced EXCEPT ![e] = TRUE]
                    /\ UNCHANGED <<prev, flushed, next>>
  /\ reaper' = reaper \cup OverlapObjects(store)
  /\ UNCHANGED <<reservation, sent, store, recovered, active, bulks, buffered,
                 popped, completed, cb, trimVars, appended>>

\* Recovery reads the newest header, then the continuous run of objects.  An
\* object that is gone by the time it is read fails the recovery.
Recover(e) ==
  /\ status[e] = "open"
  /\ LET t == get_trim_offset(prev[e])
         run == get_continuous_from_trim_offset(prev[e], t)
         reads == run \cup (IF prev[e] = {} THEN {} ELSE {LastObject(prev[e])})
     IN  \/ /\ ~fenced[e]
            /\ reads \subseteq store
            /\ recovered' = [recovered EXCEPT ![e] = RecordsPast(run, t)]
            /\ status' = [status EXCEPT ![e] = "recovered"]
         \/ /\ fenced[e] \/ ~(reads \subseteq store)
            /\ status' = [status EXCEPT ![e] = "failed"]
            /\ UNCHANGED recovered
  /\ UNCHANGED <<bucketVars, prev, offsetVars, loopVars, trimVars, fenced, appended>>

\* The reset that ends recovery has returned (it is a no-op on an empty log).
Ready(e) ==
  /\ status[e] = "recovered"
  /\ next[e] = 0 \/ calls[e][ResetCaller].pc = "done"
  /\ status' = [status EXCEPT ![e] = "ready"]
  /\ UNCHANGED <<bucketVars, prev, recovered, offsetVars, loopVars, trimVars,
                 fenced, appended>>

-----------------------------------------------------------------------------
(* The batch: submit, seal, upload.                                        *)

check_status(e) == status[e] \in {"open", "recovered", "ready"} /\ ~fenced[e]

Sealed(base, b) ==
  [base |-> base, size |-> b.size, recs |-> b.recs,
   trim |-> TRIM_OFFSET_NONE, st |-> "waiting"]

\* (mutant) a freed upload slot is never reused
try_upload_waiting_NoReuse(bs, taken) ==
  [i \in DOMAIN bs |->
     IF bs[i].st = "waiting" /\ i <= MaxInflightUploadCount
     THEN [bs[i] EXCEPT !.st = "spawned"]
     ELSE bs[i]]

\* Bulks leave `waiting` in order while fewer than the limit are uploading.
try_upload_waiting(bs, taken) ==
  [i \in DOMAIN bs |->
     IF bs[i].st = "waiting" /\ i <= taken + MaxInflightUploadCount
     THEN [bs[i] EXCEPT !.st = "spawned"]
     ELSE bs[i]]

\* (mutant) the next bulk starts right behind the data, unaligned
SealedTo_Unaligned(e) == next[e] + active[e].size

\* Where the bulk after the active one starts.
SealedTo(e) == ceil_align_offset(next[e] + active[e].size)

seal_active(e) ==
  /\ next' = [next EXCEPT ![e] = SealedTo(e)]
  /\ bulks' = [bulks EXCEPT ![e] =
       try_upload_waiting(Append(bulks[e], Sealed(next[e], active[e])), popped[e])]
  /\ active' = [active EXCEPT ![e] = NoBulk]

Accepts(e) == check_status(e) /\ buffered[e] <= MaxUnflushedBytes

\* submit, under the lock.  A record that does not fit seals the active bulk
\* first, and leaves it waiting for the next trigger ...
Fits(e) == active[e].size + 1 <= Align
QueueFor(e) == IF Fits(e) THEN bulks[e] ELSE Append(bulks[e], Sealed(next[e], active[e]))
BaseFor(e) == IF Fits(e) THEN next[e] ELSE SealedTo(e)
BulkWith(e, r) ==
  IF Fits(e) THEN [recs |-> active[e].recs \cup {r}, size |-> active[e].size + 1]
             ELSE [recs |-> {r}, size |-> 1]

\* ... and the record that fills a bulk seals it at once.
SealsAtOnce(e, r) == BulkWith(e, r).size > MaxBytesInBatch \/ e \in RecoveryModeEpochs

Submit(e, r) ==
  /\ buffered' = [buffered EXCEPT ![e] = buffered[e] + 1]
  /\ \/ /\ SealsAtOnce(e, r)
        /\ next' = [next EXCEPT ![e] = ceil_align_offset(BaseFor(e) + BulkWith(e, r).size)]
        /\ bulks' = [bulks EXCEPT ![e] = try_upload_waiting(
             Append(QueueFor(e), Sealed(BaseFor(e), BulkWith(e, r))), popped[e])]
        /\ active' = [active EXCEPT ![e] = NoBulk]
     \/ /\ ~SealsAtOnce(e, r)
        /\ next' = [next EXCEPT ![e] = BaseFor(e)]
        /\ bulks' = [bulks EXCEPT ![e] = QueueFor(e)]
        /\ active' = [active EXCEPT ![e] = BulkWith(e, r)]

\* A user append.  The log is given appends only once startup has finished.
AppendRecord(e, s) ==
  /\ status[e] = "ready"
  /\ Accepts(e)
  /\ appended[e] < MaxAppends[e]
  /\ Submit(e, <<e, s, appended[e]>>)
  /\ appended' = [appended EXCEPT ![e] = appended[e] + 1]
  /\ UNCHANGED <<bucketVars, openVars, loopVars, trimVars, fenced>>

\* The batch timer, or flush.
SealActive(e) ==
  /\ active[e].size > 0
  /\ seal_active(e)
  /\ UNCHANGED <<bucketVars, openVars, buffered, loopVars, trimVars, fenced, appended>>

Close(e) ==
  /\ status[e] = "ready"
  /\ status' = [status EXCEPT ![e] = "closed"]
  /\ IF active[e].size > 0 THEN seal_active(e) ELSE UNCHANGED <<next, bulks, active>>
  /\ UNCHANGED <<bucketVars, prev, recovered, buffered, loopVars, trimVars, fenced, appended>>

\* (mutant) the header carries only trims that have already returned
HeaderTrim_Completed(e) == completedTrim[e]

\* The trim offset a header built now carries.
HeaderTrim(e) == trim[e]

\* The upload task builds the payload, header first.
UploadBulk(e, i) ==
  /\ i \in DOMAIN bulks[e]
  /\ bulks[e][i].st = "spawned"
  /\ LET b == [bulks[e][i] EXCEPT !.st = "put", !.trim = HeaderTrim(e)]
     IN  /\ bulks' = [bulks EXCEPT ![e][i] = b]
         /\ sent' = sent \cup {WalObjectOf(e, b)}
  /\ UNCHANGED <<reservation, store, reaper, openVars, next, active, buffered,
                 loopVars, trimVars, fenced, appended>>

HasListed(e) == status[e] \notin {"down", "acquired", "verified"}

\* The bucket applies a PUT.  An attempt that was given up on, or retried, may
\* land late, more than once, and after the writer is gone.
PutLands(o) ==
  /\ o \in sent \ store
  /\ ZombieWritesLand \/ \A e \in Epochs : e > o.ep => ~HasListed(e)
  /\ store' = store \cup {o}
  /\ UNCHANGED <<reservation, sent, reaper, openVars, offsetVars, loopVars,
                 trimVars, fenced, appended>>

\* The PUT is answered: it has landed (and may have been deleted since).
UploadOk(e, i) ==
  /\ i \in DOMAIN bulks[e]
  /\ bulks[e][i].st = "put"
  /\ WalObjectOf(e, bulks[e][i]) \in store \cup reaper
  /\ bulks' = [bulks EXCEPT ![e][i].st = "ok"]
  /\ own' = [own EXCEPT ![e] = own[e] \cup {WalObjectOf(e, bulks[e][i])}]
  /\ UNCHANGED <<bucketVars, openVars, next, active, buffered, loopVars, trim,
                 completedTrim, calls, fenced, appended>>

UploadErr(e, i) ==
  /\ i \in DOMAIN bulks[e]
  /\ bulks[e][i].st = "put"
  /\ bulks' = [bulks EXCEPT ![e][i].st = "err"]
  /\ fenced' = [fenced EXCEPT ![e] = TRUE]
  /\ UNCHANGED <<bucketVars, openVars, next, active, buffered, loopVars, trimVars, appended>>

-----------------------------------------------------------------------------
(* The callback loop: pop the finished prefix, verify, complete in order.  *)

Finished(b) == b.st \in {"ok", "err"}

CallbackPop(e) ==
  /\ cb[e] = "idle"
  /\ \E n \in popped[e] + 1 .. Len(bulks[e]) :
       /\ \A i \in popped[e] + 1 .. n : Finished(bulks[e][i])
       /\ n < Len(bulks[e]) => ~Finished(bulks[e][n + 1])
       /\ popped' = [popped EXCEPT ![e] = n]
       /\ bulks' = [bulks EXCEPT ![e] = try_upload_waiting(bulks[e], n)]
  /\ cb' = [cb EXCEPT ![e] = "verify"]
  /\ UNCHANGED <<bucketVars, openVars, next, active, buffered, flushed, completed,
                 trimVars, fenced, appended>>

\* (mutant) a writer that is fenced already goes on confirming
CallbackVerify_KeepsGoing(e) ==
  /\ cb[e] = "verify"
  /\ \/ /\ HoldsReservation(e)
        /\ cb' = [cb EXCEPT ![e] = "ack"]
        /\ UNCHANGED fenced
     \/ /\ fenced' = [fenced EXCEPT ![e] = TRUE]
        /\ cb' = [cb EXCEPT ![e] = "fail"]
  /\ UNCHANGED <<bucketVars, openVars, offsetVars, flushed, popped, completed,
                 trimVars, appended>>

\* A reservation that differs, or cannot be read, fences the writer.
CallbackVerify(e) ==
  /\ cb[e] = "verify"
  /\ \/ /\ HoldsReservation(e) /\ ~fenced[e]
        /\ cb' = [cb EXCEPT ![e] = "ack"]
        /\ UNCHANGED fenced
     \/ /\ fenced' = [fenced EXCEPT ![e] = TRUE]
        /\ cb' = [cb EXCEPT ![e] = "fail"]
  /\ UNCHANGED <<bucketVars, openVars, offsetVars, flushed, popped, completed,
                 trimVars, appended>>

\* (mutant) the end of the whole popped batch is published first
ConfirmedBy_Batch(e, i) == EndOffset(bulks[e][popped[e]])

\* The confirm offset once bulk i is confirmed.
ConfirmedBy(e, i) == EndOffset(bulks[e][i])

CompleteBulk(e) ==
  LET i == completed[e] + 1
  IN  /\ cb[e] \in {"ack", "fail"}
      /\ i <= popped[e]
      /\ completed' = [completed EXCEPT ![e] = i]
      /\ cb' = [cb EXCEPT ![e] = IF i = popped[e] THEN "idle" ELSE cb[e]]
      /\ buffered' = [buffered EXCEPT ![e] = buffered[e] - bulks[e][i].size]
      /\ \/ /\ cb[e] = "ack"
            /\ flushed' = [flushed EXCEPT ![e] = ConfirmedBy(e, i)]
            /\ bulks' = [bulks EXCEPT ![e][i].st = "acked"]
         \/ /\ cb[e] = "fail"
            /\ bulks' = [bulks EXCEPT ![e][i].st = "failed"]
            /\ UNCHANGED flushed
      /\ UNCHANGED <<bucketVars, openVars, next, active, popped, trimVars, fenced, appended>>

-----------------------------------------------------------------------------
(* Trim: persist the watermark through a fake record, then delete.         *)

SetCall(e, c, pc, t) == calls' = [calls EXCEPT ![e][c] = [pc |-> pc, t |-> t]]

AckedUserOffsets(e) ==
  {t \in 0 .. next[e] : \E i \in DOMAIN bulks[e] : \E r \in bulks[e][i].recs :
     bulks[e][i].st = "acked" /\ ~IsFake(r) /\ RecordOffset(bulks[e][i], r) = t}

\* The offset to trim to: a confirmed record's, or for reset the end of the log.
TrimTargets(e, c) ==
  IF c = ResetCaller
  THEN IF status[e] = "recovered" /\ next[e] > 0 THEN {next[e] - 1} ELSE {}
  ELSE IF status[e] = "ready" THEN AckedUserOffsets(e) ELSE {}

TrimStart(e, c) ==
  /\ calls[e][c].pc = "idle"
  /\ check_status(e)
  /\ \E t \in TrimTargets(e, c) :
       \/ /\ trim[e] >= t
          /\ SetCall(e, c, "wait", t)
          /\ UNCHANGED trim
       \/ /\ trim[e] < t
          /\ trim' = [trim EXCEPT ![e] = t]
          /\ SetCall(e, c, "submit", t)
  /\ UNCHANGED <<bucketVars, openVars, offsetVars, loopVars, completedTrim, own,
                 fenced, appended>>

TrimSubmit(e, c) ==
  /\ calls[e][c].pc = "submit"
  /\ \/ /\ Accepts(e)
        /\ Submit(e, FakeRecord(e, c))
        /\ SetCall(e, c, "await", calls[e][c].t)
     \/ /\ ~Accepts(e)
        /\ SetCall(e, c, "err", calls[e][c].t)
        /\ UNCHANGED offsetVars
  /\ UNCHANGED <<bucketVars, openVars, loopVars, trim, completedTrim, own, fenced, appended>>

\* (mutant) an object goes as soon as its first record is trimmed
CoveredOwn_ByBase(e, t) ==
  {o \in own[e] : o.base <= t /\ \E p \in own[e] : p.last > o.last}

\* Own objects whose last record is trimmed, but never the last one.
CoveredOwn(e, t) ==
  {o \in own[e] : o.last <= t /\ \E p \in own[e] : p.last > o.last}

\* The leading inherited objects that end at or below the watermark; the last
\* of them stays when nothing else is deleted.
CoveredPrevious(e, t) ==
  {o \in prev[e] :
     /\ \A p \in prev[e] : (p = o \/ ObjectBefore(p, o)) => p.end <= t
     /\ CoveredOwn(e, t) # {} \/ \E p \in prev[e] : ObjectBefore(o, p)}

FakeIn(e, c, st) ==
  \E i \in DOMAIN bulks[e] : FakeRecord(e, c) \in bulks[e][i].recs /\ bulks[e][i].st = st

\* The fake record is confirmed: drop the covered objects from the books and
\* issue their deletes (twice, ten seconds apart; a failed delete is only
\* logged), so each takes effect at some later time or never.
TrimDelete(e, c) ==
  LET t == calls[e][c].t
  IN  /\ calls[e][c].pc = "await"
      /\ FakeIn(e, c, "acked")
      /\ own' = [own EXCEPT ![e] = own[e] \ CoveredOwn(e, t)]
      /\ prev' = [prev EXCEPT ![e] = prev[e] \ CoveredPrevious(e, t)]
      /\ reaper' = reaper \cup CoveredOwn(e, t) \cup CoveredPrevious(e, t)
      /\ SetCall(e, c, "delete", t)
      /\ UNCHANGED <<reservation, sent, store, status, recovered, offsetVars, loopVars,
                     trim, completedTrim, fenced, appended>>

TrimFails(e, c) ==
  /\ calls[e][c].pc = "await"
  /\ FakeIn(e, c, "failed")
  /\ SetCall(e, c, "err", calls[e][c].t)
  /\ UNCHANGED <<bucketVars, openVars, offsetVars, loopVars, trim, completedTrim, own,
                 fenced, appended>>

TrimDone(e, c) ==
  LET t == calls[e][c].t
  IN  /\ calls[e][c].pc = "delete"
      /\ completedTrim' = [completedTrim EXCEPT ![e] =
                             IF completedTrim[e] < t THEN t ELSE completedTrim[e]]
      /\ SetCall(e, c, "done", t)
      /\ UNCHANGED <<bucketVars, openVars, offsetVars, loopVars, trim, own, fenced, appended>>

\* A call covered by an earlier one waits for that one to complete.
TrimWaited(e, c) ==
  /\ calls[e][c].pc = "wait"
  /\ completedTrim[e] >= calls[e][c].t
  /\ SetCall(e, c, "done", calls[e][c].t)
  /\ UNCHANGED <<bucketVars, openVars, offsetVars, loopVars, trim, completedTrim, own,
                 fenced, appended>>

\* The bucket applies a delete.
Reap(o) ==
  /\ o \in reaper \cap store
  /\ store' = store \ {o}
  /\ UNCHANGED <<reservation, sent, reaper, openVars, offsetVars, loopVars,
                 trimVars, fenced, appended>>

-----------------------------------------------------------------------------
WriterStep(e) ==
  \/ StartVerify(e) \/ StartList(e) \/ Recover(e) \/ Ready(e)
  \/ SealActive(e)
  \/ \E i \in DOMAIN bulks[e] : UploadBulk(e, i) \/ UploadOk(e, i)
  \/ CallbackPop(e) \/ CallbackVerify(e) \/ CompleteBulk(e)

TrimStep(e, c) ==
  \/ TrimSubmit(e, c) \/ TrimDelete(e, c) \/ TrimFails(e, c)
  \/ TrimDone(e, c) \/ TrimWaited(e, c)

Next ==
  \/ \E e \in Epochs :
       \/ Acquire(e)
       \/ WriterStep(e)
       \/ \E s \in Streams : AppendRecord(e, s)
       \/ Close(e)
       \/ \E i \in DOMAIN bulks[e] : UploadErr(e, i)
       \/ \E c \in AllCallers : TrimStart(e, c) \/ TrimStep(e, c)
  \/ \E o \in sent : PutLands(o)
  \/ \E o \in reaper : Reap(o)

Spec == Init /\ [][Next]_vars

\* A live writer keeps running: its batch timer fires, its upload tasks run,
\* the bucket answers each PUT with success or an error (the storage layer
\* retries under a deadline), the callback loop is scheduled, trims proceed.
WriterFairness(e) ==
  /\ WF_vars(SealActive(e))
  /\ WF_vars(\E i \in DOMAIN bulks[e] : UploadBulk(e, i))
  /\ WF_vars(\E i \in DOMAIN bulks[e] : UploadOk(e, i) \/ UploadErr(e, i))
  /\ WF_vars(CallbackPop(e))
  /\ WF_vars(CallbackVerify(e))
  /\ WF_vars(CompleteBulk(e))
  /\ \A c \in AllCallers : WF_vars(TrimStep(e, c))

FairSpec == Spec /\ \A e \in Epochs : WriterFairness(e)

-----------------------------------------------------------------------------
(* Properties.                                                             *)

Statuses == {"down", "acquired", "verified", "open", "recovered", "ready", "closed", "failed"}
CallStates == {"idle", "submit", "await", "wait", "delete", "done", "err"}

Bulk == [base : Nat, size : Nat \ {0}, recs : SUBSET Rec, trim : Int, st : BulkStates]

\* Every variable holds a value of its type.
TypeOK ==
  /\ reservation \in Epochs \cup {0}
  /\ sent \subseteq WalObject
  /\ store \subseteq WalObject
  /\ reaper \subseteq WalObject
  /\ status \in [Epochs -> Statuses]
  /\ fenced \in [Epochs -> BOOLEAN]
  /\ next \in [Epochs -> Nat]
  /\ flushed \in [Epochs -> Nat]
  /\ trim \in [Epochs -> Int]
  /\ completedTrim \in [Epochs -> Int]
  /\ prev \in [Epochs -> SUBSET WalObject]
  /\ own \in [Epochs -> SUBSET WalObject]
  /\ active \in [Epochs -> [recs : SUBSET Rec, size : Nat]]
  /\ bulks \in [Epochs -> Seq(Bulk)]
  /\ popped \in [Epochs -> Nat]
  /\ completed \in [Epochs -> Nat]
  /\ cb \in [Epochs -> {"idle", "verify", "ack", "fail"}]
  /\ calls \in [Epochs -> [AllCallers -> [pc : CallStates, t : Int]]]
  /\ buffered \in [Epochs -> Int]
  /\ appended \in [Epochs -> Nat]
  /\ recovered \in [Epochs -> SUBSET Rec]

\* The confirm offset is contiguous (callback_loop): every bulk that starts
\* below it has been confirmed, so no offset below it is still in flight.
NoHoleBelowConfirm ==
  \A e \in Epochs : \A i \in DOMAIN bulks[e] :
    bulks[e][i].base < flushed[e] => bulks[e][i].st = "acked"

\* The bulks of a writer tile the offset space (seal_active, new_active_bulk):
\* recovery stops at the first gap, so a gap would hide what follows it.
BulksAreContiguous ==
  \A e \in Epochs : \A i \in DOMAIN bulks[e] :
    EndOffset(bulks[e][i]) = (IF i < Len(bulks[e]) THEN bulks[e][i + 1].base ELSE next[e])

\* A confirmed bulk stays in the bucket until a trim of its own writer or of a
\* successor covers its last record (trim0 deletes only after the fake record
\* that carries the watermark is confirmed).
AckedIsDurable ==
  \A e \in Epochs : \A i \in DOMAIN bulks[e] :
    bulks[e][i].st = "acked" =>
      \/ WalObjectOf(e, bulks[e][i]) \in store
      \/ \E f \in Epochs : f >= e /\ LastOffset(bulks[e][i]) <= trim[f]

AckedBulks(e) == {i \in DOMAIN bulks[e] : bulks[e][i].st = "acked"}

\* The confirmed user records of epoch e past every trim requested by epochs in F.
UntrimmedAcked(e, F) ==
  UNION {{r \in bulks[e][i].recs :
            /\ ~IsFake(r)
            /\ \A f \in F : RecordOffset(bulks[e][i], r) > trim[f]} : i \in AckedBulks(e)}

\* No object of an old writer landed after a successor that is at work listed the bucket.
NoneLandedLate ==
  \A e \in Epochs, o \in store :
    (o.ep < e /\ HasListed(e) /\ status[e] # "failed") => o \in prev[e] \cup reaper

\* Whenever a successor lists the bucket, recovery from that listing yields
\* every confirmed record that no trim asked to drop (start, skip_overlap_objects,
\* get_trim_offset, get_continuous_from_trim_offset together), unless a PUT of an
\* old writer has landed behind the back of a successor.
RecoveryWouldYieldAcked ==
  LET objects == skip_overlap_objects(store)
      t == get_trim_offset(objects)
      found == RecordsPast(get_continuous_from_trim_offset(objects, t), t)
  IN  NoneLandedLate => \A e \in Epochs : UntrimmedAcked(e, Epochs) \subseteq found

Predecessors(e) == {f \in Epochs : f < e}

\* A recovery that succeeded has every record its predecessors confirmed and
\* did not trim, including those confirmed after the listing (the reservation
\* check in callback_loop comes after the PUT).
RecoveredComplete ==
  \A e \in Epochs :
    status[e] \in {"recovered", "ready", "closed"} =>
      \A f \in Predecessors(e) : UntrimmedAcked(f, Predecessors(e)) \subseteq recovered[e]

\* Recovery never yields a record that a trim which has returned dropped
\* (the trim is in the header of the newest object before trim0 returns).
TrimmedStaysTrimmed ==
  [][\A e \in Epochs : recovered'[e] # recovered[e] =>
       \A f \in Predecessors(e) : \A i \in DOMAIN bulks[f] : \A r \in bulks[f][i].recs :
         r \in recovered'[e] => RecordOffset(bulks[f][i], r) > completedTrim[f]]_vars

\* Record n of epoch e has been answered, with success or with an error.
Answered(e, n) ==
  \E i \in DOMAIN bulks[e] :
    /\ bulks[e][i].st \in {"acked", "failed"}
    /\ \E r \in bulks[e][i].recs : ~IsFake(r) /\ r[3] = n

\* Every accepted append is eventually answered: a bulk sealed by an overflowing
\* submit, and bulks waiting for an upload slot, are always picked up again
\* (new_active_bulk's timer, try_upload_waiting in callback_loop).
AppendsAreAnswered ==
  \A e \in Epochs : \A n \in 0 .. MaxAppends[e] - 1 :
    appended[e] > n ~> Answered(e, n)

\* A trim call eventually returns: one covered by an earlier trim waits only
\* until that one completes (trim0).
TrimsReturn ==
  \A e \in Epochs : \A c \in AllCallers :
    calls[e][c].pc # "idle" ~> calls[e][c].pc \in {"done", "err"}

\* The newest epoch that has acquired the reservation holds it (acquire).
NewerEpochWins ==
  \A e \in Epochs : status[e] # "down" => reservation >= e
=============================================================================

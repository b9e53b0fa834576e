------------------------------ MODULE S3Storage ------------------------------
(***************************************************************************)
(* The storage engine of s3stream-core on one node: admission and backoff, *)
(* the in-order confirm hook, the LogCache blocks, the prepare / upload /  *)
(* commit pipeline, WAL trims, stream close, crash and recovery.           *)
(*                                                                         *)
(* The WAL is used through its contract: records of one stream are placed  *)
(* in submission order, confirmations follow log order, a crash keeps what *)
(* was confirmed and possibly more.  A record is <<stream, offset, epoch>>, *)
(* the epoch being that of the stream handle that appended it.             *)
(***************************************************************************)
EXTENDS Integers, FiniteSets, Sequences, FiniteSetsExt, Functions

CONSTANTS
  Streams,
  RecordSize,              \* occupied_size of every record
  MaxBlockStreams,         \* max_stream_num_per_stream_set_object
  MAX_BLOCKS_COUNT,
  RecoverBlockSize,        \* records per block of a recovery upload
  MaxForceLoops,           \* bound: concurrent force_upload_all tasks
  Environments             \* the configurations, failures and bounds a run covers

\* Failures of the environment, and calls the host may or may not make.
OptionalEvents ==
  {"prepare fails", "upload fails", "commit fails", "wal fails",
   "oversized record", "host commit", "close", "force close", "shutdown"}

Environment ==
  [walCacheSize : Nat, walUploadThreshold : Nat, uploadInterval : BOOLEAN,
   maxUnflushed : Nat, events : SUBSET OptionalEvents,
   maxOffset : [Streams -> Nat], maxEpoch : Nat, maxLives : Nat]

ASSUME StorageAssumption ==
  /\ IsFiniteSet(Streams)
  /\ RecordSize \in Nat \ {0}
  /\ MaxBlockStreams \in Nat \ {0}
  /\ MAX_BLOCKS_COUNT \in Nat \ {0}
  /\ RecoverBlockSize \in Nat \ {0}
  /\ MaxForceLoops \in Nat
  /\ Environments \subseteq Environment

VARIABLES
  env,           \* the environment of this behaviour, chosen once
  log,           \* the records of the WAL, in log order; a WAL offset is an index
  trimmed,       \* the WAL's trim watermark (inclusive)
  committed,     \* records in committed objects
  endOffset,     \* metadata plane: committed end offset of each stream
  opened,        \* metadata plane: streams in state Opened
  epoch,         \* metadata plane: epoch of each stream's last open
  node,          \* "down", the stages of recovery, "up", "stopping"
  life,          \* how often the node was started
  scan,          \* progress of recovery; pos stays at the log's length when it is done
  next,          \* S3Stream next_offset
  confirm,       \* S3Stream confirm_offset
  mark,          \* S3Stream status: CLOSED_MARK, FENCED_MARK
  appending,     \* the append that holds the stream's append_lock
  failing,       \* handles <<stream, epoch>> with a failed append not yet reported
  closing,       \* progress of close_with
  backoff,       \* the backoff queue
  drain,         \* the drain task
  pending,       \* per stream, records the WAL accepted and has not confirmed
  walDown,       \* the WAL is fenced or closed
  unanswered,    \* confirmed records whose append has not returned
  acked,         \* records whose append returned Ok, over all lives
  active,        \* records of the active LogCache block
  blocks,        \* the archived blocks with their upload tasks, in seal order
  head,          \* how many of them the LogCache has released
  lastOffset,    \* LogCache last_record_offset
  trims,         \* WAL offsets that delay_trim is to trim to
  poisoned,      \* the commit worker's `poisoned`
  force          \* force_upload_scheduled, need_force_upload, the running loops

walVars    == <<log, trimmed, pending, walDown>>
metaVars   == <<committed, endOffset, opened, epoch>>
nodeVars   == <<node, life, scan>>
streamVars == <<next, confirm, mark, appending, failing, closing>>
admitVars  == <<backoff, drain>>
ackVars    == <<unanswered, acked>>
cacheVars  == <<active, blocks, head, lastOffset>>
taskVars   == <<trims, poisoned, force>>
vars == <<env, walVars, metaVars, nodeVars, streamVars, admitVars, ackVars, cacheVars, taskVars>>

-----------------------------------------------------------------------------
WalCacheSize       == env.walCacheSize         \* wal_cache_size
WalUploadThreshold == env.walUploadThreshold   \* wal_upload_threshold as configured
UploadInterval     == env.uploadInterval       \* wal_upload_interval_ms > 0
MaxUnflushed       == env.maxUnflushed         \* records the WAL buffers before it reports OverCapacity
Events             == env.events               \* which of OptionalEvents happen
MaxOffset          == env.maxOffset            \* bound: the end offset of each stream
MaxEpoch           == env.maxEpoch             \* bound: times a stream is opened
MaxLives           == env.maxLives             \* bound: starts of the node

Rec == Streams \X Nat \X Nat
NoRecord == <<>>

TaskStates == {"queued", "uploading", "uploaded", "upload err", "applied", "committed", "failed"}
Block == [recs : SUBSET Rec, last : Nat, st : TaskStates, free : BOOLEAN, force : BOOLEAN]

\* A task leaves inflight_tasks when it has committed or failed.
Inflight(bs, i) == bs[i].st \notin {"committed", "failed"}
ContainsStream(recs, s) == \E r \in recs : r[1] = s

\* walUploadThreshold is clamped to 2/5 of the cache.
BlockMaxSize == Max({1, Min({(WalCacheSize * 2) \div 5, WalUploadThreshold})})

SizeOf(recs) == RecordSize * Cardinality(recs)
IsFull(recs) ==
  \/ SizeOf(recs) >= BlockMaxSize
  \/ Cardinality({r[1] : r \in recs}) >= MaxBlockStreams

CachedIn(bs, h) == UNION {bs[i].recs : i \in h + 1 .. Len(bs)}
Cached == CachedIn(blocks, head) \cup active
TryAcquirePermit == SizeOf(Cached) < WalCacheSize

\* Over 90% of the capacity, or too many blocks, once h blocks are released.
OverLimit(bs, act, h) ==
  \/ SizeOf(CachedIn(bs, h) \cup act) > (WalCacheSize \div 10) * 9
  \/ Len(bs) - h + 1 > MAX_BLOCKS_COUNT

\* (mutant) leading blocks are released whether or not they are committed
TryRealFree_Any(bs, act) ==
  CHOOSE h \in head .. Len(bs) :
    /\ ~OverLimit(bs, act, h) \/ h = Len(bs)
    /\ \A j \in head .. h - 1 : OverLimit(bs, act, j)

\* try_real_free: how many blocks are released after it, leading free ones first.
TryRealFree(bs, act) ==
  CHOOSE h \in head .. Len(bs) :
    /\ ~OverLimit(bs, act, h) \/ h = Len(bs) \/ ~bs[h + 1].free
    /\ \A j \in head .. h - 1 : OverLimit(bs, act, j) /\ bs[j + 1].free

-----------------------------------------------------------------------------
NoScan == [pos |-> 0, end |-> [s \in Streams |-> 0], opening |-> {}, blk |-> {}]
NoForce == [scheduled |-> FALSE, need |-> FALSE, loops |-> <<>>]
Idle == "idle"
NoDrain == [pc |-> Idle, rec |-> NoRecord]
NoClose == [pc |-> Idle, waits |-> {}]

VolatileInit ==
  /\ scan = NoScan
  /\ next = [s \in Streams |-> 0]
  /\ confirm = [s \in Streams |-> 0]
  /\ mark = [s \in Streams |-> {"closed"}]
  /\ appending = [s \in Streams |-> NoRecord]
  /\ failing = {}
  /\ closing = [s \in Streams |-> NoClose]
  /\ backoff = <<>>
  /\ drain = NoDrain
  /\ pending = [s \in Streams |-> <<>>]
  /\ walDown = FALSE
  /\ unanswered = {}
  /\ active = {} /\ blocks = <<>> /\ head = 0 /\ lastOffset = 0
  /\ trims = {} /\ poisoned = FALSE /\ force = NoForce

Init ==
  /\ env \in Environments
  /\ log = <<>> /\ trimmed = 0
  /\ committed = {} /\ endOffset = [s \in Streams |-> 0] /\ opened = {}
  /\ epoch = [s \in Streams |-> 0]
  /\ node = "down" /\ life = 0
  /\ acked = {}
  /\ VolatileInit

\* Tasks run from `new` until the process ends; a shutdown in progress stops few of them.
Running == node \in {"up", "stopping"}

-----------------------------------------------------------------------------
\* Sealing the active block, and the force flags.

\* (mutant) the confirm hook stores the new record's offset before it seals
SealedAt_Late(last, i) == IF i > 0 THEN i ELSE last
\* archive_current_block0 stamps the block with last_record_offset, which the
\* confirm of record i has not yet advanced.
SealedAt(last, i) == last

\* submit_block_upload: a forced task forces every inflight one.
Submitted(bs, recs, last, forced) ==
  LET bs2 == Append(bs, [recs |-> recs, last |-> last, st |-> "queued",
                         free |-> FALSE, force |-> forced])
  IN  IF forced THEN [i \in DOMAIN bs2 |->
                        IF Inflight(bs2, i) THEN [bs2[i] EXCEPT !.force = TRUE] ELSE bs2[i]]
                ELSE bs2

\* upload_delta_wal; which is a stream, or the whole of Streams for MATCH_ALL_STREAMS.
upload_delta_wal(which, forced) ==
  /\ IF \E s \in which : ContainsStream(active, s)
     THEN /\ blocks' = Submitted(blocks, active, SealedAt(lastOffset, 0), forced)
          /\ active' = {}
     ELSE UNCHANGED <<blocks, active>>
  /\ UNCHANGED <<head, lastOffset>>

maybe_force_upload ==
  IF (\E i \in DOMAIN blocks : Inflight(blocks, i) /\ blocks[i].force) \/ force.scheduled
  THEN force' = [force EXCEPT !.need = TRUE]
  ELSE /\ Len(force.loops) < MaxForceLoops
       /\ force' = [force EXCEPT !.scheduled = TRUE, !.loops = Append(@, 0)]

\* A loop of force_upload_all: 0 before its tick, i while it waits for task i,
\* -1 when there was nothing to archive.
ForceTick(j) ==
  /\ Running /\ force.loops[j] = 0
  /\ upload_delta_wal(Streams, TRUE)
  /\ force' = [force EXCEPT !.loops[j] = IF active # {} THEN Len(blocks') ELSE -1]
  /\ UNCHANGED <<walVars, metaVars, nodeVars, streamVars, admitVars, ackVars, trims, poisoned>>

ForceDone(j) ==
  /\ Running /\ force.loops[j] # 0
  /\ force.loops[j] > 0 => ~Inflight(blocks, force.loops[j])
  /\ force' = [scheduled |-> FALSE,
               need      |-> FALSE,
               loops     |-> IF force.need THEN [force.loops EXCEPT ![j] = 0]
                             ELSE [i \in 1 .. Len(force.loops) - 1 |->
                                     force.loops[IF i < j THEN i ELSE i + 1]]]
  /\ UNCHANGED <<walVars, metaVars, nodeVars, streamVars, admitVars, ackVars, cacheVars,
                 trims, poisoned>>

\* The wal_upload_interval_ms task.
IntervalUpload ==
  /\ node = "up" /\ UploadInterval /\ active # {}
  /\ upload_delta_wal(Streams, FALSE)
  /\ UNCHANGED <<walVars, metaVars, nodeVars, streamVars, admitVars, ackVars, taskVars>>

\* ConfirmWal.commit by the host: linger 0 starts a force loop of its own, a longer
\* linger seals what is there when it expires.
HostCommit ==
  /\ Running /\ "host commit" \in Events /\ active # {}
  /\ \/ /\ Len(force.loops) < MaxForceLoops
        /\ force' = [force EXCEPT !.loops = Append(@, 0)]
        /\ UNCHANGED cacheVars
     \/ /\ upload_delta_wal(Streams, FALSE)
        /\ UNCHANGED force
  /\ UNCHANGED <<walVars, metaVars, nodeVars, streamVars, admitVars, ackVars, trims, poisoned>>

-----------------------------------------------------------------------------
\* S3Stream.append and StorageInner.append0.

\* open_stream0: a new handle starts at the committed end offset.
OpenStream(s) ==
  /\ node = "up" /\ s \notin opened /\ epoch[s] < MaxEpoch /\ MaxOffset[s] > 0
  /\ appending[s] = NoRecord
  /\ opened' = opened \cup {s}
  /\ epoch' = [epoch EXCEPT ![s] = @ + 1]
  /\ next' = [next EXCEPT ![s] = endOffset[s]]
  /\ confirm' = [confirm EXCEPT ![s] = endOffset[s]]
  /\ mark' = [mark EXCEPT ![s] = {}]
  /\ closing' = [closing EXCEPT ![s] = NoClose]
  /\ UNCHANGED <<walVars, committed, endOffset, nodeVars, appending, failing, admitVars,
                 ackVars, cacheVars, taskVars>>

\* (mutant) a fresh append does not queue behind the waiting ones
MustWait_Permit == ~TryAcquirePermit
MustWait == backoff # <<>> \/ ~TryAcquirePermit

\* admit_append reserves the offset and enters append0, up to the WAL submit.
AppendAdmit(s) ==
  /\ Running /\ mark[s] = {} /\ appending[s] = NoRecord
  /\ next[s] < MaxOffset[s]
  /\ next' = [next EXCEPT ![s] = @ + 1]
  /\ LET r == <<s, next[s], epoch[s]>>
     IN  IF MustWait
         THEN /\ backoff' = Append(backoff, r)
              /\ UNCHANGED appending
         ELSE /\ appending' = [appending EXCEPT ![s] = r]
              /\ UNCHANGED backoff
  /\ UNCHANGED <<walVars, metaVars, nodeVars, confirm, mark, failing, closing, drain,
                 ackVars, cacheVars, taskVars>>

\* buffered_data_bytes falls when the append's own task sees the durability.
Buffered == MapThenSumSet(LAMBDA s : Len(pending[s]), Streams) + Cardinality(unanswered)
WalAccepts == ~walDown /\ Buffered <= MaxUnflushed
WalOverCapacity == ~walDown /\ Buffered > MaxUnflushed
WalRejects == walDown \/ (Buffered <= MaxUnflushed /\ "oversized record" \in Events)

AppendSubmit(s) ==
  /\ Running /\ appending[s] # NoRecord
  /\ appending' = [appending EXCEPT ![s] = NoRecord]
  /\ \/ /\ WalAccepts
        /\ pending' = [pending EXCEPT ![s] = Append(@, appending[s])]
        /\ UNCHANGED <<force, backoff, failing>>
     \/ /\ WalOverCapacity
        /\ maybe_force_upload
        /\ backoff' = Append(backoff, appending[s])
        /\ UNCHANGED <<pending, failing>>
     \/ /\ WalRejects
        /\ failing' = failing \cup {<<s, appending[s][3]>>}
        /\ UNCHANGED <<pending, force, backoff>>
  /\ UNCHANGED <<log, trimmed, walDown, metaVars, nodeVars, next, confirm, mark, closing,
                 drain, ackVars, cacheVars, trims, poisoned>>

\* complete_append with an error fences the handle.
AppendFailed(s, e) ==
  /\ Running /\ <<s, e>> \in failing
  /\ failing' = failing \ {<<s, e>>}
  /\ mark' = IF e = epoch[s] THEN [mark EXCEPT ![s] = @ \cup {"fenced"}] ELSE mark
  /\ UNCHANGED <<walVars, metaVars, nodeVars, next, confirm, appending, closing, admitVars,
                 ackVars, cacheVars, taskVars>>

\* complete_append with Ok.
Ack(r) ==
  /\ Running /\ r \in unanswered
  /\ unanswered' = unanswered \ {r}
  /\ acked' = acked \cup {r}
  /\ confirm' = IF r[3] = epoch[r[1]] THEN [confirm EXCEPT ![r[1]] = Max({@, r[2] + 1})]
                ELSE confirm
  /\ UNCHANGED <<walVars, metaVars, nodeVars, next, mark, appending, failing, closing,
                 admitVars, cacheVars, taskVars>>

-----------------------------------------------------------------------------
\* try_drain_backoff_records: look at the head, submit it, pop.
DrainPeek ==
  /\ node = "up" /\ drain = NoDrain /\ backoff # <<>>
  /\ TryAcquirePermit
  /\ drain' = [pc |-> "submit", rec |-> Head(backoff)]
  /\ UNCHANGED <<walVars, metaVars, nodeVars, streamVars, backoff, ackVars, cacheVars, taskVars>>

DrainSubmit ==
  /\ Running /\ drain.pc = "submit"
  /\ LET r == drain.rec
     IN  \/ /\ WalAccepts
            /\ pending' = [pending EXCEPT ![r[1]] = Append(@, r)]
            /\ drain' = [drain EXCEPT !.pc = "pop"]
            /\ UNCHANGED force
         \/ /\ WalOverCapacity
            /\ maybe_force_upload
            /\ drain' = NoDrain
            /\ UNCHANGED pending
         \/ /\ WalRejects
            /\ drain' = [drain EXCEPT !.pc = "pop failed"]
            /\ UNCHANGED <<pending, force>>
  /\ UNCHANGED <<log, trimmed, walDown, metaVars, nodeVars, streamVars, backoff, ackVars,
                 cacheVars, trims, poisoned>>

\* The `expect` of pop_front: an empty queue ends the task.
DrainPop ==
  /\ Running /\ drain.pc \in {"pop", "pop failed"} /\ backoff # <<>>
  /\ failing' = IF drain.pc = "pop" THEN failing
                ELSE failing \cup {<<Head(backoff)[1], Head(backoff)[3]>>}
  /\ backoff' = Tail(backoff)
  /\ drain' = NoDrain
  /\ UNCHANGED <<walVars, metaVars, nodeVars, next, confirm, mark, appending, closing, ackVars,
                 cacheVars, taskVars>>

-----------------------------------------------------------------------------
\* The WAL confirms the oldest record of a stream: handle_append_confirm, then the
\* record's own future is ready.
WalConfirm(s) ==
  /\ Running /\ ~walDown /\ pending[s] # <<>>
  /\ LET r == Head(pending[s])
         i == Len(log) + 1
         sealed == Submitted(blocks, active, SealedAt(lastOffset, i), FALSE)
     IN  /\ pending' = [pending EXCEPT ![s] = Tail(@)]
         /\ log' = Append(log, r)
         /\ unanswered' = unanswered \cup {r}
         /\ lastOffset' = i
         /\ IF IsFull(active)
            THEN /\ blocks' = sealed
                 /\ active' = {r}
                 /\ head' = TryRealFree(sealed, {})
            ELSE /\ active' = active \cup {r}
                 /\ head' = TryRealFree(blocks, active)
                 /\ UNCHANGED blocks
  /\ UNCHANGED <<trimmed, walDown, metaVars, nodeVars, streamVars, admitVars, acked, taskVars>>

\* The WAL is fenced, or its writer fails: every append it still holds is answered Err.
WalFails ==
  /\ Running /\ "wal fails" \in Events /\ ~walDown
  /\ walDown' = TRUE
  /\ failing' = failing \cup {<<r[1], r[3]>> : r \in UNION {Range(pending[s]) : s \in Streams}}
  /\ UNCHANGED <<log, trimmed, pending, metaVars, nodeVars, next, confirm, mark, appending,
                 closing, admitVars, ackVars, cacheVars, taskVars>>

\* A trim spawned by delay_trim reaches the WAL.
TrimWal(i) ==
  /\ Running /\ i \in trims
  /\ trims' = trims \ {i}
  /\ trimmed' = IF walDown THEN trimmed ELSE Max({trimmed, i})
  /\ UNCHANGED <<log, pending, walDown, metaVars, nodeVars, streamVars, admitVars, ackVars,
                 cacheVars, poisoned, force>>

-----------------------------------------------------------------------------
\* The upload pipeline: prepare_worker, one upload per task, commit_worker.

SetTask(i, st) == blocks' = [blocks EXCEPT ![i].st = st]

\* prepare_tx is a FIFO.
Prepare(i) ==
  /\ Running /\ blocks[i].st = "queued"
  /\ \A j \in 1 .. i - 1 : blocks[j].st # "queued"
  /\ \/ SetTask(i, "uploading")
     \/ "prepare fails" \in Events /\ SetTask(i, "failed")
  /\ UNCHANGED <<walVars, metaVars, nodeVars, streamVars, admitVars, ackVars, active, head,
                 lastOffset, taskVars>>

Upload(i) ==
  /\ Running /\ blocks[i].st = "uploading"
  /\ \/ SetTask(i, "uploaded")
     \/ "upload fails" \in Events /\ SetTask(i, "upload err")
  /\ UNCHANGED <<walVars, metaVars, nodeVars, streamVars, admitVars, ackVars, active, head,
                 lastOffset, taskVars>>

\* (mutant) tasks commit as their uploads finish
AtCommit_Any(i) == blocks[i].st \notin {"queued", "committed", "failed"}
\* commit_tx is a FIFO: i is the task the commit worker is at.
AtCommit(i) ==
  /\ blocks[i].st \notin {"queued", "committed", "failed"}
  /\ \A j \in 1 .. i - 1 : ~Inflight(blocks, j)

\* commit_stream_set_object: the objects and the end offsets, atomically.
Advanced(ends, recs) ==
  [s \in Streams |-> Max({ends[s]} \cup {r[2] + 1 : r \in {q \in recs : q[1] = s}})]

CommitApply(i) ==
  /\ Running /\ AtCommit(i) /\ ~poisoned /\ blocks[i].st = "uploaded"
  /\ committed' = committed \cup blocks[i].recs
  /\ endOffset' = Advanced(endOffset, blocks[i].recs)
  /\ SetTask(i, "applied")
  /\ UNCHANGED <<walVars, opened, epoch, nodeVars, streamVars, admitVars, ackVars, active, head,
                 lastOffset, taskVars>>

\* (mutant) mark_free only sets the flag
MarkFree_Lazy(bs) == head
\* mark_free releases what it can.
MarkFree(bs) == TryRealFree(bs, active)

\* The commit returned Ok: trim, free, leave inflight.
CommitReturn(i) ==
  /\ Running /\ blocks[i].st = "applied" /\ ~poisoned
  /\ blocks' = [blocks EXCEPT ![i].st = "committed", ![i].free = TRUE]
  /\ head' = MarkFree(blocks')
  /\ trims' = trims \cup {blocks[i].last}
  /\ UNCHANGED <<walVars, metaVars, nodeVars, streamVars, admitVars, ackVars, active,
                 lastOffset, poisoned, force>>

\* The upload failed, or the commit did, before or after it took effect.
CommitFail(i) ==
  /\ Running /\ AtCommit(i) /\ ~poisoned
  /\ \/ blocks[i].st = "upload err"
     \/ "commit fails" \in Events /\ blocks[i].st \in {"uploaded", "applied"}
  /\ SetTask(i, "failed")
  /\ poisoned' = TRUE
  /\ UNCHANGED <<walVars, metaVars, nodeVars, streamVars, admitVars, ackVars, active, head,
                 lastOffset, trims, force>>

CommitPoisoned(i) ==
  /\ Running /\ AtCommit(i) /\ poisoned
  /\ SetTask(i, "failed")
  /\ UNCHANGED <<walVars, metaVars, nodeVars, streamVars, admitVars, ackVars, active, head,
                 lastOffset, taskVars>>

-----------------------------------------------------------------------------
\* S3Stream.close_with: drain the appends, force_upload, close_stream.

Quiet(s) ==
  /\ appending[s] = NoRecord /\ \A f \in failing : f[1] # s
  /\ \A i \in DOMAIN backoff : backoff[i][1] # s
  /\ walDown \/ pending[s] = <<>>
  /\ \A r \in unanswered : r[1] # s

CloseStart(s) ==
  /\ Running /\ s \in opened /\ "closed" \notin mark[s]
  /\ mark' = [mark EXCEPT ![s] = @ \cup {"closed"}]
  /\ \/ "close" \in Events /\ closing' = [closing EXCEPT ![s].pc = "drain"]
     \/ "force close" \in Events /\ closing' = [closing EXCEPT ![s].pc = "upload"]
  /\ UNCHANGED <<walVars, metaVars, nodeVars, next, confirm, appending, failing, admitVars,
                 ackVars, cacheVars, taskVars>>

CloseDrained(s) ==
  /\ Running /\ closing[s].pc = "drain" /\ Quiet(s)
  /\ closing' = [closing EXCEPT ![s].pc = "upload"]
  /\ UNCHANGED <<walVars, metaVars, nodeVars, next, confirm, mark, appending, failing,
                 admitVars, ackVars, cacheVars, taskVars>>

\* force_upload: seal what holds the stream ...
CloseUpload(s) ==
  /\ Running /\ closing[s].pc = "upload"
  /\ upload_delta_wal({s}, TRUE)
  /\ closing' = [closing EXCEPT ![s].pc = "collect"]
  /\ UNCHANGED <<walVars, metaVars, nodeVars, next, confirm, mark, appending, failing,
                 admitVars, ackVars, taskVars>>

\* (mutant) only the block this call sealed is waited for
Waits_Last(s) == {i \in DOMAIN blocks :
  i = Len(blocks) /\ Inflight(blocks, i) /\ ContainsStream(blocks[i].recs, s)}
Waits(s) == {i \in DOMAIN blocks : Inflight(blocks, i) /\ ContainsStream(blocks[i].recs, s)}

\* ... then wait for every inflight task that holds it.
CloseCollect(s) ==
  /\ Running /\ closing[s].pc = "collect"
  /\ closing' = [closing EXCEPT ![s] = [pc |-> "wait", waits |-> Waits(s)]]
  /\ UNCHANGED <<walVars, metaVars, nodeVars, next, confirm, mark, appending, failing,
                 admitVars, ackVars, cacheVars, taskVars>>

CloseWaited(s) ==
  /\ Running /\ closing[s].pc = "wait"
  /\ \/ /\ \A i \in closing[s].waits : blocks[i].st = "committed"
        /\ closing' = [closing EXCEPT ![s] = [pc |-> "closed", waits |-> {}]]
        /\ opened' = opened \ {s}
     \/ /\ \E i \in closing[s].waits : blocks[i].st = "failed"
        /\ closing' = [closing EXCEPT ![s] = [pc |-> "close failed", waits |-> {}]]
        /\ UNCHANGED opened
  /\ UNCHANGED <<walVars, committed, endOffset, epoch, nodeVars, next, confirm, mark, appending,
                 failing, admitVars, ackVars, cacheVars, taskVars>>

-----------------------------------------------------------------------------
\* Shutdown, crash, start, recovery.

\* Storage.shutdown answers the backoff queue; what follows it (flushing trims and the
\* WAL, aborting the tasks) ends in the state of a Crash.
Shutdown ==
  /\ node = "up" /\ "shutdown" \in Events
  /\ node' = "stopping"
  /\ failing' = failing \cup {<<r[1], r[3]>> : r \in Range(backoff)}
  /\ backoff' = <<>>
  /\ UNCHANGED <<walVars, metaVars, life, scan, next, confirm, mark, appending, closing, drain,
                 ackVars, cacheVars, taskVars>>

\* Of the records that were submitted and not confirmed, any prefix per stream may
\* have reached the object store.
Crash ==
  /\ node # "down" /\ life < MaxLives
  /\ \E n \in [Streams -> 0 .. Max({Len(pending[s]) : s \in Streams})] :
       /\ \A s \in Streams : n[s] <= Len(pending[s])
       /\ log' = FoldSet(LAMBDA s, l : l \o SubSeq(pending[s], 1, n[s]), log, Streams)
  /\ node' = "down"
  /\ scan' = NoScan
  /\ next' = [s \in Streams |-> 0]
  /\ confirm' = [s \in Streams |-> 0]
  /\ mark' = [s \in Streams |-> {"closed"}]
  /\ appending' = [s \in Streams |-> NoRecord]
  /\ failing' = {}
  /\ closing' = [s \in Streams |-> NoClose]
  /\ backoff' = <<>>
  /\ drain' = NoDrain
  /\ pending' = [s \in Streams |-> <<>>]
  /\ walDown' = FALSE
  /\ unanswered' = {}
  /\ active' = {} /\ blocks' = <<>> /\ head' = 0 /\ lastOffset' = 0
  /\ trims' = {} /\ poisoned' = FALSE /\ force' = NoForce
  /\ UNCHANGED <<trimmed, metaVars, life, acked>>

\* startup: the WAL starts and recover reads the opening streams.
Startup ==
  /\ node = "down" /\ life < MaxLives
  /\ life' = life + 1
  /\ node' = "scanning"
  /\ scan' = [pos |-> trimmed, end |-> endOffset, opening |-> opened, blk |-> {}]
  /\ UNCHANGED <<walVars, metaVars, streamVars, admitVars, ackVars, cacheVars, taskVars>>

\* process_record: only the next record of an opening stream is kept.
Keeps(opening, end, r) == r[1] \in opening /\ r[2] = end[r[1]]

RecoverRecord ==
  /\ node = "scanning" /\ scan.pos < Len(log) /\ Cardinality(scan.blk) < RecoverBlockSize
  /\ LET r == log[scan.pos + 1]
     IN  scan' = IF Keeps(scan.opening, scan.end, r)
                 THEN [scan EXCEPT !.pos = @ + 1, !.end[r[1]] = r[2] + 1, !.blk = @ \cup {r}]
                 ELSE [scan EXCEPT !.pos = @ + 1]
  /\ UNCHANGED <<walVars, metaVars, node, life, streamVars, admitVars, ackVars, cacheVars,
                 taskVars>>

\* A full block, or the last one, is uploaded and committed.
RecoverBlock ==
  /\ node = "scanning" /\ scan.blk # {}
  /\ Cardinality(scan.blk) >= RecoverBlockSize \/ scan.pos = Len(log)
  /\ committed' = committed \cup scan.blk
  /\ endOffset' = Advanced(endOffset, scan.blk)
  /\ scan' = [scan EXCEPT !.blk = {}]
  /\ UNCHANGED <<walVars, opened, epoch, node, life, streamVars, admitVars, ackVars, cacheVars,
                 taskVars>>

RecoverScanned ==
  /\ node = "scanning" /\ scan.pos = Len(log) /\ scan.blk = {}
  /\ node' = "closing"
  /\ UNCHANGED <<walVars, metaVars, life, scan, streamVars, admitVars, ackVars, cacheVars, taskVars>>

\* `reset` is only a future until it is awaited: the streams are closed first.
RecoverClose(s) ==
  /\ node = "closing" /\ s \in opened
  /\ opened' = opened \ {s}
  /\ UNCHANGED <<walVars, committed, endOffset, epoch, nodeVars, streamVars, admitVars, ackVars,
                 cacheVars, taskVars>>

RecoverReset ==
  /\ node = "closing" /\ scan.opening \cap opened = {}
  /\ trimmed' = Len(log)
  /\ node' = "up"
  /\ UNCHANGED <<log, pending, walDown, metaVars, life, scan, streamVars, admitVars, ackVars,
                 cacheVars, taskVars>>

-----------------------------------------------------------------------------
StreamStep ==
  \E s \in Streams :
    \/ OpenStream(s) \/ AppendAdmit(s) \/ AppendSubmit(s) \/ WalConfirm(s)
    \/ CloseStart(s) \/ CloseDrained(s) \/ CloseUpload(s) \/ CloseCollect(s) \/ CloseWaited(s)

TaskStep ==
  \E i \in DOMAIN blocks :
    \/ Prepare(i) \/ Upload(i)
    \/ CommitApply(i) \/ CommitReturn(i) \/ CommitFail(i) \/ CommitPoisoned(i)

Recovery ==
  \/ Startup \/ RecoverRecord \/ RecoverBlock \/ RecoverScanned
  \/ \E s \in Streams : RecoverClose(s)
  \/ RecoverReset

Step ==
  \/ StreamStep
  \/ \E r \in unanswered : Ack(r)
  \/ \E f \in failing : AppendFailed(f[1], f[2])
  \/ DrainPeek \/ DrainSubmit \/ DrainPop
  \/ WalFails
  \/ \E i \in trims : TrimWal(i)
  \/ TaskStep
  \/ \E j \in DOMAIN force.loops : ForceTick(j) \/ ForceDone(j)
  \/ IntervalUpload \/ HostCommit
  \/ Shutdown \/ Crash
  \/ Recovery

Next == UNCHANGED env /\ Step

Spec == Init /\ [][Next]_vars

\* The runtime runs every spawned task, the WAL answers, and the object store and the
\* metadata plane reply.  Nothing obliges the host to append, commit or close.
Fairness ==
  /\ \A s \in Streams : WF_vars(UNCHANGED env /\ AppendSubmit(s))
                         /\ WF_vars(UNCHANGED env /\ WalConfirm(s))
  /\ WF_vars(UNCHANGED env /\ \E r \in unanswered : Ack(r))
  /\ WF_vars(UNCHANGED env /\ DrainPeek)
  /\ WF_vars(UNCHANGED env /\ DrainSubmit)
  /\ WF_vars(UNCHANGED env /\ DrainPop)
  /\ WF_vars(UNCHANGED env /\ TaskStep)
  /\ WF_vars(UNCHANGED env /\ \E j \in DOMAIN force.loops : ForceTick(j) \/ ForceDone(j))
  /\ WF_vars(UNCHANGED env /\ IntervalUpload)
  /\ WF_vars(UNCHANGED env /\ Recovery)

FairSpec == Spec /\ Fairness

-----------------------------------------------------------------------------
\* The type of every variable.
TypeOK ==
  /\ env \in Environments
  /\ log \in Seq(Rec) /\ trimmed \in 0 .. Len(log)
  /\ committed \in SUBSET Rec /\ endOffset \in [Streams -> Nat]
  /\ opened \subseteq Streams /\ epoch \in [Streams -> 0 .. MaxEpoch]
  /\ node \in {"down", "scanning", "closing", "up", "stopping"}
  /\ life \in 0 .. MaxLives
  /\ scan \in [pos : 0 .. Len(log), end : [Streams -> Nat],
               opening : SUBSET Streams, blk : SUBSET Rec]
  /\ next \in [Streams -> Nat] /\ confirm \in [Streams -> Nat]
  /\ mark \in [Streams -> SUBSET {"closed", "fenced"}]
  /\ appending \in [Streams -> Rec \cup {NoRecord}]
  /\ failing \subseteq Streams \X (1 .. MaxEpoch)
  /\ closing \in [Streams -> [pc : {Idle, "drain", "upload", "collect", "wait", "closed",
                                    "close failed"},
                              waits : SUBSET (1 .. Len(blocks))]]
  /\ backoff \in Seq(Rec)
  /\ drain \in [pc : {Idle, "submit", "pop", "pop failed"}, rec : Rec \cup {NoRecord}]
  /\ pending \in [Streams -> Seq(Rec)] /\ walDown \in BOOLEAN
  /\ unanswered \in SUBSET Rec /\ acked \in SUBSET Rec
  /\ active \in SUBSET Rec
  /\ blocks \in Seq(Block) /\ head \in 0 .. Len(blocks)
  /\ lastOffset \in 0 .. Len(log) /\ trims \subseteq 1 .. Len(log)
  /\ poisoned \in BOOLEAN
  /\ force \in [scheduled : BOOLEAN, need : BOOLEAN, loops : Seq(-1 .. Len(blocks))]

\* The per-stream end offsets recovery has reached after the i-th record of the log.
KeptEnds[i \in Nat] ==
  IF i <= trimmed THEN endOffset
  ELSE LET ends == KeptEnds[i - 1]
       IN  IF Keeps(opened, ends, log[i]) THEN [ends EXCEPT ![log[i][1]] = log[i][2] + 1]
                                         ELSE ends

\* What a recovery started from the durable state of this moment would keep.
Recoverable ==
  {log[i] : i \in {j \in trimmed + 1 .. Len(log) : Keeps(opened, KeptEnds[j - 1], log[j])}}

\* Invariant 1 of the upload protocol: an append that returned Ok is in a committed
\* object, or a recovery from the WAL as it is now would keep it: whatever was sealed,
\* committed, trimmed, closed or half recovered in between.
NothingAckedIsLost == acked \subseteq committed \cup Recoverable

\* Invariants 3 and 5: what is committed of a stream is exactly its offsets below the
\* end offset the metadata plane reports, each of them once, although blocks upload
\* concurrently, commits fail half way and recovery may run twice over the same log.
CommittedIsPrefix ==
  \A s \in Streams :
    LET recs == {r \in committed : r[1] = s}
    IN  /\ {r[2] : r \in recs} = 0 .. endOffset[s] - 1
        /\ Cardinality(recs) = endOffset[s]

\* The WAL refused no record of the stream's handle: one it refuses as too large leaves
\* its offset empty, and the handle is fenced only when that append completes.
NoneRefused(s) ==
  "oversized record" \in Events => <<s, epoch[s]>> \notin failing /\ "fenced" \notin mark[s]

\* read0 stitches committed objects and a tail from the LogCache.  Whatever fails (a
\* prepare, an upload, a commit, the WAL, a forced close, a shutdown), a record the WAL
\* confirmed in this life of the node is in one of the two, as is whatever a stream
\* confirmed; and what the cache holds of a stream has no gap, so releasing blocks never
\* opens a hole in front of a reader.
ConfirmedIsReadable ==
  Running =>
    /\ {log[i] : i \in scan.pos + 1 .. Len(log)} \subseteq Cached \cup committed
    /\ \A s \in {t \in opened : NoneRefused(t)} :
         LET cached == {r[2] : r \in {q \in Cached : q[1] = s}}
             stored == {r[2] : r \in {q \in committed : q[1] = s}}
         IN  /\ 0 .. confirm[s] - 1 \subseteq cached \cup stored
             /\ \A a, b \in cached : a .. b \subseteq cached

\* The offset a stream's next record in the WAL must have.
PlacedEnd(s) ==
  LET placed  == {r \in Range(log) \cup Range(pending[s]) : r[1] = s /\ r[3] = epoch[s]}
      offsets == {r[2] : r \in placed}
  IN  IF offsets = {} THEN endOffset[s] ELSE Max(offsets) + 1

\* The WAL receives the records of a stream in offset order without a gap, however
\* direct appends, the backoff queue and its drain task interleave.
WalInStreamOrder ==
  [][\A s \in Streams :
       Len(pending'[s]) > Len(pending[s]) /\ NoneRefused(s) =>
         pending'[s][Len(pending'[s])][2] = PlacedEnd(s)]_vars

\* A stream whose close returned Ok has every record it confirmed in a committed
\* object: recovery skips closed streams.
ClosedIsCommitted ==
  \A s \in Streams :
    closing[s].pc = "closed" =>
      \A i \in DOMAIN log : log[i][1] = s /\ log[i][2] < confirm[s] => log[i] \in committed

\* The entry the drain task pops is the one it submitted.
DrainPopsItsOwn ==
  drain.pc \in {"pop", "pop failed"} => backoff # <<>> /\ Head(backoff) = drain.rec

\* Every append is answered, while nothing fails: a full cache or a full WAL only delays
\* it (stated for a node that runs its first life and streams in their first epoch).
AppendsAreAnswered ==
  \A s \in Streams : \A o \in 0 .. Max({e.maxOffset[s] : e \in Environments}) - 1 :
    (next[s] > o) ~> (<<s, o, 1>> \in acked)

\* A cache over its limit whose oldest block is committed is brought back under it.
OverLimitIsReleased ==
  (Running /\ OverLimit(blocks, active, head) /\ head < Len(blocks) /\ blocks[head + 1].free)
    ~> ~(OverLimit(blocks, active, head) /\ head < Len(blocks) /\ blocks[head + 1].free)
=============================================================================

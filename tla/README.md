# s3stream: a TLA+ verification project

s3stream is a storage engine that keeps append-only streams on object storage. A record
is acknowledged once it is in a write-ahead log (WAL) whose segments are themselves
objects; it stays readable from an in-memory LogCache; in the background it is packed
into stream set objects and stream objects, committed to a metadata plane, and trimmed
from the WAL; compaction then merges, splits and replaces those objects, while readers
find them through caches and indexes. This project models these paths and checks what
the engine promises about them: nothing acknowledged is lost, reads return what was
written, and every call is answered, whatever overtakes, fails, crashes, is closed,
throttled or compacted meanwhile.

Paths below are relative to `src/`. `PROJECT.json` maps every definition to the lines it
models, and lists the components, the hazards, the runs with their mutants, and the
theorems.

## 1. The system and its parts

| part | what it does | modules |
|---|---|---|
| WAL contract (`s3stream-wal/src/lib.rs`) | appends answered in order, a confirm offset, trims | `Wal` |
| Object WAL (`object/writer.rs`, `recover.rs`, `keys.rs`, `header.rs`, `reservation.rs`) | bulks uploaded concurrently, confirmed in order; recovery from the objects of earlier epochs; a reservation that fences old writers | `ObjectWal`, `ObjectWalContract`, the three `ObjectWal...Proofs` |
| Storage engine (`s3stream-core/src/storage/*`) | admission, backoff, confirm hook, upload pipeline, WAL trims, recovery | `S3Storage` |
| LogCache (`cache/log_cache.rs`) | what is not committed yet, and what was committed recently | `S3Storage` (under the engine), `LogCache` (lookup, clearing, merging) |
| Snapshot read (`cache/snapshot_read.rs`) | replays another node's WAL ranges and objects into a LogCache | `SnapshotRead` |
| Block cache (`cache/blockcache/*`) | shared loads of data blocks under a size limit; readers with a window and a readahead | `DataBlockCache`, `StreamReaders` |
| Stream and client (`stream.rs`, `stream_client.rs`, the handlers of `failover.rs`) | calls of a host on stream handles, shutdown, failure handling | `StreamClient`, `StreamClientEffects` and the proofs above it; append and close also in `S3Storage` |
| Compaction (`compact/*`) | stream set compaction with split, stream object merge, composites, cleanup | `CompactionPlan`, `Compaction` |
| Metadata plane (`manager.rs`, `memory.rs`) | streams, ranges, objects; commits and listings | inside `S3Storage`, `Compaction`, `StreamReaders`, `StreamClient`, `RangeIndex` |
| Stream metadata index (`index.rs`) | a sparse index from offsets to stream set objects | `RangeIndex` |
| Throttle (`throttle.rs`), retry (`s3stream-object/src/retry.rs`, `storage.rs`) | token buckets with priorities, inflight permits, retries | `ObjectAccess` |
| Object format and codecs, configuration, metrics, facade | bytes and wiring | not modelled, but for index search and composites |

What makes it hard: bulks and blocks upload concurrently and finish in any order while
confirmation, commit and trim must follow the log; a superseded writer (a zombie) goes on
running and its requests may land late; every await lets other appends, uploads, reads,
closes and trims in; a failed step must stop everything behind it; caches, buffers and
permits are bounded and push callers back; objects are replaced under their readers; a
crash may fall between any two steps, recovery included.

## 2. Modules

A step of a model is a stretch of code between two awaits, or one critical section.
Where a component has many optional failures or calls, a behaviour chooses a *plan* (or
*environment*) in its initial state and keeps it: what the host asks for, and which
faults may happen. A run then lists the plans it is about.

### Wal, ObjectWalContract

`Wal` is the `WriteAheadLog` trait as its callers see it: a log of batches per writer, how
many of them have been answered, whether one failed, the confirm offset, and how far
trims that returned have reached. `ObjectWalContract` reads the state of `ObjectWal` as
such a log (`LogOf`, `BatchCount`, `HasFailed`) and states `ImplementsWal`.

### ObjectWal

One writer per node epoch over a shared bucket, every epoch with its own copy of the
writer's state, so that an old writer runs on beside its successor. A crash is a writer
that takes no further step. The bucket is `store`; a PUT is issued (`sent`), lands
(`PutLands`) and is answered (`UploadOk`, `UploadErr`) in separate steps, so it can land
after the writer gave up on it; a delete is issued (`reaper`) and takes effect later or
never (`Reap`).

| action | code |
|---|---|
| `Acquire`, `StartVerify`, `StartList`, `Recover`, `Ready` | the service's start, `RecoverIterator`, the reset that ends engine recovery |
| `AppendRecord`, `SealActive`, `Close` | `submit`, the batch timer and `flush`, `close` |
| `UploadBulk`, `PutLands`, `UploadOk`, `UploadErr` | the upload task of one bulk |
| `CallbackPop`, `CallbackVerify`, `CompleteBulk` | `callback_loop`: finished prefix, reservation check, confirm in order |
| `TrimStart`, `TrimSubmit`, `TrimDelete`, `TrimFails`, `TrimDone`, `TrimWaited` | `trim0` at each of its awaits; `reset` is the same call at the end of the log |

Records have size 1; `Align` stands for the 64 MiB alignment of bulks. Within a bulk a
record's offset follows from the `<stream, base offset>` sort. The records of a bulk are
a set, and a record is `<<epoch, stream, number>>`.

### S3Storage

The engine on one node. The WAL is used through its contract: records of a stream are
placed in submission order, confirmations follow log order, a crash keeps what was
confirmed and any prefix per stream of what was submitted. Streams confirm independently
of each other, which includes the object WAL's sort by stream.

| action | code |
|---|---|
| `OpenStream`, `AppendAdmit`, `AppendSubmit`, `Ack`, `AppendFailed` | `S3Stream::append` and `append0`, at its awaits |
| `DrainPeek`, `DrainSubmit`, `DrainPop` | `try_drain_backoff_records` |
| `WalConfirm` | `handle_append_confirm`: seal when full, release, put |
| `ForceTick`, `ForceDone`, `IntervalUpload`, `HostCommit` | `force_upload_all`, the interval task, `ConfirmWal::commit` |
| `Prepare`, `Upload`, `CommitApply`, `CommitReturn`, `CommitFail`, `CommitPoisoned`, `TrimWal` | `prepare_worker`, the upload tasks, `commit_worker`, `delay_trim` |
| `CloseStart` ... `CloseWaited` | `close_with` and `force_upload` |
| `Shutdown`, `Crash`, `Startup`, `RecoverRecord` ... `RecoverReset` | shutdown, process end, `startup` and `recover` |

`CommitApply` (the metadata plane accepts) and `CommitReturn` (the worker learns of it)
are two steps, so an error or a crash can separate them. A record carries the epoch of
the handle that appended it. The environment of a behaviour has the sizes of the cache and
of the WAL buffer, the bounds, and the `events` (failures and host calls) that may happen.

Abstractions: all records have the same size; blocks are sets of records; the split of a
block into a stream set object and stream objects is one atomic commit, as in the code;
merging of free LogCache blocks starts at a number of blocks no instance reaches (it is in
`LogCache`); a lazy commit is the seal it triggers; after `Shutdown` the process may take
any step until it ends in `Crash`; a stream is opened only when the metadata plane has it
closed.

### CompactionPlan and Compaction

`CompactionPlan` holds the pure planner (`compact/plan.rs` and the helpers of `executor.rs`
and `stream_compactor.rs`): sorting and filtering data blocks, grouping them by offset and
size, dropping objects until the limits hold, cutting stages at the cache size, and the
grouping of stream objects for a pass. `Compaction` calls these operators from its actions,
over the metadata plane of `memory.rs`.

| action | code |
|---|---|
| `Upload` | `UploadWalTask::plan` and the commit of the delta WAL |
| `Trim`, `Delete` | `trim_stream`, `delete_stream` |
| `RoundStart`, `RoundSplit`, `RoundCompact`, `RoundAbort` | `compact_once`: listing and indexes, one force split per step, `compact_objects`, a failure or shutdown between any two |
| `PassStart`, `PassClean`, `PassMerge`, `PassCommit`, `PassAbort` | `StreamObjectCompactor::compact`: listing and grouping, `cleanup_expired`, building one group's object (with the deletes that happen then), its commit, giving up |

A round and a pass keep what they listed in their own state and go on while the metadata
changes. `store` is the index of every object written: its blocks, each naming the object
that holds its bytes, so that a composite object names the objects it links. `doomed` are
the objects that may be deleted from the bucket by now; nothing has to delete them, but
what is doomed counts as unreadable.

Abstractions: a record has one offset and one byte; an object is written under a fresh id
in the step that commits it, which no other step can observe earlier; a request that the
`MaxObjects` bound refuses ends as an aborted round or pass; whether a stream is split out
of an upload is a free choice rather than a size; which objects are old enough for a force
split is any prefix of the ids; index sizes, part counts and throttles are left out.

### RangeIndex

The node's sparse index: `SparseAppend`, `SparseCompact`, `IndexAppend`, `IndexCompact`
with the evictions they cause, `Pruned` and `SearchObjectId` are operators on the index;
`CommitUpload` and `CommitCompaction` commit to the metadata plane and spawn a hook;
`RunHook` runs any of the hooks that wait; `UploadBegin`, `UploadEnd`, `CloseTimeout` and
`PutArrives` are the writes of the index object, which may fail or arrive late; `Start`,
`GetServerObjects`, `AsyncPrune` and `Crash` are the lives of the node. An entry is one
unit of the size limit; a committed range has one offset per upload.

### DataBlockCache and StreamReaders

`DataBlockCache` is the cache of data blocks as operators on one record: permits and their
waiters, the map from keys to blocks, the LRU list, and the load task of a block, one step
per lock it takes. `StreamReaders` adds what drives it.

| action | code |
|---|---|
| `Read` | a consumer takes a reader from the registry or makes one, and gives it back with what it read |
| `GetBlocks` | `get_blocks` of a consumer's read or of a readahead: the window, the index load under its lock, the data blocks, the retries |
| `Readahead`, `AttachLoaded`, `OnFreed` | the readahead of a reader, the tasks that attach loaded blocks to its window, the free listeners |
| `Expire` | `take_expired` |
| `Load` | the load task of a block |
| `Compact`, `DeleteObject` | external: compaction replaces objects, and their bytes go later |

A walk along the window takes the handles of its blocks in one step, and the question
whether permits are wanted back is asked in the step that ends a load; in the code each
lies between two locks without an await. Time is a choice: entries, readers and
cool-downs may expire whenever a plan has the fault "expire".

### LogCache and SnapshotRead

`LogCache` has `put`, `get` with the hint where the last read ended, the release of free
blocks, `clear_stream_records` and merging, as operators on a record whose byte counts
wrap. `SnapshotRead` uses them for the replay: `ReplayWal`, `ReplayObjects`, `Put` and
`ReadCache` are the host's calls, `ReplayStep` is a load that starts, reads, fails or puts
what is next in line, and `NotifyCommitIfAhead` asks the owner to commit.

### StreamClient

Threads of a host with programs of calls on stream handles. `Open...`, `Append...`,
`Fetch...`, `Trim...`, `Close...`, `Destroy...`, `Shutdown...` and the failure handlers
take one step per await or per access to an atomic; `CancelAppend` drops the future of an
append. Below, `Ack`, `StoreFails` and `Upload` are the storage engine as a queue that
acknowledges in order, `Fence` is another node, and `NoticeConfirm` and `NoticeStart`
deliver metadata to a snapshot read. A plan is well formed (`ClientAssumption`) when its
calls are on its handles and one call opens each handle, since a handle is one `S3Stream`.

Two of the properties name what the code does not promise. A fetch is protected from the
trims of its own `S3Stream` only: `FetchesAreNotTrimmed` leaves out streams that were
opened again, by another node or in the same epoch. `ShutdownClosesAll` leaves out opens
that were under way at the shutdown, streams whose place in the map a second open took,
and what another shutdown that found the map first is still to close.

### ObjectAccess

Tasks with programs of storage calls. `Begin` takes an inflight permit or queues for it,
`Attempt` pays the limiter or queues in its heap, `Answer`, `Refuse` and `Fail` are what
the (external) store does, `Fail` before or after the effect; `Retry` ends a backoff,
`Cancel` drops the future, `Refill` is a tick of a limiter, `StopLimiter` its shutdown.
Bandwidth is in tokens, of which `MAX_TOKEN_PART_SIZE` are taken at once; the order of a
heap is tier, then arrival.

## 3. Runs

Modules whose states are independent share a run where their questions are alike:
`MCAnswers`, `MCCommits` and `MCHost` choose in the initial state which of two parts is at
work, and the other stays at rest.

Deadlock is checked in `Compaction` and `CompactionRace`, where a round can always start.
It is not checked in the other runs: their counts of appends, calls, lives and epochs are
bounded, and an instance that has used them up stops.

| run | question | instance |
|---|---|---|
| `ObjectWalPipeline` | Uploads finish in any order and two trims race: has the confirmed log no hole, is no acknowledged, untrimmed object deleted, and is the contract kept? | 1 epoch, 3 appends, 2 trim callers, 2 uploads in flight, batch of 2 |
| `ObjectWalZombie` | The old writer runs on and its PUTs land late: is what was recovered complete, would acknowledged records be found again, is no trim undone? | 2 epochs (2 and 1 appends), the second in recovery mode |
| `Answers` | Is every append accepted by the WAL answered? Does every storage call return, higher tiers first, within the inflight limits, and is an uploaded object whole? | WAL: 1 epoch, 3 appends, 1 upload in flight. Access: 3 tasks, 2 read permits and 1 write permit; plans `Tiers`, `Uploads`, `Refusing`, `Stopping` |
| `StorageOrder` | Do direct appends, backoff and drain keep the stream order in the WAL, and is every confirmed record readable while blocks are released, whatever fails? | `Backpressure`: 2 streams with 2 records, cache of two records, WAL buffer of one, failing WAL; `AnythingFails`: 1 stream, every other event |
| `StorageLives` | Does nothing acknowledged get lost over crashes at any step, with failing uploads and commits; is a stream that closed fully committed? | `Crashing`: 1 stream, 3 records, 3 lives, 2 opens; `Closing`: 2 streams (2 and 1 records) that share blocks, 2 lives |
| `StorageAnswers` | Is an append that was pushed back acknowledged in the end? | 1 stream, 3 records, cache of two, interval uploads on |
| `StoragePrepareFails` | Is nothing acknowledged lost when a prepare fails? No. | 1 stream, 3 records, 2 lives |
| `Compaction` | Rounds, passes, uploads, trims and stream deletions interleave and fail: does every committed offset stay readable, do slices stay disjoint, is no object leaked? Does the range index stay counted, sorted and, after its prune, right? | 2 streams with 2 records, the second deletable, 5 objects, levels CleanupV1, MinorV1 and MajorV1. Index: 2 streams, 4 entries, 4 commits of which one compacts in one life, or 3 in two lives with a close |
| `CompactionRace` | Do slices stay continuous when the host compacts the same stream as the scheduler? No. | 1 stream, 3 records, 2 compactors at MinorV1 |
| `BlockCache` | Do reads return their range, once and in order, across eviction, readahead and compaction; is every permit held by a cached block; is no read stuck? | 1 stream, 5 objects of one or two records, 5 blocks, 2 consumers; plans `Moving`, `MovingTwice`, `Aging`, `Sharing`, `Meeting`, `Crowding`, `Corrupt` |
| `Host` | Is the snapshot cache continuous, does every replay return; do calls on one handle keep their promises to each other and return? | Replay: 2 streams; `Pipelined`, `ObjectsFirst`, `Large`, `IdleStreams`. Client: 3 threads, up to 3 handles; `Racing`, `Shutting`, `Failing`, `Following`, `Destroying`, `Reopening` |
| `SnapshotReplay` | Does a replay of objects with two blocks return? No. | `OneByOne` |

Why these bounds are enough to be interesting: two bulks or blocks suffice for one to
overtake another, three records for a parked append, one before it and one that might
overtake it; a cache of two records of which one is below and two are above the 90% mark
puts every branch of `try_real_free` in reach; two epochs are a zombie and its successor,
and a third life of the node is a crash during recovery. In `Compaction`, five objects
allow two uploads and a round over them, or stream objects, their merge and the rebuilding
of a composite object after a trim; a round splits streams out and its plan exceeds the
cache size. The levels CleanupV1, MinorV1 and MajorV1 reach both ways of merging and the
expired groups; of the others two differ in sizes and one only cleans up. The limits on
the streams and stream objects of one round, on the objects it takes and on the objects of
a group are not exceeded at this size. Four index entries and four commits reach an
eviction, a reset and a compaction in one list. A block cache with room for less than one
block makes every load wait for another; two compactions exhaust both retries of a read.
A waiting queue of one range and two loads in flight overload the replay with its fourth
call. Three tasks are a call that holds the permit, one that waits for it, and one of
another tier; a bandwidth of one or two tokens makes every larger call a debt.

The type invariant of the object WAL is checked and proved, that of the client
(`ClientTypeOK`) is proved. The other modules state one
where their records are not obvious (`TypeOK`) as documentation of the state; the runs spend their time on what can go wrong.

### Fairness

Liveness is checked in `Answers`, `StorageAnswers` and `Host` under weak fairness of what
the async runtime schedules and the environment answers:

- `ObjectWal!WriterFairness`: the batch timer, upload tasks and their answers, the callback
  loop, trims under way. The client of the object store retries under a deadline and then
  reports an error, so an upload always ends.
- `ObjectAccess!AccessFairness`: tasks run, the store answers, refills tick until the
  limiter is stopped. The number of failures is finite: the code retries without a bound.
- `S3Storage!FairSpec`: appends under way, confirmations, the drain task, the workers, the
  interval task, recovery.
- `StreamClient!FairSpec`: threads whose call can go on, and acknowledgements.

No fairness is assumed of the host: nothing obliges it to append, commit, trim, close or
restart, and nothing obliges a store to fail. `ReadsAreNeverStuck` and `NothingWaitsIdly`
need none: they say in every state that whoever waits waits for a step that can happen.

## 4. What is proved

| theorem | statement | module |
|---|---|---|
| `TypeCorrect` | `Spec => []TypeOK` | `ObjectWalProofs` |
| `Contiguous` | `Spec => []BulksAreContiguous`: the bulks of a writer tile its offsets | `ObjectWalProofs` |
| `ConfirmContiguous` | `Spec => []NoHoleBelowConfirm`: no offset below the confirm offset is in flight | `ObjectWalProofs` |
| `Invariance` | `Spec => []IInv`: the inductive invariant the three follow from | `ObjectWalProofs` |
| `TrimsAreBelowConfirm` | a trim under way is below the confirm offset | `ObjectWalContractProofs` |
| `ImplementsContract` | `Spec => ImplementsWal`: the object WAL implements `Wal` | `ObjectWalContractProofs` |
| `NewestHolds` | `OrderedAcquire /\ Spec => []NewerEpochWins` | `ObjectWalBucketProofs` |
| `AckedStaysDurable` | `OrderedAcquire /\ Spec => []AckedIsDurable`: what was confirmed is in the bucket until a trim covers it | `ObjectWalBucketProofs` |
| `ClientIsTyped` | `ClientSpec => []ClientTypeOK` | `StreamClientProofs` |
| `ConfirmsAreDurable` | `ClientSpec => []ConfirmIsDurable` | `StreamClientProofs` |
| `FetchesAreSafeFromTrims` | `ClientSpec => []FetchesAreNotTrimmed` | `StreamClientProofs` |
| `ClosesKeepAnswered` | `ClientSpec => []ClosedKeepsAnswered` | `StreamClientProofs` |
| `ShutdownsCloseAll` | `ClientSpec => []ShutdownClosesAll` | `StreamClientProofs` |

The theorems about the object WAL hold for every set of epochs, streams and callers, every
alignment, batch size and upload limit, under `ConstantsAssumption` of `ObjectWal`; those
about the client for every set of streams and threads and every set of plans, under
`ClientAssumption` of `StreamClient`. The two about the bucket have the hypothesis
`OrderedAcquire`, that no older epoch acquires the reservation after a newer one; `acquire`
does not enforce it, and without it `NewerEpochWins` is false (section 5).

### One writer of the object WAL

Neither safety property is inductive. `IInv` adds to types and tiling that the callback
loop's counters are ordered (`completed <= popped <= Len(bulks)`), that exactly the first
`completed` bulks have been answered, that those popped and not yet answered have
finished, that after a successful verification no bulk has failed before, and that the
confirm offset lies at or below the base of the first bulk that was not confirmed. The
argument for `NoHoleBelowConfirm` is then: bulks are confirmed in order, a bulk that fails
fences the writer for good, so the confirmed ones are a prefix, and tiling puts the base
of every other bulk at or above the confirm offset. `ceil_align_offset` enters through
lemmas that say that it is a natural number not below its argument.

### The contract

For the refinement every step of the writer is mapped to a step of `Wal` or to none.
Sealing, uploading, popping and verifying do not change what callers see: the log and the
number of batches are the same before and after, because a bulk that is sealed keeps its
records and its place (`SealStep`, `SubmitStep`). Answers and failures follow from `IInv`.
A trim that returns needs more, since the contract says that it does not reach the confirm
offset: `CInv` adds that no call is under way before the writer has started (`CallsIdle`),
that a log that waits for its reset is untouched (`Fresh`), that every trim under way is
below the confirm offset (`TrimsBelow`), that a bulk holds no more records than its size
(`Sizes`, so that the offset of a record is below the end of its bulk), and that
acknowledged bulks end at or below the confirm offset (`AckedBelow`). A host may only trim
to the offset of an acknowledged record; together these put that offset below the confirm
offset.

### The bucket, with several writers

`AckedIsDurable` is about crashes, zombies and takeovers: an object that was confirmed may
be deleted by its writer's trim, by a trim of a successor, or because a successor's listing
drops it as an overlap. The third must not happen, and needs an argument across writers.
`BucketInv` adds to `IInv`:

- per writer, that the callback loop confirms only what has landed (`LoopInv`) and that a
  writer that has not recovered writes and trims nothing (`UseInv`);
- that every object, and every listing, is made of bulks that were PUT (`SentInv`), and
  that a PUT that was answered has landed (`LandedInv`);
- that the newest epoch holds the reservation (`HeldInv`);
- that a successor writes behind whatever is confirmed and not trimmed (`BehindInv`). "Is
  confirmed" includes what the callback loop is about to confirm (`Sure`): its check of the
  reservation is before, and its answer after, the moment at which a successor may acquire;
- that what is deleted is trimmed, or belongs to a writer that has a successor and will not
  confirm it any more (`ReaperInv`).

A successor that starts verifies the reservation, so the old writer is past its last
confirmation when the listing is taken; the listing then has every confirmed object
(`LandedInv`) and the successor begins behind the last of them. An overlap it drops later
lies below an object of its own, hence is not confirmed. The proof of a step is in two
halves: what one writer does to its own queue (`LocalStep`), and what that means for the
objects of all (`BucketStep`).

### The stream client

The 34 kinds of step are first reduced to what they do to each field of handles, threads,
streams and client (`StreamClientEffects`, definitions only; `StreamClientSteps` proves
`StepDone`). The inductive invariant `ClientInv` is then built in layers, each kept by every
step given the ones below it:

1. `CallInv` (`StreamClientCalls`): the point a thread is at fits its call and its handle;
   a handle that exists was opened by the one call that opens it; the map of opened streams
   has handles of these streams; only snapshot reads listen.
2. `EndInv`, `QueueInv`, `ConfirmInv` (`StreamClientLayers`): the storage queue has the
   records of a handle in order, behind the acknowledged ones; the confirm offset is below
   everything pending, and what a snapshot read knows or is about to be told is committed.
3. `ShutdownInv` (`StreamClientLayers`): a stream is covered by a shutdown, or is in the map
   under its own handle; once a shutdown has taken the map, every stream is covered.
4. `CountInv` (`StreamClientProofs`): the counters of `InflightTracker` are the numbers of
   calls under way, so that zero means none.
5. `FetchInv` (`StreamClientGuards`): the start offset of the metadata plane is at most that
   of the handle, up to which a trim under way has raised it; a fetch that passed the check
   is above every trim that waits for the metadata plane. `destroy` moves the start offset
   to the confirm offset instead, and then no fetch under way finds a range.
6. `CloseInv` (`StreamClientGuards`): a close that does not force goes on only when no append
   has an offset without an answer and none will get one (`Sealed`); then it commits what
   was answered.

### Only model-checked

- Of the object WAL, what recovery returns: `RecoveredComplete`, `RecoveryWouldYieldAcked`
  and `TrimmedStaysTrimmed` speak of the longest continuous run of a listing, a recursion
  over data.
- All other modules. `ObjectAccess` and `RangeIndex` use recursive operators (queues that
  drain, searches), which this prover cannot reason about; the planner of compaction and the
  caches fold over their data; `S3Storage`, `Compaction`, `SnapshotRead` and `StreamReaders`
  have no proofs yet.
- Liveness, which is outside the prover: `AppendsAreAnswered`, `AccessesReturn`,
  `CallsReturn`.

## 5. Disagreements between the code and what it says

Kept as runs that end in a violation (`findings` in `PROJECT.json` quotes the lines):

- `StoragePrepareFails`: a failed prepare drops its block without poisoning the pipeline;
  the next commit trims the WAL past the records of the dropped block.
- `CompactionRace`: the scheduler and `S3StreamClient::compact_stream_object` may run a pass
  on the same stream. The metadata plane's `compact_stream_object` neither requires its
  sources to be there nor looks at the object it replaces, so a late commit of a shorter
  range drops the longer one.
- `SnapshotReplay`: the trailing put of one object's load consumes the first block of the
  next object; a later read of that object indexes past the end of its slots, and its
  replay never returns.

Further observations, reproduced by changing an instance and checking the named property
(an environment or a plan is changed in the MC module):

- `ObjectWal` with its `FairSpec`, one upload in flight and `Callers = {1, 2}`: `TrimsReturn`
  fails. A trim covered by an earlier trim waits for that trim's completed watermark; when
  the earlier one fails because the writer is closing, nothing moves it.
- `ObjectWalZombie` with `RecoveryModeEpochs = {}` and no callers: `RecoveryWouldYieldAcked`
  fails. A PUT of the fenced writer that lands after its successor listed occupies offsets
  the successor acknowledges; only the first object of a listing is ever dropped as an
  overlap (`keys.rs`, `skip_overlap_objects`), while the wal-protocol document drops the
  older object of any overlap.
- `ObjectWalZombie` with `OrderedAcquire = FALSE`: `NewerEpochWins` fails; `acquire` is an
  unconditional write, where its documentation says that the newer epoch wins.
- `PrepareFailing` with the events "upload fails" and "close": `ClosedIsCommitted` fails. A
  task that has failed is no longer in flight, so a later close does not see it, returns Ok
  and marks the stream closed; recovery skips closed streams.
- `PrepareFailing` with the event "oversized record": the offset is reserved before the WAL
  refuses the record; an append admitted before the handle is fenced is acknowledged behind
  a gap that recovery does not cross (`NothingAckedIsLost`).
- ... with the event "force close": a forced close marks the stream closed while an append
  is in the WAL; it is acknowledged and recovery skips it (`NothingAckedIsLost`).
- `NothingFails` with the event "shutdown": shutdown empties the backoff queue between the
  drain task's submit and its pop (`DrainPopsItsOwn`). The engine closes all streams first,
  which empties the queue unless a stream is missing from its table.
- `NothingFails` without the upload interval: a put that takes the cache from below 90% to
  its capacity leaves committed blocks that nobody releases, because only a put or a commit
  releases (`OverLimitIsReleased`).
- A plan of `SnapshotRead` with the fault "info": an object whose index cannot be read
  resolves its caller but stays at the head of the loading queue, and later objects are
  never put (`ReplaysResolve`).
- `StreamClient`: a stream whose open is under way at the shutdown is inserted after the
  table was drained and stays open (`client.late`, which `ShutdownClosesAll` leaves out);
  two notifications of one stream may arrive in the wrong order, so that the start offset
  of a snapshot read goes back until the next one (the confirm offset only grows).
- `ObjectAccess`: an acquire that finds no tokens after the limiter's shutdown waits for
  ever. The engine never shuts a limiter down; `AccessesReturn` is about calls that started
  before.
- `RangeIndex`: when the hook of a compaction overtakes that of an upload it compacted, the
  upload's entry is added afterwards and names a deleted object until the next start
  (`overtaken`, which `HintsFindLiveObjects` leaves out); an index that becomes empty is
  not written, so the next start loads the old one and relies on the prune; a compaction
  may leave the index above its size until the next append.

## 6. Not modelled

- Byte layouts, checksums, configuration parsing, metrics and the facade crate hold no
  state whose order matters; objects are written whole, so a torn record cannot reach
  recovery.
- The in-memory WAL confirms inline, the special case of `S3Storage` in which `pending` is
  always empty.
- `DirectBlockCache`, which reads without a cache, keeps no state between reads. The
  eviction of idle object readers is a bound on how many indexes are parsed (`MaxIndexed`).
- The waiters of lazy commits and the listeners of `ConfirmWal` are answered by the steps
  that `S3Storage` has, and are left out.
- `Failover::failover` opens another node's WAL and runs the recovery of `S3Storage` on it;
  the takeover is in `ObjectWal`. The call joins the two and has no state of its own.
- Of compaction, the deletion of bytes by the host, the throttle and the timers that start
  rounds and passes are left out: a round or a pass may start at any moment.
- The choice of a bucket by URI and the key-value client of the metadata plane are lookups.
- What a recursive definition computes for every input (the planner, the searches) is
  checked on the instances only: induction over data is outside the prover.

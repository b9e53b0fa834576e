---------------------------- MODULE SnapshotRead ----------------------------
(***************************************************************************)
(* SnapshotReadCache (cache/snapshot_read.rs): a node that reads streams of *)
(* another node replays that node's WAL ranges and committed objects into a *)
(* LogCache.  The host issues the calls of "calls" in order; a call with    *)
(* "await" is issued once those before it have returned, the others are     *)
(* pipelined.  The loads run as tasks of their own; everything that touches *)
(* the queues or the cache holds the state lock and is one step.            *)
(*                                                                         *)
(* A record of the host's log is <<stream, base, last>>.                    *)
(***************************************************************************)
EXTENDS LogCache

CONSTANTS
  Streams,
  CallPlans,                     \* the sequences of calls the host may issue
  MaxInflight,                   \* wal.max_inflight
  MAX_WAITING_LOAD_TASK_COUNT,
  MAX_INFLIGHT_LOAD_BYTES        \* an object has one byte per record

VARIABLES
  calls,       \* chosen in Init: the calls and the faults they may meet
  issued,      \* how many calls the host has made
  returned,    \* the calls that have returned
  snap,        \* [cache, next, active]: LogCache, stream_next_offsets, active_streams
  wal,         \* [waiting, loading]: queues of calls
  objs,        \* [waiting, loading, inflight]: queues of <<call, i>>
  walLoad,     \* the load task of each WAL range
  load,        \* the load task of each object
  resolved,    \* [wal, objs]: the tasks whose oneshot has been completed
  notices,     \* bounds handed to free listeners whose getStreams is outstanding
  requested,   \* whether the owner has been asked to commit
  lost,        \* history: the records that a failed or dropped load left out
  gaps         \* history: the gaps <<stream, expected, base>> that puts met

vars == <<calls, issued, returned, snap, wal, objs, walLoad, load, resolved, notices, requested, lost, gaps>>

Calls == calls.calls
Faults == calls.faults
WalTasks == {k \in DOMAIN Calls : Calls[k].kind = "wal"}
ObjectTasks == UNION {{k} \X DOMAIN Calls[k].data : k \in {j \in DOMAIN Calls : Calls[j].kind = "objects"}}
Blocks(o) == Calls[o[1]].data[o[2]]
ObjectSize(o) == Len(FlattenSeq(Blocks(o)))

None == -1

Init ==
  /\ calls \in CallPlans
  /\ issued = 0
  /\ returned = {}
  /\ snap = [cache |-> NewCache, next |-> [s \in Streams |-> None], active |-> {}]
  /\ wal = [waiting |-> <<>>, loading |-> <<>>]
  /\ objs = [waiting |-> <<>>, loading |-> <<>>, inflight |-> 0]
  /\ walLoad = [k \in WalTasks |-> [step |-> "new", recs |-> <<>>]]
  /\ load = [o \in ObjectTasks |-> [step |-> "new", blocks |-> FALSE, slots |-> <<>>, unread |-> {}]]
  /\ resolved = [wal |-> {}, objs |-> {}]
  /\ notices = {}
  /\ requested = FALSE
  /\ lost = {}
  /\ gaps = {}

-----------------------------------------------------------------------------
(* put_locked.  The puts of one critical section work on                      *)
(* p = [snap, notices, gaps].                                                 *)

Puts == [snap |-> snap, notices |-> notices, gaps |-> gaps]

\* try_real_free: what the listeners of the released blocks are told is a task.
RealFree(p) ==
  [p EXCEPT !.snap.cache = TryRealFree(@),
            !.notices = LET bounds == ReportedBounds(p.snap.cache, Released(p.snap.cache))
                        IN  IF bounds = {} THEN @ ELSE @ \union {bounds}]

CachePut(p, r) == [RealFree(p) EXCEPT !.snap.cache = PutFreed(@, r[1], <<r[2], r[3]>>)]

\* A full active block is archived with the free listener and is free at once.
ArchiveAndPut(p, r) ==
  LET archived == [RealFree(p) EXCEPT !.snap.cache = MarkFreeLastArchived(ArchiveListening(@))]
      merged == [RealFree(archived) EXCEPT !.snap.cache = TryMerge(@)]
  IN  CachePut(merged, r)

AppendRecord(p, r) ==
  IF IsFull(Active(TryRealFree(p.snap.cache))) THEN ArchiveAndPut(p, r) ELSE CachePut(p, r)

PutRecord(p, r) ==
  LET s == r[1]
      expected == IF p.snap.next[s] = None THEN r[2] ELSE p.snap.next[s]
      entered == [p EXCEPT !.snap.next[s] = expected, !.snap.active = @ \union {s}]
      cleared == [entered EXCEPT !.snap.cache = ClearStreamRecords(@, s),
                                 !.gaps = @ \union {<<s, expected, r[2]>>}]
  IN  IF r[2] < expected THEN entered
      ELSE [AppendRecord(IF r[2] > expected THEN cleared ELSE entered, r) EXCEPT !.snap.next[s] = r[3]]

PutLocked(p, recs) == FoldLeft(PutRecord, p, recs)

\* sweep_expired over the streams that have been idle for ACTIVE_EXPIRE.
SweepExpired(p, idle) ==
  [p EXCEPT !.snap.cache = FoldSet(LAMBDA s, c : ClearStreamRecords(c, s), @, idle),
            !.snap.next = [s \in Streams |-> IF s \in idle THEN None ELSE @[s]],
            !.snap.active = @ \ idle]

PutsAre(p) == snap' = p.snap /\ notices' = p.notices /\ gaps' = p.gaps

-----------------------------------------------------------------------------
(* The WAL replay machine.  w = [waiting, loading, dropped]: "dropped" are     *)
(* the tasks that clear_overloaded completes.                                 *)

ClearOverloaded(w) ==
  [w EXCEPT !.waiting = <<>>, !.dropped = @ \union Range(w.waiting)]

\* try_load_wal; "aged" tells whether the head has waited for more than 5 s.
TryLoadWal(w, aged) ==
  LET room == MaxInflight - Len(w.loading)
      n == Min({Len(w.waiting), Max({0, room})})
  IN  IF n > 0 /\ aged THEN ClearOverloaded(w)
      ELSE [w EXCEPT !.waiting = SubSeq(@, n + 1, Len(@)),
                     !.loading = @ \o SubSeq(w.waiting, 1, n)]

Aged == IF "slow" \in Faults THEN BOOLEAN ELSE {FALSE}

\* A task that comes into the loading queue runs.
StepOf(k, w) ==
  IF k \in Range(w.loading) /\ walLoad[k].step = "new" THEN "load" ELSE walLoad[k].step

\* The records of the dropped tasks never reach the cache.
WalMoves(w) ==
  /\ wal' = [waiting |-> w.waiting, loading |-> w.loading]
  /\ requested' = (requested \/ w.dropped # {})
  /\ lost' = lost \union UNION {Range(Calls[k].data) : k \in w.dropped}

WalIs(w) ==
  /\ WalMoves(w)
  /\ resolved' = [resolved EXCEPT !.wal = @ \union w.dropped]
  /\ walLoad' = [k \in WalTasks |-> [walLoad[k] EXCEPT !.step = StepOf(k, w)]]

WalQueues == [waiting |-> wal.waiting, loading |-> wal.loading, dropped |-> {}]

\* The host issues its next call.
Issue(kind) ==
  /\ issued < Len(Calls)
  /\ Calls[issued + 1].kind = kind
  /\ Calls[issued + 1].await => returned = 1..issued
  /\ issued' = issued + 1
  /\ UNCHANGED calls

ReplayWal ==
  /\ Issue("wal")
  /\ \E aged \in Aged :
       LET full == Len(wal.waiting) >= MAX_WAITING_LOAD_TASK_COUNT
           room == IF full THEN ClearOverloaded(WalQueues) ELSE WalQueues
           w == TryLoadWal([room EXCEPT !.waiting = Append(@, issued + 1)], aged)
       IN  WalIs(w)
  /\ UNCHANGED <<returned, snap, objs, load, notices, gaps>>

\* run_wal_load: the range, or nothing when the read or a link decode fails.
RunWalLoad(k) ==
  /\ walLoad[k].step = "load"
  /\ \/ /\ walLoad' = [walLoad EXCEPT ![k] = [step |-> "loaded", recs |-> Calls[k].data]]
        /\ UNCHANGED lost
     \/ /\ "wal" \in Faults
        /\ walLoad' = [walLoad EXCEPT ![k].step = "loaded"]
        /\ lost' = lost \union Range(Calls[k].data)
  /\ UNCHANGED <<calls, issued, returned, snap, wal, objs, load, resolved, notices, requested, gaps>>

\* Mutant of PutsOfWal: whatever is loaded is put, in load order or not.
PutsOfWal_AnyOrder(loading) == SelectSeq(loading, LAMBDA k : walLoad[k].step # "load")

\* Mutant of PutsOfWal: a load task puts at most one task, the head.
PutsOfWal_Head(loading) ==
  SelectSeq(SubSeq(loading, 1, 1), LAMBDA k : walLoad[k].step # "load")

\* The leading tasks of the loading queue whose load is done.
PutsOfWal(loading) ==
  LET n == Max({0} \union {i \in DOMAIN loading : \A j \in 1..i : walLoad[loading[j]].step # "load"})
  IN  SubSeq(loading, 1, n)

\* The end of the load task: try_put_wal, then try_load_wal.
TryPutWal(k) ==
  /\ walLoad[k].step = "loaded"
  /\ \E aged \in Aged :
       LET puts == PutsOfWal(wal.loading)
           rest == SelectSeq(wal.loading, LAMBDA j : j \notin Range(puts))
           w == TryLoadWal([WalQueues EXCEPT !.loading = rest], aged)
       IN  /\ PutsAre(PutLocked(Puts, FlattenSeq([i \in DOMAIN puts |-> walLoad[puts[i]].recs])))
           /\ WalMoves(w)
           /\ resolved' = [resolved EXCEPT !.wal = @ \union w.dropped \union Range(puts)]
           /\ walLoad' = [j \in WalTasks |->
                [step |-> IF j = k THEN "done" ELSE StepOf(j, w),
                 recs |-> IF j \in Range(puts) THEN <<>> ELSE walLoad[j].recs]]
  /\ UNCHANGED <<calls, issued, returned, objs, load>>

\* replay_wal returns once its task is completed, after another try_load_wal.
ReturnWal(k) ==
  /\ k \in resolved.wal \ returned
  /\ returned' = returned \union {k}
  /\ \E aged \in Aged :
       WalIs(TryLoadWal(WalQueues, aged))
  /\ UNCHANGED <<calls, issued, snap, objs, load, notices, gaps>>

-----------------------------------------------------------------------------
(* The object replay machine, on q = [objs, load, resolved, puts] *)

\* try_load_objects: objects start while fewer bytes than the maximum are in
\* flight, so the last one may go over.
TryLoadObjects(q) ==
  FoldLeft(LAMBDA acc, o :
     IF acc.objs.inflight >= MAX_INFLIGHT_LOAD_BYTES THEN acc
     ELSE [acc EXCEPT !.objs = [waiting |-> Tail(@.waiting), loading |-> Append(@.loading, o),
                                inflight |-> @.inflight + ObjectSize(o)],
                      !.load[o].step = "info"],
     q, q.objs.waiting)

\* put_object_into_cache: the leading slots that are done are removed and put.
PutObject(q, o) ==
  LET slots == q.load[o].slots
      n == Max({0} \union {i \in DOMAIN slots : \A j \in 1..i : slots[j].done})
  IN  [q EXCEPT !.load[o].slots = SubSeq(slots, n + 1, Len(slots)),
                !.puts = PutLocked(@, FlattenSeq([i \in 1..n |-> slots[i].recs]))]

\* Mutant of PopObject: the next objects are left to the next replay.
PopObject_LoadsNoMore(q, o) ==
  [q EXCEPT !.objs.loading = Tail(@), !.objs.inflight = Max({0, @ - ObjectSize(o)}),
            !.resolved.objs = @ \union {o}]

PopObject(q, o) ==
  TryLoadObjects([q EXCEPT !.objs.loading = Tail(@), !.objs.inflight = Max({0, @ - ObjectSize(o)}),
                           !.resolved.objs = @ \union {o}])

\* try_put_objects stops at the first object that is not all there; the slots of
\* a load that panicked are poisoned, and whoever locks them panics too.
TryPutObjects(q) ==
  FoldLeft(LAMBDA acc, step :
     IF acc.objs.loading = <<>> \/ ~acc.load[Head(acc.objs.loading)].blocks THEN acc
     ELSE IF acc.load[Head(acc.objs.loading)].step = "panic" THEN acc
     ELSE LET o == Head(acc.objs.loading)
              put == PutObject(acc, o)
          IN  IF put.load[o].slots = <<>> THEN PopObject(put, o) ELSE put,
     q, q.objs.loading \o q.objs.waiting)

Objects == [objs |-> objs, load |-> load, resolved |-> resolved, puts |-> Puts]

ObjectsAre(q) ==
  /\ objs' = q.objs /\ load' = q.load /\ resolved' = q.resolved
  /\ PutsAre(q.puts)

ReplayObjects ==
  /\ Issue("objects")
  /\ ObjectsAre(TryLoadObjects([Objects EXCEPT !.objs.waiting =
       @ \o [i \in DOMAIN Calls[issued + 1].data |-> <<issued + 1, i>>]]))
  /\ UNCHANGED <<returned, wal, walLoad, requested, lost>>

\* basic_object_info: one slot per block; on an error the caller is released
\* and the task stays in the loading queue.
BasicObjectInfo(o) ==
  /\ load[o].step = "info"
  /\ \/ /\ load' = [load EXCEPT ![o] = [step |-> "read", blocks |-> TRUE, unread |-> DOMAIN Blocks(o),
                                       slots |-> [i \in DOMAIN Blocks(o) |-> [done |-> FALSE, recs |-> <<>>]]]]
        /\ UNCHANGED <<resolved, lost>>
     \/ /\ "info" \in Faults
        /\ load' = [load EXCEPT ![o].step = "put"]
        /\ resolved' = [resolved EXCEPT !.objs = @ \union {o}]
        /\ lost' = lost \union Range(FlattenSeq(Blocks(o)))
  /\ UNCHANGED <<calls, issued, returned, snap, wal, objs, walLoad, notices, requested, gaps>>

\* The read of block i ends: it writes slot i of what is left of the slots.  An
\* index past their end panics, and with it the whole load task.
ReadBlock(o, i) ==
  /\ load[o].step = "read" /\ i \in load[o].unread
  /\ \/ load' = [load EXCEPT ![o].unread = @ \ {i},
                   ![o].step = IF i \notin DOMAIN load[o].slots THEN "panic"
                               ELSE IF load[o].unread = {i} THEN "join" ELSE @,
                   ![o].slots = IF i \in DOMAIN @ THEN [@ EXCEPT ![i] = [done |-> TRUE, recs |-> Blocks(o)[i]]] ELSE @]
        /\ UNCHANGED lost
     \/ /\ "block" \in Faults
        /\ i \in DOMAIN load[o].slots
        /\ load' = [load EXCEPT ![o].unread = @ \ {i},
                   ![o].step = IF load[o].unread = {i} THEN "join" ELSE @,
                   ![o].slots[i].done = TRUE]
        /\ lost' = lost \union Range(Blocks(o)[i])
  /\ UNCHANGED <<calls, issued, returned, snap, wal, objs, walLoad, resolved, notices, requested, gaps>>

\* try_put_objects after the reads have joined, and again as the task ends.
PutObjects(o) ==
  /\ load[o].step \in {"join", "put"}
  /\ ObjectsAre(TryPutObjects([Objects EXCEPT !.load[o].step = IF @ = "join" THEN "put" ELSE "done"]))
  /\ UNCHANGED <<calls, issued, returned, wal, walLoad, requested, lost>>

\* replay_objects waits for the last of its objects.
ReturnObjects(k) ==
  /\ k \in 1..issued \ returned /\ Calls[k].kind = "objects"
  /\ <<k, Len(Calls[k].data)>> \in resolved.objs
  /\ returned' = returned \union {k}
  /\ UNCHANGED <<calls, issued, snap, wal, objs, walLoad, load, resolved, notices, requested, lost, gaps>>

-----------------------------------------------------------------------------
\* put: records that are loaded already.
Put ==
  /\ Issue("put")
  /\ \E idle \in IF "idle" \in Faults THEN SUBSET snap.active ELSE {{}} :
       PutsAre(PutLocked(SweepExpired(Puts, idle), Calls[issued + 1].data))
  /\ returned' = returned \union {issued + 1}
  /\ UNCHANGED <<wal, objs, walLoad, load, resolved, requested, lost>>

\* A read of the snapshot cache by the storage engine.
ReadCache ==
  /\ Issue("get")
  /\ LET q == Calls[issued + 1].data
     IN  snap' = [snap EXCEPT !.cache.blocks = Get(snap.cache, q[1], q[2], q[3], q[4]).blocks]
  /\ returned' = returned \union {issued + 1}
  /\ UNCHANGED <<wal, objs, walLoad, load, resolved, notices, requested, lost, gaps>>

\* notify_commit_if_ahead: the owner's committed end offsets are not modelled,
\* any of them may be behind; getStreams may fail.
NotifyCommitIfAhead ==
  /\ \E bounds \in notices :
       /\ notices' = notices \ {bounds}
       /\ \E ahead \in BOOLEAN : requested' = (requested \/ ahead)
  /\ UNCHANGED <<calls, issued, returned, snap, wal, objs, walLoad, load, resolved, lost, gaps>>

ReplayStep ==
  \/ \E k \in WalTasks : RunWalLoad(k) \/ TryPutWal(k) \/ ReturnWal(k)
  \/ \E o \in ObjectTasks : BasicObjectInfo(o) \/ (\E i \in DOMAIN Blocks(o) : ReadBlock(o, i)) \/ PutObjects(o)
  \/ \E k \in DOMAIN Calls : ReturnObjects(k)

Next == ReplayWal \/ ReplayObjects \/ Put \/ ReadCache \/ ReplayStep \/ NotifyCommitIfAhead

Spec == Init /\ [][Next]_vars

-----------------------------------------------------------------------------
(* Properties *)

MaxEnd == Max({0} \union {r[3] : r \in UNION {
  IF Calls[k].kind = "get" THEN {} ELSE IF Calls[k].kind = "objects"
  THEN Range(FlattenSeq(FlattenSeq(Calls[k].data))) ELSE Range(Calls[k].data) : k \in DOMAIN Calls}})

Cached(s) == {i \in DOMAIN snap.cache.blocks : s \in DOMAIN snap.cache.blocks[i].map}
BlockOf(i, s) == snap.cache.blocks[i].map[s]

\* Type correctness of the cache and of the replay queues.
TypeOK ==
  /\ \A i \in DOMAIN snap.cache.blocks : snap.cache.blocks[i].size \in 0..SizeModulus
  /\ \A i \in 1..(Len(snap.cache.blocks) - 1) : snap.cache.blocks[i].free
  /\ snap.next \in [Streams -> {None} \union 0..MaxEnd]
  /\ snap.active = {s \in Streams : snap.next[s] # None}
  /\ Range(wal.waiting) \union Range(wal.loading) \subseteq WalTasks \ resolved.wal
  /\ Len(wal.loading) <= MaxInflight
  /\ Range(objs.waiting) \union Range(objs.loading) \subseteq ObjectTasks

\* The records of a stream in the snapshot cache are continuous, from block to
\* block and within each, and end where the next put of the stream is expected,
\* whatever puts, clears, merges and releases came between (put_locked,
\* clear_stream_records, try_merge, try_real_free).
CacheIsContinuous ==
  \A s \in Streams :
    /\ \A i \in Cached(s) : \A j \in 1..(Len(BlockOf(i, s).recs) - 1) :
         End(BlockOf(i, s).recs[j]) = Base(BlockOf(i, s).recs[j + 1])
    /\ \A i \in Cached(s) :
         LET later == {j \in Cached(s) : j > i}
         IN  StreamEnd(BlockOf(i, s)) =
               IF later = {} THEN snap.next[s] ELSE StreamStart(BlockOf(Min(later), s))

\* LogCache.get answers every request from the cache alone as its module
\* promises: a range that is cached whole is read from its first offset, without
\* a hole and to the requested end or byte limit; of a range whose end only is
\* cached the cached tail is read; anything else reads nothing.
ReadsAreRanges ==
  \A s \in Streams, start \in 0..MaxEnd, end \in 1..MaxEnd, max \in {1, MaxEnd} :
    start < end =>
      LET recs == Get(snap.cache, s, start, end, max).recs
          from == TailStart(snap.cache.blocks, s)
          first == Max({start, from})
      IN  /\ (from # -1 /\ first < end /\ end <= snap.next[s]) => recs # <<>>
          /\ recs # <<>> =>
               /\ Base(recs[1]) <= first /\ first < Min({end, End(recs[1])})
               /\ \A i \in 1..(Len(recs) - 1) : End(recs[i]) = Base(recs[i + 1])
               /\ End(recs[Len(recs)]) >= end \/ Len(recs) >= max

\* The cache drops what it holds of a stream only when records are really
\* missing: a put that finds a gap comes after a load of records in that gap
\* failed or was dropped, never because loads that run side by side ended in
\* another order (try_put_wal, try_put_objects).
GapsAreLosses ==
  \A g \in gaps : \E r \in lost : r[1] = g[1] /\ g[2] <= r[2] /\ r[2] < g[3]

\* A replay waits for its turn only while the loads in flight use up the limit
\* (max_inflight tasks of the WAL, MAX_INFLIGHT_LOAD_BYTES of objects), which
\* counts the bytes of the objects in the loading queue.
NothingWaitsIdly ==
  /\ wal.waiting # <<>> => Len(wal.loading) = MaxInflight
  /\ objs.waiting # <<>> => objs.inflight >= MAX_INFLIGHT_LOAD_BYTES
  /\ objs.inflight = FoldSeq(LAMBDA o, n : n + ObjectSize(o), 0, objs.loading)

\* Some load task or some completed caller has a step to take.
Running ==
  \/ \E k \in WalTasks : walLoad[k].step \in {"load", "loaded"} \/ k \in resolved.wal \ returned
  \/ \E o \in ObjectTasks :
       \/ load[o].step \in {"info", "read", "join", "put"}
       \/ o \in resolved.objs /\ o[1] \notin returned /\ o[2] = Len(Calls[o[1]].data)

\* Callers waiting on a replay resolve, also when the load failed or was dropped:
\* no replay is left waiting when all the load tasks have come to their end.  As
\* the tasks take finitely many steps, every replay then returns.
ReplaysResolve == ~Running => returned = 1..issued
=============================================================================

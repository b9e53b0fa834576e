----------------------------- MODULE RangeIndex -----------------------------
(***************************************************************************)
(* The node's sparse index from stream offsets to stream set objects        *)
(* (index.rs): fed by the hook of every commit, cut down to a size, written *)
(* to an object of its own, loaded and pruned when the node starts.         *)
(*                                                                         *)
(* The hook of a commit is a task that is spawned when the metadata plane   *)
(* has answered (manager.rs), so that the hooks of two commits may run in   *)
(* either order.  The metadata plane is the set of live stream set objects. *)
(***************************************************************************)
EXTENDS Integers, Sequences, FiniteSets, SequencesExt, FiniteSetsExt

CONSTANTS
  IndexStreams,     \* a set of positive integers
  CompactNum,       \* PICO_STREAM_RANGE_INDEX_COMPACT_NUM
  MaxIndexSize,     \* PICO_STREAM_RANGE_INDEX_MAX_SIZE, in entries
  MaxIds,           \* bound: object ids that are ever handed out
  IndexPlans        \* bounds of a behaviour: [objects, compactions, starts, closes], how
                    \* many of each are still to come

VARIABLES
  live,       \* the live stream set objects: [id, ranges]
  ends,       \* the end offset of each stream
  hooks,      \* the hooks that have not run yet, in the order of their commits
  overtaken,  \* history: a hook ran before that of an earlier commit
  index,      \* the LocalStreamRangeIndexCache: [streams, total]
  node,       \* where the node is in its start: [at, seen], seen the live objects it was told
  uploads,    \* the uploads that wait for the upload lock, and the one that has it
  stored,     \* the index object
  adrift,     \* PUTs of the index whose future is gone
  left        \* what is still to come

indexVars == <<live, ends, hooks, overtaken, index, node, uploads, stored, adrift, left>>

-----------------------------------------------------------------------------
(* SparseRangeIndex *)

Range3(start, end, object) == [start |-> start, end |-> end, object |-> object]
NoRange == Range3(0, 0, 0)

Sparse(ranges) == [ranges |-> ranges, evict |-> 0]

\* A range that does not start after the last one resets the list.
SparseAppend(sp, r) ==
  IF sp.ranges # <<>> /\ r.start <= Last(sp.ranges).start
  THEN Sparse(<<r>>)
  ELSE [sp EXCEPT !.ranges = Append(@, r)]

\* Mutant of SparseCompact: the new range goes to the end.
SparseCompact_Last(sp, r, compacted) ==
  LET kept == SelectSeq(sp.ranges, LAMBDA x : x.object \notin compacted)
  IN  Sparse(IF r = NoRange THEN kept ELSE Append(kept, r))

\* Mutant of SparseCompact: the ranges of the compacted objects stay.
SparseCompact_Keeps(sp, r, compacted) ==
  LET later == {i \in DOMAIN sp.ranges : sp.ranges[i].start > r.start}
  IN  Sparse(IF r = NoRange THEN sp.ranges
             ELSE InsertAt(sp.ranges, IF later = {} THEN Len(sp.ranges) + 1 ELSE Min(later), r))

\* The compacted objects go, and the new range comes before the first later one.
SparseCompact(sp, r, compacted) ==
  LET kept == SelectSeq(sp.ranges, LAMBDA x : x.object \notin compacted)
      later == {i \in DOMAIN kept : kept[i].start > r.start}
  IN  Sparse(IF r = NoRange THEN kept
             ELSE InsertAt(kept, IF later = {} THEN Len(kept) + 1 ELSE Min(later), r))

\* The entry that goes (from 0), and where the next one is looked for.
EvictOnce(sp) ==
  LET len == Len(sp.ranges)
      i == IF sp.evict % len = 0 \/ sp.evict >= len - CompactNum THEN 1 ELSE sp.evict
  IN  IF len = 1 THEN Sparse(<<>>)
      ELSE IF len <= 1 + CompactNum THEN [sp EXCEPT !.ranges = RemoveAt(@, 2)]
      ELSE [ranges |-> RemoveAt(sp.ranges, i + 1), evict |-> i + 1]

\* The last range that starts at or before the offset; among equal starts, any.
SearchObjectId(ranges, offset) ==
  LET before == {i \in DOMAIN ranges : ranges[i].start <= offset}
      start == Max({ranges[i].start : i \in before})
  IN  IF before = {} THEN {} ELSE {ranges[i].object : i \in {j \in before : ranges[j].start = start}}

-----------------------------------------------------------------------------
(* CacheState: a stream without ranges has no entry.  Sizes are in entries,  *)
(* RangeIndex::OBJECT_SIZE bytes each.                                       *)

Empty == [s \in IndexStreams |-> Sparse(<<>>)]
IndexEntries(streams) == FoldFunction(LAMBDA sp, n : n + Len(sp.ranges), 0, streams)
InOrder == SetToSortSeq(IndexStreams, <)

\* The entry of one stream is replaced, and the total follows.
Put1(st, s, sp) ==
  [streams |-> [st.streams EXCEPT ![s] = sp],
   total |-> st.total + Len(sp.ranges) - Len(st.streams[s].ranges)]

RECURSIVE EvictLoop(_, _)

\* Passes over the streams; one that evicts nothing makes the short lists fair game.
EvictLoop(st, sufficient) ==
  LET spared(x, s) == \/ x.total <= MaxIndexSize \/ x.streams[s].ranges = <<>>
                      \/ sufficient /\ Len(x.streams[s].ranges) <= 1 + CompactNum
      pass == FoldLeft(LAMBDA x, s : IF spared(x, s) THEN x ELSE Put1(x, s, EvictOnce(x.streams[s])),
                       st, InOrder)
  IN  IF st.total <= MaxIndexSize THEN st ELSE EvictLoop(pass, sufficient /\ pass # st)

EvictIfNecessary(st) == EvictLoop(st, TRUE)

IndexAppend(st, ranges) ==
  EvictIfNecessary(FoldLeft(LAMBDA x, s :
    IF ranges[s] = NoRange THEN x ELSE Put1(x, s, SparseAppend(x.streams[s], ranges[s])), st, InOrder))

\* Only the streams that have an entry are looked at.
IndexCompact(st, ranges, compacted) ==
  FoldLeft(LAMBDA x, s :
    IF x.streams[s].ranges = <<>> THEN x
    ELSE Put1(x, s, SparseCompact(x.streams[s], ranges[s], compacted)), st, InOrder)

NoRanges == [s \in IndexStreams |-> NoRange]

Pruned(st, ids) ==
  LET dead == {x.object : x \in UNION {Range(st.streams[s].ranges) : s \in IndexStreams}} \ ids
  IN  IF dead = {} THEN st ELSE IndexCompact(st, NoRanges, dead)

-----------------------------------------------------------------------------
NoIndex == [streams |-> Empty, total |-> 0]
Down == [at |-> "down", seen |-> {}]

IndexInit ==
  /\ live = {} /\ ends = [s \in IndexStreams |-> 0]
  /\ hooks = <<>> /\ overtaken = FALSE
  /\ index = NoIndex /\ node = Down
  /\ uploads = [queue |-> <<>>, writing |-> {}]
  /\ stored = Empty /\ adrift = {}
  /\ left \in IndexPlans

LiveIds == {x.id : x \in live}
NewId == MaxIds - left.objects + 1
Running == node.at # "down"

-----------------------------------------------------------------------------
(* Commits to the metadata plane, whose hooks are spawned *)

\* The upload of a cache block; without a running node, that of its failover,
\* whose object manager has no hook.
CommitUpload(streams) ==
  LET ranges == [s \in IndexStreams |->
                   IF s \in streams THEN Range3(ends[s], ends[s] + 1, NewId) ELSE NoRange]
  IN  /\ left.objects > 0
      /\ live' = live \union {[id |-> NewId, ranges |-> ranges]}
      /\ ends' = [s \in IndexStreams |-> IF s \in streams THEN ends[s] + 1 ELSE ends[s]]
      /\ hooks' = IF Running THEN Append(hooks, [ranges |-> ranges, compacted |-> {}]) ELSE hooks
      /\ left' = [left EXCEPT !.objects = @ - 1]
      /\ UNCHANGED <<overtaken, index, node, uploads, stored, adrift>>

RangesOf(chosen, s) == {x.ranges[s] : x \in chosen} \ {NoRange}

\* The ranges of a stream that are compacted together follow each other.
Contiguous(chosen, s) ==
  LET rs == RangesOf(chosen, s)
  IN  \A r \in rs : (\E x \in rs : x.start > r.start) => \E x \in rs : x.start = r.end

\* What is not split off into stream objects goes to a new stream set object; if
\* nothing does, the request has NOOP_OBJECT_ID.  Compaction starts after the prune.
CommitCompaction(chosen, split) ==
  LET rs(s) == RangesOf(chosen, s)
      ranges == [s \in IndexStreams |->
        IF s \in split \/ rs(s) = {} THEN NoRange
        ELSE Range3(Min({r.start : r \in rs(s)}), Max({r.end : r \in rs(s)}), NewId)]
      new == IF ranges = NoRanges THEN {} ELSE {[id |-> NewId, ranges |-> ranges]}
  IN  /\ node.at \in {"pruned", "skipped"} /\ "prune" \notin Range(uploads.queue)
      /\ left.compactions > 0 /\ left.objects > 0
      /\ \A s \in IndexStreams : Contiguous(chosen, s)
      /\ live' = (live \ chosen) \union new
      /\ hooks' = Append(hooks, [ranges |-> ranges, compacted |-> {x.id : x \in chosen}])
      /\ left' = [left EXCEPT !.objects = @ - 1, !.compactions = @ - 1]
      /\ UNCHANGED <<ends, overtaken, index, node, uploads, stored, adrift>>

\* on_commit_success: a compaction also writes the index.
RunHook(i) ==
  LET h == hooks[i]
  IN  /\ hooks' = RemoveAt(hooks, i)
      /\ overtaken' = (overtaken \/ i # 1)
      /\ IF h.compacted = {}
         THEN index' = IndexAppend(index, h.ranges) /\ UNCHANGED uploads
         ELSE /\ index' = IndexCompact(index, h.ranges, h.compacted)
              /\ uploads' = [uploads EXCEPT !.queue = Append(@, "hook")]
      /\ UNCHANGED <<live, ends, node, stored, adrift, left>>

-----------------------------------------------------------------------------
(* The index object.  The head of the queue has the upload lock once it writes. *)

\* to_buffer and from_buffer: the place of the next eviction is not kept.
Decoded(streams) == [s \in IndexStreams |-> Sparse(streams[s].ranges)]

\* upload: nothing is written while the index is empty.
UploadBegin ==
  /\ uploads.queue # <<>> /\ uploads.writing = {}
  /\ uploads' = IF index.streams = Empty THEN [uploads EXCEPT !.queue = Tail(@)]
                ELSE [uploads EXCEPT !.writing = {index.streams}]
  /\ UNCHANGED <<live, ends, hooks, overtaken, index, node, stored, adrift, left>>

\* The PUT succeeds, or fails for good: an error is logged.
UploadEnd ==
  /\ uploads.writing # {}
  /\ stored' \in {Decoded(buf) : buf \in uploads.writing} \union {stored}
  /\ uploads' = [queue |-> Tail(uploads.queue), writing |-> {}]
  /\ UNCHANGED <<live, ends, hooks, overtaken, index, node, adrift, left>>

\* upload_on_stream_close, when its interval is over.
CloseStreamHook ==
  /\ Running /\ left.closes > 0
  /\ uploads' = [uploads EXCEPT !.queue = Append(@, "close")]
  /\ left' = [left EXCEPT !.closes = @ - 1]
  /\ UNCHANGED <<live, ends, hooks, overtaken, index, node, stored, adrift>>

\* The timeout of the close: its upload is dropped, with or without the lock, and
\* a PUT that is on its way may still arrive.
CloseTimeout ==
  \E i \in DOMAIN uploads.queue :
    /\ uploads.queue[i] = "close"
    /\ uploads' = [queue |-> RemoveAt(uploads.queue, i),
                   writing |-> IF i = 1 THEN {} ELSE uploads.writing]
    /\ adrift' = adrift \union (IF i = 1 THEN uploads.writing ELSE {})
    /\ UNCHANGED <<live, ends, hooks, overtaken, index, node, stored, left>>

PutArrives ==
  \E buf \in adrift :
    /\ stored' = Decoded(buf)
    /\ adrift' = adrift \ {buf}
    /\ UNCHANGED <<live, ends, hooks, overtaken, index, node, uploads, left>>

-----------------------------------------------------------------------------
(* Lives of the node *)

\* LocalStreamRangeIndexCache::init
Start ==
  /\ ~Running /\ left.starts > 0
  /\ index' = [streams |-> stored, total |-> IndexEntries(stored)]
  /\ node' = [Down EXCEPT !.at = "started"] /\ overtaken' = FALSE
  /\ left' = [left EXCEPT !.starts = @ - 1]
  /\ UNCHANGED <<live, ends, hooks, uploads, stored, adrift>>

\* The builder asks for the live objects after the recovery; it goes on without.
GetServerObjects ==
  /\ node.at = "started"
  /\ node' \in {[at |-> "told", seen |-> LiveIds], [at |-> "skipped", seen |-> {}]}
  /\ UNCHANGED <<live, ends, hooks, overtaken, index, uploads, stored, adrift, left>>

AsyncPrune ==
  /\ node.at = "told"
  /\ index' = Pruned(index, node.seen)
  /\ uploads' = IF index' = index THEN uploads ELSE [uploads EXCEPT !.queue = Append(@, "prune")]
  /\ node' = [at |-> "pruned", seen |-> {}]
  /\ UNCHANGED <<live, ends, hooks, overtaken, stored, adrift, left>>

Crash ==
  /\ Running /\ left.starts > 0
  /\ node' = Down /\ index' = NoIndex /\ hooks' = <<>>
  /\ uploads' = [queue |-> <<>>, writing |-> {}]
  /\ adrift' = adrift \union uploads.writing
  /\ UNCHANGED <<live, ends, overtaken, stored, left>>

IndexNext ==
  \/ \E streams \in SUBSET IndexStreams \ {{}} : CommitUpload(streams)
  \/ \E chosen \in SUBSET live \ {{}}, split \in SUBSET IndexStreams : CommitCompaction(chosen, split)
  \/ \E i \in DOMAIN hooks : RunHook(i)
  \/ UploadBegin \/ UploadEnd \/ CloseStreamHook \/ CloseTimeout \/ PutArrives
  \/ Start \/ GetServerObjects \/ AsyncPrune \/ Crash

IndexSpec == IndexInit /\ [][IndexNext]_indexVars

-----------------------------------------------------------------------------
(* Properties *)

Hints(s) == index.streams[s].ranges

\* The total that decides on evictions is kept by differences, and the binary search
\* of search_object_id needs a sorted list: both are right after any resets, evictions,
\* compactions and prunes, in whatever order the hooks of the commits ran and however
\* old the index was that the node loaded.
IndexIsSound ==
  /\ index.total = IndexEntries(index.streams)
  /\ \A s \in IndexStreams : \A i \in 1..Len(Hints(s)) - 1 :
       Hints(s)[i].start <= Hints(s)[i + 1].start

\* After the prune, and unless a hook overtook another, the index names no object that
\* is gone, but for those of a compaction whose hook is still to run; and an offset in
\* an indexed range is resolved to the object of that range: no other entry hides it.
HintsFindLiveObjects ==
  node.at = "pruned" /\ ~overtaken =>
    \A s \in IndexStreams : \A r \in Range(Hints(s)) :
      /\ r.object \in LiveIds \union UNION {hooks[i].compacted : i \in DOMAIN hooks}
      /\ \A offset \in r.start..r.end - 1 : SearchObjectId(Hints(s), offset) = {r.object}
=============================================================================

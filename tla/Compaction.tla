----------------------------- MODULE Compaction -----------------------------
(***************************************************************************)
(* Compaction of committed objects: the metadata plane (MemoryMetadata-    *)
(* Manager), the uploads that feed it, the rounds of the stream set        *)
(* compaction (CompactionManager) and the passes of the stream object      *)
(* compaction (StreamObjectCompactor), each of which lists the metadata,   *)
(* builds new objects from what it listed and commits them later.          *)
(*                                                                         *)
(* An object is written under a fresh id and never changes, so writing it  *)
(* is part of the step that commits it and ids follow the commit order.    *)
(* A step that fails is the round or the pass giving up.  Deleting an      *)
(* object's bytes is left to the host, at some later time: the model marks *)
(* the object doomed, and what is doomed counts as lost.                   *)
(***************************************************************************)
EXTENDS CompactionPlan

CONSTANTS
    Streams,        \* stream ids
    Compactors,     \* who runs stream object passes: the scheduler, the host
    PassLevels,     \* the levels the passes are run at
    Deletable,      \* the streams that may be deleted
    MaxObjectNum,   \* max_object_num_to_compact
    MaxUpload,      \* bound: records of one stream in one upload
    MaxEnd,         \* bound: the end offset of each stream
    MaxObjects      \* bound: objects ever written

ASSUME CompactionConstants ==
    /\ Streams \subseteq Nat /\ Deletable \subseteq Streams /\ PassLevels \subseteq Levels
    /\ {MaxObjectNum, MaxUpload, MaxObjects} \subseteq Nat
    /\ MaxEnd \in [Streams -> Nat]

VARIABLES
    alive,   \* the streams that exist
    start,   \* StreamMetadata.start_offset
    end,     \* StreamMetadata.end_offset: what is committed
    sets,    \* stream_set_objects: ids with their ranges
    objs,    \* stream_objects: per stream, ids with their range
    store,   \* the index of every object written, by id
    doomed,  \* objects whose bytes may be deleted
    round,   \* the round of the CompactionManager
    pass     \* the pass each compactor runs

metadata == <<alive, start, end, sets, objs>>
vars == <<metadata, store, doomed, round, pass>>

Idle == [pc |-> "idle"]

Block(s, from, to, id) == [stream |-> s, start |-> from, end |-> to, object |-> id]

Init ==
    /\ alive = Streams
    /\ start = [s \in Streams |-> 0]
    /\ end = [s \in Streams |-> 0]
    /\ sets = {}
    /\ objs = [s \in Streams |-> {}]
    /\ store = <<>>
    /\ doomed = {}
    /\ round = Idle
    /\ pass = [c \in Compactors |-> Idle]

-----------------------------------------------------------------------------
(* The metadata plane. *)

\* The objects of one stream are keyed by their start offset: a new object
\* takes the place of one that starts where it does.
Insert(objects, new) == {o \in objects : o.start # new.start} \cup {new}

\* The committed end offset only advances.
NewEnd(s, ranges) ==
    LET ends == {end[s]} \cup {r.end : r \in {q \in ranges : q.stream = s}}
    IN  CHOOSE x \in ends : \A y \in ends : y <= x

\* commit_stream_set_object, with the objects the request names written first.
CommitStreamSetObject(request) ==
    LET noop == request.set = <<>>
        first == Len(store) + (IF noop THEN 1 ELSE 2)
        StreamObject(k) == [id |-> first + k - 1, start |-> Head(request.streams[k]).start,
                            end |-> Last(request.streams[k]).end]
        OfStream(s) == {k \in DOMAIN request.streams : Head(request.streams[k]).stream = s}
        written == [k \in DOMAIN request.streams |->
                        Indexed(GroupByLimit(request.streams[k]), first + k - 1)]
        setRanges == {RangeOf(g) : g \in ToSet(GroupByOffset(request.set))}
    IN  /\ first + Len(written) - 1 <= MaxObjects
        /\ store' = (IF noop THEN store
                     ELSE Append(store, Indexed(GroupByLimit(request.set), first - 1)))
                    \o written
        /\ sets' = {o \in sets : o.id \notin request.compacted} \cup
                   (IF noop THEN {} ELSE {[id |-> first - 1, ranges |-> setRanges]})
        /\ objs' = [s \in Streams |->
                        FoldSet(LAMBDA k, os : Insert(os, StreamObject(k)), objs[s], OfStream(s))]
        /\ end' = [s \in Streams |-> IF s \in alive THEN NewEnd(s, Ranges(request)) ELSE end[s]]
        /\ doomed' = doomed \cup request.compacted
        /\ UNCHANGED <<alive, start>>

\* One upload of the delta WAL.  UploadWalTask::plan: a block of one stream is
\* written as a stream object; of several, the large ones are split out.
Upload ==
    \E up \in SUBSET alive \ {{}} : \E split \in SUBSET up, n \in [up -> 1..MaxUpload] :
        LET Fresh(s) == Block(s, end[s], end[s] + n[s], 0)
            Sorted(S) == SetToSortSeq(S, <)
        IN  /\ Cardinality(up) = 1 => split = up
            /\ \A s \in up : end[s] + n[s] <= MaxEnd[s]
            /\ CommitStreamSetObject(
                    [set |-> [k \in DOMAIN Sorted(up \ split) |-> Fresh(Sorted(up \ split)[k])],
                     streams |-> [k \in DOMAIN Sorted(split) |-> <<Fresh(Sorted(split)[k])>>],
                     compacted |-> {}])
            /\ UNCHANGED <<round, pass>>

\* trim_stream
Trim(s) ==
    /\ s \in alive
    /\ \E x \in (start[s] + 1)..end[s] : start' = [start EXCEPT ![s] = x]
    /\ UNCHANGED <<alive, end, sets, objs, store, doomed, round, pass>>

\* delete_stream: the stream and its stream objects leave the metadata.
Delete(s) ==
    /\ s \in alive \cap Deletable
    /\ alive' = alive \ {s}
    /\ objs' = [objs EXCEPT ![s] = {}]
    /\ UNCHANGED <<start, end, sets, store, doomed, round, pass>>

-----------------------------------------------------------------------------
(* A round of the stream set compaction. *)

\* What a reader of an object finds: its index block, and the data blocks in it.
DataBlockReader(id) == store[id]

build_stream_data_block_map(ids) == [id \in ids |-> DataBlockReader(id)]

\* compact_once up to the partition: get_server_objects, the indexes (an object
\* whose index cannot be read, or that is committed meanwhile, is not in the map),
\* get_streams.  Objects as old as some age will be split, of the others the
\* newest MaxObjectNum compacted.
RoundStart ==
    /\ round = Idle
    /\ \E seen \in SUBSET {o.id : o \in sets}, age \in {0} \cup {o.id : o \in sets} :
        LET ids == {o.id : o \in sets}
            young == {id \in ids : id > age}
            newest == {id \in young :
                        Cardinality({other \in young : other > id}) < MaxObjectNum}
            map == build_stream_data_block_map(seen)
            valid == filter_invalid_stream_data_blocks([s \in alive |-> start[s]], map)
        IN  round' = IF sets = {} \/ \E b \in AllBlocks(map) : Size(b) > CacheSize
                       THEN Idle
                       ELSE [pc |-> "split", map |-> valid, old |-> seen \ young,
                             newest |-> seen \cap newest]
    /\ UNCHANGED <<metadata, store, doomed, pass>>

\* A request that fails the sanity check is not sent.  An empty one is not sent
\* either; sending it would change nothing.
CommitRound(request) ==
    IF is_sanity_check_failed(round.map, request)
      THEN UNCHANGED <<metadata, store, doomed>>
      ELSE CommitStreamSetObject(request)

\* One turn of force_split_objects.
RoundSplit ==
    /\ round.pc = "split"
    /\ \E id \in round.old :
        /\ \A other \in round.old : id <= other
        /\ round' = [round EXCEPT !.old = @ \ {id}]
        /\ CommitRound(SplitRequest(round.map, id))
    /\ UNCHANGED pass

\* compact_objects, which ends the round.
RoundCompact ==
    /\ round.pc = "split" /\ round.old = {}
    /\ CommitRound(CompactRequest([id \in round.newest |-> round.map[id]]))
    /\ round' = Idle
    /\ UNCHANGED pass

\* A read, a write or a commit fails, or the manager is shut down.
RoundAbort ==
    /\ round # Idle
    /\ round' = Idle
    /\ UNCHANGED <<metadata, store, doomed, pass>>

-----------------------------------------------------------------------------
(* A pass of the stream object compaction. *)

Linked(id) == Objects(store[id])

IsComposite(id) == Linked(id) # {id}

MetadataOf(o) == [id |-> o.id, start |-> o.start, end |-> o.end,
                  size |-> SizeOf(store[o.id]), composite |-> IsComposite(o.id)]

Working(p, expired, groups) ==
    CASE expired # {} -> [pc |-> "clean", stream |-> p.stream, level |-> p.level,
                          start |-> p.start, expired |-> expired, groups |-> groups]
      [] expired = {} /\ groups # <<>> ->
                         [pc |-> "merge", stream |-> p.stream, level |-> p.level,
                          start |-> p.start, groups |-> groups]
      [] OTHER -> Idle

\* compact up to its first commit: get_stream_objects, the partition into expired
\* and living objects, the groups.  The view of the stream was taken before, so its
\* start offset may be older; its confirm offset may be behind what is committed
\* since, or ahead of it.
PassStart(c, s) ==
    /\ pass[c] = Idle
    /\ s \in alive
    /\ \E level \in PassLevels, from \in 0..start[s], confirm \in 0..MaxEnd[s] :
        LET listed == {MetadataOf(o) : o \in {q \in objs[s] : q.start < confirm}}
            living == {o \in listed : o.end > from}
            ordered == SetToSortSeq(living, LAMBDA o, q : o.start < q.start)
        IN  pass' = [pass EXCEPT ![c] =
                        Working([stream |-> s, level |-> level, start |-> from],
                                {o.id : o \in listed \ living},
                                PassGroups(ordered, level, from))]
    /\ UNCHANGED <<metadata, store, doomed, round>>

\* (mutant) an expired composite object goes without its linked objects
ExpiredData_Delete(ids) == ids

\* DeepDelete: an object and all it links.
ExpiredData(ids) == ids \cup UNION {Linked(id) : id \in ids}

\* cleanup_expired
PassClean(c) ==
    /\ pass[c].pc = "clean"
    /\ LET p == pass[c]
       IN  /\ objs' = [objs EXCEPT ![p.stream] = {o \in @ : o.id \notin p.expired}]
           /\ doomed' = doomed \cup ExpiredData(p.expired)
           /\ pass' = [pass EXCEPT ![c] = Working(p, {}, p.groups)]
    /\ UNCHANGED <<alive, start, end, sets, store, round>>

Entries(group) == FoldLeft(LAMBDA bs, o : bs \o store[o.id], <<>>, group)

\* compact_by_physical_merge: the live blocks of the group, to be copied.
PhysicalMerge(p, group) ==
    LET live == SelectSeq(Entries(group), LAMBDA b : b.end > p.start)
        dead == SelectSeq(Entries(group), LAMBDA b : b.end <= p.start)
    IN  [copy |-> TRUE, blocks |-> live,
         start |-> IF dead = <<>> THEN Head(group).start ELSE Last(dead).end,
         end |-> Last(group).end,
         sources |-> {o.id : o \in ToSet(group)},
         delete |-> {o.id : o \in ToSet(group)},
         now |-> {}]

\* (mutant) a linked object whose last record is live counts as expired
DeadLinks_OffByOne(o, from) ==
    {id \in Linked(o.id) : /\ o.composite
                           /\ \A b \in ToSet(store[o.id]) : b.object = id => b.end <= from + 1}

\* The objects a composite object links that hold no live block.
DeadLinks(o, from) ==
    {id \in Linked(o.id) : /\ o.composite
                           /\ \A b \in ToSet(store[o.id]) : b.object = id => b.end <= from}

\* compact_by_composite_object: the blocks stay where they are; linked objects
\* that are fully expired are deleted at once.
CompositeMerge(p, group) ==
    LET dead == UNION {DeadLinks(o, p.start) : o \in ToSet(group)}
        blocks == SelectSeq(Entries(group), LAMBDA b : b.object \notin dead)
    IN  [copy |-> FALSE, blocks |-> blocks,
         start |-> IF blocks = <<>> THEN 0 ELSE Head(blocks).start,
         end |-> IF blocks = <<>> THEN 0 ELSE Last(blocks).end,
         sources |-> {o.id : o \in ToSet(group)},
         delete |-> {o.id : o \in {q \in ToSet(group) : q.composite}},
         now |-> dead]

\* One group is read and its new object built; add_component refuses a gap.
PassMerge(c) ==
    /\ pass[c].pc = "merge"
    /\ LET p == pass[c]
           group == Head(p.groups)
           request == IF p.level \in {"MajorV1", "CleanupV1"}
                        THEN CompositeMerge(p, group) ELSE PhysicalMerge(p, group)
           refused == ~request.copy /\ Len(GroupByOffset(request.blocks)) > 1
       IN  /\ doomed' = doomed \cup request.now
           /\ pass' = [pass EXCEPT ![c] =
                        IF refused THEN Idle
                        ELSE [pc |-> "commit", stream |-> p.stream, level |-> p.level,
                              start |-> p.start, groups |-> Tail(p.groups),
                              request |-> request]]
    /\ UNCHANGED <<metadata, store, round>>

\* The index of the copied blocks is regrouped; a composite object's index
\* keeps its blocks.
IndexOf(request, id) ==
    IF request.copy
      THEN Indexed(Grouped(request.blocks,
                           LAMBDA g, b : SizeOf(g) + Size(b) <= IndexGroupSize), id)
      ELSE request.blocks

\* compact_stream_object: sources out, the new object in.
PassCommit(c) ==
    /\ pass[c].pc = "commit"
    /\ LET p == pass[c]
           id == Len(store) + 1
           new == [id |-> id, start |-> p.request.start, end |-> p.request.end]
           rest == {o \in objs[p.stream] : o.id \notin p.request.sources}
       IN  /\ id <= MaxObjects
           /\ IF p.request.blocks = <<>>
                THEN objs' = [objs EXCEPT ![p.stream] = rest] /\ UNCHANGED store
                ELSE /\ objs' = [objs EXCEPT ![p.stream] = Insert(rest, new)]
                     /\ store' = Append(store, IndexOf(p.request, id))
           /\ doomed' = doomed \cup p.request.delete
           /\ pass' = [pass EXCEPT ![c] = Working(p, {}, p.groups)]
    /\ UNCHANGED <<alive, start, end, sets, round>>

\* A read, a write or a commit fails, or the client is shut down.
PassAbort(c) ==
    /\ pass[c] # Idle
    /\ pass' = [pass EXCEPT ![c] = Idle]
    /\ UNCHANGED <<metadata, store, doomed, round>>

-----------------------------------------------------------------------------
Next ==
    \/ Upload
    \/ \E s \in Streams : Trim(s) \/ Delete(s)
    \/ RoundStart \/ RoundSplit \/ RoundCompact \/ RoundAbort
    \/ \E c \in Compactors :
        \/ \E s \in Streams : PassStart(c, s)
        \/ PassClean(c) \/ PassMerge(c) \/ PassCommit(c) \/ PassAbort(c)

Spec == Init /\ [][Next]_vars

-----------------------------------------------------------------------------
(* Properties. *)

\* What the metadata plane answers for a stream: get_objects.
Slices(s) ==
    objs[s] \cup UNION {{[id |-> o.id, start |-> r.start, end |-> r.end] :
                         r \in {q \in o.ranges : q.stream = s}} : o \in sets}

Covers(o, x) == o.start <= x /\ x < o.end

\* The bytes of offset x of stream s can be read through object id.
Holds(id, s, x) ==
    /\ id \notin doomed
    /\ \E b \in ToSet(store[id]) : b.stream = s /\ Covers(b, x) /\ b.object \notin doomed

\* The metadata names written objects and the offsets are ordered.
TypeOK ==
    /\ alive \subseteq Streams
    /\ \A s \in Streams : start[s] \in 0..end[s] /\ end[s] \in 0..MaxEnd[s]
    /\ \A s \in Streams : \A o \in objs[s] : o.id \in DOMAIN store /\ o.start < o.end
    /\ \A o \in sets : /\ o.id \in DOMAIN store
                       /\ \A r \in o.ranges : r.start < r.end
    /\ doomed \subseteq DOMAIN store

\* Every committed offset that is not trimmed stays readable through whatever
\* the metadata plane answers, however uploads, trims, stream deletions, rounds
\* and passes interleave and wherever they fail: no compaction loses data,
\* deletes an object that is still linked, or commits a range its object does
\* not hold.
CommittedIsReadable ==
    \A s \in alive : \A x \in start[s]..(end[s] - 1) :
        /\ \E o \in Slices(s) : Covers(o, x)
        /\ \A o \in Slices(s) : Covers(o, x) => Holds(o.id, s, x)

\* The slices of a stream cover its untrimmed, committed offsets without a hole
\* (get_objects).
SlicesAreContinuous ==
    \A s \in alive : \A x \in start[s]..(end[s] - 1) : \E o \in Slices(s) : Covers(o, x)

\* Two slices of a stream never overlap, so a read in offset order yields each
\* record once: rounds and passes replace ranges, they never duplicate them.
SlicesAreDisjoint ==
    \A s \in alive : \A o, q \in Slices(s) :
        o # q => o.end <= q.start \/ q.end <= o.start

\* An object of streams that exist is in the metadata, linked by a composite
\* object there, or marked for deletion: compaction leaks no object.
NothingIsLeaked ==
    LET named == {o.id : o \in sets \cup UNION {objs[s] : s \in Streams}}
    IN  \A id \in DOMAIN store :
            \/ id \in doomed
            \/ \E o \in named : id = o \/ id \in Linked(o)
            \/ ~(StreamsIn(store[id]) \subseteq alive)
=============================================================================

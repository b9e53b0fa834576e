--------------------------- MODULE CompactionPlan ---------------------------
(***************************************************************************)
(* The pure part of compaction (s3stream-core/src/compact): which data     *)
(* blocks of which objects go into which new objects.  Nothing here has a  *)
(* state; the module Compaction calls these operators from its actions.    *)
(*                                                                         *)
(* A data block is one index entry: the stream, the offsets [start, end)   *)
(* and the object its bytes lie in.  A record takes one offset and one     *)
(* byte, so a block's size is end - start.  Block positions, record        *)
(* counts, the sizes of indexes and footers and the limits that guard      *)
(* 32-bit deltas and part counts are left out.                             *)
(***************************************************************************)
EXTENDS Naturals, Sequences, FiniteSets, SequencesExt

CONSTANTS
    CacheSize,          \* compaction_cache_size: bytes one stage may read
    SplitSize,          \* stream_split_size
    MaxStreamNum,       \* max_stream_num_per_stream_set_object
    MaxStreamObjectNum, \* max_stream_object_num_per_commit
    IndexGroupSize,     \* DATA_BLOCK_GROUP_SIZE_THRESHOLD
    MinorSize,          \* MINOR_COMPACTION_SIZE_THRESHOLD
    MinorV1Size,        \* MINOR_V1_COMPACTION_SIZE_THRESHOLD
    MajorSize,          \* max_stream_object_size
    MaxGroupCount,      \* MAX_OBJECT_GROUP_COUNT
    MaxDirty            \* MAX_DIRTY_BYTES

ASSUME CompactionLimits ==
    /\ {CacheSize, SplitSize, MaxStreamNum, MaxStreamObjectNum, MaxDirty} \subseteq Nat
    /\ {IndexGroupSize, MinorSize, MinorV1Size, MajorSize, MaxGroupCount} \subseteq Nat \ {0}

-----------------------------------------------------------------------------
(* Blocks and groups of blocks. *)

Size(block) == block.end - block.start

SizeOf(blocks) == FoldLeft(LAMBDA n, b : n + Size(b), 0, blocks)

Objects(blocks) == {b.object : b \in ToSet(blocks)}

StreamsIn(blocks) == {b.stream : b \in ToSet(blocks)}

Follows(block, next) == next.stream = block.stream /\ next.start = block.end

\* group_stream_data_blocks: a block joins the last group while Joins says so.
Grouped(blocks, Joins(_, _)) ==
    LET Add(groups, b) ==
            IF groups # <<>> /\ Joins(Last(groups), b)
              THEN [groups EXCEPT ![Len(groups)] = Append(@, b)]
              ELSE Append(groups, <<b>>)
    IN  FoldLeft(Add, <<>>, blocks)

GroupByOffset(blocks) == Grouped(blocks, LAMBDA g, b : Follows(Last(g), b))

GroupByLimit(blocks) ==
    Grouped(blocks, LAMBDA g, b : /\ Follows(Last(g), b)
                                  /\ SizeOf(g) + Size(b) < IndexGroupSize)

\* build_object_stream_ranges_from_group, build_data_block_indices_from_group:
\* what a group of blocks covers, and its entry in the index of object id.
RangeOf(group) ==
    [stream |-> Head(group).stream, start |-> Head(group).start, end |-> Last(group).end]

Indexed(groups, id) ==
    [k \in DOMAIN groups |->
        [stream |-> Head(groups[k]).stream, start |-> Head(groups[k]).start,
         end |-> Last(groups[k]).end, object |-> id]]

-----------------------------------------------------------------------------
(* Stream set compaction.  A block map is a function from the ids of       *)
(* stream set objects to their blocks.                                     *)

AllBlocks(map) == UNION {ToSet(map[id]) : id \in DOMAIN map}

\* filter_invalid_stream_data_blocks: starts is defined on the streams that exist.
filter_invalid_stream_data_blocks(starts, map) ==
    LET Valid(b) == b.stream \in DOMAIN starts /\ b.end > starts[b.stream]
    IN  [id \in DOMAIN map |-> SelectSeq(map[id], Valid)]

sort_stream_range_positions(map) ==
    SetToSortSeq(AllBlocks(map),
        LAMBDA b, c : \/ b.stream < c.stream
                      \/ (b.stream = c.stream /\ b.start < c.start))

\* The objects that share a stream with another object of the map.
filter_blocks_to_compact(map) ==
    {id \in DOMAIN map : \E other \in DOMAIN map \ {id} :
        StreamsIn(map[id]) \cap StreamsIn(map[other]) # {}}

IsIllegal(sorted) ==
    \E k \in 2..Len(sorted) : /\ sorted[k].stream = sorted[k - 1].stream
                              /\ sorted[k].start < sorted[k - 1].end

\* An output object that is being planned (CompactedObjectBuilder).
Builder(type, blocks) == [type |-> type, blocks |-> blocks]

\* A run of blocks becomes a stream object of its own when the same stream goes
\* on after a gap or when the run is large.
Splits(runs, k) ==
    \/ k < Len(runs) /\ Head(runs[k + 1]).stream = Head(runs[k]).stream
    \/ SizeOf(runs[k]) > SplitSize

\* The runs between two such objects are packed together.
Packed(runs) ==
    LET Add(builders, k) ==
            IF Splits(runs, k) THEN Append(builders, Builder("Split", runs[k]))
            ELSE IF builders # <<>> /\ Last(builders).type = "Compact"
              THEN [builders EXCEPT ![Len(builders)].blocks = @ \o runs[k]]
              ELSE Append(builders, Builder("Compact", runs[k]))
    IN  FoldLeft(Add, <<>>, [k \in DOMAIN runs |-> k])

compact_objects(sorted) == Packed(GroupByOffset(sorted))

\* CompactionStats::of
OfType(builders, type) == {k \in DOMAIN builders : builders[k].type = type}

StreamNum(builders) ==
    Cardinality(UNION {{<<k, s>> : s \in StreamsIn(builders[k].blocks)} :
                       k \in OfType(builders, "Compact")})

StreamObjectNum(builders) == Cardinality(OfType(builders, "Split"))

\* total_object_stats: the uses, by all builders, of the objects builder k reads.
TotalObjectStats(builders, k) ==
    Cardinality({<<j, id>> \in (DOMAIN builders) \X Objects(builders[k].blocks) :
                 id \in Objects(builders[j].blocks)})

LexLeq(p, q) == p[1] < q[1] \/ (p[1] = q[1] /\ p[2] <= q[2])

\* add_objects_to_remove for stream objects: the sources of the one with the
\* fewest blocks, then the fewest uses of its sources, then the first.
RemoveForSplit(builders) ==
    LET cands == OfType(builders, "Split")
        Rank(k) == <<Len(builders[k].blocks), TotalObjectStats(builders, k)>>
        least == {k \in cands : \A j \in cands : LexLeq(Rank(k), Rank(j))}
    IN  IF cands = {} THEN {}
        ELSE Objects(builders[CHOOSE k \in least : \A j \in least : k <= j].blocks)

\* add_objects_to_remove for the stream set object: the sources of the stream
\* with the least dispersion.
RemoveForCompact(builders) ==
    LET blocks == UNION {ToSet(builders[k].blocks) : k \in OfType(builders, "Compact")}
        Sources(s) == {b.object : b \in {c \in blocks : c.stream = s}}
        Dispersion(s) == Cardinality({<<b.object, b.stream>> :
                                      b \in {c \in blocks : c.object \in Sources(s)}})
        cands == {b.stream : b \in blocks}
    IN  IF cands = {} THEN {}
        ELSE Sources(CHOOSE s \in cands : \A t \in cands :
                        LexLeq(<<Dispersion(s), s>>, <<Dispersion(t), t>>))

WithinLimits(builders) ==
    /\ StreamNum(builders) <= MaxStreamNum
    /\ StreamObjectNum(builders) <= MaxStreamObjectNum

\* add_objects_to_remove
ToRemove(builders) ==
    IF StreamObjectNum(builders) > MaxStreamObjectNum
      THEN RemoveForSplit(builders)
      ELSE RemoveForCompact(builders)

\* group_object_with_limits: drop objects until the result respects the limits.
\* excluded holds what has been dropped; <<>> stands for None.
group_object_with_limits(map) ==
    LET sorted == sort_stream_range_positions(map)
        Left(excluded) == SelectSeq(sorted, LAMBDA b : b.object \notin excluded)
        Rest(excluded) == [id \in DOMAIN map \ excluded |-> map[id]]
        Group[excluded \in SUBSET DOMAIN map] ==
            LET Choice(builders, more) ==
                    CASE WithinLimits(builders) -> builders
                      [] ~WithinLimits(builders) /\ more = {} -> <<>>
                      [] OTHER -> Group[excluded \cup more]
                Limited(builders) == Choice(builders, ToRemove(builders))
            IN  IF \/ filter_blocks_to_compact(Rest(excluded)) = {}
                   \/ IsIllegal(Left(excluded))
                  THEN <<>>
                  ELSE Limited(compact_objects(Left(excluded)))
    IN  Group[{}]

\* generate_plan_with_cache_limit: the stages of a round read at most CacheSize
\* bytes each, so a stream object is cut where its stage is full.
generate_plan_with_cache_limit(builders) ==
    LET Fits(st, b) == st.total + Size(b) <= CacheSize
        AddBlock(st, b) ==
            IF st.open /\ Fits(st, b)
              THEN [st EXCEPT !.total = @ + Size(b),
                              !.pieces[Len(st.pieces)] = Append(@, b)]
              ELSE [open |-> TRUE, pieces |-> Append(st.pieces, <<b>>),
                    total |-> IF Fits(st, b) THEN st.total + Size(b) ELSE Size(b)]
        AddBuilder(st, builder) ==
            LET done == FoldLeft(AddBlock, [st EXCEPT !.open = FALSE, !.pieces = <<>>],
                                 builder.blocks)
            IN  [done EXCEPT !.pieces = IF builder.type = "Split"
                                          THEN st.pieces \o @ ELSE st.pieces]
    IN  FoldLeft(AddBuilder, [open |-> FALSE, total |-> 0, pieces |-> <<>>], builders).pieces

SetBlocks(builders) ==
    FoldLeft(LAMBDA bs, c : IF c.type = "Compact" THEN bs \o c.blocks ELSE bs, <<>>, builders)

\* The request of one round of compact_objects (mod.rs): the blocks of the new
\* stream set object, those of each new stream object, the objects consumed.
CompactRequest(map) ==
    LET kept == filter_blocks_to_compact(map)
        Used(builders) == UNION {Objects(builders[k].blocks) : k \in DOMAIN builders}
        Request(builders) ==
            [set |-> SetBlocks(builders),
             streams |-> generate_plan_with_cache_limit(builders),
             compacted |-> Used(builders) \cup {id \in DOMAIN map : map[id] = <<>>}]
    IN  Request(IF kept = {} THEN <<>>
                ELSE group_object_with_limits([id \in kept |-> map[id]]))

\* (mutant) the object that was split is not named as consumed
SplitRequest_Keeps(map, id) ==
    [set |-> <<>>, streams |-> GroupByOffset(map[id]), compacted |-> {}]

\* The request of force_split_objects for one object.
SplitRequest(map, id) ==
    [set |-> <<>>, streams |-> GroupByOffset(map[id]), compacted |-> {id}]

\* The ranges a request commits.
Ranges(request) ==
    {RangeOf(g) : g \in ToSet(GroupByOffset(request.set)) \cup ToSet(request.streams)}

\* is_sanity_check_failed: every offset of every block that a consumed object
\* still holds must be in a range of the request.
is_sanity_check_failed(map, request) ==
    \E id \in request.compacted \cap DOMAIN map : \E b \in ToSet(map[id]) :
        \E x \in b.start..(b.end - 1) :
            ~ \E r \in Ranges(request) : r.stream = b.stream /\ r.start <= x /\ x < r.end

-----------------------------------------------------------------------------
(* Stream object compaction.  An object here is its metadata: id, start,   *)
(* end, size and whether it is composite.                                  *)

Levels == {"Cleanup", "Minor", "Major", "CleanupV1", "MinorV1", "MajorV1"}

max_group_size(level) ==
    CASE level = "Minor" -> MinorSize
      [] level = "MinorV1" -> MinorV1Size
      [] OTHER -> MajorSize

\* group0, with object_filter: continuous objects under the size and count
\* limits; only MajorV1 takes composite objects.
group0(objects, level) ==
    LET Bytes(g) == FoldLeft(LAMBDA n, o : n + o.size, 0, g)
        Joins(g, o) == /\ Last(g).end = o.start
                       /\ Bytes(g) + o.size <= max_group_size(level)
                       /\ Len(g) < MaxGroupCount
    IN  Grouped(SelectSeq(objects, LAMBDA o : level = "MajorV1" \/ ~o.composite), Joins)

\* The first living object alone, when it is composite and mostly trimmed.
cleanup_v1_groups(objects, start) ==
    IF /\ objects # <<>>
       /\ Head(objects).composite
       /\ Head(objects).end > Head(objects).start
       /\ start > Head(objects).start
       /\ (start - Head(objects).start) * Head(objects).size
             > MaxDirty * (Head(objects).end - Head(objects).start)
      THEN <<<<Head(objects)>>>>
      ELSE <<>>

\* The groups one pass works on.  skip_single_object_group leaves a lone
\* object alone at every level but CleanupV1.
PassGroups(objects, level, start) ==
    CASE level = "Cleanup" -> <<>>
      [] level = "CleanupV1" -> cleanup_v1_groups(objects, start)
      [] OTHER -> SelectSeq(group0(objects, level), LAMBDA g : Len(g) > 1)
=============================================================================

------------------------------ MODULE LogCache ------------------------------
(***************************************************************************)
(* LogCache (cache/log_cache.rs) as operators on a record: the blocks, the *)
(* last of which is active, and the byte count of the whole cache.  Every   *)
(* operation runs under the lock of the cache, so an operator is an atomic *)
(* step of whoever calls it.                                               *)
(*                                                                         *)
(* A batch is <<base, last>>, the offsets [base, last), of RecordSize bytes *)
(* in the cache and of one byte in a read budget.  Byte counts are u64:     *)
(* they wrap at SizeModulus.                                                *)
(***************************************************************************)
EXTENDS Integers, FiniteSets, Sequences, SequencesExt

CONSTANTS
  RecordSize,
  Capacity,                \* capacity
  BlockMaxSize,            \* cache_block_max_size
  BlockMaxStreams,         \* max_cache_block_stream_count
  MAX_BLOCKS_COUNT,
  MERGE_BLOCK_THRESHOLD,
  SizeModulus              \* 2^64

ASSUME LogCacheAssumption ==
  /\ RecordSize \in Nat \ {0} /\ BlockMaxSize \in Nat \ {0} /\ BlockMaxStreams \in Nat \ {0}
  /\ Capacity \in Nat /\ MAX_BLOCKS_COUNT \in Nat /\ MERGE_BLOCK_THRESHOLD \in Nat \ {0}
  /\ SizeModulus \in Nat /\ SizeModulus > Capacity + BlockMaxSize

Base(batch) == batch[1]
End(batch) == batch[2]

\* map: the StreamCache of each stream in the block; listens: how many free
\* listeners the block has.
NewBlock == [map |-> <<>>, size |-> 0, free |-> FALSE, listens |-> 0]
NewCache == [blocks |-> <<NewBlock>>, size |-> 0]

Active(c) == c.blocks[Len(c.blocks)]
Wrap(n) == n % SizeModulus

StreamStart(sc) == Base(sc.recs[1])
StreamEnd(sc) == End(sc.recs[Len(sc.recs)])

-----------------------------------------------------------------------------
(* Release *)

Over(size, blocks) == size > (Capacity \div 10) * 9 \/ blocks > MAX_BLOCKS_COUNT

\* How many of the oldest blocks try_real_free removes.
Released(c) ==
  LET freed(n) == FoldFunctionOnSet(+, 0, [i \in 1..n |-> c.blocks[i].size], 1..n)
      goes(n) == Over(Wrap(c.size - freed(n - 1)), Len(c.blocks) - n + 1) /\ c.blocks[n].free
  IN  Max({0} \union {n \in 1..Len(c.blocks) : \A m \in 1..n : goes(m)})

TryRealFree(c) ==
  LET n == Released(c)
      size == FoldFunctionOnSet(+, 0, [i \in 1..n |-> c.blocks[i].size], 1..n)
  IN  [blocks |-> SubSeq(c.blocks, n + 1, Len(c.blocks)), size |-> Wrap(c.size - size)]

\* The bounds (stream, end offset) of the n oldest blocks that free listeners see.
ReportedBounds(c, n) ==
  UNION {{<<s, StreamEnd(c.blocks[i].map[s])>> : s \in DOMAIN c.blocks[i].map} :
           i \in {j \in 1..n : c.blocks[j].listens > 0}}

Discontinuous(left, right) ==
  \E s \in DOMAIN left.map \intersect DOMAIN right.map :
    StreamEnd(left.map[s]) # StreamStart(right.map[s])

\* The block that takes the place of two neighbours: it has no free listener.
Merged(left, right) ==
  [map |-> [s \in DOMAIN left.map \union DOMAIN right.map |->
     IF s \notin DOMAIN right.map THEN [left.map[s] EXCEPT !.hints = <<>>]
     ELSE IF s \notin DOMAIN left.map THEN [right.map[s] EXCEPT !.hints = <<>>]
     ELSE [recs |-> left.map[s].recs \o right.map[s].recs, hints |-> <<>>]],
   size |-> left.size + right.size, free |-> TRUE, listens |-> 0]

\* try_merge goes through the blocks from the oldest on; i is merge_start_index.
TryMerge(c) ==
  FoldLeft(LAMBDA acc, step :
     LET bs == acc.c.blocks
         i == acc.i
     IN  IF acc.stop \/ Len(bs) <= MERGE_BLOCK_THRESHOLD \/ i + 1 > Len(bs) THEN [acc EXCEPT !.stop = TRUE]
         ELSE IF ~bs[i].free \/ ~bs[i + 1].free THEN [acc EXCEPT !.stop = TRUE]
         ELSE IF bs[i].size + bs[i + 1].size >= BlockMaxSize \/ Discontinuous(bs[i], bs[i + 1])
         THEN [acc EXCEPT !.i = i + 1]
         ELSE [acc EXCEPT !.c.blocks = SubSeq(bs, 1, i - 1) \o <<Merged(bs[i], bs[i + 1])>>
                                         \o SubSeq(bs, i + 2, Len(bs))],
     [c |-> c, i |-> 1, stop |-> FALSE], [n \in 1..(2 * Len(c.blocks)) |-> n]).c

-----------------------------------------------------------------------------
(* Puts *)

IsFull(b) == b.size >= BlockMaxSize \/ Cardinality(DOMAIN b.map) >= BlockMaxStreams

Added(b, s, batch) ==
  [b EXCEPT !.size = @ + RecordSize,
            !.map = [x \in DOMAIN b.map \union {s} |->
               IF x # s THEN b.map[x]
               ELSE IF s \in DOMAIN b.map THEN [b.map[s] EXCEPT !.recs = Append(@, batch)]
               ELSE [recs |-> <<batch>>, hints |-> <<>>]]]

\* put into a cache that try_real_free has been through.
PutFreed(c, s, batch) ==
  IF IsFull(Active(c)) THEN c
  ELSE [blocks |-> [c.blocks EXCEPT ![Len(c.blocks)] = Added(@, s, batch)],
        size |-> Wrap(c.size + RecordSize)]

\* archive_current_block with a free listener on the archived block.
ArchiveListening(c) ==
  [c EXCEPT !.blocks = Append([@ EXCEPT ![Len(@)].listens = @ + 1], NewBlock)]

MarkFreeLastArchived(c) == [c EXCEPT !.blocks[Len(c.blocks) - 1].free = TRUE]

\* Mutant of ClearStreamRecords: only the active block is cleared.
ClearStreamRecords_Active(c, s) ==
  [c EXCEPT !.blocks[Len(c.blocks)].map = [x \in DOMAIN @ \ {s} |-> @[x]]]

\* The blocks keep their size; only the size of the cache goes down.
ClearStreamRecords(c, s) ==
  LET n == FoldFunctionOnSet(+, 0,
             [i \in DOMAIN c.blocks |->
                IF s \in DOMAIN c.blocks[i].map THEN Len(c.blocks[i].map[s].recs) ELSE 0],
             DOMAIN c.blocks)
  IN  [blocks |-> [i \in DOMAIN c.blocks |->
                     [c.blocks[i] EXCEPT !.map = [x \in DOMAIN @ \ {s} |-> @[x]]]],
       size |-> Wrap(c.size - n * RecordSize)]

-----------------------------------------------------------------------------
(* Reads *)

\* search_start_index: the hint a read that ended here left, or the batch that
\* covers the offset; 0 when there is none.
StartIndex(sc, start) ==
  IF start \in DOMAIN sc.hints THEN sc.hints[start].index
  ELSE Max({0} \union {i \in DOMAIN sc.recs : Base(sc.recs[i]) <= start /\ start < End(sc.recs[i])})

UsedHint(hints, start) ==
  IF start \notin DOMAIN hints THEN hints
  ELSE IF hints[start].count <= 1 THEN [o \in DOMAIN hints \ {start} |-> hints[o]]
  ELSE [hints EXCEPT ![start].count = @ - 1]

\* Mutant of LeftHint: the hint names the last batch that was read.
LeftHint_Early(hints, end, index) ==
  [o \in DOMAIN hints \union {end} |->
     IF o # end THEN hints[o]
     ELSE [index |-> index - 1, count |-> IF end \in DOMAIN hints THEN hints[end].count + 1 ELSE 1]]

LeftHint(hints, end, index) ==
  [o \in DOMAIN hints \union {end} |->
     IF o # end THEN hints[o]
     ELSE [index |-> index, count |-> IF end \in DOMAIN hints THEN hints[end].count + 1 ELSE 1]]

\* StreamCache.get: the batches and the stream cache it leaves.
StreamGet(sc, start, end, max) ==
  LET first == StartIndex(sc, start)
      stops == {i \in first..Len(sc.recs) : End(sc.recs[i]) >= end \/ i - first + 1 >= max}
      last == IF stops = {} THEN Len(sc.recs) ELSE Min(stops)
      used == UsedHint(sc.hints, start)
  IN  IF StreamStart(sc) > start \/ StreamEnd(sc) <= start THEN [recs |-> <<>>, sc |-> sc]
      ELSE IF first = 0 THEN [recs |-> <<>>, sc |-> sc]
      ELSE [recs |-> SubSeq(sc.recs, first, last),
            sc |-> [sc EXCEPT !.hints = LeftHint(used, End(sc.recs[last]), last + 1)]]

\* get0 over the blocks in order: what is read, and the blocks it leaves.
GetOnce(blocks, s, start, end, max) ==
  FoldLeft(LAMBDA acc, i :
     IF acc.next >= end \/ acc.max = 0 \/ s \notin DOMAIN acc.blocks[i].map THEN acc
     ELSE LET g == StreamGet(acc.blocks[i].map[s], acc.next, end, acc.max)
          IN  IF g.recs = <<>> THEN acc
              ELSE [blocks |-> [acc.blocks EXCEPT ![i].map[s] = g.sc],
                    recs |-> acc.recs \o g.recs,
                    next |-> End(g.recs[Len(g.recs)]),
                    max |-> Max({0, acc.max - Len(g.recs)})],
     [blocks |-> blocks, recs |-> <<>>, next |-> start, max |-> max], [i \in DOMAIN blocks |-> i])

Fulfilled(g, end) == g.recs # <<>> /\ (g.next >= end \/ g.max = 0)

\* The start of the longest continuous tail of stream s, -1 when it has none.
TailStart(blocks, s) ==
  FoldRight(LAMBDA b, acc :
     IF acc.stop \/ s \notin DOMAIN b.map THEN acc
     ELSE IF acc.start = -1 \/ StreamEnd(b.map[s]) = acc.start
     THEN [acc EXCEPT !.start = StreamStart(b.map[s])]
     ELSE [acc EXCEPT !.stop = TRUE],
     blocks, [start |-> -1, stop |-> FALSE]).start

\* get: what fulfils the request from its start, else from the cached tail.
Get(c, s, start, end, max) ==
  LET g == GetOnce(c.blocks, s, start, end, max)
      tail == TailStart(c.blocks, s)
      t == GetOnce(g.blocks, s, tail, end, max)
  IN  IF Fulfilled(g, end) THEN [recs |-> g.recs, blocks |-> g.blocks]
      ELSE IF tail = -1 \/ tail >= end \/ tail <= start THEN [recs |-> <<>>, blocks |-> g.blocks]
      ELSE IF Fulfilled(t, end) THEN [recs |-> t.recs, blocks |-> t.blocks]
      ELSE [recs |-> <<>>, blocks |-> t.blocks]
=============================================================================

--------------------------- MODULE DataBlockCache ---------------------------
(***************************************************************************)
(* The page-cache layer of the cold read path (cache/blockcache): blocks of *)
(* committed objects are loaded once for all their waiters, under a size   *)
(* limiter, and leave by drop-behind or by LRU eviction.                   *)
(*                                                                         *)
(* A block key <<o, i>> is entry i of the index of object o; a DataBlock is *)
(* one attempt to load a key, so a key that was evicted and read again has  *)
(* had two blocks.  The operations are written on the record "cache", so   *)
(* that the readers can chain several of them in one critical section.     *)
(***************************************************************************)
EXTENDS Integers, FiniteSets, Sequences, SequencesExt

CONSTANTS
  Index,        \* Index[o]: the data blocks of object o, a sequence of <<start, end>>
  Header,       \* bytes a data block has beyond its records, each of one byte
  BlockIds      \* bound: how many DataBlocks exist at a time

ASSUME BlockCacheAssumption == Header \in Nat

VARIABLES
  stored,       \* the objects present in object storage
  cache         \* the DataBlockCache: limiter, map, LRU list, blocks

Keys == UNION {{o} \X DOMAIN Index[o] : o \in DOMAIN Index}
Start(k) == Index[k[1]][k[2]][1]
End(k) == Index[k[1]][k[2]][2]
Size(k) == End(k) - Start(k) + Header

\* No key or no block.
None == 0

Unused ==
  [key |-> None, task |-> "none", load |-> "none", unread |-> -1,
   freed |-> FALSE, listeners |-> {}]

CacheInit(maxSize) ==
  cache = [permits |-> maxSize, waiters |-> <<>>,
           map |-> [k \in Keys |-> None], lru |-> <<>>,
           block |-> [b \in BlockIds |-> Unused],
           freedOf |-> {}]

-----------------------------------------------------------------------------
(* Operations on the cache record *)

\* Mutant of Release: the permits come back but nobody is woken.
Release_Silent(c, size) == [c EXCEPT !.permits = @ + size]

Release(c, size) ==
  [c EXCEPT !.permits = @ + size,
            !.waiters = IF c.permits + size > 0 /\ @ # <<>> THEN Tail(@) ELSE @]

RequiredRelease(c) == c.permits <= 0 \/ c.waiters # <<>>

\* The registered listeners fire: each becomes a task that will look at its slot.
Free(c, b) ==
  IF c.block[b].freed
  THEN c
  ELSE [Release(c, Size(c.block[b].key)) EXCEPT
          !.freedOf = @ \union {<<l, b>> : l \in c.block[b].listeners},
          !.block[b].freed = TRUE,
          !.block[b].listeners = {}]

RemoveIfSame(c, b) ==
  LET k == c.block[b].key
  IN  IF c.map[k] = b
      THEN [c EXCEPT !.map[k] = None, !.lru = SelectSeq(@, LAMBDA x : x # k)]
      ELSE c

\* The LRU loop under the shard lock: a tombstone goes, an entry goes when it is
\* among the first n (those past their TTL) or while permits are wanted back.
EvictShard(c, n) ==
  FoldLeft(LAMBDA acc, i :
             IF acc.stop THEN acc
             ELSE LET k == Head(acc.c.lru)
                      b == acc.c.map[k]
                      popped == [acc.c EXCEPT !.lru = Tail(@), !.map[k] = None]
                  IN  IF b = None THEN [acc EXCEPT !.c = popped]
                      ELSE IF i > n /\ ~RequiredRelease(acc.c) THEN [acc EXCEPT !.stop = TRUE]
                      ELSE [acc EXCEPT !.c = Free(popped, b)],
           [c |-> c, stop |-> FALSE], [i \in 1..Len(c.lru) |-> i]).c

\* How many of the oldest entries may be past their TTL.  The faults are a subset
\* of {"corrupt", "expire"}: blocks that do not decode, and time that passes.
Expired(c, faults) == IF "expire" \in faults THEN 0..Len(c.lru) ELSE {0}

MarkUnread(c, b) ==
  [c EXCEPT !.block[b].unread = IF @ = -1 THEN 1 ELSE @ + 1]

\* Mutant of MarkRead: the last reader takes the block out and keeps its permits.
MarkRead_KeepsPermits(c, b) ==
  LET read == [c EXCEPT !.block[b].unread = @ - 1]
  IN  IF read.block[b].unread > 0 THEN read ELSE RemoveIfSame(read, b)

MarkRead(c, b) ==
  LET read == [c EXCEPT !.block[b].unread = @ - 1]
  IN  IF read.block[b].unread > 0 \/ c.map[c.block[b].key] # b THEN read
      ELSE Free(RemoveIfSame(read, b), b)

\* The listener of slot l fires at once when the block is freed already.
RegisterFreeListener(c, b, l) ==
  IF c.block[b].freed
  THEN [c EXCEPT !.freedOf = @ \union {<<l, b>>}]
  ELSE [c EXCEPT !.block[b].listeners = @ \union {l}]

CloseFreeListener(c, b, l) == [c EXCEPT !.block[b].listeners = @ \ {l}]

UnusedBlocks(c) == {b \in BlockIds : c.block[b].task = "none"}

\* A hit promotes the entry; a miss creates block b, whose load task starts.
GetBlockHandle(c, k, b) ==
  IF c.map[k] # None
  THEN [c EXCEPT !.lru = SelectSeq(@, LAMBDA x : x # k) \o SelectSeq(@, LAMBDA x : x = k)]
  ELSE [c EXCEPT !.map[k] = b,
                 !.block[b] = [Unused EXCEPT !.key = k, !.task = "acquire"]]

\* The blocks that neither the cache nor one of "named" holds are dropped.
Collect(c, named) ==
  [c EXCEPT !.block = [b \in BlockIds |->
     IF c.block[b].task = "done" /\ b \notin named /\ c.map[c.block[b].key] # b
     THEN Unused ELSE c.block[b]]]

-----------------------------------------------------------------------------
(* The load task of block b (spawn_load): what the cache becomes in each step.  *)
(* A step holds the lock of the limiter, of the shard, or of the block; the     *)
(* waiters see the outcome of a load before the task has the shard lock again.  *)

Task(b) == cache.block[b].task
Key(b) == cache.block[b].key
AtTask(c, b, task) == [c EXCEPT !.block[b].task = task]

\* Without permits the task queues up and then evicts what it can.
TryAcquire(b) ==
  IF cache.permits >= 0
  THEN AtTask([cache EXCEPT !.permits = @ - Size(Key(b))], b, "read")
  ELSE AtTask([cache EXCEPT !.waiters = Append(@, b)], b, "evict")

EvictAll(b, task, faults) ==
  {EvictShard(AtTask(cache, b, task), n) : n \in Expired(cache, faults)}

\* The block decodes or, after a fault, does not; or its object is gone.
ReadBlock(b, faults) ==
  IF Key(b)[1] \notin stored THEN {AtTask(RemoveIfSame(cache, b), b, "fail")}
  ELSE {[AtTask(cache, b, "push") EXCEPT !.block[b].load = "ok"]}
         \union (IF "corrupt" \in faults
                 THEN {[AtTask(Free(cache, b), b, "remove") EXCEPT !.block[b].load = "error"]}
                 ELSE {})

\* Every load ends with the question whether permits are wanted back.
AfterLoad(c, b) == AtTask(c, b, IF RequiredRelease(c) THEN "give back" ELSE "done")

FailNotFound(b) == [AfterLoad(Free(cache, b), b) EXCEPT !.block[b].load = "not found"]

PushLoaded(b) ==
  AfterLoad([cache EXCEPT !.lru = Append(SelectSeq(@, LAMBDA x : x # Key(b)), Key(b))], b)

\* The caches that the next step of the load of b can lead to.
LoadStep(b, faults) ==
  CASE Task(b) = "acquire" -> {TryAcquire(b)}
    [] Task(b) = "evict"   -> EvictAll(b, "wait", faults)
    [] Task(b) = "wait"    -> IF b \in Range(cache.waiters) THEN {} ELSE {TryAcquire(b)}
    [] Task(b) = "read"    -> ReadBlock(b, faults)
    [] Task(b) = "fail"    -> {FailNotFound(b)}
    [] Task(b) = "push"    -> {PushLoaded(b)}
    [] Task(b) = "remove"  -> {AfterLoad(RemoveIfSame(cache, b), b)}
    [] Task(b) = "give back" -> EvictAll(b, "done", faults)
    [] OTHER               -> {}
=============================================================================

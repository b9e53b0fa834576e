---------------------------- MODULE StreamReaders ----------------------------
(***************************************************************************)
(* The readers of the cold read path, over one stream: the registry of     *)
(* readers by next offset, the window of block indexes of each reader, the *)
(* readahead, and the data blocks they share (DataBlockCache), while       *)
(* compaction replaces the objects under them.                             *)
(*                                                                         *)
(* A reader is driven by two tasks: the consumer's read, <<"user", c>>,    *)
(* and the readahead of the reader, <<"ahead", r>>.  The steps are the     *)
(* stretches of code between two awaits.  A record is its offset.          *)
(***************************************************************************)
EXTENDS DataBlockCache, FiniteSetsExt

CONSTANTS
  Consumers,
  GetObjectStep,     \* GET_OBJECT_STEP
  MaxIndexed,        \* how many object indexes MAX_OBJECT_READER_SIZE holds
  ReadaheadSizes,    \* the values next_size ramps through
  ReaderIds,         \* bound: how many readers exist at a time
  Plans              \* bound: what happens around the readers, see "plan"

VARIABLES
  plan,              \* objects: the objects that hold the stream at first;
                     \* requests: the reads [start, end, bytes] of each consumer, in turn;
                     \* compactions: the compactions to come, [from, to] each;
                     \* size: the permits at first; spare: what a readahead leaves of
                     \* them, READAHEAD_AVAILABLE_BYTES_THRESHOLD; faults
  live,              \* the objects the metadata plane lists
  compacted,         \* how many of the compactions were committed
  indexed,           \* ObjectReaderCache: the objects whose index is parsed
  reader,            \* the StreamReaders
  registry,          \* registry[o]: the idle reader at next offset o
  task,              \* where each task is in read0, get_blocks and below
  attaching,         \* spawned attach_data tasks <<reader, key, block>>
  consumer

vars == <<plan, stored, cache, live, compacted, indexed, reader, registry, task,
          attaching, consumer>>

StreamEnd == Max({End(k) : k \in Keys})
Offsets == 0..StreamEnd
Tasks == ({"user"} \X Consumers) \union ({"ahead"} \X ReaderIds)
IsUser(t) == t[1] = "user"

\* No end offset: a readahead goes as far as its size allows.
NoEnd == -1

\* got: the blocks collected by get_blocks, in order.
Idle == [pc |-> "idle", cursor |-> 0, end |-> NoEnd, left |-> 0, got |-> <<>>,
         before |-> 0, objects |-> <<>>, find |-> 0, epoch |-> 0, error |-> "none"]

\* last: the end of the newest window block; lock: the index load lock.
NoReader ==
  [open |-> FALSE, next |-> 0, window |-> <<>>, last |-> NoEnd, loaded |-> 0,
   epoch |-> 0, lock |-> FALSE, spawned |-> 0,
   ahead |-> [next |-> 0, mark |-> 0, reset |-> FALSE, cooling |-> FALSE]]

NewReader(start) == [NoReader EXCEPT !.open = TRUE, !.next = start]

NoRead == [pos |-> 0, end |-> 0, bytes |-> 0, reader |-> None, retries |-> 0, next |-> 0,
           left |-> 0, records |-> <<>>, answer |-> "none"]

Init ==
  /\ plan \in Plans
  /\ stored = plan.objects
  /\ CacheInit(plan.size)
  /\ live = plan.objects
  /\ compacted = 0
  /\ indexed = {}
  /\ reader = [r \in ReaderIds |-> NoReader]
  /\ registry = [o \in Offsets |-> None]
  /\ task = [t \in Tasks |-> Idle]
  /\ attaching = {}
  /\ consumer = [c \in Consumers |-> [reads |-> 0, read |-> NoRead]]

ReaderOf(t) == IF IsUser(t) THEN consumer[t[2]].read.reader ELSE t[2]

-----------------------------------------------------------------------------
(* References.  A closed reader lives while a task of it does; a block while   *)
(* the cache, a window slot, a task or a listener's task holds it.             *)

Dropped(r, rs, ts, as, notices) ==
  /\ ~rs[r].open
  /\ rs[r].spawned = 0
  /\ ts[<<"ahead", r>>].pc = "idle"
  /\ \A a \in as : a[1] # r
  /\ \A n \in notices : n[1][1] # r

Named(rs, ts, as, notices) ==
  (UNION {{rs[r].window[s].data : s \in DOMAIN rs[r].window} : r \in ReaderIds})
    \union (UNION {Range(ts[t].got) : t \in Tasks})
    \union {a[3] : a \in as}
    \union {n[2] : n \in notices}

\* The step that leaves readers rs, tasks ts, attach tasks as and cache c: what
\* nothing refers to any more is dropped, and a closed reader is not told.
Becomes(rs, ts, as, c) ==
  /\ task' = ts
  /\ attaching' = as
  /\ LET told == {n \in c.freedOf : rs[n[1][1]].open}
     IN  /\ reader' = [r \in ReaderIds |->
                         IF Dropped(r, rs, ts, as, told) THEN NoReader ELSE rs[r]]
         /\ cache' = Collect([c EXCEPT !.freedOf = told], Named(reader', ts, as, told))

-----------------------------------------------------------------------------
(* Windows *)

\* retire_slot of the slots of reader r whose offsets are in S.
RetireSlots(c, r, w, S) ==
  FoldSet(LAMBDA s, acc :
            IF w[s].data = None THEN acc
            ELSE CloseFreeListener(MarkRead(acc, w[s].data), w[s].data, <<r, s>>),
          c, S)

Without(w, S) == [s \in DOMAIN w \ S |-> w[s]]

ResetBlocks(rd) ==
  [rd EXCEPT !.window = <<>>, !.last = NoEnd, !.loaded = 0, !.epoch = @ + 1]

ClosedReader(rd) == [rd EXCEPT !.open = FALSE, !.window = <<>>]

\* Whether block k may be the next of the window.
Continues(rd, k) ==
  IF rd.last = NoEnd
  THEN Start(k) <= rd.next /\ End(k) > rd.next
  ELSE rd.last = Start(k)

\* put_block for each block of ks, up to the first that does not continue.
PutBlocks(rd, ks) ==
  FoldLeft(LAMBDA acc, k :
             IF ~acc.ok \/ ~Continues(acc.rd, k) THEN [acc EXCEPT !.ok = FALSE]
             ELSE [acc EXCEPT
                     !.rd.last = End(k), !.rd.loaded = End(k),
                     !.rd.window = [s \in DOMAIN acc.rd.window \union {Start(k)} |->
                         IF s = Start(k) THEN [key |-> k, data |-> None]
                         ELSE acc.rd.window[s]]],
           [rd |-> rd, ok |-> TRUE], ks)

\* attach_data of block b, loaded for key k, to the window of reader r.
Attaches(rd, k, b) ==
  /\ Start(k) \in DOMAIN rd.window
  /\ rd.window[Start(k)].key = k
  /\ rd.window[Start(k)].data # b

\* Mutant of AttachToBlock: the block is not counted as unread.
AttachToBlock_Uncounted(c, r, rd, k, b) ==
  LET old == rd.window[Start(k)].data
  IN  RegisterFreeListener(
        IF old = None THEN c ELSE CloseFreeListener(c, old, <<r, Start(k)>>), b, <<r, Start(k)>>)

AttachToBlock(c, r, rd, k, b) ==
  LET old == rd.window[Start(k)].data
  IN  RegisterFreeListener(
        MarkUnread(IF old = None THEN c ELSE CloseFreeListener(c, old, <<r, Start(k)>>), b),
        b, <<r, Start(k)>>)

\* AttachData of the blocks bs in order: the reader and the cache it leaves.
AttachData(c, r, rd, bs) ==
  FoldLeft(LAMBDA acc, b :
             LET k == c.block[b].key
             IN  IF Attaches(acc.rd, k, b)
                 THEN [c |-> AttachToBlock(acc.c, r, acc.rd, k, b),
                       rd |-> [acc.rd EXCEPT !.window[Start(k)].data = b]]
                 ELSE acc,
           [c |-> c, rd |-> rd], bs)

-----------------------------------------------------------------------------
(* get_blocks: walk the window, load more indexes, walk again *)

\* The slots from the floor of the cursor on, in order.
WalkSlots(rd, cursor) ==
  LET floor == Max({s \in DOMAIN rd.window : s <= cursor})
  IN  SetToSortSeq({s \in DOMAIN rd.window : s >= floor}, <)

\* The byte budget after j slots: a partial first block is not counted.
Budget(rd, slots, T, j) ==
  T.left - FoldFunctionOnSet(+, 0,
             [i \in 1..j |-> IF i = 1 /\ slots[1] # T.cursor THEN 0
                             ELSE Size(rd.window[slots[i]].key)], 1..j)

WalkStops(rd, slots, T) ==
  {j \in 1..Len(slots) : \/ T.end # NoEnd /\ End(rd.window[slots[j]].key) >= T.end
                         \/ Budget(rd, slots, T, j) <= 0}

\* The handles of the blocks ks; the TTL sweep, when it is due, comes after the first.
GetBlockHandles(c, ks, swept) ==
  FoldLeft(LAMBDA acc, k :
             LET b == IF acc.c.map[k] # None THEN acc.c.map[k] ELSE Min(UnusedBlocks(acc.c))
                 c2 == GetBlockHandle(acc.c, k, b)
             IN  [c |-> IF acc.got = <<>> /\ swept > 0 THEN EvictShard(c2, swept) ELSE c2,
                  got |-> Append(acc.got, b)],
           [c |-> c, got |-> <<>>], ks)

\* What the walk leads to: blocks enough, or more indexes, for which
\* load_more_blocks first notes how far the window reaches.
WalkDone(T) == [T EXCEPT !.pc = IF T.end = NoEnd THEN "spawn" ELSE "wait"]
NeedMore(T, rd) == [T EXCEPT !.pc = "lock", !.before = rd.loaded]
Failed(T, error) == [Idle EXCEPT !.pc = "fail", !.error = error]

TakeSlots(t, r, T, slots, stops) ==
  LET n == IF stops = {} THEN Len(slots) ELSE Min(stops)
      ks == [j \in 1..n |-> reader[r].window[slots[j]].key]
      walked == [T EXCEPT !.left = Budget(reader[r], slots, T, n)]
  IN  \E swept \in Expired(cache, plan.faults) :
        LET h == GetBlockHandles(cache, ks, swept)
            after == [walked EXCEPT !.got = @ \o h.got, !.cursor = End(ks[n])]
        IN  Becomes(reader,
                    [task EXCEPT ![t] = IF stops = {} THEN NeedMore(after, reader[r])
                                        ELSE WalkDone(after)],
                    attaching, h.c)

WalkWindow(t) ==
  LET r == ReaderOf(t)
      rd == reader[r]
      T == task[t]
      noFloor == \A s \in DOMAIN rd.window : s > T.cursor
  IN  /\ T.pc = "walk"
      /\ \/ /\ noFloor /\ DOMAIN rd.window # {}
            /\ Becomes(reader, [task EXCEPT ![t] = IF IsUser(t) THEN Failed(T, "bug") ELSE WalkDone(T)],
                       attaching, cache)
         \/ /\ DOMAIN rd.window = {} \/ (~noFloor /\ T.cursor >= rd.loaded)
            /\ Becomes(reader, [task EXCEPT ![t] = NeedMore(T, rd)], attaching, cache)
         \/ /\ ~noFloor /\ T.cursor < rd.loaded
            /\ TakeSlots(t, r, T, WalkSlots(rd, T.cursor), WalkStops(rd, WalkSlots(rd, T.cursor), T))
      /\ UNCHANGED <<plan, stored, live, compacted, indexed, registry, consumer>>

ObjectStart(o) == Index[o][1][1]
ObjectEnd(o) == Index[o][Len(Index[o])][2]

\* The listing of the metadata plane, in offset order.
GetObjects(start, end) ==
  LET inRange == {o \in live : ObjectEnd(o) > start /\ (end = NoEnd \/ ObjectStart(o) < end)}
      ordered == SetToSortSeq(inRange, LAMBDA a, b : ObjectStart(a) < ObjectStart(b))
  IN  SubSeq(ordered, 1, Min({GetObjectStep, Len(ordered)}))

\* The index entries of object o from the one that contains offset on.
Find(o, offset) ==
  LET i == CHOOSE i \in DOMAIN Index[o] : End(<<o, i>>) > offset /\
                                          \A j \in 1..(i - 1) : End(<<o, j>>) <= offset
  IN  [j \in 1..(Len(Index[o]) - i + 1) |-> <<o, i + j - 1>>]

\* The end of load_more_blocks, back in get_blocks: walk again, unless nothing
\* more was loaded; then a readahead ends.
LoadedMore(t, T, rd) ==
  IF rd.loaded # T.before \/ (IsUser(t) /\ T.end <= rd.loaded)
  THEN [T EXCEPT !.pc = "walk", !.before = 0, !.find = 0, !.epoch = 0, !.objects = <<>>]
  ELSE IF IsUser(t) THEN Failed(T, "bug")
  ELSE WalkDone(T)

\* Mutant of LoadIndexes: the lock does not exclude the other task.
LoadIndexes_Unlocked(t) ==
  LET r == ReaderOf(t)
      rd == reader[r]
      T == task[t]
      next == Max({rd.last, rd.next})
  IN  /\ T.pc = "lock"
      /\ Becomes(reader,
                 [task EXCEPT ![t].pc = "find", ![t].epoch = rd.epoch, ![t].find = next,
                              ![t].objects = GetObjects(next, T.end)],
                 attaching, cache)
      /\ UNCHANGED <<plan, stored, live, compacted, indexed, registry, consumer>>

\* load_more_blocks0 up to the listing, which it awaits under the lock.
LoadIndexes(t) ==
  LET r == ReaderOf(t)
      rd == reader[r]
      T == task[t]
      next == Max({rd.last, rd.next})
  IN  /\ T.pc = "lock"
      /\ ~rd.lock
      /\ IF T.end # NoEnd /\ T.end <= rd.loaded
         THEN Becomes(reader, [task EXCEPT ![t] = LoadedMore(t, T, rd)], attaching, cache)
         ELSE Becomes([reader EXCEPT ![r].lock = TRUE],
                      [task EXCEPT ![t].pc = "find", ![t].epoch = rd.epoch, ![t].find = next,
                                   ![t].objects = GetObjects(next, T.end)],
                      attaching, cache)
      /\ UNCHANGED <<plan, stored, live, compacted, indexed, registry, consumer>>

\* ObjectReaderCache.get of an object that is not in it may push another out.
IndexedWith(o) ==
  IF Cardinality(indexed) < MaxIndexed \/ o \in indexed
  THEN {indexed \union {o}}
  ELSE {(indexed \ {x}) \union {o} : x \in indexed}

\* The blocks of the next listed object enter the window.
FindInObject(t) ==
  LET r == ReaderOf(t)
      rd == reader[r]
      T == task[t]
      o == Head(T.objects)
      put == PutBlocks(rd, Find(o, T.find))
      unlocked == [reader EXCEPT ![r].lock = FALSE]
  IN  /\ T.pc = "find"
      /\ IF T.objects = <<>>
         THEN /\ Becomes(unlocked, [task EXCEPT ![t] = LoadedMore(t, T, rd)], attaching, cache)
              /\ UNCHANGED indexed
         ELSE IF o \notin indexed /\ o \notin stored
         THEN /\ Becomes(unlocked, [task EXCEPT ![t] = Failed(T, "not found")], attaching, cache)
              /\ UNCHANGED indexed
         ELSE /\ indexed' \in IndexedWith(o)
              /\ IF rd.epoch # T.epoch
                 THEN Becomes(unlocked, [task EXCEPT ![t] = LoadedMore(t, T, rd)], attaching, cache)
                 ELSE IF ~put.ok
                 THEN Becomes([unlocked EXCEPT ![r] = [put.rd EXCEPT !.lock = FALSE]],
                              [task EXCEPT ![t] = Failed(T, "not continuous")], attaching, cache)
                 ELSE Becomes([reader EXCEPT ![r] = put.rd],
                              [task EXCEPT ![t].objects = Tail(@), ![t].find = put.rd.last],
                              attaching, cache)
      /\ UNCHANGED <<plan, stored, live, compacted, registry, consumer>>

-----------------------------------------------------------------------------
(* A consumer's read: StreamReaders.read, StreamReader.read and read0 *)

UserTask(read) == [Idle EXCEPT !.pc = "walk", !.cursor = read.next, !.end = read.end,
                               !.left = read.left]

\* The reader at this offset leaves the registry, or a new one is made.
BeginRead(c) ==
  LET request == plan.requests[c][consumer[c].reads + 1]
      start == request.start
      r == IF registry[start] # None THEN registry[start]
           ELSE Min({x \in ReaderIds : reader[x] = NoReader})
      read == [NoRead EXCEPT !.pos = start, !.end = request.end, !.bytes = request.bytes,
                             !.reader = r, !.retries = 2, !.next = start, !.left = request.bytes]
  IN  /\ consumer[c].reads < Len(plan.requests[c])
      /\ task[<<"user", c>>].pc = "idle"
      /\ registry[start] # None \/ \E x \in ReaderIds : reader[x] = NoReader
      /\ consumer' = [consumer EXCEPT ![c] = [reads |-> @.reads + 1, read |-> read]]
      /\ registry' = [registry EXCEPT ![start] = None]
      /\ Becomes(IF registry[start] # None THEN reader
                 ELSE [reader EXCEPT ![r] = NewReader(start)],
                 [task EXCEPT ![<<"user", c>>] = UserTask(read)], attaching, cache)
      /\ UNCHANGED <<plan, stored, live, compacted, indexed>>

\* Mutant of ReadEnd: up to the end of the block.
ReadEnd_Block(read, k) == End(k)

\* Where the extraction from block k ends.
ReadEnd(read, k) == Min({read.end, End(k)})

\* The extraction loop of read0 over the blocks, a record being one offset.
Extract(read, ks) ==
  FoldLeft(LAMBDA acc, k :
             IF acc.stop # "no" THEN acc
             ELSE IF acc.read.next < Start(k) \/ acc.read.next >= End(k)
             THEN [acc EXCEPT !.stop = "bug"]
             ELSE LET to == ReadEnd(acc.read, k)
                      n == Min({to - acc.read.next, Max({acc.read.left, 1})})
                      records == [j \in 1..n |-> acc.read.next + j - 1]
                      left == acc.read.left - n
                  IN  [read |-> [acc.read EXCEPT !.next = to, !.left = left,
                                                 !.records = @ \o records],
                       stop |-> IF to >= acc.read.end \/ left <= 0 THEN "fulfilled" ELSE "no"],
           [read |-> read, stop |-> "no"], ks)

\* The first of the blocks to wait for that did not load.
FirstFailed(bs) ==
  {i \in DOMAIN bs : /\ cache.block[bs[i]].load \in {"not found", "error"}
                     /\ \A j \in 1..(i - 1) : cache.block[bs[j]].load = "ok"}

\* wait_load of each block, attach_data of all of them, then the extraction.
UseBlocks(c) ==
  LET t == <<"user", c>>
      T == task[t]
      read == consumer[c].read
      attached == AttachData(cache, read.reader, reader[read.reader], T.got)
      extracted == Extract(read, [j \in DOMAIN T.got |-> Key(T.got[j])])
  IN  /\ T.pc = "wait"
      /\ IF FirstFailed(T.got) # {}
         THEN /\ Becomes(reader, [task EXCEPT ![t] = Failed(T, cache.block[T.got[Min(FirstFailed(T.got))]].load)],
                         attaching, cache)
              /\ UNCHANGED consumer
         ELSE /\ \A j \in DOMAIN T.got : cache.block[T.got[j]].load = "ok"
              /\ consumer' = [consumer EXCEPT ![c].read = extracted.read]
              /\ Becomes([reader EXCEPT ![read.reader] = attached.rd],
                         [task EXCEPT ![t] =
                            IF T.got = <<>> \/ extracted.stop = "bug" THEN Failed(T, "bug")
                            ELSE IF extracted.stop = "fulfilled" THEN [Idle EXCEPT !.pc = "after"]
                            ELSE UserTask(extracted.read)],
                         attaching, attached.c)
      /\ UNCHANGED <<plan, stored, live, compacted, indexed, registry>>

\* after_read: the passed slots retire and a readahead is spawned.
AfterRead(c) ==
  LET t == <<"user", c>>
      read == consumer[c].read
      r == read.reader
      rd == reader[r]
      next == read.pos + Len(read.records)
      passed == {s \in DOMAIN rd.window : End(rd.window[s].key) <= next}
  IN  /\ task[t].pc = "after"
      /\ Becomes([reader EXCEPT ![r] = [@ EXCEPT !.next = next, !.spawned = @ + 1,
                                                 !.window = Without(rd.window, passed)]],
                 [task EXCEPT ![t].pc = "return"], attaching,
                 RetireSlots(cache, r, rd.window, passed))
      /\ UNCHANGED <<plan, stored, live, compacted, indexed, registry, consumer>>

\* The reader enters the registry; one that waits there at the same offset closes.
ReturnRead(c) ==
  LET t == <<"user", c>>
      r == consumer[c].read.reader
      old == registry[reader[r].next]
  IN  /\ task[t].pc = "return"
      /\ registry' = [registry EXCEPT ![reader[r].next] = r]
      /\ consumer' = [consumer EXCEPT ![c].read = [@ EXCEPT !.reader = None, !.next = 0, !.left = 0, !.retries = 0,
                                                            !.answer = "ok"]]
      /\ IF old = None
         THEN Becomes(reader, [task EXCEPT ![t] = Idle], attaching, cache)
         ELSE Becomes([reader EXCEPT ![old] = ClosedReader(@)], [task EXCEPT ![t] = Idle],
                      attaching, RetireSlots(cache, old, reader[old].window, DOMAIN reader[old].window))
      /\ UNCHANGED <<plan, stored, live, compacted, indexed>>

IsRecoverable(error) == error \in {"not found", "not continuous"}

\* The error path of read_with_retries: reset and retry, or close and report.
FailRead(c) ==
  LET t == <<"user", c>>
      read == consumer[c].read
      r == read.reader
      again == [read EXCEPT !.retries = @ - 1, !.next = read.pos, !.left = read.bytes,
                            !.records = <<>>]
      retired == RetireSlots(cache, r, reader[r].window, DOMAIN reader[r].window)
  IN  /\ task[t].pc = "fail"
      /\ IF read.retries > 0 /\ IsRecoverable(task[t].error)
         THEN /\ consumer' = [consumer EXCEPT ![c].read = again]
              /\ Becomes([reader EXCEPT ![r] = ResetBlocks(@)],
                         [task EXCEPT ![t] = UserTask(again)], attaching, retired)
         ELSE /\ consumer' = [consumer EXCEPT ![c].read =
                               [NoRead EXCEPT !.pos = read.pos, !.end = read.end,
                                              !.answer = task[t].error]]
              /\ Becomes([reader EXCEPT ![r] = ClosedReader(@)],
                         [task EXCEPT ![t] = Idle], attaching, retired)
      /\ UNCHANGED <<plan, stored, live, compacted, indexed, registry>>

Read(c) ==
  \/ BeginRead(c)
  \/ UseBlocks(c)
  \/ AfterRead(c)
  \/ ReturnRead(c)
  \/ FailRead(c)

GetBlocks(t) ==
  WalkWindow(t) \/ LoadIndexes(t) \/ FindInObject(t)

-----------------------------------------------------------------------------
(* Readahead *)

\* try_readahead up to get_blocks.  A cool-down that was started may be over.
TryReadahead(r) ==
  LET rd == reader[r]
      ra == IF rd.ahead.reset THEN [rd.ahead EXCEPT !.next = 0, !.mark = 0, !.reset = FALSE]
            ELSE rd.ahead
      taken == [rd EXCEPT !.spawned = @ - 1]
      Return(a) == Becomes([reader EXCEPT ![r] = [taken EXCEPT !.ahead = a]], task, attaching, cache)
  IN  /\ rd.spawned > 0
      /\ \/ /\ rd.ahead.cooling \/ task[<<"ahead", r>>].pc # "idle"
            /\ Return(rd.ahead)
         \/ /\ rd.ahead.cooling => "expire" \in plan.faults
            /\ task[<<"ahead", r>>].pc = "idle"
            /\ \E size \in ReadaheadSizes :
                 LET from == Max({rd.next, ra.next})
                     a == [ra EXCEPT !.next = from, !.cooling = FALSE]
                 IN  IF rd.next < ra.next /\ rd.next <= ra.mark
                     THEN Return([ra EXCEPT !.cooling = FALSE])
                     ELSE IF cache.permits < size + plan.spare
                     THEN Return(a)
                     ELSE Becomes([reader EXCEPT ![r] = [taken EXCEPT !.ahead = [a EXCEPT !.mark = from]]],
                                  [task EXCEPT ![<<"ahead", r>>] =
                                     [Idle EXCEPT !.pc = "walk", !.cursor = from, !.left = size]],
                                  attaching, cache)
      /\ UNCHANGED <<plan, stored, live, compacted, indexed, registry, consumer>>

\* What follows get_blocks: an attach task per block, and the next offset.
EndReadahead(r) ==
  LET t == <<"ahead", r>>
      got == task[t].got
  IN  /\ task[t].pc \in {"spawn", "fail"}
      /\ IF task[t].pc = "spawn" /\ got # <<>>
         THEN Becomes([reader EXCEPT ![r].ahead.next = End(Key(got[Len(got)]))],
                      [task EXCEPT ![t] = Idle],
                      attaching \union {<<r, Key(b), b>> : b \in Range(got)}, cache)
         ELSE Becomes(reader, [task EXCEPT ![t] = Idle], attaching, cache)
      /\ UNCHANGED <<plan, stored, live, compacted, indexed, registry, consumer>>

AttachLoaded(a) ==
  LET attached == AttachData(cache, a[1], reader[a[1]], <<a[3]>>)
  IN  /\ cache.block[a[3]].load # "none"
      /\ IF cache.block[a[3]].load = "ok"
         THEN Becomes([reader EXCEPT ![a[1]] = attached.rd], task, attaching \ {a}, attached.c)
         ELSE Becomes(reader, task, attaching \ {a}, cache)
      /\ UNCHANGED <<plan, stored, live, compacted, indexed, registry, consumer>>

\* The free listener's task: a block that is still in its slot was evicted unread.
OnFreed(n) ==
  LET r == n[1][1]
      s == n[1][2]
      current == s \in DOMAIN reader[r].window /\ reader[r].window[s].data = n[2]
      told == [cache EXCEPT !.freedOf = @ \ {n}]
  IN  /\ IF current
         THEN Becomes([reader EXCEPT ![r].ahead.reset = TRUE, ![r].ahead.cooling = TRUE],
                      task, attaching, told)
         ELSE Becomes(reader, task, attaching, told)
      /\ UNCHANGED <<plan, stored, live, compacted, indexed, registry, consumer>>

Readahead(r) == TryReadahead(r) \/ EndReadahead(r)

-----------------------------------------------------------------------------
(* Time and compaction *)

\* take_expired, by the sweep or by a read: an idle reader is closed.
Expire(o) ==
  LET r == registry[o]
  IN  /\ "expire" \in plan.faults
      /\ r # None
      /\ registry' = [registry EXCEPT ![o] = None]
      /\ Becomes([reader EXCEPT ![r] = ClosedReader(@)], task, attaching,
                 RetireSlots(cache, r, reader[r].window, DOMAIN reader[r].window))
      /\ UNCHANGED <<plan, stored, live, compacted, indexed, consumer>>

Load(b) ==
  /\ \E c \in LoadStep(b, plan.faults) : Becomes(reader, task, attaching, c)
  /\ UNCHANGED <<plan, stored, live, compacted, indexed, registry, consumer>>

\* A compaction puts its result and commits it; the objects it replaces are
\* deleted later.
Compact ==
  /\ compacted < Len(plan.compactions)
  /\ LET next == plan.compactions[compacted + 1]
     IN  /\ stored' = stored \union {next.to}
         /\ live' = (live \ next.from) \union {next.to}
  /\ compacted' = compacted + 1
  /\ UNCHANGED <<plan, cache, indexed, reader, registry, task, attaching, consumer>>

DeleteObject(o) ==
  /\ o \notin live
  /\ stored' = stored \ {o}
  /\ UNCHANGED <<plan, cache, live, compacted, indexed, reader, registry, task, attaching, consumer>>

Next ==
  \/ \E c \in Consumers : Read(c)
  \/ \E t \in Tasks : GetBlocks(t)
  \/ \E r \in ReaderIds : Readahead(r)
  \/ \E a \in attaching : AttachLoaded(a)
  \/ \E n \in cache.freedOf : OnFreed(n)
  \/ \E o \in Offsets : Expire(o)
  \/ \E b \in BlockIds : Load(b)
  \/ Compact
  \/ \E o \in stored : DeleteObject(o)

Spec == Init /\ [][Next]_vars

-----------------------------------------------------------------------------
(* Properties *)

\* The state stays in its type: windows map block starts to slots, tasks hold
\* blocks that exist, the registry holds readers.
TypeOK ==
  /\ stored \subseteq DOMAIN Index /\ live \subseteq stored
  /\ indexed \subseteq DOMAIN Index
  /\ \A k \in Keys : cache.map[k] # None => cache.block[cache.map[k]].key = k
  /\ Range(cache.lru) \subseteq Keys
  /\ \A o \in Offsets : registry[o] # None =>
       reader[registry[o]].open /\ reader[registry[o]].next = o
  /\ \A r \in ReaderIds : \A s \in DOMAIN reader[r].window :
       Start(reader[r].window[s].key) = s
  /\ \A t \in Tasks : \A b \in Range(task[t].got) : cache.block[b].task # "none"

\* A read that succeeds returns every record from its start offset on, once and
\* in order, up to its end offset or its byte budget (StreamReader.read0), though
\* windows are reset, blocks evicted and objects replaced while it runs.
ReadsReturnTheRange ==
  \A c \in Consumers :
    LET read == consumer[c].read
        n == Len(read.records)
    IN  read.answer = "ok" =>
          /\ \A j \in 1..n : read.records[j] = read.pos + j - 1
          /\ read.pos + n = read.end \/ (n >= read.bytes /\ n > 0)
          /\ read.pos + n <= read.end

\* Two retries absorb two compactions: a read fails only when a block is corrupt,
\* never for a deleted object, a window that does not continue, or one of the
\* branches the code marks [BUG] or [UNEXPECTED].
ReadsSurviveCompaction ==
  \A c \in Consumers : consumer[c].read.answer \in {"none", "ok", "error"}

BytesOf(B) == FoldSet(LAMBDA b, sum : sum + Size(cache.block[b].key), 0, B)
Acquired(b) == cache.block[b].task \in {"read", "fail", "push", "remove", "give back", "done"}

\* The permits of the size limiter are exactly what the blocks that hold bytes
\* took: none is lost when a block leaves by drop-behind, by eviction, by a failed
\* load, or by an eviction of the block while it loads.
PermitsAreHeldByBlocks ==
  cache.permits = plan.size - BytesOf({b \in BlockIds : Acquired(b) /\ ~cache.block[b].freed})
                          + BytesOf({b \in BlockIds : cache.block[b].task \in {"acquire", "evict", "wait"}
                                                        /\ cache.block[b].freed})

\* A cached block has at least as many unread marks as windows that hold it, so
\* that drop-behind never frees it under a reader that has not passed it.
WindowsKeepBlocks ==
  \A k \in Keys : cache.map[k] # None =>
    LET b == cache.map[k]
        holders == {r \in ReaderIds : \E s \in DOMAIN reader[r].window :
                                        reader[r].window[s].data = b}
    IN  holders # {} => cache.block[b].unread >= Cardinality(holders)

\* A task of the runtime that is ready to run.
LoadIsReady(b) ==
  Task(b) \in {"acquire", "evict", "read", "fail", "push", "remove", "give back"} \/ (Task(b) = "wait" /\ b \notin Range(cache.waiters))
TaskIsReady(t) ==
  \/ task[t].pc \in {"walk", "find", "after", "return", "fail", "spawn"}
  \/ task[t].pc = "lock" /\ ~reader[ReaderOf(t)].lock
  \/ task[t].pc = "wait" /\ \A b \in Range(task[t].got) : cache.block[b].load # "none"

\* While a read is under way, something is ready to run: no load waits for permits
\* that nobody will give back, and no task for a lock or a block nobody holds
\* (AsyncSizeLimiter wakes one waiter per release, evict_all makes the releases).
ReadsAreNeverStuck ==
  (\E c \in Consumers : task[<<"user", c>>].pc # "idle")
    => (\E b \in BlockIds : LoadIsReady(b)) \/ (\E t \in Tasks : TaskIsReady(t))
=============================================================================

---------------------------- MODULE StreamClient ----------------------------
(***************************************************************************)
(* S3Stream (stream.rs) and S3StreamClient (stream_client.rs): calls of the *)
(* host on streams that race with each other, with the shutdown of the     *)
(* client and with the failure handlers (failover.rs).                     *)
(*                                                                         *)
(* The host is a set of threads, each with a program of calls.  A step is   *)
(* what a call does between two awaits or between two accesses to shared    *)
(* atomics.  A handle is one S3Stream object; what it is opened for is part *)
(* of the plan.  Below it the storage engine is a queue of records that are *)
(* acknowledged in order, and the metadata plane is one record per stream.  *)
(* An append has one record, so its base offset identifies it.              *)
(***************************************************************************)
EXTENDS Integers, Sequences, FiniteSets, FiniteSetsExt, Functions

CONSTANTS
  StreamIds,
  Threads,        \* the threads of the host
  ClientPlans     \* [handles, programs, faults]: the handles the host may open, the
                  \* calls of each thread, the faults that may happen

VARIABLES
  plan,           \* chosen at the start
  meta,           \* per stream: [state, epoch, start, end] of the metadata plane
  updates,        \* metadata on its way to the listeners: [handle, start, end, confirmed]
  store,          \* [queue, acked, failed, down] of the storage engine
  client,         \* [shutdown, opened, forced, late, halted]
  handle,         \* the S3Stream objects
  thread,         \* the calls under way
  answered        \* history: the appends <<handle, base>> that returned Ok

clientVars == <<plan, meta, updates, store, client, handle, thread, answered>>

Handles == DOMAIN plan.handles
StreamOf(h) == plan.handles[h].stream
EpochOf(h) == plan.handles[h].epoch
SnapshotRead(h) == plan.handles[h].snapshot
Fault(f) == f \in plan.faults

\* SNAPSHOT_FAKE_OFFSET: bounds compare as i64, so u64::MAX is -1.
FakeOffset == -1
NoHandle == 0

CallKinds == {"open", "append", "submit", "fetch", "trim", "close", "destroy",
              "shutdown", "force close", "failure"}
ShutdownKinds == {"shutdown", "force close", "failure"}

\* A plan is well formed: the calls are calls on its handles, and since a handle
\* is one S3Stream, one call opens it.
ASSUME ClientAssumption ==
  /\ IsFiniteSet(StreamIds) /\ IsFiniteSet(Threads)
  /\ \A p \in ClientPlans :
       /\ NoHandle \notin DOMAIN p.handles
       /\ p.handles \in [DOMAIN p.handles -> [stream : StreamIds, epoch : Nat, snapshot : BOOLEAN]]
       /\ p.programs \in
            [Threads -> Seq([kind : CallKinds, h : DOMAIN p.handles, from : Nat, to : Nat])]
       /\ \A t, u \in Threads :
            \A i \in DOMAIN p.programs[t], j \in DOMAIN p.programs[u] :
              (/\ p.programs[t][i].kind = "open" /\ p.programs[u][j].kind = "open"
               /\ p.programs[t][i].h = p.programs[u][j].h) => t = u /\ i = j

NewHandle(start, next, listens) ==
  [exists |-> TRUE, start |-> start, next |-> next, confirm |-> next, status |-> {},
   appends |-> 0, fetches |-> 0, trimming |-> FALSE, closing |-> FALSE,
   result |-> "none", listens |-> listens]

Idle(k) == [k |-> k, pc |-> "idle", h |-> NoHandle, lo |-> 0, hi |-> 0, todo |-> <<>>]

ClientInit ==
  /\ plan \in ClientPlans
  /\ meta = [s \in StreamIds |-> [state |-> "closed", epoch |-> 0, start |-> 0, end |-> 0]]
  /\ updates = {}
  /\ store = [queue |-> <<>>, acked |-> {}, failed |-> {}, down |-> FALSE]
  /\ client = [shutdown |-> FALSE, opened |-> [s \in StreamIds |-> NoHandle],
               forced |-> {}, late |-> {}, halted |-> FALSE]
  /\ handle = [h \in Handles |-> [NewHandle(0, 0, FALSE) EXCEPT !.exists = FALSE]]
  /\ thread = [t \in Threads |-> Idle(1)]
  /\ answered = {}

-----------------------------------------------------------------------------
(* Steps of a thread *)

HasCall(t) == thread[t].k <= Len(plan.programs[t])
Call(t) == plan.programs[t][thread[t].k]
Kind(t) == Call(t).kind
H(t) == thread[t].h
At(t, pc) == ~client.halted /\ thread[t].pc = pc

\* A call on a handle starts once the host has the handle.
Starts(t, kinds) ==
  /\ At(t, "idle") /\ HasCall(t) /\ Kind(t) \in kinds
  /\ handle[Call(t).h].exists

Goes(t, pc) == thread' = [thread EXCEPT ![t].pc = pc]
Takes(t, pc) == thread' = [thread EXCEPT ![t].pc = pc, ![t].h = Call(t).h]
Notes(t, pc, lo, hi) == thread' = [thread EXCEPT ![t].pc = pc, ![t].lo = lo, ![t].hi = hi]
Returns(t) == thread' = [thread EXCEPT ![t] = Idle(@.k + 1)]

Operable(h) == handle[h].status = {}

-----------------------------------------------------------------------------
(* The metadata plane (memory.rs) *)

Exists(s) == meta[s].state # "deleted"
Holds(h) == Exists(StreamOf(h)) /\ meta[StreamOf(h)].epoch = EpochOf(h)

\* The listeners are called with a copy of the metadata after the lock is released.
Notify(m, s) ==
  updates' = updates \union
    {[handle |-> h, start |-> m.start, end |-> m.end, confirmed |-> FALSE] :
       h \in {g \in Handles : StreamOf(g) = s /\ handle[g].listens}}

Committed(s) ==
  [meta[s] EXCEPT !.end = Max({@} \union {r[2] + 1 : r \in {q \in store.acked : StreamOf(q[1]) = s}})]

CommitsAcked(s) ==
  IF Exists(s) /\ Committed(s).end > meta[s].end
  THEN meta' = [meta EXCEPT ![s] = Committed(s)] /\ Notify(Committed(s), s)
  ELSE UNCHANGED <<meta, updates>>

-----------------------------------------------------------------------------
(* Opening *)

\* Mutant of Open: a client that is shutting down still opens streams.
Open_AlsoClosed(t) ==
  /\ At(t, "idle") /\ HasCall(t) /\ Kind(t) = "open"
  /\ Takes(t, IF SnapshotRead(Call(t).h) THEN "insert" ELSE "open")
  /\ UNCHANGED <<plan, meta, updates, store, client, handle, answered>>

\* check_state; a snapshot read does not go to the metadata plane.
Open(t) ==
  /\ At(t, "idle") /\ HasCall(t) /\ Kind(t) = "open"
  /\ IF client.shutdown THEN Returns(t)
     ELSE Takes(t, IF SnapshotRead(Call(t).h) THEN "insert" ELSE "open")
  /\ UNCHANGED <<plan, meta, updates, store, client, handle, answered>>

\* open_stream of the metadata plane.
OpenManager(t) ==
  LET m == meta[StreamOf(H(t))]
      e == EpochOf(H(t))
  IN  /\ At(t, "open")
      /\ IF ~Exists(StreamOf(H(t))) \/ m.epoch > e \/ (m.epoch = e /\ m.state = "opened")
         THEN Returns(t) /\ UNCHANGED meta
         ELSE /\ meta' = [meta EXCEPT ![StreamOf(H(t))].epoch = e, ![StreamOf(H(t))].state = "opened"]
              /\ Notes(t, "insert", m.start, m.end)
      /\ UNCHANGED <<plan, updates, store, client, handle, answered>>

\* The S3Stream, and its place among the opened ones.
OpenInsert(t) ==
  /\ At(t, "insert")
  /\ handle' = [handle EXCEPT ![H(t)] =
       IF SnapshotRead(H(t)) THEN NewHandle(FakeOffset, FakeOffset, TRUE)
       ELSE NewHandle(thread[t].lo, thread[t].hi, FALSE)]
  /\ client' = IF SnapshotRead(H(t)) THEN client
               ELSE [client EXCEPT !.opened[StreamOf(H(t))] = H(t)]
  /\ Returns(t)
  /\ UNCHANGED <<plan, meta, updates, store, answered>>

-----------------------------------------------------------------------------
(* Appending *)

\* The guard of pending_appends comes first.  An append on a snapshot read fails.
AppendBegin(t) ==
  /\ Starts(t, {"append", "submit"})
  /\ IF SnapshotRead(Call(t).h) THEN Returns(t) /\ UNCHANGED handle
     ELSE /\ handle' = [handle EXCEPT ![Call(t).h].appends = @ + 1]
          /\ Takes(t, "check")
  /\ UNCHANGED <<plan, meta, updates, store, client, answered>>

DropAppend(h) == handle' = [handle EXCEPT ![h].appends = @ - 1]

AppendCheck(t) ==
  /\ At(t, "check")
  /\ IF Operable(H(t)) THEN Goes(t, "reserve") /\ UNCHANGED handle
     ELSE Returns(t) /\ DropAppend(H(t))
  /\ UNCHANGED <<plan, meta, updates, store, client, answered>>

\* Under append_lock: the offset and the place in the storage queue.
AdmitAppend(t) ==
  LET r == <<H(t), handle[H(t)].next>>
  IN  /\ At(t, "reserve")
      /\ handle' = [handle EXCEPT ![H(t)].next = @ + 1]
      /\ store' = IF store.down THEN [store EXCEPT !.failed = @ \union {r}]
                  ELSE [store EXCEPT !.queue = Append(@, r)]
      /\ Notes(t, "durable", r[2], 0)
      /\ UNCHANGED <<plan, meta, updates, client, answered>>

\* Mutant of Confirmed: the confirm offset becomes the reserved one.
Confirmed_Next(h, base) == handle[h].next

\* update_confirm_offset.
Confirmed(h, base) == Max({handle[h].confirm, base + 1})

\* complete_append, and the guard goes.
CompleteAppend(t) ==
  LET r == <<H(t), thread[t].lo>>
  IN  /\ At(t, "durable")
      /\ \/ /\ r \in store.acked
            /\ handle' = [handle EXCEPT ![H(t)].confirm = Confirmed(H(t), r[2]),
                                        ![H(t)].appends = @ - 1]
            /\ answered' = answered \union {r}
         \/ /\ r \in store.failed
            /\ handle' = [handle EXCEPT ![H(t)].status = @ \union {"fenced"},
                                        ![H(t)].appends = @ - 1]
            /\ UNCHANGED answered
      /\ Returns(t)
      /\ UNCHANGED <<plan, meta, updates, store, client>>

\* The host drops the future of an append; that of submit_append is detached.
CancelAppend(t) ==
  /\ Fault("cancel") /\ At(t, "durable") /\ Kind(t) = "append"
  /\ DropAppend(H(t))
  /\ Returns(t)
  /\ UNCHANGED <<plan, meta, updates, store, client, answered>>

-----------------------------------------------------------------------------
(* Fetching and trimming *)

FetchBegin(t) ==
  /\ Starts(t, {"fetch"})
  /\ handle' = [handle EXCEPT ![Call(t).h].fetches = @ + 1]
  /\ Takes(t, "confirm")
  /\ UNCHANGED <<plan, meta, updates, store, client, answered>>

FetchEnds(t) ==
  /\ handle' = [handle EXCEPT ![H(t)].fetches = @ - 1]
  /\ Returns(t)

\* The state guard and the first of the two bounds.
FetchConfirm(t) ==
  /\ At(t, "confirm")
  /\ IF Operable(H(t))
     THEN Notes(t, "start", 0, handle[H(t)].confirm) /\ UNCHANGED handle
     ELSE FetchEnds(t)
  /\ UNCHANGED <<plan, meta, updates, store, client, answered>>

FetchStart(t) ==
  /\ At(t, "start")
  /\ IF Call(t).from < handle[H(t)].start \/ Call(t).to > thread[t].hi \/ Call(t).from >= Call(t).to
     THEN FetchEnds(t)
     ELSE Goes(t, "read") /\ UNCHANGED handle
  /\ UNCHANGED <<plan, meta, updates, store, client, answered>>

FetchRead(t) ==
  /\ At(t, "read")
  /\ FetchEnds(t)
  /\ UNCHANGED <<plan, meta, updates, store, client, answered>>

TrimBegin(t) ==
  /\ Starts(t, {"trim"})
  /\ IF SnapshotRead(Call(t).h) THEN Returns(t) ELSE Takes(t, "trim lock")
  /\ UNCHANGED <<plan, meta, updates, store, client, handle, answered>>

\* Under trim_lock from here to the answer of the metadata plane.
TrimStore(t) ==
  /\ At(t, "trim lock") /\ ~handle[H(t)].trimming
  /\ IF Call(t).to < handle[H(t)].start
     THEN Returns(t) /\ UNCHANGED handle
     ELSE /\ handle' = [handle EXCEPT ![H(t)].start = Call(t).to, ![H(t)].trimming = TRUE]
          /\ Goes(t, "trim wait")
  /\ UNCHANGED <<plan, meta, updates, store, client, answered>>

\* Mutant of TrimWait: the fetches are not waited for.
TrimWait_Not(t) ==
  /\ At(t, "trim wait")
  /\ Goes(t, "trim stream")
  /\ UNCHANGED <<plan, meta, updates, store, client, handle, answered>>

TrimWait(t) ==
  /\ At(t, "trim wait") /\ handle[H(t)].fetches = 0
  /\ Goes(t, "trim stream")
  /\ UNCHANGED <<plan, meta, updates, store, client, handle, answered>>

TrimStream(t) ==
  LET s == StreamOf(H(t))
      m == [meta[s] EXCEPT !.start = Max({@, Call(t).to})]
  IN  /\ At(t, "trim stream")
      /\ IF Holds(H(t)) THEN meta' = [meta EXCEPT ![s] = m] /\ Notify(m, s)
         ELSE UNCHANGED <<meta, updates>>
      /\ handle' = [handle EXCEPT ![H(t)].trimming = FALSE]
      /\ Returns(t)
      /\ UNCHANGED <<plan, store, client, answered>>

-----------------------------------------------------------------------------
(* Closing: close_with, in close, destroy, shutdown and force_close *)

Forces(t) == Kind(t) \in {"force close", "failure"}

CloseBegin(t) ==
  /\ Starts(t, {"close", "destroy"})
  /\ IF Kind(t) = "destroy" /\ SnapshotRead(Call(t).h) THEN Returns(t) ELSE Takes(t, "close")
  /\ UNCHANGED <<plan, meta, updates, store, client, handle, answered>>

\* A snapshot read unregisters its listener and is done.
CloseMark(t) ==
  /\ At(t, "close")
  /\ IF SnapshotRead(H(t))
     THEN handle' = [handle EXCEPT ![H(t)].listens = FALSE] /\ Returns(t)
     ELSE /\ handle' = [handle EXCEPT ![H(t)].status = @ \union {"closed"}]
          /\ Goes(t, IF Forces(t) THEN "close lock" ELSE "close appends")
  /\ client' = IF Forces(t) THEN [client EXCEPT !.forced = @ \union {H(t)}] ELSE client
  /\ UNCHANGED <<plan, meta, updates, store, answered>>

\* Mutant of CloseAppends: the appends under way are not waited for.
CloseAppends_Not(t) ==
  /\ At(t, "close appends")
  /\ Goes(t, "close fetches")
  /\ UNCHANGED <<plan, meta, updates, store, client, handle, answered>>

CloseAppends(t) ==
  /\ At(t, "close appends") /\ handle[H(t)].appends = 0
  /\ Goes(t, "close fetches")
  /\ UNCHANGED <<plan, meta, updates, store, client, handle, answered>>

\* The fetches are waited for during CLOSE_PENDING_TIMEOUT.
CloseFetches(t) ==
  /\ At(t, "close fetches") /\ (handle[H(t)].fetches = 0 \/ Fault("timeout"))
  /\ Goes(t, "close lock")
  /\ UNCHANGED <<plan, meta, updates, store, client, handle, answered>>

\* Thread t goes on with the streams that are still to be closed; after the last
\* one it returns, or halts the node.
Closes(t, streams) ==
  IF streams # <<>>
  THEN [k |-> thread[t].k, pc |-> "close", h |-> Head(streams), lo |-> 0, hi |-> 0,
        todo |-> Tail(streams)]
  ELSE IF Kind(t) = "failure" THEN [thread[t] EXCEPT !.pc = "halt"]
  ELSE Idle(thread[t].k + 1)

\* What follows the close of a handle with result r, as changes to the thread.
AfterClose(t, r) ==
  IF Kind(t) = "destroy" /\ r = "ok" THEN Goes(t, "destroy")
  ELSE thread' = [thread EXCEPT ![t] = Closes(t, @.todo)]

\* force_close takes the stream of a handle it has closed out of the map.
Forgets(t) ==
  client' = IF Forces(t) THEN [client EXCEPT !.opened[StreamOf(H(t))] = NoHandle] ELSE client

\* Under close_result: a second close gets the result of the first.
CloseLock(t) ==
  /\ At(t, "close lock") /\ ~handle[H(t)].closing
  /\ IF handle[H(t)].result = "none"
     THEN /\ handle' = [handle EXCEPT ![H(t)].closing = TRUE]
          /\ Goes(t, "upload") /\ UNCHANGED client
     ELSE AfterClose(t, handle[H(t)].result) /\ Forgets(t) /\ UNCHANGED handle
  /\ UNCHANGED <<plan, meta, updates, store, answered>>

\* Mutant of ClosedWith: after an error close_result stays locked.
ClosedWith_HoldsLock(t, r) ==
  /\ handle' = [handle EXCEPT ![H(t)].closing = (r = "error"), ![H(t)].result = r]
  /\ AfterClose(t, r)
  /\ Forgets(t)

ClosedWith(t, r) ==
  /\ handle' = [handle EXCEPT ![H(t)].closing = FALSE, ![H(t)].result = r]
  /\ AfterClose(t, r)
  /\ Forgets(t)

\* force_upload: what is acknowledged of the stream is committed, or it fails.
CloseUpload(t) ==
  /\ At(t, "upload")
  /\ \/ ~store.down /\ CommitsAcked(StreamOf(H(t))) /\ Goes(t, "close stream") /\ UNCHANGED <<client, handle>>
     \/ store.down /\ ClosedWith(t, "error") /\ UNCHANGED <<meta, updates>>
  /\ UNCHANGED <<plan, store, answered>>

CloseStream(t) ==
  /\ At(t, "close stream")
  /\ IF Holds(H(t))
     THEN meta' = [meta EXCEPT ![StreamOf(H(t))].state = "closed"] /\ ClosedWith(t, "ok")
     ELSE UNCHANGED meta /\ ClosedWith(t, "error")
  /\ UNCHANGED <<plan, updates, store, answered>>

DestroyMark(t) ==
  /\ At(t, "destroy")
  /\ handle' = [handle EXCEPT ![H(t)].status = @ \union {"destroyed"}, ![H(t)].start = handle[H(t)].confirm]
  /\ Goes(t, "delete")
  /\ UNCHANGED <<plan, meta, updates, store, client, answered>>

DeleteStream(t) ==
  /\ At(t, "delete")
  /\ meta' = IF Holds(H(t)) THEN [meta EXCEPT ![StreamOf(H(t))].state = "deleted"] ELSE meta
  /\ Returns(t)
  /\ UNCHANGED <<plan, updates, store, client, handle, answered>>

\* shutdown, force_close, and the failure handlers, which the storage engine
\* calls once its WAL has failed.  "late" are the opens under way at that time.
ShutdownBegin(t) ==
  /\ At(t, "idle") /\ HasCall(t) /\ Kind(t) \in ShutdownKinds
  /\ Kind(t) = "failure" => store.down
  /\ client' = [client EXCEPT !.shutdown = TRUE,
       !.late = @ \union {H(u) : u \in {v \in Threads : thread[v].pc \in {"open", "insert"}}}]
  /\ Goes(t, "collect")
  /\ UNCHANGED <<plan, meta, updates, store, handle, answered>>

\* shutdown drains the map, force_close copies it.
Collect(t) ==
  LET opened == {client.opened[s] : s \in StreamIds} \ {NoHandle}
  IN  /\ At(t, "collect")
      /\ \E todo \in [1..Cardinality(opened) -> opened] :
           Range(todo) = opened /\ thread' = [thread EXCEPT ![t] = Closes(t, todo)]
      /\ client' = IF Forces(t) THEN client
                   ELSE [client EXCEPT !.opened = [s \in StreamIds |-> NoHandle]]
      /\ UNCHANGED <<plan, meta, updates, store, handle, answered>>

\* HaltStorageFailureHandler, the last of the chain.
Halt(t) ==
  /\ At(t, "halt")
  /\ client' = [client EXCEPT !.halted = TRUE]
  /\ Returns(t)
  /\ UNCHANGED <<plan, meta, updates, store, handle, answered>>

-----------------------------------------------------------------------------
(* What runs below the streams *)

\* The storage engine acknowledges in the order of the queue.
Ack ==
  /\ ~client.halted /\ store.queue # <<>>
  /\ store' = [store EXCEPT !.queue = Tail(@), !.acked = @ \union {Head(store.queue)}]
  /\ UNCHANGED <<plan, meta, updates, client, handle, thread, answered>>

\* Its WAL is fenced or closed: what is queued fails, and what will be.
StoreFails ==
  /\ ~client.halted /\ Fault("wal") /\ ~store.down
  /\ store' = [store EXCEPT !.queue = <<>>, !.failed = @ \union Range(store.queue), !.down = TRUE]
  /\ UNCHANGED <<plan, meta, updates, client, handle, thread, answered>>

\* A background upload commits what is acknowledged.
Upload(s) ==
  /\ ~client.halted /\ ~store.down /\ Exists(s) /\ Committed(s).end > meta[s].end
  /\ CommitsAcked(s)
  /\ UNCHANGED <<plan, store, client, handle, thread, answered>>

\* Another node opens the stream with the next epoch.
Fence(s) ==
  /\ Fault("fence") /\ meta[s].state = "opened" /\ meta[s].epoch = 1
  /\ meta' = [meta EXCEPT ![s].epoch = 2]
  /\ UNCHANGED <<plan, updates, store, client, handle, thread, answered>>

\* update_snapshot_read_confirm_offset under its lock; next follows.
NoticeConfirm(n) ==
  /\ ~client.halted /\ ~n.confirmed
  /\ LET c == Max({handle[n.handle].confirm, n.end})
     IN  handle' = [handle EXCEPT ![n.handle].confirm = c, ![n.handle].next = c]
  /\ updates' = (updates \ {n}) \union {[n EXCEPT !.confirmed = TRUE]}
  /\ UNCHANGED <<plan, meta, store, client, thread, answered>>

NoticeStart(n) ==
  /\ ~client.halted /\ n.confirmed
  /\ handle' = [handle EXCEPT ![n.handle].start = n.start]
  /\ updates' = updates \ {n}
  /\ UNCHANGED <<plan, meta, store, client, thread, answered>>

ThreadStep(t) ==
  \/ Open(t) \/ OpenManager(t) \/ OpenInsert(t)
  \/ AppendBegin(t) \/ AppendCheck(t) \/ AdmitAppend(t) \/ CompleteAppend(t) \/ CancelAppend(t)
  \/ FetchBegin(t) \/ FetchConfirm(t) \/ FetchStart(t) \/ FetchRead(t)
  \/ TrimBegin(t) \/ TrimStore(t) \/ TrimWait(t) \/ TrimStream(t)
  \/ CloseBegin(t) \/ CloseMark(t) \/ CloseAppends(t) \/ CloseFetches(t)
  \/ CloseLock(t) \/ CloseUpload(t) \/ CloseStream(t)
  \/ DestroyMark(t) \/ DeleteStream(t)
  \/ ShutdownBegin(t) \/ Collect(t) \/ Halt(t)

ClientNext ==
  \/ \E t \in Threads : ThreadStep(t)
  \/ Ack \/ StoreFails
  \/ \E s \in StreamIds : Upload(s) \/ Fence(s)
  \/ \E n \in updates : NoticeConfirm(n) \/ NoticeStart(n)

ClientSpec == ClientInit /\ [][ClientNext]_clientVars

\* The runtime polls every task that can go on, the storage engine answers, and
\* a fetch comes to its end.
FairSpec == ClientSpec /\ WF_clientVars(Ack) /\ \A t \in Threads : WF_clientVars(ThreadStep(t))

-----------------------------------------------------------------------------
(* Properties *)

Pcs == {"idle", "open", "insert", "check", "reserve", "durable", "confirm", "start", "read",
        "trim lock", "trim wait", "trim stream", "close", "close appends", "close fetches",
        "close lock", "upload", "close stream", "destroy", "delete", "collect", "halt"}

HandleType ==
  [exists : BOOLEAN, start : Int, next : Int, confirm : Int,
   status : SUBSET {"closed", "fenced", "destroyed"}, appends : Int, fetches : Int,
   trimming : BOOLEAN, closing : BOOLEAN, result : {"none", "ok", "error"}, listens : BOOLEAN]

ThreadType ==
  [k : Nat, pc : Pcs, h : Handles \union {NoHandle}, lo : Int, hi : Int, todo : Seq(Handles)]

StoreType ==
  [queue : Seq(Handles \X Int), acked : SUBSET (Handles \X Int), failed : SUBSET (Handles \X Int),
   down : BOOLEAN]

ClientType ==
  [shutdown : BOOLEAN, opened : [StreamIds -> Handles \union {NoHandle}],
   forced : SUBSET Handles, late : SUBSET Handles, halted : BOOLEAN]

MetaType == [state : {"closed", "opened", "deleted"}, epoch : Nat, start : Nat, end : Nat]

\* Type correctness of the streams, the handles and the calls under way.
ClientTypeOK ==
  /\ plan \in ClientPlans
  /\ meta \in [StreamIds -> MetaType]
  /\ updates \subseteq [handle : Handles, start : Nat, end : Nat, confirmed : BOOLEAN]
  /\ store \in StoreType
  /\ client \in ClientType
  /\ handle \in [Handles -> HandleType]
  /\ thread \in [Threads -> ThreadType]
  /\ answered \subseteq Handles \X Int

\* The confirm offset covers acknowledged records only, and for a snapshot read
\* committed ones only (complete_append, on_new_stream_metadata).
ConfirmIsDurable ==
  \A h \in Handles : handle[h].exists =>
    IF SnapshotRead(h) THEN handle[h].confirm <= meta[StreamOf(h)].end
    ELSE \A r \in Range(store.queue) \union store.failed : r[1] = h => r[2] >= handle[h].confirm

\* The other S3Streams that the client has had of the stream of h.
Others(h) ==
  {g \in Handles \ {h} : handle[g].exists /\ ~SnapshotRead(g) /\ StreamOf(g) = StreamOf(h)}

\* No fetch reads below the start offset of the metadata plane: trim_stream runs
\* only when the fetches that saw the old start offset have ended.  (A fetch of a
\* stream that was opened again, by another node or in the same epoch, is not
\* protected from the trims of its new owner.)
FetchesAreNotTrimmed ==
  \A t \in Threads :
    (/\ thread[t].pc = "read" /\ Holds(H(t)) /\ ~SnapshotRead(H(t))
     /\ \A g \in Others(H(t)) : EpochOf(g) # EpochOf(H(t)))
      => Call(t).from >= meta[StreamOf(H(t))].start

\* "Flush + close": what an append of a handle was told to be durable is
\* committed once a close of the handle has succeeded without force.
ClosedKeepsAnswered ==
  \A r \in answered :
    (handle[r[1]].result = "ok" /\ r[1] \notin client.forced)
      => r[2] < meta[StreamOf(r[1])].end

\* The streams that thread t, which shuts the client down, is still to close.
ClosesOf(t) ==
  IF thread[t].pc \in {"idle", "collect", "halt"} \/ Kind(t) \notin ShutdownKinds THEN {}
  ELSE {H(t)} \union Range(thread[t].todo)

\* A client that has shut down, or a node that has halted, has closed every stream
\* it opened, but for those whose open was under way at the shutdown, those
\* whose place in the map another open of the stream took, and those another
\* shutdown, which found the map first, is still to close.
ShutdownClosesAll ==
  (\E t \in Threads : \E k \in 1..(thread[t].k - 1) : plan.programs[t][k].kind \in ShutdownKinds)
    => \A h \in Handles : (handle[h].exists /\ ~SnapshotRead(h)) =>
         \/ handle[h].result # "none" \/ h \in client.late \/ Others(h) # {}
         \/ \E t \in Threads : h \in ClosesOf(t)

\* Every call returns, unless the node halts.
CallsReturn == <>[](client.halted \/ \A t \in Threads : thread[t].pc = "idle")
=============================================================================

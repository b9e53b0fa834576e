------------------------ MODULE StreamClientEffects ------------------------
(***************************************************************************)
(* The vocabulary of the proofs about StreamClient: what the state of a     *)
(* thread says about its call, and what each step does to the fields of the *)
(* handles, the threads, the streams and the client.                        *)
(***************************************************************************)
EXTENDS StreamClient

OpenPcs == {"open", "insert"}
AppendPcs == {"check", "reserve", "durable"}
FetchPcs == {"confirm", "start", "read"}
TrimPcs == {"trim lock", "trim wait", "trim stream"}
MarkedPcs == {"close appends", "close fetches", "close lock", "upload", "close stream",
              "destroy", "delete"}
ClosePcs == {"close"} \union MarkedPcs
Owned(h) == h \in Handles /\ handle[h].exists /\ ~SnapshotRead(h)

\* What the thread t is at fits its call, and the handle it works on.
CallFits(t) ==
  /\ thread[t].k >= 1
  /\ thread[t].pc # "idle" => HasCall(t)
  /\ thread[t].pc \in OpenPcs => Kind(t) = "open" /\ H(t) = Call(t).h /\ ~handle[H(t)].exists
  /\ thread[t].pc = "open" => ~SnapshotRead(H(t))
  /\ thread[t].pc \in AppendPcs => Kind(t) \in {"append", "submit"} /\ Owned(H(t))
  /\ thread[t].pc \in FetchPcs => Kind(t) = "fetch" /\ H(t) \in Handles /\ handle[H(t)].exists
  /\ thread[t].pc \in TrimPcs => Kind(t) = "trim" /\ Owned(H(t))
  /\ thread[t].pc \in MarkedPcs => Owned(H(t))
  /\ thread[t].pc \in {"destroy", "delete"} => Kind(t) = "destroy"
  /\ thread[t].pc = "close" =>
       /\ H(t) \in Handles /\ handle[H(t)].exists
       /\ Kind(t) \in ShutdownKinds => ~SnapshotRead(H(t))
  /\ thread[t].pc \in {"collect", "halt"} => Kind(t) \in ShutdownKinds
  /\ thread[t].pc \in ClosePcs => Kind(t) \in {"close", "destroy"} \union ShutdownKinds
  /\ \A h \in Range(thread[t].todo) : Owned(h)

\* A handle that exists has been opened, by the one call that opens it.
OpenedBefore ==
  \A t \in Threads : \A i \in DOMAIN plan.programs[t] :
    (plan.programs[t][i].kind = "open" /\ handle[plan.programs[t][i].h].exists) => i < thread[t].k

\* The map of the opened streams has handles of their streams.
MapInv ==
  \A s \in StreamIds : client.opened[s] # NoHandle => Owned(client.opened[s]) /\ StreamOf(client.opened[s]) = s

\* Only snapshot reads listen, and get updates.
ListenInv ==
  /\ \A h \in Handles : handle[h].listens => SnapshotRead(h)
  /\ \A n \in updates : SnapshotRead(n.handle)

CallInv == (\A t \in Threads : CallFits(t)) /\ OpenedBefore /\ MapInv /\ ListenInv

\* The acknowledged records of a stream, and what it has committed, have a greatest end.
EndsOf(s) == {meta[s].end} \union {r[2] + 1 : r \in {q \in store.acked : StreamOf(q[1]) = s}}
EndInv == \A s \in StreamIds : \E m \in EndsOf(s) : \A e \in EndsOf(s) : m >= e

\* The map of the opened streams has finitely many handles.
FiniteOpened == Cardinality({client.opened[s] : s \in StreamIds} \ {NoHandle}) \in Nat

-----------------------------------------------------------------------------
(* What the steps do, field by field *)

\* Only the fields F of handle h, or of thread t, may change.
HandleBut(h, F) ==
  \A g \in Handles :
    \A f \in {"exists", "start", "next", "confirm", "status", "appends", "fetches", "trimming", "closing",
              "result", "listens"} :
      (g # h \/ f \notin F) => handle'[g][f] = handle[g][f]

ThreadBut(t, F) ==
  \A u \in Threads : \A f \in {"k", "pc", "h", "lo", "hi", "todo"} :
    (u # t \/ f \notin F) => thread'[u][f] = thread[u][f]

\* Thread t goes on at pc, or returns.
Went(t, pc, F) == ThreadBut(t, {"pc"} \union F) /\ thread'[t].pc = pc
Returned(t) ==
  /\ ThreadBut(t, {"k", "pc", "h", "lo", "hi", "todo"})
  /\ thread'[t].k = thread[t].k + 1 /\ thread'[t].pc = "idle" /\ thread'[t].h = NoHandle
  /\ thread'[t].todo = <<>>

ClosesWent(t, s) ==
  \/ /\ s # <<>> /\ Went(t, "close", {"h", "lo", "hi", "todo"})
     /\ thread'[t].h = Head(s) /\ thread'[t].todo = Tail(s)
  \/ s = <<>> /\ Kind(t) = "failure" /\ Went(t, "halt", {})
  \/ s = <<>> /\ Kind(t) # "failure" /\ Returned(t)

-----------------------------------------------------------------------------
(* The effect of every step, field by field *)

UpdateType == [handle : Handles, start : Nat, end : Nat, confirmed : BOOLEAN]

MetaBut(s, F) ==
  \A r \in StreamIds : \A f \in {"state", "epoch", "start", "end"} :
    (r # s \/ f \notin F) => meta'[r][f] = meta[r][f]

ClientBut(F) ==
  \A f \in {"shutdown", "opened", "forced", "late", "halted"} : f \notin F => client'[f] = client[f]

\* Thread t starts a call on an S3Stream.
Took(t, pc) == Went(t, pc, {"h"}) /\ thread'[t].h = Call(t).h
Started(t, kinds) ==
  thread[t].pc = "idle" /\ HasCall(t) /\ Kind(t) \in kinds /\ handle[Call(t).h].exists

OpenDone(t) ==
  /\ thread[t].pc = "idle" /\ HasCall(t) /\ Kind(t) = "open"
  /\ \/ Returned(t)
     \/ ~client.shutdown /\ Took(t, IF SnapshotRead(Call(t).h) THEN "insert" ELSE "open")
  /\ UNCHANGED <<meta, updates, store, client, handle, answered>>

OpenManagerDone(t) ==
  LET s == StreamOf(H(t))
  IN  /\ thread[t].pc = "open"
      /\ \/ Returned(t) /\ meta' = meta
         \/ /\ Went(t, "insert", {"lo", "hi"})
            /\ thread'[t].lo = meta[s].start /\ thread'[t].hi = meta[s].end
            /\ Exists(s) /\ meta[s].epoch <= EpochOf(H(t))
            /\ meta'[s].epoch = EpochOf(H(t)) /\ meta'[s].state = "opened" /\ MetaBut(s, {"epoch", "state"})
      /\ UNCHANGED <<updates, store, client, handle, answered>>

OpenInsertDone(t) ==
  /\ thread[t].pc = "insert" /\ Returned(t)
  /\ HandleBut(H(t), {"exists", "start", "next", "confirm", "status", "appends", "fetches",
                      "trimming", "closing", "result", "listens"})
  /\ handle'[H(t)] = IF SnapshotRead(H(t)) THEN NewHandle(FakeOffset, FakeOffset, TRUE)
                     ELSE NewHandle(thread[t].lo, thread[t].hi, FALSE)
  /\ \/ SnapshotRead(H(t)) /\ client' = client
     \/ /\ ~SnapshotRead(H(t)) /\ ClientBut({"opened"})
        /\ client'.opened = [client.opened EXCEPT ![StreamOf(H(t))] = H(t)]
  /\ UNCHANGED <<meta, updates, store, answered>>

AppendBeginDone(t) ==
  /\ Started(t, {"append", "submit"})
  /\ \/ SnapshotRead(Call(t).h) /\ Returned(t) /\ handle' = handle
     \/ /\ ~SnapshotRead(Call(t).h) /\ Took(t, "check") /\ HandleBut(Call(t).h, {"appends"})
        /\ handle'[Call(t).h].appends = handle[Call(t).h].appends + 1
  /\ UNCHANGED <<meta, updates, store, client, answered>>

Dropped(t) ==
  HandleBut(H(t), {"appends"}) /\ handle'[H(t)].appends = handle[H(t)].appends - 1 /\ Returned(t)

AppendCheckDone(t) ==
  /\ thread[t].pc = "check"
  /\ \/ handle[H(t)].status = {} /\ Went(t, "reserve", {}) /\ handle' = handle
     \/ Dropped(t)
  /\ UNCHANGED <<meta, updates, store, client, answered>>

AdmitAppendDone(t) ==
  LET r == <<H(t), handle[H(t)].next>>
  IN  /\ thread[t].pc = "reserve"
      /\ HandleBut(H(t), {"next"}) /\ handle'[H(t)].next = handle[H(t)].next + 1
      /\ Went(t, "durable", {"lo", "hi"}) /\ thread'[t].lo = handle[H(t)].next
      /\ store'.acked = store.acked /\ store'.down = store.down
      /\ store'.queue = IF store.down THEN store.queue ELSE Append(store.queue, r)
      /\ store'.failed = IF store.down THEN store.failed \union {r} ELSE store.failed
      /\ UNCHANGED <<meta, updates, client, answered>>

CompleteAppendDone(t) ==
  LET r == <<H(t), thread[t].lo>>
  IN  /\ thread[t].pc = "durable" /\ Returned(t)
      /\ \/ /\ r \in store.acked /\ HandleBut(H(t), {"confirm", "appends"})
            /\ handle'[H(t)].confirm = IF handle[H(t)].confirm >= thread[t].lo + 1
                                       THEN handle[H(t)].confirm ELSE thread[t].lo + 1
            /\ answered' = answered \union {r}
         \/ /\ HandleBut(H(t), {"status", "appends"})
            /\ handle'[H(t)].status = handle[H(t)].status \union {"fenced"}
            /\ answered' = answered
      /\ handle'[H(t)].appends = handle[H(t)].appends - 1
      /\ UNCHANGED <<meta, updates, store, client>>

CancelAppendDone(t) ==
  /\ thread[t].pc = "durable" /\ Dropped(t)
  /\ UNCHANGED <<meta, updates, store, client, answered>>

FetchBeginDone(t) ==
  /\ Started(t, {"fetch"}) /\ Took(t, "confirm") /\ HandleBut(Call(t).h, {"fetches"})
  /\ handle'[Call(t).h].fetches = handle[Call(t).h].fetches + 1
  /\ UNCHANGED <<meta, updates, store, client, answered>>

Fetched(t) ==
  HandleBut(H(t), {"fetches"}) /\ handle'[H(t)].fetches = handle[H(t)].fetches - 1 /\ Returned(t)

FetchConfirmDone(t) ==
  /\ thread[t].pc = "confirm"
  /\ \/ /\ handle[H(t)].status = {} /\ handle' = handle
        /\ Went(t, "start", {"lo", "hi"}) /\ thread'[t].hi = handle[H(t)].confirm
     \/ Fetched(t)
  /\ UNCHANGED <<meta, updates, store, client, answered>>

FetchStartDone(t) ==
  /\ thread[t].pc = "start"
  /\ \/ /\ Call(t).from >= handle[H(t)].start /\ Call(t).to <= thread[t].hi /\ Call(t).from < Call(t).to
        /\ Went(t, "read", {}) /\ handle' = handle
     \/ Fetched(t)
  /\ UNCHANGED <<meta, updates, store, client, answered>>

FetchReadDone(t) ==
  thread[t].pc = "read" /\ Fetched(t) /\ UNCHANGED <<meta, updates, store, client, answered>>

TrimBeginDone(t) ==
  /\ Started(t, {"trim"})
  /\ \/ Returned(t)
     \/ ~SnapshotRead(Call(t).h) /\ Took(t, "trim lock")
  /\ UNCHANGED <<meta, updates, store, client, handle, answered>>

TrimStoreDone(t) ==
  /\ thread[t].pc = "trim lock"
  /\ \/ Returned(t) /\ handle' = handle
     \/ /\ Call(t).to >= handle[H(t)].start /\ Went(t, "trim wait", {})
        /\ HandleBut(H(t), {"start", "trimming"}) /\ handle'[H(t)].start = Call(t).to
  /\ UNCHANGED <<meta, updates, store, client, answered>>

TrimWaitDone(t) ==
  /\ thread[t].pc = "trim wait" /\ handle[H(t)].fetches = 0 /\ Went(t, "trim stream", {})
  /\ UNCHANGED <<meta, updates, store, client, handle, answered>>

\* The updates that the listeners of stream s get when its end offset is e.
Notified(s, e) ==
  \A n \in updates' :
    \/ n \in updates
    \/ /\ n.handle \in Handles /\ handle[n.handle].listens /\ StreamOf(n.handle) = s
       /\ n.end = e

TrimStreamDone(t) ==
  LET s == StreamOf(H(t))
  IN  /\ thread[t].pc = "trim stream" /\ Returned(t) /\ HandleBut(H(t), {"trimming"})
      /\ \/ meta' = meta /\ updates' = updates
         \/ /\ Holds(H(t)) /\ MetaBut(s, {"start"}) /\ Notified(s, meta[s].end)
            /\ meta'[s].start = IF meta[s].start >= Call(t).to THEN meta[s].start ELSE Call(t).to
      /\ UNCHANGED <<store, client, answered>>

CloseBeginDone(t) ==
  /\ Started(t, {"close", "destroy"})
  /\ \/ Returned(t)
     \/ Took(t, "close")
  /\ UNCHANGED <<meta, updates, store, client, handle, answered>>

CloseMarkDone(t) ==
  /\ thread[t].pc = "close"
  /\ \/ SnapshotRead(H(t)) /\ Returned(t) /\ HandleBut(H(t), {"listens"}) /\ ~handle'[H(t)].listens
     \/ /\ ~SnapshotRead(H(t)) /\ Went(t, IF Forces(t) THEN "close lock" ELSE "close appends", {})
        /\ HandleBut(H(t), {"status"}) /\ handle'[H(t)].status = handle[H(t)].status \union {"closed"}
  /\ ClientBut({"forced"})
  /\ client'.forced = IF Forces(t) THEN client.forced \union {H(t)} ELSE client.forced
  /\ UNCHANGED <<meta, updates, store, answered>>

CloseAppendsDone(t) ==
  /\ thread[t].pc = "close appends" /\ handle[H(t)].appends = 0 /\ Went(t, "close fetches", {})
  /\ UNCHANGED <<meta, updates, store, client, handle, answered>>

CloseFetchesDone(t) ==
  /\ thread[t].pc = "close fetches" /\ Went(t, "close lock", {})
  /\ UNCHANGED <<meta, updates, store, client, handle, answered>>

\* Thread t is through with its handle, the close of which had result r.
Closed(t, r) ==
  /\ \/ Kind(t) = "destroy" /\ r = "ok" /\ Went(t, "destroy", {})
     \/ ~(Kind(t) = "destroy" /\ r = "ok") /\ ClosesWent(t, thread[t].todo)
  /\ ClientBut({"opened"})
  /\ client'.opened = IF Forces(t) THEN [client.opened EXCEPT ![StreamOf(H(t))] = NoHandle]
                      ELSE client.opened

CloseLockDone(t) ==
  /\ thread[t].pc = "close lock"
  /\ \/ HandleBut(H(t), {"closing"}) /\ Went(t, "upload", {}) /\ client' = client
     \/ handle[H(t)].result # "none" /\ handle' = handle /\ Closed(t, handle[H(t)].result)
  /\ UNCHANGED <<meta, updates, store, answered>>

\* The records of stream s that are acknowledged are committed.
CommittedAll(s) ==
  /\ MetaBut(s, {"end"}) /\ meta'[s].end \in EndsOf(s)
  /\ Exists(s) => \A e \in EndsOf(s) : meta'[s].end >= e
  /\ meta'[s].end >= meta[s].end
  /\ Notified(s, meta'[s].end)

ResultSet(t, r) ==
  HandleBut(H(t), {"closing", "result"}) /\ handle'[H(t)].result = r /\ Closed(t, r)

CloseUploadDone(t) ==
  /\ thread[t].pc = "upload"
  /\ \/ CommittedAll(StreamOf(H(t))) /\ Went(t, "close stream", {}) /\ client' = client /\ handle' = handle
     \/ ResultSet(t, "error") /\ meta' = meta /\ updates' = updates
  /\ UNCHANGED <<store, answered>>

CloseStreamDone(t) ==
  /\ thread[t].pc = "close stream"
  /\ \/ Holds(H(t)) /\ ResultSet(t, "ok") /\ MetaBut(StreamOf(H(t)), {"state"})
        /\ meta'[StreamOf(H(t))].state = "closed"
     \/ ResultSet(t, "error") /\ meta' = meta
  /\ UNCHANGED <<updates, store, answered>>

DestroyMarkDone(t) ==
  /\ thread[t].pc = "destroy" /\ Went(t, "delete", {})
  /\ HandleBut(H(t), {"status", "start"}) /\ handle'[H(t)].start = handle[H(t)].confirm
  /\ handle'[H(t)].status = handle[H(t)].status \union {"destroyed"}
  /\ UNCHANGED <<meta, updates, store, client, answered>>

DeleteStreamDone(t) ==
  /\ thread[t].pc = "delete" /\ Returned(t)
  /\ \/ meta' = meta
     \/ MetaBut(StreamOf(H(t)), {"state"}) /\ meta'[StreamOf(H(t))].state = "deleted"
  /\ UNCHANGED <<updates, store, client, handle, answered>>

ShutdownBeginDone(t) ==
  /\ thread[t].pc = "idle" /\ HasCall(t) /\ Kind(t) \in ShutdownKinds /\ Went(t, "collect", {})
  /\ ClientBut({"shutdown", "late"}) /\ client'.shutdown = TRUE
  /\ client'.late = client.late \union {H(u) : u \in {v \in Threads : thread[v].pc \in OpenPcs}}
  /\ UNCHANGED <<meta, updates, store, handle, answered>>

CollectDone(t) ==
  /\ thread[t].pc = "collect"
  /\ \E todo \in Seq(Handles) :
       /\ ClosesWent(t, todo) /\ \A h \in Range(todo) : \E s \in StreamIds : h = client.opened[s]
       /\ \A s \in StreamIds : client.opened[s] # NoHandle => client.opened[s] \in Range(todo)
  /\ \/ client' = client
     \/ ClientBut({"opened"}) /\ client'.opened = [s \in StreamIds |-> NoHandle]
  /\ UNCHANGED <<meta, updates, store, handle, answered>>

HaltDone(t) ==
  /\ thread[t].pc = "halt" /\ Returned(t) /\ ClientBut({"halted"})
  /\ UNCHANGED <<meta, updates, store, handle, answered>>

AckDone ==
  /\ store.queue # <<>> /\ store'.queue = Tail(store.queue) /\ store'.failed = store.failed
  /\ store'.acked = store.acked \union {Head(store.queue)} /\ store'.down = store.down
  /\ UNCHANGED <<meta, updates, client, handle, thread, answered>>

StoreFailsDone ==
  /\ store'.queue = <<>> /\ store'.failed = store.failed \union Range(store.queue)
  /\ store'.acked = store.acked /\ store'.down = TRUE
  /\ UNCHANGED <<meta, updates, client, handle, thread, answered>>

UploadDone(s) ==
  CommittedAll(s) /\ UNCHANGED <<store, client, handle, thread, answered>>

FenceDone(s) ==
  /\ MetaBut(s, {"epoch"}) /\ meta'[s].epoch >= meta[s].epoch
  /\ UNCHANGED <<updates, store, client, handle, thread, answered>>

NoticeDone(n) ==
  /\ \/ HandleBut(n.handle, {"start"})
     \/ /\ HandleBut(n.handle, {"confirm", "next"})
        /\ handle'[n.handle].confirm = IF handle[n.handle].confirm >= n.end
                                       THEN handle[n.handle].confirm ELSE n.end
  /\ \A m \in updates' : m \in updates \/ (m.handle = n.handle /\ m.end = n.end)
  /\ UNCHANGED <<meta, store, client, thread, answered>>

ThreadDone(t) ==
  \/ OpenDone(t) \/ OpenManagerDone(t) \/ OpenInsertDone(t)
  \/ AppendBeginDone(t) \/ AppendCheckDone(t) \/ AdmitAppendDone(t) \/ CompleteAppendDone(t)
  \/ CancelAppendDone(t)
  \/ FetchBeginDone(t) \/ FetchConfirmDone(t) \/ FetchStartDone(t) \/ FetchReadDone(t)
  \/ TrimBeginDone(t) \/ TrimStoreDone(t) \/ TrimWaitDone(t) \/ TrimStreamDone(t)
  \/ CloseBeginDone(t) \/ CloseMarkDone(t) \/ CloseAppendsDone(t) \/ CloseFetchesDone(t)
  \/ CloseLockDone(t) \/ CloseUploadDone(t) \/ CloseStreamDone(t)
  \/ DestroyMarkDone(t) \/ DeleteStreamDone(t)
  \/ ShutdownBeginDone(t) \/ CollectDone(t) \/ HaltDone(t)

ClientDone ==
  \/ \E t \in Threads : ThreadDone(t)
  \/ AckDone \/ StoreFailsDone
  \/ \E s \in StreamIds : UploadDone(s) \/ FenceDone(s)
  \/ \E n \in updates : NoticeDone(n)
  \/ UNCHANGED clientVars
=============================================================================

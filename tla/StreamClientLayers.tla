------------------------- MODULE StreamClientLayers -------------------------
(***************************************************************************)
(* The layers of the inductive invariant of StreamClient above that of the  *)
(* calls: the queue and the confirm offsets, and shutdown.  Each is kept by  *)
(* every step, given the layers before it.                                  *)
(***************************************************************************)
EXTENDS StreamClientCalls


-----------------------------------------------------------------------------
(* Acknowledged and confirmed offsets *)

\* The records not acknowledged, and all that were admitted.
Pending == Range(store.queue) \union store.failed
Admitted == Pending \union store.acked

\* The queue has the records of a handle in order, behind those acknowledged and
\* below the next offset; it ends when the store goes down.
QueueInv ==
  /\ \A i, j \in DOMAIN store.queue :
       (i < j /\ store.queue[i][1] = store.queue[j][1]) => store.queue[i][2] < store.queue[j][2]
  /\ \A r \in Pending : \A a \in store.acked : a[1] = r[1] => a[2] < r[2]
  /\ \A r \in Admitted : Owned(r[1]) /\ r[2] < handle[r[1]].next
  /\ IF store.down THEN store.queue = <<>> ELSE store.failed = {}

\* The confirm offset is below what is pending and not above the next offset; what
\* a snapshot read knows, or is about to be told, is committed.
ConfirmInv ==
  /\ \A h \in Handles : ~SnapshotRead(h) => handle[h].confirm <= handle[h].next
  /\ \A r \in Pending : r[2] >= handle[r[1]].confirm
  /\ \A n \in updates : n.end <= meta[StreamOf(n.handle)].end
  /\ \A h \in Handles : SnapshotRead(h) => handle[h].confirm <= meta[StreamOf(h)].end


\* The ends of a stream keep a greatest one.
LEMMA EndKept ==
  ASSUME ClientTypeOK, ClientTypeOK', CallInv, EndInv, plan' = plan, ClientDone
  PROVE  EndInv'
<1>1. \A s \in StreamIds : \A e \in EndsOf(s) : e \in Int
  BY DEF ClientTypeOK, StoreType, MetaType, EndsOf
<1>2. \A h \in Handles : StreamOf(h)' = StreamOf(h)  BY Zenon DEF StreamOf
<1>3. ASSUME EndsKept, store'.acked = store.acked PROVE EndInv'
  <2>1. CASE \A s \in StreamIds : meta'[s].end = meta[s].end
    <3>1. \A s \in StreamIds : EndsOf(s)' = EndsOf(s)
      BY <1>3, <2>1, Zenon DEF EndsOf, StreamOf
    <3>. QED  BY <3>1, Zenon DEF EndInv
  <2>2. ASSUME NEW s \in StreamIds, CommittedAll(s) PROVE EndInv'
    <3>1. \A r \in StreamIds : r # s => EndsOf(r)' = EndsOf(r)
      BY <1>3, <2>2, Zenon DEF EndsOf, StreamOf, CommittedAll, MetaBut
    <3>2. PICK m \in EndsOf(s) : \A e \in EndsOf(s) : m >= e  BY Zenon DEF EndInv
    <3>3. meta'[s].end \in EndsOf(s) /\ meta'[s].end >= meta[s].end  BY <2>2, Zenon DEF CommittedAll
    <3>4. \A e \in EndsOf(s)' : e \in EndsOf(s)
      BY <1>3, <3>3, Zenon DEF EndsOf, StreamOf
    <3>5. m \in EndsOf(s)'
      <4>1. CASE m = meta[s].end
        <5>1. m >= meta'[s].end  BY <3>2, <3>3, Zenon
        <5>2. m \in Int /\ meta'[s].end \in Int  BY <1>1, <3>2, <3>3, Zenon
        <5>3. m = meta'[s].end  BY <3>3, <4>1, <5>1, <5>2
        <5>. QED  BY <5>3, Zenon DEF EndsOf
      <4>2. CASE m # meta[s].end
        BY <1>3, <3>2, <4>2, Zenon DEF EndsOf, StreamOf
      <4>. QED  BY <4>1, <4>2, Zenon
    <3>. QED  BY <3>1, <3>2, <3>4, <3>5, Zenon DEF EndInv
  <2>. QED  BY <1>3, <2>1, <2>2, Zenon DEF EndsKept
<1>4. ASSUME AckDone PROVE EndInv'
  <2>1. SUFFICES ASSUME NEW s \in StreamIds PROVE \E m \in EndsOf(s)' : \A e \in EndsOf(s)' : m >= e
    BY Zenon DEF EndInv
  <2>2. PICK a : a = Head(store.queue)  BY Zenon
  <2>3. meta' = meta /\ store'.acked = store.acked \union {a} /\ a \in Handles \X Int
    BY <1>4, <2>2, Zenon DEF AckDone, ClientTypeOK, StoreType
  <2>4. PICK m \in EndsOf(s) : \A e \in EndsOf(s) : m >= e  BY DEF EndInv
  <2>5. \A e \in EndsOf(s) : e \in EndsOf(s)'  BY <2>3, Zenon DEF EndsOf, StreamOf
  <2>6. \A e \in EndsOf(s)' : e \in EndsOf(s) \/ (e = a[2] + 1 /\ StreamOf(a[1]) = s)
    BY <2>3, Zenon DEF EndsOf, StreamOf
  <2>7. m \in Int /\ a[2] + 1 \in Int  BY <1>1, <2>3
  <2>8. CASE m >= a[2] + 1 \/ StreamOf(a[1]) # s  BY <2>4, <2>5, <2>6, <2>8, Zenon
  <2>9. CASE ~(m >= a[2] + 1) /\ StreamOf(a[1]) = s
    <3>1. a[2] + 1 \in EndsOf(s)'  BY <2>3, <2>9, Zenon DEF EndsOf, StreamOf
    <3>2. ASSUME NEW b \in Int, NEW e \in Int, m >= e, ~(m >= b), m \in Int PROVE b >= e  BY <3>2
    <3>3. \A e \in EndsOf(s) : e \in Int /\ m >= e  BY <1>1, <2>4, Zenon
    <3>4. \A e \in EndsOf(s) : a[2] + 1 >= e  BY <2>7, <2>9, <3>2, <3>3, Zenon
    <3>5. a[2] + 1 >= a[2] + 1  BY <2>7
    <3>. QED  BY <2>6, <3>1, <3>4, <3>5, Zenon
  <2>. QED  BY <2>8, <2>9, Zenon
<1>5. ASSUME NEW t \in Threads, ThreadDone(t) PROVE EndInv'
  <2>1. EndsKept /\ store'.acked = store.acked
    <3>1. CASE Calm /\ store' = store  BY <3>1, Zenon DEF Calm
    <3>2. CASE OpenInsertDone(t) \/ AdmitAppendDone(t) \/ CompleteAppendDone(t)
      BY <3>2, Zenon DEF OpenInsertDone, AdmitAppendDone, CompleteAppendDone, EndsKept
    <3>. QED  BY <1>5, <3>1, <3>2, CalmThread, Zenon
  <2>. QED  BY <1>3, <2>1, Zenon
<1>6. ASSUME StoreFailsDone \/ UNCHANGED clientVars PROVE EndInv'
  BY <1>3, <1>6, Zenon DEF StoreFailsDone, clientVars, EndsKept
<1>7. ASSUME NEW s \in StreamIds, UploadDone(s) \/ FenceDone(s) PROVE EndInv'
  BY <1>3, <1>7, CalmOther, Zenon DEF Calm
<1>8. ASSUME NEW n \in updates, NoticeDone(n) PROVE EndInv'
  BY <1>3, <1>8, Zenon DEF NoticeDone, EndsKept
<1>. QED  BY <1>4, <1>5, <1>6, <1>7, <1>8, Zenon DEF ClientDone


\* No step disturbs the order of the queue.
LEMMA QueueKept ==
  ASSUME ClientTypeOK, ClientTypeOK', CallInv, QueueInv, plan' = plan, ClientDone
  PROVE  QueueInv'
<1>1. /\ store.queue \in Seq(Handles \X Int) /\ store.acked \subseteq Handles \X Int
      /\ store.failed \subseteq Handles \X Int /\ Pending \subseteq Handles \X Int
      /\ Admitted \subseteq Handles \X Int
  BY DEF ClientTypeOK, StoreType, Pending, Admitted, Range
<1>2. ASSUME store' = store, \A h \in Handles : Owned(h) => /\ handle'[h].exists
                                                             /\ handle'[h].next = handle[h].next
      PROVE  QueueInv'
  <2>1. \A h : Owned(h) => Owned(h)'  BY <1>2, Zenon DEF Owned, SnapshotRead, Handles
  <2>2. Pending' = Pending /\ Admitted' = Admitted  BY <1>2, Zenon DEF Pending, Admitted
  <2>3. \A r \in Admitted : r[1] \in Handles /\ Owned(r[1]) /\ r[2] < handle[r[1]].next
    BY <1>1, Zenon DEF QueueInv
  <2>4. ASSUME NEW r \in Admitted, NEW g, g = r[1] PROVE Owned(g)' /\ r[2] < handle'[g].next
    BY <1>2, <2>1, <2>3, <2>4, Zenon
  <2>5. \A r \in Admitted' : (Owned(r[1]) /\ r[2] < handle[r[1]].next)'
    BY <2>2, <2>4, Zenon
  <2>6. Pending' = Pending /\ store' = store  BY <1>2, <2>2, Zenon
  <2>. QED  BY <2>5, <2>6, Zenon DEF QueueInv
<1>3. ASSUME NEW t \in Threads, OpenInsertDone(t) PROVE QueueInv'
  <2>1. ~handle[H(t)].exists  BY <1>3, ThreadFacts, Zenon DEF OpenInsertDone, CallFits, OpenPcs
  <2>2. store' = store  BY <1>3, Zenon DEF OpenInsertDone
  <2>3. \A h \in Handles : Owned(h) => handle'[h].exists /\ handle'[h].next = handle[h].next
    BY <1>3, <2>1, Zenon DEF OpenInsertDone, HandleBut, Owned
  <2>. QED  BY <1>2, <2>2, <2>3, Zenon
<1>4. ASSUME NEW n \in updates, NoticeDone(n) PROVE QueueInv'
  <2>1. SnapshotRead(n.handle)  BY Zenon DEF CallInv, ListenInv
  <2>2. \A h \in Handles : Owned(h) => handle'[h].exists /\ handle'[h].next = handle[h].next
    BY <1>4, <2>1, Zenon DEF NoticeDone, HandleBut, Owned
  <2>. QED  BY <1>2, <1>4, <2>2, Zenon DEF NoticeDone
<1>5. ASSUME NEW t \in Threads, CompleteAppendDone(t) PROVE QueueInv'
  <2>1. \A h \in Handles : Owned(h) => handle'[h].exists /\ handle'[h].next = handle[h].next
    BY <1>5, Zenon DEF CompleteAppendDone, HandleBut, Owned
  <2>. QED  BY <1>2, <1>5, <2>1, Zenon DEF CompleteAppendDone
<1>6. ASSUME Calm, store' = store PROVE QueueInv'
  BY <1>2, <1>6, Zenon DEF Calm, Owned

<1>7. ASSUME NEW t \in Threads, AdmitAppendDone(t) PROVE QueueInv'
  <2>1. PICK g : g = H(t)  BY Zenon
  <2>2. PICK n : n = handle[g].next  BY Zenon
  <2>3. Owned(g) /\ g \in Handles /\ n \in Int
    BY <1>7, <2>1, <2>2, ThreadFacts, StreamFacts, Zenon DEF AdmitAppendDone, CallFits, AppendPcs, Owned
  <2>4. /\ store'.acked = store.acked /\ store'.down = store.down
        /\ store'.queue = IF store.down THEN store.queue ELSE Append(store.queue, <<g, n>>)
        /\ store'.failed = IF store.down THEN store.failed \union {<<g, n>>} ELSE store.failed
    BY <1>7, <2>1, <2>2, Zenon DEF AdmitAppendDone
  <2>5. /\ \A h \in Handles : handle'[h].exists = handle[h].exists
        /\ \A h \in Handles : h # g => handle'[h].next = handle[h].next
        /\ handle'[g].next = n + 1
    BY <1>7, <2>1, <2>2, Zenon DEF AdmitAppendDone, HandleBut
  <2>6. \A h : Owned(h) => Owned(h)'  BY <2>5, Zenon DEF Owned, SnapshotRead, Handles
  <2>7. PICK r : r = <<g, n>>  BY Zenon
  <2>8. r[1] = g /\ r[2] = n  BY <2>7, Zenon
  <2>9. \A q \in Pending' : q \in Pending \/ q = r
    <3>1. CASE store.down  BY <2>4, <2>7, <3>1, Zenon DEF Pending
    <3>2. CASE ~store.down
      <4>1. store'.queue = Append(store.queue, r) /\ store'.failed = store.failed  BY <2>4, <2>7, <3>2, Zenon
      <4>2. \A x \in Range(Append(store.queue, r)) : x \in Range(store.queue) \/ x = r
        BY <1>1, AppendRange, Zenon
      <4>. QED  BY <4>1, <4>2, Zenon DEF Pending
    <3>. QED  BY <3>1, <3>2, Zenon
  <2>10. \A q \in Admitted : q[1] \in Handles /\ q[2] \in Int /\ Owned(q[1]) /\ q[2] < handle[q[1]].next
    BY <1>1, Zenon DEF QueueInv
  <2>11. \A i, j \in DOMAIN store'.queue :
          (i < j /\ store'.queue[i][1] = store'.queue[j][1]) => store'.queue[i][2] < store'.queue[j][2]
    <3>1. CASE store.down  BY <2>4, <3>1, Zenon DEF QueueInv
    <3>2. CASE ~store.down
      <4>1. store'.queue = Append(store.queue, r)  BY <2>4, <2>7, <3>2, Zenon
      <4>2. \A x \in Range(store.queue) : x[1] = g => x[2] < n
        BY <2>2, <2>10, Zenon DEF Admitted, Pending
      <4>3. SUFFICES ASSUME NEW i \in DOMAIN store'.queue, NEW j \in DOMAIN store'.queue, i < j,
                            store'.queue[i][1] = store'.queue[j][1]
                     PROVE  store'.queue[i][2] < store'.queue[j][2]
        BY Zenon
      <4>4. PICK q \in Seq(Handles \X Int) : q = store.queue  BY <1>1, Zenon
      <4>5. \A k, l \in DOMAIN q : (k < l /\ q[k][1] = q[l][1]) => q[k][2] < q[l][2]
        BY <4>4, Zenon DEF QueueInv
      <4>6. i \in DOMAIN q /\ store'.queue[i] = q[i] /\ (j \in DOMAIN q => store'.queue[j] = q[j])
            /\ (j \notin DOMAIN q => store'.queue[j] = r)
        BY <2>3, <2>7, <4>1, <4>3, <4>4
      <4>7. CASE j \in DOMAIN q  BY <4>3, <4>5, <4>6, <4>7, Zenon
      <4>8. CASE j \notin DOMAIN q
        <5>1. q[i] \in Range(store.queue)  BY <4>4, <4>6, ValueInRange, Zenon
        <5>. QED  BY <2>8, <4>2, <4>3, <4>6, <4>8, <5>1, Zenon
      <4>. QED  BY <4>7, <4>8, Zenon
    <3>. QED  BY <3>1, <3>2, Zenon
  <2>12. \A q \in Pending' : \A a \in store'.acked : a[1] = q[1] => a[2] < q[2]
    <3>1. \A a \in store.acked : a[1] = r[1] => a[2] < r[2]  BY <2>2, <2>8, <2>10, Zenon DEF Admitted
    <3>. QED  BY <2>4, <2>9, <3>1, Zenon DEF QueueInv
  <2>13. \A q \in Admitted' : (Owned(q[1]) /\ q[2] < handle[q[1]].next)'
    <3>1. SUFFICES ASSUME NEW q \in Admitted', NEW h, h = q[1] PROVE Owned(h)' /\ q[2] < handle'[h].next
      BY Zenon
    <3>2. q \in Admitted \/ q = r  BY <2>4, <2>9, Zenon DEF Admitted
    <3>3. CASE q = r  BY <2>3, <2>5, <2>6, <2>8, <3>1, <3>3
    <3>4. CASE q \in Admitted
      <4>1. q[2] \in Int /\ Owned(h) /\ h \in Handles /\ q[2] < handle[h].next  BY <2>10, <3>1, <3>4, Zenon
      <4>2. q[2] < handle'[h].next  BY <2>2, <2>3, <2>5, <4>1
      <4>. QED  BY <2>6, <4>1, <4>2, Zenon
    <3>. QED  BY <3>2, <3>3, <3>4, Zenon
  <2>14. IF store'.down THEN store'.queue = <<>> ELSE store'.failed = {}  BY <2>4, Zenon DEF QueueInv
  <2>. QED  BY <2>11, <2>12, <2>13, <2>14, Zenon DEF QueueInv
<1>8. ASSUME AckDone PROVE QueueInv'
  <2>1. PICK q \in Seq(Handles \X Int) : q = store.queue  BY <1>1, Zenon
  <2>2. PICK a : a = Head(q)  BY Zenon
  <2>3. /\ q # <<>> /\ store'.queue = Tail(q) /\ store'.failed = {} /\ store.failed = {}
        /\ store'.acked = store.acked \union {a} /\ store'.down = store.down /\ ~store.down
        /\ handle' = handle
    BY <1>8, <2>1, <2>2, Zenon DEF AckDone, QueueInv
  <2>4. \A k, l \in DOMAIN q : (k < l /\ q[k][1] = q[l][1]) => q[k][2] < q[l][2]  BY <2>1, Zenon DEF QueueInv
  <2>5. \A i \in DOMAIN Tail(q) : i + 1 \in DOMAIN q /\ Tail(q)[i] = q[i + 1] /\ i \in Nat /\ i >= 1
    BY <2>3
  <2>6. 1 \in DOMAIN q /\ a = q[1]  BY <2>2, <2>3
  <2>7. \A i, j \in DOMAIN Tail(q) :
          (i < j /\ Tail(q)[i][1] = Tail(q)[j][1]) => Tail(q)[i][2] < Tail(q)[j][2]
    BY <2>4, <2>5
  <2>8. \A x \in Range(Tail(q)) : x \in Range(q) /\ (x[1] = a[1] => a[2] < x[2])
    <3>1. SUFFICES ASSUME NEW x \in Range(Tail(q)) PROVE x \in Range(q) /\ (x[1] = a[1] => a[2] < x[2])
      BY Zenon
    <3>2. PICK i \in DOMAIN Tail(q) : x = Tail(q)[i]  BY Zenon DEF Range
    <3>3. i + 1 \in DOMAIN q /\ x = q[i + 1] /\ 1 < i + 1  BY <2>5, <3>2
    <3>4. x[1] = a[1] => a[2] < x[2]  BY <2>4, <2>6, <3>3, Zenon
    <3>. QED  BY <2>3, <3>4, TailInRange, Zenon
  <2>9. a \in Range(q)  BY <2>6, ValueInRange, Zenon
  <2>10. \A x \in Pending' : x \in Pending /\ (x[1] = a[1] => a[2] < x[2])
    BY <2>1, <2>3, <2>8, Zenon DEF Pending
  <2>11. \A x \in Pending' : \A b \in store'.acked : b[1] = x[1] => b[2] < x[2]
    BY <2>3, <2>10, Zenon DEF QueueInv
  <2>12. \A x \in Admitted' : x \in Admitted
    BY <2>1, <2>3, <2>9, <2>10, Zenon DEF Admitted, Pending
  <2>13. \A x : (Owned(x) <=> Owned(x)')  BY <2>3, Zenon DEF Owned, SnapshotRead, Handles
  <2>14. \A x \in Admitted' : (Owned(x[1]) /\ x[2] < handle[x[1]].next)'
    BY <2>3, <2>12, <2>13, Zenon DEF QueueInv
  <2>. QED  BY <2>3, <2>7, <2>11, <2>14, Zenon DEF QueueInv
<1>9. ASSUME StoreFailsDone PROVE QueueInv'
  <2>1. /\ store'.queue = <<>> /\ store'.failed = store.failed \union Range(store.queue)
        /\ store'.acked = store.acked /\ store'.down = TRUE /\ handle' = handle
    BY <1>9, Zenon DEF StoreFailsDone
  <2>2. Range(<<>>) = {}  BY DEF Range
  <2>3. Pending' = Pending /\ Admitted' = Admitted  BY <2>1, <2>2, Zenon DEF Pending, Admitted
  <2>4. \A x : (Owned(x) <=> Owned(x)')  BY <2>1, Zenon DEF Owned, SnapshotRead, Handles
  <2>5. \A x \in Admitted' : (Owned(x[1]) /\ x[2] < handle[x[1]].next)'
    BY <2>1, <2>3, <2>4, Zenon DEF QueueInv
  <2>. QED  BY <2>1, <2>3, <2>5 DEF QueueInv
<1>10. ASSUME NEW s \in StreamIds, UploadDone(s) \/ FenceDone(s) PROVE QueueInv'
  BY <1>6, <1>10, CalmOther, Zenon
<1>11. ASSUME UNCHANGED clientVars PROVE QueueInv'
  BY <1>2, <1>11, Zenon DEF clientVars, Owned
<1>12. ASSUME NEW t \in Threads, ThreadDone(t) PROVE QueueInv'
  BY <1>3, <1>5, <1>6, <1>7, <1>12, CalmThread, Zenon
<1>. QED  BY <1>4, <1>8, <1>9, <1>10, <1>11, <1>12, Zenon DEF ClientDone


\* What is confirmed stays below what is pending, or committed.
LEMMA ConfirmKept ==
  ASSUME ClientTypeOK, ClientTypeOK', CallInv, QueueInv, ConfirmInv, plan' = plan, ClientDone
  PROVE  ConfirmInv'
<1>1. Pending \subseteq Handles \X Int /\ store.acked \subseteq Handles \X Int
  BY DEF ClientTypeOK, StoreType, Pending, Range
<1>2. /\ \A h \in Handles : SnapshotRead(h)' = SnapshotRead(h) /\ StreamOf(h)' = StreamOf(h)
      /\ Handles' = Handles
  BY Zenon DEF SnapshotRead, StreamOf, Handles
<1>3. /\ \A s \in StreamIds : meta[s].end \in Int /\ meta'[s].end \in Int
      /\ \A h \in Handles : /\ handle[h].next \in Int /\ handle[h].confirm \in Int
                            /\ handle'[h].next \in Int /\ handle'[h].confirm \in Int
      /\ \A n \in updates' : n.handle \in Handles
  <2>1. \A s \in StreamIds : meta[s].end \in Int /\ meta'[s].end \in Int  BY DEF ClientTypeOK, MetaType
  <2>2. \A h \in Handles : handle[h].next \in Int /\ handle[h].confirm \in Int  BY StreamFacts, Zenon
  <2>3. \A h \in Handles : handle'[h].next \in Int /\ handle'[h].confirm \in Int
    BY <1>2, Zenon DEF ClientTypeOK, HandleType
  <2>4. \A n \in updates' : n.handle \in Handles  BY <1>2, Zenon DEF ClientTypeOK
  <2>. QED  BY <2>1, <2>2, <2>3, <2>4, Zenon
\* The four parts, from what the step does to the handles, the queue and the streams.
<1>4. ASSUME \A h \in Handles : ~SnapshotRead(h) => handle'[h].confirm <= handle'[h].next,
             \A r \in Pending' : r[1] \in Handles /\ r[2] >= handle'[r[1]].confirm,
             \A s \in StreamIds : meta'[s].end >= meta[s].end,
             \A n \in updates' : \/ \E m \in updates : n.handle = m.handle /\ n.end = m.end
                                 \/ n.end <= meta'[StreamOf(n.handle)].end,
             \A h \in Handles : SnapshotRead(h) =>
               handle'[h].confirm <= handle[h].confirm \/ handle'[h].confirm <= meta[StreamOf(h)].end
      PROVE  ConfirmInv'
  <2>1. \A s \in StreamIds : meta[s].end \in Int /\ meta'[s].end \in Int /\ meta'[s].end >= meta[s].end
    BY <1>3, <1>4, Zenon
  <2>2. ASSUME NEW n \in updates' PROVE n.end <= meta'[StreamOf(n.handle)].end
    <3>1. CASE \E m \in updates : n.handle = m.handle /\ n.end = m.end
      <4>1. PICK m \in updates : n.handle = m.handle /\ n.end = m.end  BY <3>1, Zenon
      <4>2. m.end <= meta[StreamOf(m.handle)].end /\ m.end \in Nat /\ StreamOf(m.handle) \in StreamIds
        BY StreamFacts, Zenon DEF ConfirmInv
      <4>3. m.end <= meta'[StreamOf(m.handle)].end  BY <2>1, <4>2
      <4>. QED  BY <4>1, <4>3, Zenon
    <3>. QED  BY <1>4, <2>2, <3>1, Zenon
  <2>3. ASSUME NEW h \in Handles, SnapshotRead(h) PROVE handle'[h].confirm <= meta'[StreamOf(h)].end
    <3>1. handle[h].confirm <= meta[StreamOf(h)].end /\ StreamOf(h) \in StreamIds
      BY <2>3, StreamFacts, Zenon DEF ConfirmInv
    <3>2. handle'[h].confirm <= meta[StreamOf(h)].end  BY <1>3, <1>4, <2>3, <3>1
    <3>. QED  BY <1>3, <2>1, <3>1, <3>2
  <2>. QED  BY <1>2, <1>3, <1>4, <2>2, <2>3, Zenon DEF ConfirmInv
<1>5. ASSUME Calm, store' = store PROVE ConfirmInv'
  <2>1. Pending' = Pending  BY <1>5, Zenon DEF Pending
  <2>2. \A s \in StreamIds : meta'[s].end >= meta[s].end
    <3>1. CASE \A s \in StreamIds : meta'[s].end = meta[s].end  BY <1>3, <3>1
    <3>2. ASSUME NEW r \in StreamIds, CommittedAll(r) PROVE \A s \in StreamIds : meta'[s].end >= meta[s].end
      BY <1>3, <3>2 DEF CommittedAll, MetaBut
    <3>. QED  BY <1>5, <3>1, <3>2, Zenon DEF Calm, EndsKept
  <2>3. \A h \in Handles : handle'[h].confirm = handle[h].confirm /\ handle'[h].next = handle[h].next
        /\ handle'[h].confirm <= handle[h].confirm
    BY <1>3, <1>5 DEF Calm
  <2>4. \A r \in Pending' : r[1] \in Handles /\ r[2] >= handle'[r[1]].confirm
    BY <1>1, <2>1, <2>3, Zenon DEF ConfirmInv
  <2>5. \A h \in Handles : ~SnapshotRead(h) => handle'[h].confirm <= handle'[h].next
    BY <2>3, Zenon DEF ConfirmInv
  <2>6. \A n \in updates' : \/ \E m \in updates : n.handle = m.handle /\ n.end = m.end
                            \/ n.end <= meta'[StreamOf(n.handle)].end
    BY <1>5, Zenon DEF Calm
  <2>. QED  BY <1>4, <2>2, <2>3, <2>4, <2>5, <2>6, Zenon
\* The steps that leave the streams and the updates as they are.
<1>6. ASSUME meta' = meta, updates' = updates,
             \A h \in Handles : ~SnapshotRead(h) => handle'[h].confirm <= handle'[h].next,
             \A r \in Pending' : r[1] \in Handles /\ r[2] >= handle'[r[1]].confirm,
             \A h \in Handles : SnapshotRead(h) =>
               handle'[h].confirm <= handle[h].confirm \/ handle'[h].confirm <= meta[StreamOf(h)].end
      PROVE  ConfirmInv'
  <2>1. \A s \in StreamIds : meta'[s].end >= meta[s].end  BY <1>3, <1>6
  <2>. QED  BY <1>4, <1>6, <2>1, Zenon

<1>7. ASSUME NEW t \in Threads, OpenInsertDone(t) PROVE ConfirmInv'
  <2>1. PICK g : g = H(t)  BY Zenon
  <2>2. ~handle[g].exists /\ g \in Handles
    BY <1>7, <2>1, ThreadFacts, CallOf, Zenon DEF OpenInsertDone, CallFits, OpenPcs
  <2>3. /\ \A h \in Handles : h # g => handle'[h].next = handle[h].next /\ handle'[h].confirm = handle[h].confirm
        /\ meta' = meta /\ updates' = updates /\ store' = store
    BY <1>7, <2>1, Zenon DEF OpenInsertDone, HandleBut
  <2>4. handle'[g].confirm = handle'[g].next /\ (SnapshotRead(g) => handle'[g].confirm = -1)
    <3>1. PICK a, b, c : handle'[g] = NewHandle(a, b, c) /\ (SnapshotRead(g) => b = FakeOffset)
      BY <1>7, <2>1, Zenon DEF OpenInsertDone
    <3>2. NewHandle(a, b, c).confirm = b /\ NewHandle(a, b, c).next = b  BY Zenon DEF NewHandle
    <3>3. handle'[g].confirm = handle'[g].next /\ (SnapshotRead(g) => handle'[g].confirm = FakeOffset)
      BY <3>1, <3>2, Zenon
    <3>. QED  BY <3>3, Zenon DEF FakeOffset
  <2>5. Pending' = Pending  BY <2>3, Zenon DEF Pending
  <2>6. \A r \in Pending' : r[1] \in Handles /\ r[2] >= handle'[r[1]].confirm
    <3>1. \A r \in Pending : Owned(r[1])  BY Zenon DEF QueueInv, Admitted
    <3>. QED  BY <1>1, <2>2, <2>3, <2>5, <3>1, Zenon DEF Owned, ConfirmInv
  <2>7. \A h \in Handles : ~SnapshotRead(h) => handle'[h].confirm <= handle'[h].next
    BY <1>3, <2>3, <2>4 DEF ConfirmInv
  <2>8. ASSUME NEW h \in Handles, SnapshotRead(h)
        PROVE  handle'[h].confirm <= handle[h].confirm \/ handle'[h].confirm <= meta[StreamOf(h)].end
    <3>1. StreamOf(h) \in StreamIds /\ meta[StreamOf(h)].end \in Nat  BY StreamFacts, Zenon
    <3>2. CASE h = g  BY <2>4, <2>8, <3>1, <3>2
    <3>3. CASE h # g  BY <1>3, <2>3, <3>3
    <3>. QED  BY <3>2, <3>3, Zenon
  <2>. QED  BY <1>6, <2>3, <2>6, <2>7, <2>8, Zenon
<1>8. ASSUME NEW t \in Threads, AdmitAppendDone(t) PROVE ConfirmInv'
  <2>1. PICK g : g = H(t)  OBVIOUS
  <2>2. PICK n : n = handle[g].next  BY Zenon
  <2>3. Owned(g) /\ g \in Handles /\ n \in Int /\ ~SnapshotRead(g)
    BY <1>8, <2>1, <2>2, ThreadFacts, StreamFacts, Zenon DEF AdmitAppendDone, CallFits, AppendPcs, Owned
  <2>4. /\ store'.queue = IF store.down THEN store.queue ELSE Append(store.queue, <<g, n>>)
        /\ store'.failed = IF store.down THEN store.failed \union {<<g, n>>} ELSE store.failed
        /\ meta' = meta /\ updates' = updates
    BY <1>8, <2>1, <2>2, Zenon DEF AdmitAppendDone
  <2>5. /\ \A h \in Handles : handle'[h].confirm = handle[h].confirm
        /\ \A h \in Handles : h # g => handle'[h].next = handle[h].next
        /\ handle'[g].next = n + 1
    BY <1>8, <2>1, <2>2, Zenon DEF AdmitAppendDone, HandleBut
  <2>6. PICK r : r = <<g, n>>  BY Zenon
  <2>7. r[1] = g /\ r[2] = n  BY <2>6, Zenon
  <2>8. \A q \in Pending' : q \in Pending \/ q = r
    <3>1. CASE store.down  BY <2>4, <2>6, <3>1 DEF Pending
    <3>2. CASE ~store.down
      <4>1. store'.queue = Append(store.queue, r) /\ store'.failed = store.failed  BY <2>4, <2>6, <3>2, Zenon
      <4>2. store.queue \in Seq(Handles \X Int)  BY Zenon DEF ClientTypeOK, StoreType
      <4>3. \A x \in Range(Append(store.queue, r)) : x \in Range(store.queue) \/ x = r
        BY <4>2, AppendRange, Zenon
      <4>. QED  BY <4>1, <4>3, Zenon DEF Pending
    <3>. QED  BY <3>1, <3>2, Zenon
  <2>9. handle[g].confirm <= n  BY <2>2, <2>3, Zenon DEF ConfirmInv
  <2>10. \A q \in Pending' : q[1] \in Handles /\ q[2] >= handle'[q[1]].confirm
    BY <1>1, <1>3, <2>3, <2>5, <2>7, <2>8, <2>9, Zenon DEF ConfirmInv
  <2>11. \A h \in Handles : ~SnapshotRead(h) => handle'[h].confirm <= handle'[h].next
    BY <1>3, <2>2, <2>3, <2>5 DEF ConfirmInv
  <2>12. \A h \in Handles : handle'[h].confirm <= handle[h].confirm  BY <1>3, <2>5
  <2>. QED  BY <1>6, <2>4, <2>10, <2>11, <2>12, Zenon
<1>9. ASSUME NEW t \in Threads, CompleteAppendDone(t) PROVE ConfirmInv'
  <2>1. PICK g : g = H(t)  OBVIOUS
  <2>2. PICK n : n = thread[t].lo  BY Zenon
  <2>3. g \in Handles /\ ~SnapshotRead(g) /\ n \in Int
    BY <1>9, <2>1, <2>2, ThreadFacts, Zenon DEF CompleteAppendDone, CallFits, AppendPcs, Owned, ClientTypeOK, ThreadType
  <2>4. /\ \A h \in Handles : handle'[h].next = handle[h].next /\ (h # g => handle'[h].confirm = handle[h].confirm)
        /\ meta' = meta /\ updates' = updates /\ store' = store
    BY <1>9, <2>1, Zenon DEF CompleteAppendDone, HandleBut
  <2>5. \/ handle'[g].confirm = handle[g].confirm
        \/ handle'[g].confirm = n + 1 /\ <<g, n>> \in store.acked
    BY <1>9, <2>1, <2>2, <2>3, Zenon DEF CompleteAppendDone, HandleBut
  <2>6. Pending' = Pending  BY <2>4, Zenon DEF Pending
  <2>7. <<g, n>> \in store.acked => n < handle[g].next /\ \A q \in Pending : q[1] = g => n < q[2]
    <3>1. PICK a : a = <<g, n>>  BY Zenon
    <3>2. a[1] = g /\ a[2] = n  BY <3>1
    <3>. QED  BY <3>1, <3>2, Zenon DEF QueueInv, Admitted
  <2>8. \A q \in Pending' : q[1] \in Handles /\ q[2] >= handle'[q[1]].confirm
    <3>1. SUFFICES ASSUME NEW q \in Pending PROVE q[1] \in Handles /\ q[2] >= handle'[q[1]].confirm
      BY <2>6, Zenon
    <3>2. q[1] \in Handles /\ q[2] \in Int /\ q[2] >= handle[q[1]].confirm  BY <1>1, Zenon DEF ConfirmInv
    <3>3. CASE q[1] = g  BY <2>3, <2>5, <2>7, <3>2, <3>3
    <3>4. CASE q[1] # g  BY <2>4, <3>2, <3>4, Zenon
    <3>. QED  BY <3>3, <3>4, Zenon
  <2>9. \A h \in Handles : ~SnapshotRead(h) => handle'[h].confirm <= handle'[h].next
    <3>1. SUFFICES ASSUME NEW h \in Handles, ~SnapshotRead(h) PROVE handle'[h].confirm <= handle'[h].next
      BY Zenon
    <3>2. handle[h].confirm <= handle[h].next  BY <3>1, Zenon DEF ConfirmInv
    <3>3. CASE h = g  BY <1>3, <2>3, <2>4, <2>5, <2>7, <3>2, <3>3
    <3>4. CASE h # g  BY <2>4, <3>2, <3>4, Zenon
    <3>. QED  BY <3>3, <3>4, Zenon
  <2>10. \A h \in Handles : SnapshotRead(h) => handle'[h].confirm <= handle[h].confirm
    BY <1>3, <2>3, <2>4
  <2>. QED  BY <1>6, <2>4, <2>8, <2>9, <2>10, Zenon
<1>10. ASSUME AckDone \/ StoreFailsDone PROVE ConfirmInv'
  <2>1. meta' = meta /\ updates' = updates /\ handle' = handle  BY <1>10, Zenon DEF AckDone, StoreFailsDone
  <2>2. \A q \in Pending' : q \in Pending
    <3>1. CASE AckDone
      <4>1. store.queue \in Seq(Handles \X Int)  BY Zenon DEF ClientTypeOK, StoreType
      <4>2. \A x \in Range(Tail(store.queue)) : x \in Range(store.queue)  BY <3>1, <4>1, TailInRange, Zenon DEF AckDone
      <4>. QED  BY <3>1, <4>2, Zenon DEF AckDone, Pending
    <3>2. CASE StoreFailsDone
      <4>1. Range(<<>>) = {}  BY DEF Range
      <4>. QED  BY <3>2, <4>1, Zenon DEF StoreFailsDone, Pending
    <3>. QED  BY <1>10, <3>1, <3>2, Zenon
  <2>3. \A q \in Pending' : q[1] \in Handles /\ q[2] >= handle'[q[1]].confirm
    BY <1>1, <2>1, <2>2, Zenon DEF ConfirmInv
  <2>4. \A h \in Handles : handle'[h].confirm <= handle[h].confirm  BY <1>3, <2>1
  <2>5. \A h \in Handles : ~SnapshotRead(h) => handle'[h].confirm <= handle'[h].next  BY <2>1, Zenon DEF ConfirmInv
  <2>. QED  BY <1>6, <2>1, <2>3, <2>4, <2>5, Zenon
<1>11. ASSUME NEW n \in updates, NoticeDone(n) PROVE ConfirmInv'
  <2>1. n.handle \in Handles /\ n.end \in Nat /\ SnapshotRead(n.handle) /\ n.end <= meta[StreamOf(n.handle)].end
    BY StreamFacts, Zenon DEF CallInv, ListenInv, ConfirmInv
  <2>2. /\ \A h \in Handles : h # n.handle => handle'[h].confirm = handle[h].confirm /\ handle'[h].next = handle[h].next
        /\ \/ handle'[n.handle].confirm = handle[n.handle].confirm
           \/ handle'[n.handle].confirm = n.end
        /\ meta' = meta /\ store' = store
    BY <1>11, <2>1, Zenon DEF NoticeDone, HandleBut
  <2>3. \A m \in updates' : \E l \in updates : m.handle = l.handle /\ m.end = l.end
    BY <1>11, Zenon DEF NoticeDone
  <2>4. Pending' = Pending  BY <2>2, Zenon DEF Pending
  <2>5. \A q \in Pending' : q[1] \in Handles /\ q[2] >= handle'[q[1]].confirm
    <3>1. \A q \in Pending : Owned(q[1])  BY Zenon DEF QueueInv, Admitted
    <3>. QED  BY <1>1, <2>1, <2>2, <2>4, <3>1, Zenon DEF ConfirmInv, Owned
  <2>6. \A h \in Handles : ~SnapshotRead(h) => handle'[h].confirm <= handle'[h].next
    BY <2>1, <2>2, Zenon DEF ConfirmInv
  <2>7. \A h \in Handles : handle'[h].confirm <= handle[h].confirm \/ handle'[h].confirm <= meta[StreamOf(h)].end
    BY <1>3, <2>1, <2>2
  <2>8. \A s \in StreamIds : meta'[s].end >= meta[s].end  BY <1>3, <2>2
  <2>. QED  BY <1>4, <2>3, <2>5, <2>6, <2>7, <2>8, Zenon
<1>12. ASSUME NEW s \in StreamIds, UploadDone(s) \/ FenceDone(s) PROVE ConfirmInv'
  BY <1>5, <1>12, CalmOther, Zenon
<1>13. ASSUME UNCHANGED clientVars PROVE ConfirmInv'
  BY <1>5, <1>13, Zenon DEF clientVars, Calm, EndsKept
<1>14. ASSUME NEW t \in Threads, ThreadDone(t) PROVE ConfirmInv'
  BY <1>5, <1>7, <1>8, <1>9, <1>14, CalmThread, Zenon
<1>. QED  BY <1>10, <1>11, <1>12, <1>13, <1>14, Zenon DEF ClientDone


-----------------------------------------------------------------------------
(* What the steps do to the streams that a shutdown closes *)

\* Thread t takes the map of the opened streams.
Collects(t) ==
  /\ thread[t].pc = "collect"
  /\ \E todo \in Seq(Handles) :
       /\ ClosesWent(t, todo)
       /\ \A s \in StreamIds : client.opened[s] # NoHandle => client.opened[s] \in Range(todo)

\* Thread t inserts handle h.
Inserts(t, h) ==
  /\ thread[t].pc = "insert" /\ H(t) = h /\ handle'[h].exists
  /\ ~SnapshotRead(h) => client'.opened[StreamOf(h)] = h

\* Thread t is through with handle h.
ClosedIt(t, h) == thread[t].pc \in MarkedPcs /\ H(t) = h /\ handle'[h].result # "none"

ShutMove(t) ==
  \/ \A f \in AllFields : thread'[t][f] = thread[t][f]
  \/ /\ thread[t].pc \in ClosePcs /\ thread'[t].pc \in MarkedPcs /\ thread'[t].k = thread[t].k
     /\ thread'[t].h = thread[t].h /\ thread'[t].todo = thread[t].todo
  \/ ClosedIt(t, H(t)) /\ ClosesWent(t, thread[t].todo)
  \/ Collects(t)
  \/ /\ HasCall(t) /\ Kind(t) \notin ShutdownKinds
     /\ \/ Returned(t)
        \/ /\ thread'[t].k = thread[t].k /\ thread'[t].pc # "collect"
           /\ thread'[t].pc \in OpenPcs =>
                ~client'.shutdown \/ (thread[t].pc \in OpenPcs /\ thread'[t].h = thread[t].h)
  \/ thread[t].pc = "idle" /\ thread'[t].pc = "collect" /\ thread'[t].k = thread[t].k /\ client'.shutdown
  \/ thread[t].pc = "halt" /\ Returned(t)

ShutHandle(h) ==
  \/ handle'[h].exists = handle[h].exists /\ (handle[h].result # "none" => handle'[h].result # "none")
  \/ \E t \in Threads : Inserts(t, h)

ShutMap(s) ==
  \/ client'.opened[s] = client.opened[s]
  \/ \E t \in Threads : ClosedIt(t, H(t)) /\ StreamOf(H(t)) = s
  \/ \E t \in Threads : Inserts(t, H(t)) /\ StreamOf(H(t)) = s /\ ~SnapshotRead(H(t))
  \/ \E t \in Threads : Collects(t)

ShutFlags ==
  /\ client.shutdown => client'.shutdown
  /\ client.late \subseteq client'.late
  /\ client'.shutdown =>
       \/ client.shutdown
       \/ \A t \in Threads : thread[t].pc \in OpenPcs => H(t) \in client'.late

ShutEffect ==
  /\ \A t \in Threads : ShutMove(t)
  /\ \A h \in Handles : ShutHandle(h)
  /\ \A s \in StreamIds : ShutMap(s)
  /\ ShutFlags

LEMMA SameClient ==
  ASSUME client' = client
  PROVE  ShutFlags /\ \A s \in StreamIds : ShutMap(s)
BY Zenon DEF ShutFlags, ShutMap

LEMMA SameResults ==
  ASSUME \A h \in Handles : handle'[h].exists = handle[h].exists /\ handle'[h].result = handle[h].result
  PROVE  \A h \in Handles : ShutHandle(h)
BY Zenon DEF ShutHandle

LEMMA OneShuts ==
  ASSUME NEW t \in Threads, ThreadBut(t, AllFields), ShutMove(t)
  PROVE  \A u \in Threads : ShutMove(u)
<1>1. \A u \in Threads : u # t => \A f \in AllFields : thread'[u][f] = thread[u][f]
  BY Zenon DEF ThreadBut, AllFields
<1>2. \A u \in Threads : u # t => ShutMove(u)  BY <1>1, Zenon DEF ShutMove
<1>. QED  BY <1>2, Zenon

\* A call other than a shutdown or a close.
LEMMA OtherCall ==
  ASSUME ClientTypeOK, CallInv, NEW t \in Threads,
         \/ OpenDone(t) \/ OpenManagerDone(t) \/ OpenInsertDone(t)
         \/ AppendBeginDone(t) \/ AppendCheckDone(t) \/ AdmitAppendDone(t) \/ CompleteAppendDone(t)
         \/ CancelAppendDone(t)
         \/ FetchBeginDone(t) \/ FetchConfirmDone(t) \/ FetchStartDone(t) \/ FetchReadDone(t)
         \/ TrimBeginDone(t) \/ TrimStoreDone(t) \/ TrimWaitDone(t) \/ TrimStreamDone(t)
         \/ CloseBeginDone(t) \/ DeleteStreamDone(t)
  PROVE  (\A u \in Threads : ShutMove(u)) /\ ShutFlags
<1>1. CallFits(t) /\ (thread[t].pc # "idle" => HasCall(t))  BY ThreadFacts, Zenon
<1>2. HasCall(t) /\ Kind(t) \notin ShutdownKinds
  <2>1. CASE OpenDone(t) \/ OpenManagerDone(t) \/ OpenInsertDone(t)
    BY <1>1, <2>1, Zenon DEF OpenDone, OpenManagerDone, OpenInsertDone, CallFits, OpenPcs, ShutdownKinds
  <2>2. CASE \/ AppendBeginDone(t) \/ AppendCheckDone(t) \/ AdmitAppendDone(t) \/ CompleteAppendDone(t)
             \/ CancelAppendDone(t)
    BY <1>1, <2>2, Zenon DEF AppendBeginDone, AppendCheckDone, AdmitAppendDone, CompleteAppendDone, CancelAppendDone,
                      Started, CallFits, AppendPcs, ShutdownKinds
  <2>3. CASE FetchBeginDone(t) \/ FetchConfirmDone(t) \/ FetchStartDone(t) \/ FetchReadDone(t)
    BY <1>1, <2>3, Zenon DEF FetchBeginDone, FetchConfirmDone, FetchStartDone, FetchReadDone, Started, CallFits,
                      FetchPcs, ShutdownKinds
  <2>4. CASE TrimBeginDone(t) \/ TrimStoreDone(t) \/ TrimWaitDone(t) \/ TrimStreamDone(t)
    BY <1>1, <2>4, Zenon DEF TrimBeginDone, TrimStoreDone, TrimWaitDone, TrimStreamDone, Started, CallFits,
                      TrimPcs, ShutdownKinds
  <2>5. CASE CloseBeginDone(t) \/ DeleteStreamDone(t)
    BY <1>1, <2>5, Zenon DEF CloseBeginDone, DeleteStreamDone, Started, CallFits, ShutdownKinds
  <2>. QED  BY <2>1, <2>2, <2>3, <2>4, <2>5, Zenon
<1>3. ThreadBut(t, AllFields)
      /\ \/ Returned(t)
         \/ thread'[t].k = thread[t].k /\ thread'[t].pc # "collect" /\ thread'[t].pc \notin OpenPcs
         \/ thread'[t].k = thread[t].k /\ thread'[t].pc \in OpenPcs /\ ~client.shutdown /\ client' = client
         \/ /\ thread'[t].k = thread[t].k /\ thread'[t].pc \in OpenPcs
            /\ thread[t].pc \in OpenPcs /\ thread'[t].h = thread[t].h
  <2>1. Returned(t) => ThreadBut(t, AllFields)  BY Zenon DEF Returned, AllFields
  <2>2. CASE OpenDone(t)
    BY <2>1, <2>2, Zenon DEF OpenDone, Took, Went, ThreadBut, AllFields, OpenPcs
  <2>3. CASE OpenManagerDone(t)
    BY <2>1, <2>3, Zenon DEF OpenManagerDone, Went, ThreadBut, AllFields, OpenPcs
  <2>4. CASE OpenInsertDone(t) \/ CompleteAppendDone(t) \/ CancelAppendDone(t) \/ FetchReadDone(t)
             \/ TrimStreamDone(t) \/ DeleteStreamDone(t)
    BY <2>1, <2>4, Zenon DEF OpenInsertDone, CompleteAppendDone, CancelAppendDone, FetchReadDone, TrimStreamDone,
                      DeleteStreamDone, Dropped, Fetched
  <2>5. CASE AppendBeginDone(t) \/ AppendCheckDone(t) \/ AdmitAppendDone(t)
    BY <2>1, <2>5, Zenon DEF AppendBeginDone, AppendCheckDone, AdmitAppendDone, Dropped, Took, Went, ThreadBut,
                      AllFields, OpenPcs
  <2>6. CASE FetchBeginDone(t) \/ FetchConfirmDone(t) \/ FetchStartDone(t)
    BY <2>1, <2>6, Zenon DEF FetchBeginDone, FetchConfirmDone, FetchStartDone, Fetched, Took, Went, ThreadBut,
                      AllFields, OpenPcs
  <2>7. CASE TrimBeginDone(t) \/ TrimStoreDone(t) \/ TrimWaitDone(t) \/ CloseBeginDone(t)
    BY <2>1, <2>7, Zenon DEF TrimBeginDone, TrimStoreDone, TrimWaitDone, CloseBeginDone, Took, Went, ThreadBut,
                      AllFields, OpenPcs
  <2>. QED  BY <2>2, <2>3, <2>4, <2>5, <2>6, <2>7, Zenon
<1>4. ShutMove(t)
  <2>1. CASE Returned(t)  BY <1>2, <2>1, Zenon DEF ShutMove
  <2>2. CASE thread'[t].k = thread[t].k /\ thread'[t].pc # "collect" /\ thread'[t].pc \notin OpenPcs
    BY <1>2, <2>2, Zenon DEF ShutMove
  <2>3. CASE thread'[t].k = thread[t].k /\ thread'[t].pc \in OpenPcs /\ ~client.shutdown /\ client' = client
    BY <1>2, <2>3, Zenon DEF ShutMove, OpenPcs
  <2>4. CASE /\ thread'[t].k = thread[t].k /\ thread'[t].pc \in OpenPcs
             /\ thread[t].pc \in OpenPcs /\ thread'[t].h = thread[t].h
    BY <1>2, <2>4, Zenon DEF ShutMove, OpenPcs
  <2>. QED  BY <1>3, <2>1, <2>2, <2>3, <2>4, Zenon
<1>5. client'.shutdown = client.shutdown /\ client'.late = client.late
  BY Zenon DEF OpenDone, OpenManagerDone, OpenInsertDone, AppendBeginDone, AppendCheckDone, AdmitAppendDone,
         CompleteAppendDone, CancelAppendDone, FetchBeginDone, FetchConfirmDone, FetchStartDone, FetchReadDone,
         TrimBeginDone, TrimStoreDone, TrimWaitDone, TrimStreamDone, CloseBeginDone, DeleteStreamDone,
         ClientBut
<1>. QED  BY <1>3, <1>4, <1>5, OneShuts, Zenon DEF ShutFlags


\* A close goes on with its handle, or is through with it.
LEMMA CloseMoves ==
  ASSUME ClientTypeOK, CallInv, NEW t \in Threads,
         \/ CloseMarkDone(t) \/ CloseAppendsDone(t) \/ CloseFetchesDone(t) \/ CloseLockDone(t)
         \/ CloseUploadDone(t) \/ CloseStreamDone(t) \/ DestroyMarkDone(t)
  PROVE  ShutEffect
<1>1. CallFits(t) /\ HasCall(t)
  <2>1. thread[t].pc # "idle"
    BY Zenon DEF CloseMarkDone, CloseAppendsDone, CloseFetchesDone, CloseLockDone, CloseUploadDone, CloseStreamDone,
           DestroyMarkDone
  <2>. QED  BY <2>1, ThreadFacts, Zenon
<1>2. ASSUME NEW pc \in MarkedPcs, Went(t, pc, {}), thread[t].pc \in ClosePcs
      PROVE  \A u \in Threads : ShutMove(u)
  <2>1. ShutMove(t) /\ ThreadBut(t, AllFields)
    BY <1>2, Zenon DEF ShutMove, Went, ThreadBut, AllFields
  <2>. QED  BY <2>1, OneShuts, Zenon
<1>3. \A s : ClosesWent(t, s) => ThreadBut(t, AllFields)
  BY Zenon DEF ClosesWent, Went, Returned, ThreadBut, AllFields
<1>4. ASSUME NEW r, Closed(t, r), thread[t].pc \in MarkedPcs, handle'[H(t)].result # "none"
      PROVE  (\A u \in Threads : ShutMove(u)) /\ ShutFlags /\ \A s \in StreamIds : ShutMap(s)
  <2>1. \A u \in Threads : ShutMove(u)
    <3>1. CASE Went(t, "destroy", {})
      BY <1>2, <1>4, <3>1, Zenon DEF MarkedPcs, ClosePcs
    <3>2. CASE ClosesWent(t, thread[t].todo)
      <4>1. ShutMove(t)  BY <1>4, <3>2, Zenon DEF ShutMove, ClosedIt
      <4>. QED  BY <1>3, <3>2, <4>1, OneShuts, Zenon
    <3>. QED  BY <1>4, <3>1, <3>2, Zenon DEF Closed
  <2>2. ShutFlags  BY <1>4, Zenon DEF Closed, ClientBut, ShutFlags
  <2>3. client.opened \in [StreamIds -> Handles \union {NoHandle}]  BY Zenon DEF ClientTypeOK, ClientType
  <2>4. ASSUME NEW s \in StreamIds PROVE ShutMap(s)
    <3>1. CASE s = StreamOf(H(t))  BY <1>4, <3>1, Zenon DEF ShutMap, ClosedIt
    <3>2. CASE s # StreamOf(H(t))
      <4>1. client'.opened[s] = client.opened[s]  BY <1>4, <2>3, <3>2, Zenon DEF Closed
      <4>. QED  BY <4>1, Zenon DEF ShutMap
    <3>. QED  BY <3>1, <3>2, Zenon
  <2>. QED  BY <2>1, <2>2, <2>4, Zenon
<1>5. CASE CloseMarkDone(t)
  <2>1. \A h \in Handles : handle'[h].exists = handle[h].exists /\ handle'[h].result = handle[h].result
    BY <1>5, Zenon DEF CloseMarkDone, HandleBut
  <2>2. ShutFlags /\ \A s \in StreamIds : ShutMap(s)
    BY <1>5, Zenon DEF CloseMarkDone, ClientBut, ShutFlags, ShutMap
  <2>3. CASE SnapshotRead(H(t)) /\ Returned(t)
    <3>1. Kind(t) \notin ShutdownKinds  BY <1>1, <1>5, <2>3, Zenon DEF CloseMarkDone, CallFits
    <3>2. ShutMove(t) /\ ThreadBut(t, AllFields)  BY <1>1, <2>3, <3>1, Zenon DEF ShutMove, Returned, AllFields
    <3>. QED  BY <2>1, <2>2, <3>2, OneShuts, SameResults, Zenon DEF ShutEffect
  <2>4. CASE Went(t, IF Forces(t) THEN "close lock" ELSE "close appends", {})
    <3>1. PICK pc : pc = IF Forces(t) THEN "close lock" ELSE "close appends"  BY Zenon
    <3>2. pc \in MarkedPcs /\ Went(t, pc, {}) /\ thread[t].pc \in ClosePcs
      BY <1>5, <2>4, <3>1, Zenon DEF CloseMarkDone, MarkedPcs, ClosePcs
    <3>. QED  BY <1>2, <2>1, <2>2, <3>2, SameResults, Zenon DEF ShutEffect
  <2>. QED  BY <1>5, <2>3, <2>4, Zenon DEF CloseMarkDone
<1>6. CASE CloseAppendsDone(t) \/ CloseFetchesDone(t) \/ DestroyMarkDone(t)
  <2>1. \A h \in Handles : handle'[h].exists = handle[h].exists /\ handle'[h].result = handle[h].result
    BY <1>6, Zenon DEF CloseAppendsDone, CloseFetchesDone, DestroyMarkDone, HandleBut
  <2>2. client' = client  BY <1>6, Zenon DEF CloseAppendsDone, CloseFetchesDone, DestroyMarkDone
  <2>3. thread[t].pc \in ClosePcs /\ \E pc \in MarkedPcs : Went(t, pc, {})
    BY <1>6, Zenon DEF CloseAppendsDone, CloseFetchesDone, DestroyMarkDone, MarkedPcs, ClosePcs
  <2>. QED  BY <1>2, <2>1, <2>2, <2>3, SameClient, SameResults, Zenon DEF ShutEffect
<1>7. CASE CloseLockDone(t)
  <2>1. \A h \in Handles : handle'[h].exists = handle[h].exists /\ handle'[h].result = handle[h].result
    BY <1>7, Zenon DEF CloseLockDone, HandleBut
  <2>2. thread[t].pc \in ClosePcs /\ thread[t].pc \in MarkedPcs  BY <1>7, Zenon DEF CloseLockDone, ClosePcs, MarkedPcs
  <2>3. CASE Went(t, "upload", {}) /\ client' = client
    <3>1. "upload" \in MarkedPcs  BY Zenon DEF MarkedPcs
    <3>. QED  BY <1>2, <2>1, <2>2, <2>3, <3>1, SameClient, SameResults, Zenon DEF ShutEffect
  <2>4. CASE handle[H(t)].result # "none" /\ handle' = handle /\ Closed(t, handle[H(t)].result)
    BY <1>4, <2>1, <2>2, <2>4, SameResults, Zenon DEF ShutEffect
  <2>. QED  BY <1>7, <2>3, <2>4, Zenon DEF CloseLockDone
<1>8. ASSUME NEW r \in {"ok", "error"}, ResultSet(t, r), thread[t].pc \in MarkedPcs PROVE ShutEffect
  <2>1. handle'[H(t)].result # "none" /\ Closed(t, r)  BY <1>8, Zenon DEF ResultSet
  <2>2. \A h \in Handles : ShutHandle(h)  BY <1>8, <2>1, Zenon DEF ResultSet, HandleBut, ShutHandle
  <2>. QED  BY <1>4, <1>8, <2>1, <2>2, Zenon DEF ShutEffect
<1>9. CASE CloseUploadDone(t)
  <2>1. thread[t].pc \in ClosePcs /\ thread[t].pc \in MarkedPcs /\ "close stream" \in MarkedPcs
    BY <1>9, Zenon DEF CloseUploadDone, ClosePcs, MarkedPcs
  <2>2. CASE Went(t, "close stream", {}) /\ client' = client /\ handle' = handle
    BY <1>2, <2>1, <2>2, SameClient, SameResults, Zenon DEF ShutEffect
  <2>. QED  BY <1>8, <1>9, <2>1, <2>2, Zenon DEF CloseUploadDone
<1>10. CASE CloseStreamDone(t)
  <2>1. thread[t].pc \in MarkedPcs  BY <1>10, Zenon DEF CloseStreamDone, MarkedPcs
  <2>. QED  BY <1>8, <1>10, <2>1, Zenon DEF CloseStreamDone
<1>. QED  BY <1>5, <1>6, <1>7, <1>9, <1>10, Zenon


\* Every step.
LEMMA ShutEffects ==
  ASSUME ClientTypeOK, CallInv, ClientDone
  PROVE  ShutEffect
<1>1. client.opened \in [StreamIds -> Handles \union {NoHandle}]  BY Zenon DEF ClientTypeOK, ClientType
<1>2. ASSUME NEW t \in Threads, OpenInsertDone(t) PROVE ShutEffect
  <2>1. (\A u \in Threads : ShutMove(u)) /\ ShutFlags  BY <1>2, OtherCall, Zenon
  <2>2. PICK g : g = H(t)  BY Zenon
  <2>3. thread[t].pc = "insert" /\ g \in Handles
    BY <1>2, <2>2, ThreadFacts, CallOf, Zenon DEF OpenInsertDone, CallFits, OpenPcs
  <2>4. StreamOf(g) \in StreamIds  BY <2>3, StreamFacts, Zenon
  <2>5. Inserts(t, g)
    <3>1. handle'[g].exists
      <4>1. \/ handle'[g] = NewHandle(FakeOffset, FakeOffset, TRUE)
            \/ handle'[g] = NewHandle(thread[t].lo, thread[t].hi, FALSE)
        BY <1>2, <2>2, Zenon DEF OpenInsertDone
      <4>2. \A a, b, c : NewHandle(a, b, c).exists  BY Zenon DEF NewHandle
      <4>. QED  BY <4>1, <4>2, Zenon
    <3>2. ~SnapshotRead(g) => client'.opened[StreamOf(g)] = g
      BY <1>1, <1>2, <2>2, <2>4, Zenon DEF OpenInsertDone
    <3>. QED  BY <2>2, <2>3, <3>1, <3>2, Zenon DEF Inserts
  <2>6. \A h \in Handles : ShutHandle(h)
    <3>1. \A h \in Handles : h # g => handle'[h].exists = handle[h].exists /\ handle'[h].result = handle[h].result
      BY <1>2, <2>2, Zenon DEF OpenInsertDone, HandleBut
    <3>. QED  BY <2>5, <3>1, Zenon DEF ShutHandle
  <2>7. ASSUME NEW s \in StreamIds PROVE ShutMap(s)
    <3>1. CASE SnapshotRead(g)
      <4>1. client' = client  BY <1>2, <2>2, <3>1, Zenon DEF OpenInsertDone
      <4>. QED  BY <4>1, Zenon DEF ShutMap
    <3>2. CASE ~SnapshotRead(g) /\ s = StreamOf(g)  BY <2>2, <2>5, <3>2, Zenon DEF ShutMap
    <3>3. CASE ~SnapshotRead(g) /\ s # StreamOf(g)
      <4>1. client'.opened[s] = client.opened[s]  BY <1>1, <1>2, <2>2, <3>3, Zenon DEF OpenInsertDone
      <4>. QED  BY <4>1, Zenon DEF ShutMap
    <3>. QED  BY <3>1, <3>2, <3>3, Zenon
  <2>. QED  BY <2>1, <2>6, <2>7, Zenon DEF ShutEffect
<1>3. ASSUME NEW t \in Threads,
             \/ OpenDone(t) \/ OpenManagerDone(t)
             \/ AppendBeginDone(t) \/ AppendCheckDone(t) \/ AdmitAppendDone(t) \/ CompleteAppendDone(t)
             \/ CancelAppendDone(t)
             \/ FetchBeginDone(t) \/ FetchConfirmDone(t) \/ FetchStartDone(t) \/ FetchReadDone(t)
             \/ TrimBeginDone(t) \/ TrimStoreDone(t) \/ TrimWaitDone(t) \/ TrimStreamDone(t)
             \/ CloseBeginDone(t) \/ DeleteStreamDone(t)
      PROVE  ShutEffect
  <2>1. (\A u \in Threads : ShutMove(u)) /\ ShutFlags  BY <1>3, OtherCall, Zenon
  <2>2. client' = client
    BY <1>3, Zenon DEF OpenDone, OpenManagerDone, AppendBeginDone, AppendCheckDone, AdmitAppendDone, CompleteAppendDone,
                CancelAppendDone, FetchBeginDone, FetchConfirmDone, FetchStartDone, FetchReadDone,
                TrimBeginDone, TrimStoreDone, TrimWaitDone, TrimStreamDone, CloseBeginDone, DeleteStreamDone
  <2>3. \A h \in Handles : handle'[h].exists = handle[h].exists /\ handle'[h].result = handle[h].result
    BY <1>3, Zenon DEF OpenDone, OpenManagerDone, AppendBeginDone, AppendCheckDone, AdmitAppendDone, CompleteAppendDone,
                CancelAppendDone, FetchBeginDone, FetchConfirmDone, FetchStartDone, FetchReadDone,
                TrimBeginDone, TrimStoreDone, TrimWaitDone, TrimStreamDone, CloseBeginDone, DeleteStreamDone,
                Dropped, Fetched, HandleBut
  <2>. QED  BY <2>1, <2>2, <2>3, SameClient, SameResults, Zenon DEF ShutEffect
<1>4. ASSUME NEW t \in Threads, ShutdownBeginDone(t) PROVE ShutEffect
  <2>1. handle' = handle /\ client'.opened = client.opened  BY <1>4, Zenon DEF ShutdownBeginDone, ClientBut
  <2>2. ShutMove(t) /\ ThreadBut(t, AllFields)
    BY <1>4, Zenon DEF ShutdownBeginDone, ShutMove, Went, ThreadBut, AllFields
  <2>3. ShutFlags  BY <1>4, Zenon DEF ShutdownBeginDone, ShutFlags
  <2>4. \A s \in StreamIds : ShutMap(s)  BY <2>1, Zenon DEF ShutMap
  <2>. QED  BY <2>1, <2>2, <2>3, <2>4, OneShuts, SameResults, Zenon DEF ShutEffect
<1>5. ASSUME NEW t \in Threads, CollectDone(t) PROVE ShutEffect
  <2>1. Collects(t)  BY <1>5, Zenon DEF CollectDone, Collects
  <2>2. ThreadBut(t, AllFields)
    BY <1>5, Zenon DEF CollectDone, ClosesWent, Went, Returned, ThreadBut, AllFields
  <2>3. ShutFlags  BY <1>5, Zenon DEF CollectDone, ClientBut, ShutFlags
  <2>4. \A s \in StreamIds : ShutMap(s)  BY <2>1, Zenon DEF ShutMap
  <2>5. ShutMove(t) /\ handle' = handle  BY <1>5, <2>1, Zenon DEF ShutMove, CollectDone
  <2>. QED  BY <2>2, <2>3, <2>4, <2>5, OneShuts, SameResults, Zenon DEF ShutEffect
<1>6. ASSUME NEW t \in Threads, HaltDone(t) PROVE ShutEffect
  <2>1. ShutMove(t) /\ ThreadBut(t, AllFields) /\ handle' = handle
    BY <1>6, Zenon DEF HaltDone, ShutMove, Returned, AllFields
  <2>2. ShutFlags /\ \A s \in StreamIds : ShutMap(s)  BY <1>6, Zenon DEF HaltDone, ClientBut, ShutFlags, ShutMap
  <2>. QED  BY <2>1, <2>2, OneShuts, SameResults, Zenon DEF ShutEffect
<1>7. ASSUME NEW t \in Threads, ThreadDone(t) PROVE ShutEffect
  BY <1>2, <1>3, <1>4, <1>5, <1>6, <1>7, CloseMoves, Zenon DEF ThreadDone
<1>8. ASSUME thread' = thread, client' = client,
             \A h \in Handles : handle'[h].exists = handle[h].exists /\ handle'[h].result = handle[h].result
      PROVE  ShutEffect
  <2>1. \A t \in Threads : ShutMove(t)  BY <1>8, Zenon DEF ShutMove
  <2>. QED  BY <1>8, <2>1, SameClient, SameResults, Zenon DEF ShutEffect
<1>9. ASSUME AckDone \/ StoreFailsDone \/ UNCHANGED clientVars PROVE ShutEffect
  BY <1>8, <1>9, Zenon DEF AckDone, StoreFailsDone, clientVars
<1>10. ASSUME NEW s \in StreamIds, UploadDone(s) \/ FenceDone(s) PROVE ShutEffect
  BY <1>8, <1>10, Zenon DEF UploadDone, FenceDone
<1>11. ASSUME NEW n \in updates, NoticeDone(n) PROVE ShutEffect
  <2>1. \A h \in Handles : handle'[h].exists = handle[h].exists /\ handle'[h].result = handle[h].result
    BY <1>11, Zenon DEF NoticeDone, HandleBut
  <2>. QED  BY <1>8, <1>11, <2>1, Zenon DEF NoticeDone
<1>. QED  BY <1>7, <1>9, <1>10, <1>11, Zenon DEF ClientDone


\* The shutdown of the client will close h, or did, or is not the one to close it.
Covered(h) ==
  \/ handle[h].result # "none" \/ h \in client.late \/ Others(h) # {}
  \/ \E t \in Threads : h \in ClosesOf(t)

\* Thread t has taken the map of the opened streams for a shutdown.
HasCollected(t) ==
  \/ \E k \in 1..(thread[t].k - 1) : plan.programs[t][k].kind \in ShutdownKinds
  \/ thread[t].pc \in ClosePcs \union {"halt"} /\ Kind(t) \in ShutdownKinds

ShutdownInv ==
  /\ \A t \in Threads : HasCollected(t) \/ thread[t].pc = "collect" => client.shutdown
  /\ client.shutdown => \A t \in Threads : thread[t].pc \in OpenPcs => H(t) \in client.late
  /\ \A h \in Handles : Owned(h) => Covered(h) \/ client.opened[StreamOf(h)] = h
  /\ (\E t \in Threads : HasCollected(t)) => \A h \in Handles : Owned(h) => Covered(h)

\* Only a thread that takes the map of the opened streams has newly done so.
LEMMA CollectedBefore ==
  ASSUME ClientTypeOK, CallInv, plan' = plan, ShutEffect, NEW t \in Threads, HasCollected(t)'
  PROVE  HasCollected(t) \/ thread[t].pc = "collect"
<1>1. ShutMove(t)  BY Zenon DEF ShutEffect
<1>2. thread[t].k \in Nat /\ CallFits(t)  BY ThreadFacts, Zenon DEF ClientTypeOK, ThreadType
<1>3. ASSUME thread'[t].k = thread[t].k,
             thread'[t].pc \in ClosePcs \union {"halt"} => thread[t].pc \in ClosePcs \union {"halt"}
      PROVE  HasCollected(t)
  BY <1>3, KindKept, Zenon DEF HasCollected
<1>4. ASSUME Returned(t),
             Kind(t) \in ShutdownKinds => thread[t].pc \in ClosePcs \union {"halt"}
      PROVE  HasCollected(t)
  <2>1. thread'[t].k = thread[t].k + 1 /\ thread'[t].pc \notin ClosePcs \union {"halt"}
    BY <1>4, Zenon DEF Returned, ClosePcs, MarkedPcs
  <2>2. PICK k \in 1..(thread'[t].k - 1) : plan.programs[t][k].kind \in ShutdownKinds
    BY <2>1, Zenon DEF HasCollected
  <2>3. k \in 1..(thread[t].k - 1) \/ k = thread[t].k  BY <1>2, <2>1, <2>2
  <2>4. CASE k \in 1..(thread[t].k - 1)  BY <2>2, <2>4, Zenon DEF HasCollected
  <2>5. CASE k = thread[t].k  BY <1>4, <2>2, <2>5, Zenon DEF HasCollected, Kind, Call
  <2>. QED  BY <2>3, <2>4, <2>5, Zenon
<1>5. CASE \A f \in AllFields : thread'[t][f] = thread[t][f]
  BY <1>3, <1>5, Zenon DEF AllFields
<1>6. CASE /\ thread[t].pc \in ClosePcs /\ thread'[t].pc \in MarkedPcs /\ thread'[t].k = thread[t].k
           /\ thread'[t].h = thread[t].h /\ thread'[t].todo = thread[t].todo
  BY <1>3, <1>6, Zenon DEF ClosePcs
<1>7. CASE ClosedIt(t, H(t)) /\ ClosesWent(t, thread[t].todo)
  <2>1. thread[t].pc \in ClosePcs  BY <1>7, Zenon DEF ClosedIt, ClosePcs
  <2>2. Returned(t) \/ thread'[t].k = thread[t].k  BY <1>7, Zenon DEF ClosesWent, Went, ThreadBut
  <2>. QED  BY <1>3, <1>4, <2>1, <2>2, Zenon
<1>8. CASE /\ HasCall(t) /\ Kind(t) \notin ShutdownKinds
           /\ Returned(t) \/ thread'[t].k = thread[t].k
  <2>1. CASE Returned(t)  BY <1>4, <1>8, <2>1, Zenon
  <2>2. CASE thread'[t].k = thread[t].k
    BY <1>8, <2>2, KindKept, Zenon DEF HasCollected
  <2>. QED  BY <1>8, <2>1, <2>2, Zenon
<1>9. CASE thread'[t].pc = "collect" /\ thread'[t].k = thread[t].k
  BY <1>3, <1>9, Zenon DEF ClosePcs, MarkedPcs
<1>10. CASE thread[t].pc = "halt" /\ Returned(t)  BY <1>4, <1>10, Zenon
<1>. QED  BY <1>1, <1>5, <1>6, <1>7, <1>8, <1>9, <1>10, Zenon DEF ShutMove, Collects

LEMMA OthersKept ==
  ASSUME plan' = plan, ShutEffect, NEW h \in Handles, Others(h) # {}
  PROVE  Others(h)' # {}
<1>1. PICK g \in Others(h) : TRUE  BY Zenon
<1>2. g \in Handles \ {h} /\ handle[g].exists /\ ~SnapshotRead(g) /\ StreamOf(g) = StreamOf(h)
  BY <1>1, Zenon DEF Others
<1>3. handle'[g].exists  BY <1>2, Zenon DEF ShutEffect, ShutHandle, Inserts
<1>4. g \in Others(h)'  BY <1>2, <1>3, Zenon DEF Others, Handles, StreamOf, SnapshotRead
<1>. QED  BY <1>4, Zenon


\* A handle that the shutdown will close is closed, or stays one that it will close.
LEMMA ClosesKept ==
  ASSUME ClientTypeOK, CallInv, plan' = plan, ShutEffect, NEW t \in Threads, NEW h \in ClosesOf(t)
  PROVE  handle'[h].result # "none" \/ h \in ClosesOf(t)'
<1>1. ShutMove(t) /\ thread[t].todo \in Seq(Handles) /\ CallFits(t)  BY ThreadFacts, Zenon DEF ShutEffect
<1>2. /\ thread[t].pc \notin {"idle", "collect", "halt"} /\ Kind(t) \in ShutdownKinds
      /\ h = H(t) \/ h \in Range(thread[t].todo)
  BY Zenon DEF ClosesOf
<1>3. ASSUME thread'[t].k = thread[t].k, thread'[t].pc \notin {"idle", "collect", "halt"},
             h = thread'[t].h \/ h \in Range(thread'[t].todo)
      PROVE  h \in ClosesOf(t)'
  <2>1. Kind(t)' \in ShutdownKinds  BY <1>2, <1>3, KindKept, Zenon DEF ShutdownKinds
  <2>. QED  BY <1>3, <2>1, Zenon DEF ClosesOf, H
<1>4. CASE \A f \in AllFields : thread'[t][f] = thread[t][f]
  BY <1>2, <1>3, <1>4, Zenon DEF AllFields, H
<1>5. CASE /\ thread[t].pc \in ClosePcs /\ thread'[t].pc \in MarkedPcs /\ thread'[t].k = thread[t].k
           /\ thread'[t].h = thread[t].h /\ thread'[t].todo = thread[t].todo
  <2>1. thread'[t].pc \notin {"idle", "collect", "halt"}  BY <1>5, Zenon DEF MarkedPcs
  <2>. QED  BY <1>2, <1>3, <1>5, <2>1, Zenon DEF H
<1>6. CASE ClosedIt(t, H(t)) /\ ClosesWent(t, thread[t].todo)
  <2>1. CASE h = H(t)  BY <1>6, <2>1, Zenon DEF ClosedIt
  <2>2. CASE h \in Range(thread[t].todo)
    <3>1. thread[t].todo # <<>>  BY <2>2 DEF Range
    <3>2. /\ thread'[t].k = thread[t].k /\ thread'[t].pc = "close"
          /\ thread'[t].h = Head(thread[t].todo) /\ thread'[t].todo = Tail(thread[t].todo)
      BY <1>6, <3>1, Zenon DEF ClosesWent, Went, ThreadBut
    <3>3. h = thread'[t].h \/ h \in Range(thread'[t].todo)  BY <1>1, <2>2, <3>1, <3>2, HeadOrTail, Zenon
    <3>. QED  BY <1>3, <3>2, <3>3, Zenon
  <2>. QED  BY <1>2, <2>1, <2>2, Zenon
<1>. QED  BY <1>1, <1>2, <1>4, <1>5, <1>6, Zenon DEF ShutMove, Collects

LEMMA CoverKept ==
  ASSUME ClientTypeOK, CallInv, plan' = plan, ShutEffect, NEW h \in Handles, handle[h].exists, Covered(h)
  PROVE  Covered(h)'
<1>1. CASE handle[h].result # "none"
  <2>1. \A t \in Threads : ~Inserts(t, h)  BY ThreadFacts, Zenon DEF Inserts, CallFits, OpenPcs
  <2>2. handle'[h].result # "none"  BY <1>1, <2>1, Zenon DEF ShutEffect, ShutHandle
  <2>. QED  BY <2>2, Zenon DEF Covered
<1>2. CASE h \in client.late  BY <1>2, Zenon DEF ShutEffect, ShutFlags, Covered
<1>3. CASE Others(h) # {}  BY <1>3, OthersKept, Zenon DEF Covered
<1>4. ASSUME NEW t \in Threads, h \in ClosesOf(t) PROVE Covered(h)'
  BY <1>4, ClosesKept, Zenon DEF Covered
<1>. QED  BY <1>1, <1>2, <1>3, <1>4, Zenon DEF Covered

\* What a shutdown collects, it is to close.
LEMMA CollectedCovered ==
  ASSUME ClientTypeOK, CallInv, plan' = plan, NEW t \in Threads, Collects(t),
         NEW h \in Handles, client.opened[StreamOf(h)] = h, StreamOf(h) \in StreamIds
  PROVE  Covered(h)'
<1>1. Kind(t) \in ShutdownKinds  BY ThreadFacts, Zenon DEF Collects, CallFits
<1>2. h # NoHandle  BY StreamFacts, Zenon
<1>3. PICK todo \in Seq(Handles) : ClosesWent(t, todo) /\ h \in Range(todo)  BY <1>2, Zenon DEF Collects
<1>4. todo # <<>>  BY <1>3 DEF Range
<1>5. /\ thread'[t].k = thread[t].k /\ thread'[t].pc = "close"
      /\ thread'[t].h = Head(todo) /\ thread'[t].todo = Tail(todo)
  BY <1>3, <1>4, Zenon DEF ClosesWent, Went, ThreadBut
<1>6. h = thread'[t].h \/ h \in Range(thread'[t].todo)  BY <1>3, <1>4, <1>5, HeadOrTail, Zenon
<1>7. Kind(t)' \in ShutdownKinds  BY <1>1, <1>5, KindKept, Zenon DEF ShutdownKinds
<1>8. h \in ClosesOf(t)'  BY <1>5, <1>6, <1>7, Zenon DEF ClosesOf, H
<1>. QED  BY <1>8, Zenon DEF Covered

LEMMA ShutdownKept ==
  ASSUME ClientTypeOK, CallInv, ShutdownInv, plan' = plan, ClientDone
  PROVE  ShutdownInv'
<1>1. ShutEffect  BY ShutEffects, Zenon
<1>2. ASSUME NEW t \in Threads, HasCollected(t)' \/ thread'[t].pc = "collect" PROVE client'.shutdown
  <2>1. CASE HasCollected(t)'
    BY <1>1, <2>1, CollectedBefore, Zenon DEF ShutdownInv, ShutEffect, ShutFlags
  <2>2. CASE thread'[t].pc = "collect"
    <3>1. thread[t].pc = "collect" \/ client'.shutdown
      <4>1. ShutMove(t)  BY <1>1, Zenon DEF ShutEffect
      <4>2. ~Returned(t) /\ ~\E s : ClosesWent(t, s)  BY <2>2, Zenon DEF Returned, ClosesWent, Went
      <4>. QED  BY <2>2, <4>1, <4>2, Zenon DEF ShutMove, AllFields, MarkedPcs, Collects
    <3>. QED  BY <1>1, <3>1, Zenon DEF ShutdownInv, ShutEffect, ShutFlags
  <2>. QED  BY <1>2, <2>1, <2>2, Zenon
<1>3. ASSUME client'.shutdown, NEW t \in Threads, thread'[t].pc \in OpenPcs PROVE H(t)' \in client'.late
  <2>1. thread[t].pc \in OpenPcs /\ thread'[t].h = thread[t].h
    <3>1. ShutMove(t)  BY <1>1 DEF ShutEffect
    <3>2. ~Returned(t) /\ ~\E s : ClosesWent(t, s)
      BY <1>3, Zenon DEF Returned, ClosesWent, Went, OpenPcs
    <3>. QED  BY <1>3, <3>1, <3>2, Zenon DEF ShutMove, AllFields, MarkedPcs, OpenPcs, Collects
  <2>2. H(t) \in client'.late  BY <1>1, <1>3, <2>1, Zenon DEF ShutdownInv, ShutEffect, ShutFlags
  <2>. QED  BY <2>1, <2>2, Zenon DEF H
<1>4. ASSUME NEW h \in Handles, Owned(h)', ~handle[h].exists
      PROVE  client'.opened[StreamOf(h)] = h /\ (client.shutdown => Covered(h)')
  <2>1. ~SnapshotRead(h)  BY <1>4, Zenon DEF Owned, SnapshotRead
  <2>2. PICK t \in Threads : Inserts(t, h)  BY <1>1, <1>4, Zenon DEF ShutEffect, ShutHandle, Owned
  <2>3. client.shutdown => h \in client'.late
    BY <1>1, <2>2, Zenon DEF Inserts, ShutdownInv, ShutEffect, ShutFlags, OpenPcs
  <2>. QED  BY <2>1, <2>2, <2>3, Zenon DEF Inserts, Covered
<1>5. ASSUME NEW h \in Handles, Owned(h)', handle[h].exists PROVE Owned(h)
  BY <1>5, Zenon DEF Owned, SnapshotRead
<1>6. ASSUME NEW h \in Handles, Owned(h), ~Covered(h) PROVE Covered(h)' \/ client'.opened[StreamOf(h)] = h
  <2>1. PICK s \in StreamIds : s = StreamOf(h)  BY StreamFacts, Zenon
  <2>2. client.opened[s] = h  BY <1>6, <2>1, Zenon DEF ShutdownInv
  <2>3. ASSUME NEW g \in Handles, g # h, Owned(g)', StreamOf(g) = s PROVE Covered(h)'
    <3>1. g \in Others(h)'  BY <2>1, <2>3, Zenon DEF Others, Owned, StreamOf, SnapshotRead
    <3>. QED  BY <3>1, Zenon DEF Covered
  <2>4. CASE client'.opened[s] = client.opened[s]  BY <2>1, <2>2, <2>4, Zenon
  <2>5. ASSUME NEW t \in Threads, ClosedIt(t, H(t)), StreamOf(H(t)) = s PROVE Covered(h)'
    <3>1. Owned(H(t)) /\ handle'[H(t)].result # "none"  BY <2>5, ThreadFacts, Zenon DEF ClosedIt, CallFits
    <3>2. CASE H(t) = h  BY <3>1, <3>2, Zenon DEF Covered
    <3>3. CASE H(t) # h
      <4>1. PICK g \in Handles : g = H(t)  BY <3>1, Zenon DEF Owned
      <4>2. handle'[g].exists  BY <1>1, <3>1, <4>1, Zenon DEF ShutEffect, ShutHandle, Inserts, Owned
      <4>3. Owned(g)'  BY <3>1, <4>1, <4>2, Zenon DEF Owned, Handles, SnapshotRead
      <4>. QED  BY <2>3, <2>5, <3>3, <4>1, <4>3, Zenon
    <3>. QED  BY <3>2, <3>3, Zenon
  <2>6. ASSUME NEW t \in Threads, Inserts(t, H(t)), StreamOf(H(t)) = s, ~SnapshotRead(H(t)) PROVE Covered(h)'
    <3>1. PICK g : g = H(t)  BY Zenon
    <3>2. g \in Handles /\ ~handle[g].exists
      BY <2>6, <3>1, ThreadFacts, CallOf, Zenon DEF Inserts, CallFits, OpenPcs
    <3>3. Owned(g)'  BY <2>6, <3>1, <3>2, Zenon DEF Inserts, Owned, Handles, SnapshotRead
    <3>. QED  BY <1>6, <2>3, <2>6, <3>1, <3>2, <3>3, Zenon DEF Owned
  <2>7. ASSUME NEW t \in Threads, Collects(t) PROVE Covered(h)'
    BY <2>1, <2>2, <2>7, CollectedCovered, Zenon
  <2>. QED  BY <1>1, <2>1, <2>4, <2>5, <2>6, <2>7, Zenon DEF ShutEffect, ShutMap
<1>7. ASSUME NEW h \in Handles, Owned(h)' PROVE Covered(h)' \/ client'.opened[StreamOf(h)] = h
  BY <1>1, <1>4, <1>5, <1>6, <1>7, CoverKept, Zenon DEF Owned
<1>8. ASSUME NEW t \in Threads, HasCollected(t)', NEW h \in Handles, Owned(h)' PROVE Covered(h)'
  <2>1. HasCollected(t) \/ thread[t].pc = "collect"  BY <1>1, <1>8, CollectedBefore, Zenon
  <2>2. client.shutdown  BY <2>1, Zenon DEF ShutdownInv
  <2>3. CASE ~handle[h].exists  BY <1>4, <1>8, <2>2, <2>3, Zenon
  <2>4. CASE handle[h].exists /\ HasCollected(t)
    BY <1>1, <1>5, <1>8, <2>4, CoverKept, Zenon DEF ShutdownInv
  <2>5. CASE handle[h].exists /\ thread[t].pc = "collect"
    <3>1. CASE Covered(h)  BY <1>1, <2>5, <3>1, CoverKept, Zenon
    <3>2. CASE ~Covered(h)
      <4>1. client.opened[StreamOf(h)] = h  BY <1>5, <1>8, <2>5, <3>2, Zenon DEF ShutdownInv
      <4>2. Collects(t) \/ HasCollected(t)
        <5>1. CASE Collects(t)  BY <5>1, Zenon
        <5>2. CASE ~Collects(t)
          <6>1. ShutMove(t) /\ CallFits(t)  BY <1>1, ThreadFacts, Zenon DEF ShutEffect
          <6>2. Kind(t) \in ShutdownKinds /\ thread[t].pc \notin MarkedPcs /\ thread[t].pc \notin ClosePcs
            BY <2>5, <6>1, Zenon DEF CallFits, MarkedPcs, ClosePcs
          <6>3. \A f \in AllFields : thread'[t][f] = thread[t][f]
            BY <2>5, <5>2, <6>1, <6>2, Zenon DEF ShutMove, ClosedIt
          <6>4. thread'[t].k = thread[t].k /\ thread'[t].pc = thread[t].pc  BY <6>3, Zenon DEF AllFields
          <6>. QED  BY <1>8, <2>5, <6>2, <6>4, Zenon DEF HasCollected
        <5>. QED  BY <5>1, <5>2, Zenon
      <4>3. CASE Collects(t)  BY <4>1, <4>3, StreamFacts, CollectedCovered, Zenon
      <4>4. CASE HasCollected(t)  BY <1>5, <1>8, <2>5, <3>2, <4>4, Zenon DEF ShutdownInv
      <4>. QED  BY <4>2, <4>3, <4>4, Zenon
    <3>. QED  BY <3>1, <3>2, Zenon
  <2>. QED  BY <2>1, <2>3, <2>4, <2>5, Zenon
<1>9. Handles' = Handles /\ \A h \in Handles : StreamOf(h)' = StreamOf(h)  BY Zenon DEF Handles, StreamOf
<1>. QED  BY <1>2, <1>3, <1>7, <1>8, <1>9, Zenon DEF ShutdownInv
=============================================================================

-------------------------- MODULE StreamClientCalls --------------------------
(***************************************************************************)
(* The first layer of the inductive invariant of StreamClient: every thread  *)
(* is at a point of the call that its plan has there, kept by every step.    *)
(***************************************************************************)
EXTENDS StreamClientEffects, TLAPS

-----------------------------------------------------------------------------
(* Sequences and plans *)

\* The streams to be closed: the next one, and the rest.
LEMMA ValueInRange ==
  ASSUME NEW f, NEW i \in DOMAIN f
  PROVE  f[i] \in Range(f)
BY Zenon DEF Range

LEMMA TailInRange ==
  ASSUME NEW S, NEW s \in Seq(S), s # <<>>, NEW x \in Range(Tail(s))
  PROVE  x \in Range(s)
<1>1. PICK i \in DOMAIN Tail(s) : x = Tail(s)[i]  BY Zenon DEF Range
<1>2. i + 1 \in DOMAIN s /\ Tail(s)[i] = s[i + 1]  OBVIOUS
<1>3. s[i + 1] \in Range(s)  BY <1>2, ValueInRange, Zenon
<1>. QED  BY <1>1, <1>2, <1>3, Zenon

LEMMA AppendRange ==
  ASSUME NEW S, NEW s \in Seq(S), NEW e, NEW x \in Range(Append(s, e)), x # e
  PROVE  x \in Range(s)
<1>1. PICK i \in DOMAIN Append(s, e) : x = Append(s, e)[i]  BY Zenon DEF Range
<1>2. i \in DOMAIN s /\ Append(s, e)[i] = s[i]  BY <1>1
<1>3. s[i] \in Range(s)  BY <1>2, ValueInRange, Zenon
<1>. QED  BY <1>1, <1>2, <1>3, Zenon

LEMMA HeadOrTail ==
  ASSUME NEW S, NEW s \in Seq(S), s # <<>>, NEW x \in Range(s), x # Head(s)
  PROVE  x \in Range(Tail(s))
<1>1. PICK i \in DOMAIN s : x = s[i]  BY Zenon DEF Range
<1>2. i - 1 \in DOMAIN Tail(s) /\ Tail(s)[i - 1] = s[i]  BY <1>1
<1>3. Tail(s)[i - 1] \in Range(Tail(s))  BY <1>2, ValueInRange, Zenon
<1>. QED  BY <1>1, <1>2, <1>3, Zenon

\* The calls of a program, and the one that its thread is at.
LEMMA ProgramOf ==
  ASSUME plan \in ClientPlans, NEW t \in Threads
  PROVE  /\ Len(plan.programs[t]) \in Nat /\ DOMAIN plan.programs[t] = 1..Len(plan.programs[t])
         /\ \A i \in DOMAIN plan.programs[t] :
              /\ i \in Nat /\ plan.programs[t][i].h \in Handles
              /\ plan.programs[t][i].from \in Nat /\ plan.programs[t][i].to \in Nat
              /\ plan.programs[t][i].kind \in CallKinds
<1>1. ASSUME NEW S, NEW q \in Seq(S)
      PROVE  Len(q) \in Nat /\ DOMAIN q = 1..Len(q) /\ \A i \in 1..Len(q) : q[i] \in S
  OBVIOUS
<1>2. \A u \in Threads : plan.programs[u] \in Seq([kind : CallKinds, h : Handles, from : Nat, to : Nat])
  BY ClientAssumption, Zenon DEF Handles
<1>3. PICK q : q = plan.programs[t]  BY Zenon
<1>4. q \in Seq([kind : CallKinds, h : Handles, from : Nat, to : Nat])  BY <1>2, <1>3, Zenon
<1>5. /\ Len(q) \in Nat /\ DOMAIN q = 1..Len(q)
      /\ \A i \in 1..Len(q) : q[i] \in [kind : CallKinds, h : Handles, from : Nat, to : Nat]
  BY <1>1, <1>4, Zenon
<1>. QED  BY <1>3, <1>5

LEMMA CallOf ==
  ASSUME plan \in ClientPlans, NEW t \in Threads, thread[t].k \in Nat, thread[t].k >= 1, HasCall(t)
  PROVE  /\ thread[t].k \in DOMAIN plan.programs[t] /\ Call(t).h \in Handles /\ Call(t).from \in Nat
         /\ Call(t).to \in Nat /\ Kind(t) \in CallKinds
<1>1. thread[t].k \in DOMAIN plan.programs[t]  BY ProgramOf DEF HasCall
<1>. QED  BY <1>1, ProgramOf, Zenon DEF Call, Kind

-----------------------------------------------------------------------------
(* The calls, the map and the listeners *)

AllFields == {"k", "pc", "h", "lo", "hi", "todo"}

LEMMA ThreadFacts ==
  ASSUME ClientTypeOK, CallInv, NEW t \in Threads
  PROVE  /\ plan \in ClientPlans /\ CallFits(t) /\ thread[t].k \in Nat /\ thread[t].k >= 1
         /\ thread[t].todo \in Seq(Handles) /\ thread[t].h \in Handles \union {NoHandle}
         /\ thread[t].pc # "idle" => HasCall(t)
BY Zenon DEF ClientTypeOK, ThreadType, CallInv, CallFits

\* Every step keeps the invariant of the calls.
LEMMA CallKept ==
  ClientTypeOK /\ ClientTypeOK' /\ CallInv /\ plan' = plan /\ ClientDone => CallInv'
\* A handle is opened by one call.
<1>OpenedOnce. ASSUME plan \in ClientPlans, NEW t \in Threads, NEW u \in Threads,
             NEW i \in DOMAIN plan.programs[t], NEW j \in DOMAIN plan.programs[u],
             plan.programs[t][i].kind = "open", plan.programs[u][j].kind = "open",
             plan.programs[t][i].h = plan.programs[u][j].h
      PROVE  t = u /\ i = j
  <2> USE <1>OpenedOnce
  <2>1. \A v, w \in Threads : \A k \in DOMAIN plan.programs[v], l \in DOMAIN plan.programs[w] :
          (/\ plan.programs[v][k].kind = "open" /\ plan.programs[w][l].kind = "open"
           /\ plan.programs[v][k].h = plan.programs[w][l].h) => v = w /\ k = l
    BY ClientAssumption, Zenon
  <2>. QED  BY <2>1, Zenon
<1>HeadInRange. ASSUME NEW S, NEW s \in Seq(S), s # <<>>
      PROVE  Head(s) \in Range(s)
  <2> USE <1>HeadInRange
  <2>1. 1 \in DOMAIN s /\ Head(s) = s[1]  OBVIOUS
  <2>2. s[1] \in Range(s)  BY <2>1, ValueInRange, Zenon
  <2>. QED  BY <2>1, <2>2, Zenon
\* A step of another thread.
<1>OthersFit. ASSUME plan' = plan, NEW u \in Threads, CallFits(u),
             thread'[u].k = thread[u].k, thread'[u].pc = thread[u].pc, thread'[u].h = thread[u].h,
             thread'[u].todo = thread[u].todo,
             \A h \in Handles : handle[h].exists => handle'[h].exists,
             thread[u].pc \in OpenPcs => handle'[H(u)].exists = handle[H(u)].exists
      PROVE  CallFits(u)'
  BY <1>OthersFit, Zenon DEF CallFits, Owned, HasCall, Call, Kind, H, SnapshotRead, Handles
\* A call returns.
<1>ReturnFits. ASSUME NEW t \in Threads, thread[t].k \in Nat, CallFits(t), Returned(t)
      PROVE  CallFits(t)'
  <2> USE <1>ReturnFits
  <2>1. Range(<<>>) = {}  BY DEF Range
  <2>2. /\ thread'[t].k >= 1 /\ thread'[t].pc = "idle" /\ Range(thread'[t].todo) = {}
    BY <2>1 DEF CallFits, Returned
  <2>. QED  BY <2>2, Zenon DEF CallFits, OpenPcs, AppendPcs, FetchPcs, TrimPcs, MarkedPcs, ClosePcs
\* A call goes on with its handle.
<1>MoveFits. ASSUME plan' = plan, NEW t \in Threads, CallFits(t), NEW pc, NEW F \in SUBSET {"lo", "hi"}, Went(t, pc, F),
             \A h \in Handles : handle[h].exists => handle'[h].exists,
             NEW C \in {AppendPcs, FetchPcs, TrimPcs, MarkedPcs}, thread[t].pc \in C, pc \in C,
             pc \in {"destroy", "delete"} => Kind(t) = "destroy"
      PROVE  CallFits(t)'
  <2> USE <1>MoveFits
  <2>1. /\ thread'[t].k = thread[t].k /\ thread'[t].h = thread[t].h /\ thread'[t].todo = thread[t].todo
        /\ thread'[t].pc = pc
    BY Zenon DEF Went, ThreadBut
  <2>. QED
    BY <2>1, Zenon DEF CallFits, Owned, HasCall, Call, Kind, H, SnapshotRead, Handles, OpenPcs, AppendPcs, FetchPcs,
                TrimPcs, MarkedPcs, ClosePcs
<1>NotBelowItself. \A n \in Nat : ~(n < n)
  OBVIOUS
\* A call begins.
<1>TookFits. ASSUME ClientTypeOK, CallInv, plan' = plan, NEW t \in Threads, NEW pc, Took(t, pc), thread[t].pc = "idle",
             HasCall(t), \A h \in Handles : handle'[h].exists = handle[h].exists,
             \/ pc \in OpenPcs /\ Kind(t) = "open" /\ (pc = "open" => ~SnapshotRead(Call(t).h))
             \/ handle[Call(t).h].exists /\ pc = "check" /\ Kind(t) \in {"append", "submit"} /\ ~SnapshotRead(Call(t).h)
             \/ handle[Call(t).h].exists /\ pc = "confirm" /\ Kind(t) = "fetch"
             \/ handle[Call(t).h].exists /\ pc = "trim lock" /\ Kind(t) = "trim" /\ ~SnapshotRead(Call(t).h)
             \/ handle[Call(t).h].exists /\ pc = "close" /\ Kind(t) \in {"close", "destroy"}
      PROVE  CallFits(t)'
  <2> USE <1>TookFits
  <2>1. /\ thread'[t].k = thread[t].k /\ thread'[t].h = Call(t).h /\ thread'[t].todo = thread[t].todo
        /\ thread'[t].pc = pc
    BY Zenon DEF Took, Went, ThreadBut
  <2>2. /\ Call(t)' = Call(t) /\ Kind(t)' = Kind(t) /\ HasCall(t)' /\ H(t)' = Call(t).h
    BY <2>1, Zenon DEF Call, Kind, HasCall, H
  <2>3. thread[t].k \in DOMAIN plan.programs[t] /\ Call(t).h \in Handles /\ thread[t].k >= 1
    BY ThreadFacts, CallOf, Zenon
  <2>4. \A h \in Handles : (SnapshotRead(h)' <=> SnapshotRead(h)) /\ (handle'[h].exists <=> handle[h].exists)
    BY Zenon DEF SnapshotRead
  <2>5. Handles' = Handles  BY Zenon DEF Handles
  <2>6. \A h \in Range(thread'[t].todo) : Owned(h)'
    BY <2>1, <2>4, <2>5, ThreadFacts, Zenon DEF CallFits, Owned
  <2>7. Kind(t) = "open" => ~handle[Call(t).h].exists
    <3>1. thread[t].k \in Nat /\ OpenedBefore  BY ThreadFacts, Zenon DEF CallInv
    <3>2. (Kind(t) = "open" /\ handle[Call(t).h].exists) => thread[t].k < thread[t].k
      BY <2>3, <3>1, Zenon DEF OpenedBefore, Kind, Call
    <3>. QED  BY <3>1, <3>2, <1>NotBelowItself, Zenon
  <2>8. PICK h \in Handles : h = Call(t).h  BY <2>3, Zenon
  <2>9. /\ H(t)' = h /\ h \in Handles' /\ (SnapshotRead(h)' <=> SnapshotRead(h))
        /\ (handle'[h].exists <=> handle[h].exists) /\ (Kind(t) = "open" => ~handle[h].exists)
        /\ Call(t)'.h = h /\ thread'[t].k >= 1
    BY <2>1, <2>2, <2>3, <2>4, <2>5, <2>7, <2>8, Zenon
  <2>. QED
    BY <2>1, <2>2, <2>6, <2>8, <2>9, Zenon
    DEF CallFits, Owned, OpenPcs, AppendPcs, FetchPcs, TrimPcs, MarkedPcs, ClosePcs, ShutdownKinds
\* The streams are closed one after the other.
<1>ClosesFits. ASSUME ClientTypeOK, CallInv, plan' = plan, NEW t \in Threads, NEW s \in Seq(Handles), ClosesWent(t, s),
             \A h \in Range(s) : Owned(h), HasCall(t),
             Kind(t) \in {"close", "destroy"} \union ShutdownKinds,
             \A h \in Handles : handle'[h].exists = handle[h].exists
      PROVE  CallFits(t)' /\ thread'[t].k >= thread[t].k
  <2> USE <1>ClosesFits
  <2>1. CASE s # <<>> /\ Went(t, "close", {"h", "lo", "hi", "todo"})
             /\ thread'[t].h = Head(s) /\ thread'[t].todo = Tail(s)
    <3>1. thread'[t].k = thread[t].k /\ thread'[t].pc = "close"  BY <2>1, Zenon DEF Went, ThreadBut
    <3>2. /\ Call(t)' = Call(t) /\ Kind(t)' = Kind(t) /\ HasCall(t)' /\ H(t)' = Head(s)
      BY <2>1, <3>1, Zenon DEF Call, Kind, HasCall, H
    <3>3. Owned(Head(s)) /\ \A h \in Range(thread'[t].todo) : Owned(h)
      BY <2>1, <1>HeadInRange, TailInRange, Zenon
    <3>4. \A h : Owned(h) => Owned(h)'
      BY Zenon DEF Owned, SnapshotRead, Handles
    <3>5. thread[t].k \in Nat /\ thread[t].k >= 1  BY ThreadFacts, Zenon
    <3>. QED
      BY <2>1, <3>1, <3>2, <3>3, <3>4, <3>5
      DEF CallFits, Owned, OpenPcs, AppendPcs, FetchPcs, TrimPcs, MarkedPcs, ClosePcs
  <2>2. CASE s = <<>> /\ Kind(t) = "failure" /\ Went(t, "halt", {})
    <3>1. thread'[t].k = thread[t].k /\ thread'[t].pc = "halt" /\ thread'[t].todo = thread[t].todo
      BY <2>2, Zenon DEF Went, ThreadBut
    <3>2. Kind(t)' = Kind(t) /\ HasCall(t)'  BY <3>1, Zenon DEF Call, Kind, HasCall
    <3>3. \A h : Owned(h) => Owned(h)'
      BY DEF Owned, SnapshotRead, Handles
    <3>4. thread[t].k \in Nat /\ thread[t].k >= 1 /\ \A h \in Range(thread[t].todo) : Owned(h)
      BY ThreadFacts, Zenon DEF CallFits
    <3>. QED
      BY <2>2, <3>1, <3>2, <3>3, <3>4
      DEF CallFits, OpenPcs, AppendPcs, FetchPcs, TrimPcs, MarkedPcs, ClosePcs, ShutdownKinds
  <2>3. CASE Returned(t)
    <3>1. CallFits(t)'  BY <2>3, ThreadFacts, <1>ReturnFits, Zenon
    <3>2. thread'[t].k >= thread[t].k  BY <2>3, ThreadFacts DEF Returned
    <3>. QED  BY <3>1, <3>2, Zenon
  <2>. QED  BY <2>1, <2>2, <2>3, Zenon DEF ClosesWent
\* What does not depend on the thread, when no handle is opened.
<1>RestKept. ASSUME ClientTypeOK, CallInv, plan' = plan,
             \A u \in Threads : thread'[u].k \in Nat /\ thread'[u].k >= thread[u].k,
             \A h \in Handles : handle'[h].exists = handle[h].exists /\ (handle'[h].listens => handle[h].listens),
             \A s \in StreamIds : client'.opened[s] \in {client.opened[s], NoHandle},
             \A n \in updates' : \/ \E m \in updates : n.handle = m.handle
                                 \/ n.handle \in Handles /\ handle[n.handle].listens
      PROVE  OpenedBefore' /\ MapInv' /\ ListenInv'
  <2> USE <1>RestKept
  <2>1. \A h \in Handles : SnapshotRead(h)' = SnapshotRead(h) /\ StreamOf(h)' = StreamOf(h)
    BY Zenon DEF SnapshotRead, StreamOf
  <2>2. Handles' = Handles  BY Zenon DEF Handles
  <2>3. OpenedBefore'
    <3>1. SUFFICES ASSUME NEW u \in Threads, NEW i \in DOMAIN plan.programs[u],
                          plan.programs[u][i].kind = "open", handle'[plan.programs[u][i].h].exists
                   PROVE  i < thread'[u].k
      BY Zenon DEF OpenedBefore
    <3>2. i \in Nat /\ plan.programs[u][i].h \in Handles  BY ProgramOf, Zenon DEF ClientTypeOK
    <3>3. i < thread[u].k  BY <3>1, <3>2, Zenon DEF CallInv, OpenedBefore
    <3>. QED  BY <3>2, <3>3, ThreadFacts
  <2>4. MapInv'
    BY <2>1, <2>2, Zenon DEF CallInv, MapInv, Owned
  <2>5. ListenInv'
    <3>1. \A m \in updates : m.handle \in Handles  BY Zenon DEF ClientTypeOK
    <3>. QED  BY <2>1, <2>2, <3>1, Zenon DEF CallInv, ListenInv
  <2>. QED  BY <2>3, <2>4, <2>5, Zenon
\* A step of a thread that opens no handle.
<1>CallFrame. ASSUME ClientTypeOK, CallInv, plan' = plan, NEW t \in Threads, ThreadBut(t, AllFields),
             thread'[t].k \in Nat, thread'[t].k >= thread[t].k, CallFits(t)',
             \A h \in Handles : handle'[h].exists = handle[h].exists /\ (handle'[h].listens => handle[h].listens),
             \A s \in StreamIds : client'.opened[s] \in {client.opened[s], NoHandle},
             \A n \in updates' : \/ \E m \in updates : n.handle = m.handle
                                 \/ n.handle \in Handles /\ handle[n.handle].listens
      PROVE  CallInv'
  <2> USE <1>CallFrame
  <2>1. ASSUME NEW u \in Threads, u # t
        PROVE  CallFits(u)' /\ thread'[u].k \in Nat /\ thread'[u].k >= thread[u].k
    <3>1. /\ thread'[u].k = thread[u].k /\ thread'[u].pc = thread[u].pc /\ thread'[u].h = thread[u].h
          /\ thread'[u].todo = thread[u].todo
      BY <2>1, Zenon DEF ThreadBut
    <3>2. CallFits(u) /\ thread[u].k \in Nat  BY ThreadFacts, Zenon
    <3>3. thread[u].pc \in OpenPcs => H(u) \in Handles
      BY <3>2, ThreadFacts, CallOf, Zenon DEF CallFits, OpenPcs
    <3>. QED  BY <3>1, <3>2, <3>3, <1>OthersFit
  <2>2. \A u \in Threads : CallFits(u)' /\ thread'[u].k \in Nat /\ thread'[u].k >= thread[u].k
    BY <2>1, Zenon
  <2>3. OpenedBefore' /\ MapInv' /\ ListenInv'  BY <2>2, <1>RestKept, Zenon
  <2>. QED  BY <2>2, <2>3, Zenon DEF CallInv
\* The handle is inserted that one call opens.
<1>InsertCall. ASSUME ClientTypeOK, ClientTypeOK', CallInv, plan' = plan, NEW t \in Threads, OpenInsertDone(t)
      PROVE  CallInv'
  <2> USE <1>InsertCall
  <2>1. thread[t].pc = "insert" /\ Returned(t) /\ CallFits(t) /\ thread[t].k \in Nat /\ HasCall(t)
    BY ThreadFacts, Zenon DEF OpenInsertDone
  <2>2. /\ thread[t].k \in DOMAIN plan.programs[t] /\ H(t) \in Handles
        /\ plan.programs[t][thread[t].k].kind = "open" /\ plan.programs[t][thread[t].k].h = H(t)
    BY <2>1, ThreadFacts, CallOf, Zenon DEF CallFits, OpenPcs, Kind, Call
  <2>3. /\ \A h \in Handles : h # H(t) => handle'[h].exists = handle[h].exists
                                           /\ handle'[h].listens = handle[h].listens
        /\ handle'[H(t)].exists /\ (handle'[H(t)].listens => SnapshotRead(H(t)))
    <3>1. HandleBut(H(t), {"exists", "start", "next", "confirm", "status", "appends", "fetches",
                           "trimming", "closing", "result", "listens"})
          /\ handle'[H(t)] = IF SnapshotRead(H(t)) THEN NewHandle(FakeOffset, FakeOffset, TRUE)
                             ELSE NewHandle(thread[t].lo, thread[t].hi, FALSE)
      BY Zenon DEF OpenInsertDone
    <3>2. \A h \in Handles : h # H(t) => handle'[h].exists = handle[h].exists
                                           /\ handle'[h].listens = handle[h].listens
      BY <3>1, Zenon DEF HandleBut
    <3>3. CASE SnapshotRead(H(t))  BY <3>1, <3>2, <3>3 DEF NewHandle
    <3>4. CASE ~SnapshotRead(H(t))  BY <3>1, <3>2, <3>4 DEF NewHandle
    <3>. QED  BY <3>3, <3>4, Zenon
  <2>4. \A h \in Handles : SnapshotRead(h)' = SnapshotRead(h) /\ StreamOf(h)' = StreamOf(h)
    BY Zenon DEF SnapshotRead, StreamOf
  <2>5. Handles' = Handles  BY Zenon DEF Handles
  <2>6. ASSUME NEW u \in Threads PROVE CallFits(u)'
    <3>1. CASE u = t  BY <2>1, <3>1, <1>ReturnFits, Zenon
    <3>2. CASE u # t
      <4>1. /\ thread'[u].k = thread[u].k /\ thread'[u].pc = thread[u].pc /\ thread'[u].h = thread[u].h
            /\ thread'[u].todo = thread[u].todo
        BY <2>1, <3>2, Zenon DEF Returned, ThreadBut
      <4>2. \A h \in Handles : handle[h].exists => handle'[h].exists  BY <2>2, <2>3, Zenon
      <4>3. ASSUME thread[u].pc \in OpenPcs PROVE handle'[H(u)].exists = handle[H(u)].exists
        <5>1. /\ thread[u].k \in DOMAIN plan.programs[u] /\ H(u) \in Handles
              /\ plan.programs[u][thread[u].k].kind = "open" /\ plan.programs[u][thread[u].k].h = H(u)
          BY <4>3, ThreadFacts, CallOf, Zenon DEF CallFits, OpenPcs, Kind, Call
        <5>2. H(u) # H(t)  BY <2>2, <3>2, <5>1, ThreadFacts, <1>OpenedOnce
        <5>. QED  BY <2>3, <5>1, <5>2, Zenon
      <4>. QED  BY <4>1, <4>2, <4>3, ThreadFacts, <1>OthersFit, Zenon
    <3>. QED  BY <3>1, <3>2, Zenon
  <2>7. OpenedBefore'
    <3>1. SUFFICES ASSUME NEW u \in Threads, NEW i \in DOMAIN plan.programs[u],
                          plan.programs[u][i].kind = "open", handle'[plan.programs[u][i].h].exists
                   PROVE  i < thread'[u].k
      BY Zenon DEF OpenedBefore
    <3>2. i \in Nat /\ plan.programs[u][i].h \in Handles  BY ProgramOf, Zenon DEF ClientTypeOK
    <3>3. thread'[t].k = thread[t].k + 1 /\ (u # t => thread'[u].k = thread[u].k)
      BY <2>1, Zenon DEF Returned, ThreadBut
    <3>4. CASE plan.programs[u][i].h = H(t)
      <4>1. u = t /\ i = thread[t].k  BY <2>2, <3>1, <3>4, <1>OpenedOnce DEF ClientTypeOK
      <4>. QED  BY <2>1, <3>3, <4>1
    <3>5. CASE plan.programs[u][i].h # H(t)
      <4>1. i < thread[u].k  BY <2>3, <3>1, <3>2, <3>5, Zenon DEF CallInv, OpenedBefore
      <4>2. thread[u].k \in Nat  BY ThreadFacts, Zenon
      <4>. QED  BY <3>2, <3>3, <4>1, <4>2
    <3>. QED  BY <3>4, <3>5, Zenon
  <2>8. MapInv'
    <3>1. \A h : Owned(h) => Owned(h)'  BY <2>2, <2>3, <2>4, <2>5, Zenon DEF Owned
    <3>2. CASE client' = client
      BY <2>4, <2>5, <3>1, <3>2, Zenon DEF CallInv, MapInv, Owned
    <3>3. CASE ~SnapshotRead(H(t)) /\ client'.opened = [client.opened EXCEPT ![StreamOf(H(t))] = H(t)]
      <4>0. PICK g \in Handles : g = H(t)  BY <2>2, Zenon
      <4>1. Owned(g)'  BY <2>3, <2>4, <2>5, <3>3, <4>0, Zenon DEF Owned
      <4>2. client.opened \in [StreamIds -> Handles \union {NoHandle}]  BY Zenon DEF ClientTypeOK, ClientType
      <4>3. \A s \in StreamIds : client'.opened[s] = IF s = StreamOf(g) THEN g ELSE client.opened[s]
        BY <3>3, <4>0, <4>2, Zenon
      <4>4. StreamOf(g)' = StreamOf(g)  BY <2>4, Zenon
      <4>5. ASSUME NEW s \in StreamIds, NEW f, f = client'.opened[s], f # NoHandle
            PROVE  Owned(f)' /\ StreamOf(f)' = s
        <5>1. CASE s = StreamOf(g)
          <6>1. f = g  BY <4>3, <4>5, <5>1, Zenon
          <6>. QED  BY <4>1, <4>4, <5>1, <6>1, Zenon
        <5>2. CASE s # StreamOf(g)
          <6>1. Owned(f) /\ StreamOf(f) = s  BY <4>3, <4>5, <5>2, Zenon DEF CallInv, MapInv
          <6>. QED  BY <2>4, <3>1, <6>1, Zenon DEF Owned
        <5>. QED  BY <5>1, <5>2, Zenon
      <4>. QED  BY <4>5, Zenon DEF MapInv
    <3>. QED  BY <3>2, <3>3, Zenon DEF OpenInsertDone
  <2>9. ListenInv'
    <3>1. updates' = updates /\ updates \subseteq UpdateType  BY Zenon DEF OpenInsertDone, ClientTypeOK, UpdateType
    <3>. QED  BY <2>3, <2>4, <2>5, <3>1, Zenon DEF CallInv, ListenInv, UpdateType
  <2>. QED  BY <2>6, <2>7, <2>8, <2>9, Zenon DEF CallInv
\* The same for a thread that returns.
<1>ReturnFrame. ASSUME ClientTypeOK, CallInv, plan' = plan, NEW t \in Threads, Returned(t),
             \A h \in Handles : handle'[h].exists = handle[h].exists /\ (handle'[h].listens => handle[h].listens),
             \A s \in StreamIds : client'.opened[s] \in {client.opened[s], NoHandle},
             \A n \in updates' : \/ \E m \in updates : n.handle = m.handle
                                 \/ n.handle \in Handles /\ handle[n.handle].listens
      PROVE  CallInv'
  <2> USE <1>ReturnFrame
  <2>1. thread[t].k \in Nat /\ CallFits(t)  BY ThreadFacts, Zenon
  <2>2. thread'[t].k \in Nat /\ thread'[t].k >= thread[t].k /\ ThreadBut(t, AllFields)
    BY <2>1 DEF Returned, AllFields
  <2>3. CallFits(t)'  BY <2>1, <1>ReturnFits, Zenon
  <2>. QED  BY <2>2, <2>3, <1>CallFrame, Zenon
\* The same for a thread that goes on with its call.
<1>MoveFrame. ASSUME ClientTypeOK, CallInv, plan' = plan, NEW t \in Threads, NEW pc, NEW F \in SUBSET {"lo", "hi"},
             Went(t, pc, F), NEW C \in {AppendPcs, FetchPcs, TrimPcs, MarkedPcs}, thread[t].pc \in C, pc \in C,
             pc \in {"destroy", "delete"} => Kind(t) = "destroy",
             \A h \in Handles : handle'[h].exists = handle[h].exists /\ (handle'[h].listens => handle[h].listens),
             \A s \in StreamIds : client'.opened[s] \in {client.opened[s], NoHandle},
             \A n \in updates' : \/ \E m \in updates : n.handle = m.handle
                                 \/ n.handle \in Handles /\ handle[n.handle].listens
      PROVE  CallInv'
  <2> USE <1>MoveFrame
  <2>1. thread[t].k \in Nat /\ CallFits(t)  BY ThreadFacts, Zenon
  <2>2. thread'[t].k = thread[t].k /\ ThreadBut(t, AllFields)  BY Zenon DEF Went, ThreadBut, AllFields
  <2>3. CallFits(t)'  BY <2>1, <1>MoveFits, Zenon
  <2>4. thread'[t].k \in Nat /\ thread'[t].k >= thread[t].k  BY <2>1, <2>2
  <2>. QED  BY <2>2, <2>3, <2>4, <1>CallFrame, Zenon
\* The same for a thread that starts a call.
<1>TookFrame. ASSUME ClientTypeOK, CallInv, plan' = plan, NEW t \in Threads, NEW pc, Took(t, pc), CallFits(t)',
             \A h \in Handles : handle'[h].exists = handle[h].exists /\ (handle'[h].listens => handle[h].listens),
             \A s \in StreamIds : client'.opened[s] \in {client.opened[s], NoHandle},
             \A n \in updates' : \/ \E m \in updates : n.handle = m.handle
                                 \/ n.handle \in Handles /\ handle[n.handle].listens
      PROVE  CallInv'
  <2> USE <1>TookFrame
  <2>1. thread[t].k \in Nat  BY ThreadFacts, Zenon
  <2>2. thread'[t].k = thread[t].k /\ ThreadBut(t, AllFields)  BY Zenon DEF Took, Went, ThreadBut, AllFields
  <2>4. thread'[t].k \in Nat /\ thread'[t].k >= thread[t].k  BY <2>1, <2>2
  <2>. QED  BY <2>2, <2>4, <1>CallFrame, Zenon
\* A thread that goes on with the streams to be closed.
<1>ClosesFrame. ASSUME ClientTypeOK, ClientTypeOK', CallInv, plan' = plan, NEW t \in Threads, NEW s \in Seq(Handles),
             ClosesWent(t, s), \A h \in Range(s) : Owned(h), HasCall(t),
             Kind(t) \in {"close", "destroy"} \union ShutdownKinds,
             \A h \in Handles : handle'[h].exists = handle[h].exists /\ (handle'[h].listens => handle[h].listens),
             \A r \in StreamIds : client'.opened[r] \in {client.opened[r], NoHandle},
             \A n \in updates' : \/ \E m \in updates : n.handle = m.handle
                                 \/ n.handle \in Handles /\ handle[n.handle].listens
      PROVE  CallInv'
  <2> USE <1>ClosesFrame
  <2>1. CallFits(t)' /\ thread'[t].k >= thread[t].k  BY <1>ClosesFits, Zenon
  <2>2. ThreadBut(t, AllFields)  BY Zenon DEF ClosesWent, Went, Returned, ThreadBut, AllFields
  <2>3. thread'[t].k \in Nat  BY Zenon DEF ClientTypeOK, ThreadType
  <2>. QED  BY <2>1, <2>2, <2>3, <1>CallFrame, Zenon
\* A thread is through with a handle.
<1>ClosedFrame. ASSUME ClientTypeOK, ClientTypeOK', CallInv, plan' = plan, NEW t \in Threads, NEW r, Closed(t, r),
             thread[t].pc \in {"close lock", "upload", "close stream"},
             \A h \in Handles : handle'[h].exists = handle[h].exists /\ (handle'[h].listens => handle[h].listens),
             updates' = updates
      PROVE  CallInv'
  <2> USE <1>ClosedFrame
  <2>1. client.opened \in [StreamIds -> Handles \union {NoHandle}] /\ H(t) \in Handles \union {NoHandle}
        /\ thread[t].todo \in Seq(Handles)
    BY Zenon DEF ClientTypeOK, ClientType, ThreadType, H
  <2>2. \A s \in StreamIds : client'.opened[s] \in {client.opened[s], NoHandle}
    BY <2>1, Zenon DEF Closed
  <2>3. CASE Kind(t) = "destroy" /\ Went(t, "destroy", {})
    BY <2>2, <2>3, <1>MoveFrame, Zenon DEF MarkedPcs
  <2>4. CASE ClosesWent(t, thread[t].todo)
    <3>1. HasCall(t) /\ Kind(t) \in {"close", "destroy"} \union ShutdownKinds
          /\ \A h \in Range(thread[t].todo) : Owned(h)
      BY ThreadFacts, Zenon DEF CallFits, ClosePcs, MarkedPcs
    <3>. QED  BY <2>1, <2>2, <2>4, <3>1, <1>ClosesFrame, Zenon
  <2>. QED  BY <2>3, <2>4, Zenon DEF Closed
<1> SUFFICES ASSUME ClientTypeOK, ClientTypeOK', CallInv, plan' = plan, ClientDone PROVE CallInv'
  BY Zenon
<1>. DEFINE Opens == \A s \in StreamIds : client'.opened[s] \in {client.opened[s], NoHandle}
            Handled == \A h \in Handles :
                         handle'[h].exists = handle[h].exists /\ (handle'[h].listens => handle[h].listens)
            Listened == \A n \in updates' : \/ \E m \in updates : n.handle = m.handle
                                            \/ n.handle \in Handles /\ handle[n.handle].listens
<1>1. ASSUME NEW t \in Threads, ThreadDone(t) PROVE CallInv'
  <2>1. CASE OpenDone(t)
    <3>1. Opens /\ Handled /\ Listened  BY <2>1, Zenon DEF OpenDone
    <3>2. CASE Returned(t)  BY <3>1, <3>2, <1>ReturnFrame, Zenon
    <3>3. CASE Took(t, IF SnapshotRead(Call(t).h) THEN "insert" ELSE "open")
      <4>1. PICK pc : pc = IF SnapshotRead(Call(t).h) THEN "insert" ELSE "open"  BY Zenon
      <4>2. Took(t, pc) /\ pc \in OpenPcs /\ (pc = "open" => ~SnapshotRead(Call(t).h))
        BY <3>3, <4>1, Zenon DEF OpenPcs
      <4>3. CallFits(t)'  BY <2>1, <3>1, <4>2, <1>TookFits, Zenon DEF OpenDone
      <4>. QED  BY <3>1, <4>2, <4>3, <1>TookFrame, Zenon
    <3>. QED  BY <2>1, <3>2, <3>3, Zenon DEF OpenDone
  <2>2. CASE OpenManagerDone(t)
    <3>1. Opens /\ Handled /\ Listened  BY <2>2, Zenon DEF OpenManagerDone
    <3>2. CASE Returned(t)  BY <3>1, <3>2, <1>ReturnFrame
    <3>3. CASE Went(t, "insert", {"lo", "hi"})
      <4>1. thread[t].pc = "open" /\ CallFits(t) /\ thread[t].k \in Nat  BY <2>2, ThreadFacts, Zenon DEF OpenManagerDone
      <4>2. /\ thread'[t].k = thread[t].k /\ thread'[t].h = thread[t].h /\ thread'[t].todo = thread[t].todo
            /\ thread'[t].pc = "insert" /\ ThreadBut(t, AllFields)
        BY <3>3, Zenon DEF Went, ThreadBut, AllFields
      <4>3. handle' = handle  BY <2>2, Zenon DEF OpenManagerDone
      <4>4. CallFits(t)'
        BY <4>1, <4>2, <4>3, Zenon DEF CallFits, Owned, HasCall, Call, Kind, H, SnapshotRead, Handles, OpenPcs,
           AppendPcs, FetchPcs, TrimPcs, MarkedPcs, ClosePcs
      <4>5. thread'[t].k \in Nat /\ thread'[t].k >= thread[t].k  BY <4>1, <4>2
      <4>. QED  BY <3>1, <4>2, <4>4, <4>5, <1>CallFrame, Zenon
    <3>. QED  BY <2>2, <3>2, <3>3, Zenon DEF OpenManagerDone
  <2>3. CASE OpenInsertDone(t)  BY <2>3, <1>InsertCall, Zenon
  <2>4. CASE AppendBeginDone(t)
    <3>1. Opens /\ Handled /\ Listened  BY <2>4, Zenon DEF AppendBeginDone, HandleBut
    <3>2. CASE Returned(t)  BY <3>1, <3>2, <1>ReturnFrame
    <3>3. CASE ~SnapshotRead(Call(t).h) /\ Took(t, "check")
      <4>1. CallFits(t)'  BY <2>4, <3>1, <3>3, <1>TookFits, Zenon DEF AppendBeginDone, Started
      <4>. QED  BY <3>1, <3>3, <4>1, <1>TookFrame, Zenon
    <3>. QED  BY <2>4, <3>2, <3>3, Zenon DEF AppendBeginDone
  <2>5. CASE AppendCheckDone(t)
    <3>1. Opens /\ Handled /\ Listened  BY <2>5, Zenon DEF AppendCheckDone, Dropped, HandleBut
    <3>2. CASE Returned(t)  BY <3>1, <3>2, <1>ReturnFrame
    <3>3. CASE Went(t, "reserve", {})
      BY <2>5, <3>1, <3>3, <1>MoveFrame DEF AppendCheckDone, AppendPcs
    <3>. QED  BY <2>5, <3>2, <3>3, Zenon DEF AppendCheckDone, Dropped
  <2>6. CASE AdmitAppendDone(t)
    <3>1. Opens /\ Handled /\ Listened  BY <2>6, Zenon DEF AdmitAppendDone, HandleBut
    <3>. QED  BY <2>6, <3>1, <1>MoveFrame DEF AdmitAppendDone, AppendPcs
  <2>7. CASE CompleteAppendDone(t)
    <3>1. Opens /\ Handled /\ Listened  BY <2>7, Zenon DEF CompleteAppendDone, HandleBut
    <3>. QED  BY <2>7, <3>1, <1>ReturnFrame, Zenon DEF CompleteAppendDone
  <2>8. CASE CancelAppendDone(t)
    <3>1. Opens /\ Handled /\ Listened  BY <2>8, Zenon DEF CancelAppendDone, Dropped, HandleBut
    <3>. QED  BY <2>8, <3>1, <1>ReturnFrame, Zenon DEF CancelAppendDone, Dropped
  <2>9. CASE FetchBeginDone(t)
    <3>1. Opens /\ Handled /\ Listened  BY <2>9, Zenon DEF FetchBeginDone, HandleBut
    <3>2. CallFits(t)'  BY <2>9, <3>1, <1>TookFits, Zenon DEF FetchBeginDone, Started
    <3>. QED  BY <2>9, <3>1, <3>2, <1>TookFrame, Zenon DEF FetchBeginDone
  <2>10. CASE FetchConfirmDone(t)
    <3>1. Opens /\ Handled /\ Listened  BY <2>10, Zenon DEF FetchConfirmDone, Fetched, HandleBut
    <3>2. CASE Returned(t)  BY <3>1, <3>2, <1>ReturnFrame
    <3>3. CASE Went(t, "start", {"lo", "hi"})
      BY <2>10, <3>1, <3>3, <1>MoveFrame DEF FetchConfirmDone, FetchPcs
    <3>. QED  BY <2>10, <3>2, <3>3, Zenon DEF FetchConfirmDone, Fetched
  <2>11. CASE FetchStartDone(t)
    <3>1. Opens /\ Handled /\ Listened  BY <2>11, Zenon DEF FetchStartDone, Fetched, HandleBut
    <3>2. CASE Returned(t)  BY <3>1, <3>2, <1>ReturnFrame
    <3>3. CASE Went(t, "read", {})
      BY <2>11, <3>1, <3>3, <1>MoveFrame, Zenon DEF FetchStartDone, FetchPcs
    <3>. QED  BY <2>11, <3>2, <3>3, Zenon DEF FetchStartDone, Fetched
  <2>12. CASE FetchReadDone(t)
    <3>1. Opens /\ Handled /\ Listened  BY <2>12, Zenon DEF FetchReadDone, Fetched, HandleBut
    <3>. QED  BY <2>12, <3>1, <1>ReturnFrame, Zenon DEF FetchReadDone, Fetched
  <2>13. CASE TrimBeginDone(t)
    <3>1. Opens /\ Handled /\ Listened  BY <2>13, Zenon DEF TrimBeginDone
    <3>2. CASE Returned(t)  BY <3>1, <3>2, <1>ReturnFrame
    <3>3. CASE ~SnapshotRead(Call(t).h) /\ Took(t, "trim lock")
      <4>1. CallFits(t)'  BY <2>13, <3>1, <3>3, <1>TookFits, Zenon DEF TrimBeginDone, Started
      <4>. QED  BY <3>1, <3>3, <4>1, <1>TookFrame, Zenon
    <3>. QED  BY <2>13, <3>2, <3>3, Zenon DEF TrimBeginDone
  <2>14. CASE TrimStoreDone(t)
    <3>1. Opens /\ Handled /\ Listened  BY <2>14, Zenon DEF TrimStoreDone, HandleBut
    <3>2. CASE Returned(t)  BY <3>1, <3>2, <1>ReturnFrame
    <3>3. CASE Went(t, "trim wait", {})
      <4>1. thread[t].pc \in TrimPcs /\ "trim wait" \in TrimPcs /\ "trim wait" \notin {"destroy", "delete"}
        BY <2>14, Zenon DEF TrimStoreDone, TrimPcs
      <4>. QED  BY <3>1, <3>3, <4>1, <1>MoveFrame, Zenon
    <3>. QED  BY <2>14, <3>2, <3>3, Zenon DEF TrimStoreDone
  <2>15. CASE TrimWaitDone(t)
    <3>1. Opens /\ Handled /\ Listened  BY <2>15, Zenon DEF TrimWaitDone
    <3>. QED  BY <2>15, <3>1, <1>MoveFrame, Zenon DEF TrimWaitDone, TrimPcs
  <2>16. CASE TrimStreamDone(t)
    <3>1. Opens /\ Handled /\ Listened  BY <2>16, Zenon DEF TrimStreamDone, HandleBut, Notified
    <3>. QED  BY <2>16, <3>1, <1>ReturnFrame, Zenon DEF TrimStreamDone

  <2>17. CASE CloseBeginDone(t)
    <3>1. Opens /\ Handled /\ Listened  BY <2>17, Zenon DEF CloseBeginDone
    <3>2. CASE Returned(t)  BY <3>1, <3>2, <1>ReturnFrame
    <3>3. CASE Took(t, "close")
      <4>1. CallFits(t)'  BY <2>17, <3>1, <3>3, <1>TookFits, Zenon DEF CloseBeginDone, Started
      <4>. QED  BY <3>1, <3>3, <4>1, <1>TookFrame, Zenon
    <3>. QED  BY <2>17, <3>2, <3>3, Zenon DEF CloseBeginDone
  <2>18. CASE CloseMarkDone(t)
    <3>1. Opens /\ Listened  BY <2>18, Zenon DEF CloseMarkDone, ClientBut
    <3>2. Handled  BY <2>18, Zenon DEF CloseMarkDone, HandleBut
    <3>3. CASE Returned(t)  BY <3>1, <3>2, <3>3, <1>ReturnFrame, Zenon
    <3>4. CASE ~SnapshotRead(H(t)) /\ Went(t, IF Forces(t) THEN "close lock" ELSE "close appends", {})
      <4>1. PICK pc : pc = IF Forces(t) THEN "close lock" ELSE "close appends"  BY Zenon
      <4>2. /\ thread'[t].k = thread[t].k /\ thread'[t].h = thread[t].h /\ thread'[t].todo = thread[t].todo
            /\ thread'[t].pc = pc /\ ThreadBut(t, AllFields) /\ pc \in {"close lock", "close appends"}
        BY <3>4, <4>1, Zenon DEF Went, ThreadBut, AllFields
      <4>3. /\ thread[t].pc = "close" /\ thread[t].k \in Nat /\ thread[t].k >= 1 /\ HasCall(t) /\ Owned(H(t))
            /\ Kind(t) \in {"close", "destroy"} \union ShutdownKinds
            /\ \A h \in Range(thread[t].todo) : Owned(h)
        BY <2>18, <3>4, ThreadFacts, Zenon DEF CloseMarkDone, CallFits, ClosePcs, Owned
      <4>4. Kind(t)' = Kind(t) /\ HasCall(t)' /\ H(t)' = H(t)  BY <4>2, <4>3, Zenon DEF Call, Kind, HasCall, H
      <4>5. \A h : Owned(h) => Owned(h)'  BY <3>2, Zenon DEF Owned, SnapshotRead, Handles
      <4>6. PICK g : g = H(t)  BY Zenon
      <4>7. Owned(g)' /\ H(t)' = g /\ \A h \in Range(thread'[t].todo) : Owned(h)'
        BY <4>2, <4>3, <4>4, <4>5, <4>6, Zenon
      <4>8. CallFits(t)'
        BY <4>2, <4>3, <4>4, <4>7, Zenon
        DEF CallFits, Owned, OpenPcs, AppendPcs, FetchPcs, TrimPcs, MarkedPcs, ClosePcs
      <4>9. thread'[t].k \in Nat /\ thread'[t].k >= thread[t].k
        <5>1. \A n \in Nat : n >= n  OBVIOUS
        <5>. QED  BY <4>2, <5>1, ThreadFacts, Zenon
      <4>. QED  BY <3>1, <3>2, <4>2, <4>8, <4>9, <1>CallFrame, Zenon
    <3>. QED  BY <2>18, <3>3, <3>4, Zenon DEF CloseMarkDone
  <2>19. CASE CloseAppendsDone(t)
    <3>1. Opens /\ Handled /\ Listened  BY <2>19, Zenon DEF CloseAppendsDone
    <3>2. /\ thread[t].pc \in MarkedPcs /\ "close fetches" \in MarkedPcs /\ Went(t, "close fetches", {})
          /\ "close fetches" \notin {"destroy", "delete"}
      BY <2>19, Zenon DEF CloseAppendsDone, MarkedPcs
    <3>. QED  BY <3>1, <3>2, <1>MoveFrame, Zenon
  <2>20. CASE CloseFetchesDone(t)
    <3>1. Opens /\ Handled /\ Listened  BY <2>20, Zenon DEF CloseFetchesDone
    <3>2. /\ thread[t].pc \in MarkedPcs /\ "close lock" \in MarkedPcs /\ Went(t, "close lock", {})
          /\ "close lock" \notin {"destroy", "delete"}
      BY <2>20, Zenon DEF CloseFetchesDone, MarkedPcs
    <3>. QED  BY <3>1, <3>2, <1>MoveFrame, Zenon
  <2>21. CASE CloseLockDone(t)
    <3>1. Handled /\ updates' = updates  BY <2>21, Zenon DEF CloseLockDone, HandleBut
    <3>2. CASE Went(t, "upload", {}) /\ client' = client
      <4>1. Opens /\ Listened  BY <3>1, <3>2, Zenon
      <4>2. thread[t].pc \in MarkedPcs /\ "upload" \in MarkedPcs /\ "upload" \notin {"destroy", "delete"}
        BY <2>21, Zenon DEF CloseLockDone, MarkedPcs
      <4>. QED  BY <3>1, <3>2, <4>1, <4>2, <1>MoveFrame, Zenon
    <3>3. CASE Closed(t, handle[H(t)].result)
      BY <2>21, <3>1, <3>3, <1>ClosedFrame, Zenon DEF CloseLockDone
    <3>. QED  BY <2>21, <3>2, <3>3, Zenon DEF CloseLockDone
  <2>22. CASE CloseUploadDone(t)
    <3>1. Handled /\ Listened
      BY <2>22, Zenon DEF CloseUploadDone, ResultSet, HandleBut, CommittedAll, Notified
    <3>2. CASE Went(t, "close stream", {}) /\ client' = client
      <4>1. Opens  BY <3>2, Zenon
      <4>2. /\ thread[t].pc \in MarkedPcs /\ "close stream" \in MarkedPcs
            /\ "close stream" \notin {"destroy", "delete"}
        BY <2>22, Zenon DEF CloseUploadDone, MarkedPcs
      <4>. QED  BY <3>1, <3>2, <4>1, <4>2, <1>MoveFrame, Zenon
    <3>3. CASE ResultSet(t, "error") /\ updates' = updates
      BY <2>22, <3>1, <3>3, <1>ClosedFrame, Zenon DEF CloseUploadDone, ResultSet
    <3>. QED  BY <2>22, <3>2, <3>3, Zenon DEF CloseUploadDone
  <2>23. CASE CloseStreamDone(t)
    <3>1. Handled /\ updates' = updates  BY <2>23, Zenon DEF CloseStreamDone, ResultSet, HandleBut
    <3>2. Closed(t, "ok") \/ Closed(t, "error")  BY <2>23, Zenon DEF CloseStreamDone, ResultSet
    <3>. QED  BY <2>23, <3>1, <3>2, <1>ClosedFrame, Zenon DEF CloseStreamDone
  <2>24. CASE DestroyMarkDone(t)
    <3>1. Opens /\ Handled /\ Listened  BY <2>24, Zenon DEF DestroyMarkDone, HandleBut
    <3>2. Kind(t) = "destroy"  BY <2>24, ThreadFacts, Zenon DEF DestroyMarkDone, CallFits
    <3>. QED  BY <2>24, <3>1, <3>2, <1>MoveFrame, Zenon DEF DestroyMarkDone, MarkedPcs
  <2>25. CASE DeleteStreamDone(t)
    <3>1. Opens /\ Handled /\ Listened  BY <2>25, Zenon DEF DeleteStreamDone
    <3>. QED  BY <2>25, <3>1, <1>ReturnFrame, Zenon DEF DeleteStreamDone
  <2>26. CASE ShutdownBeginDone(t)
    <3>1. Opens /\ Handled /\ Listened  BY <2>26, Zenon DEF ShutdownBeginDone, ClientBut
    <3>2. /\ thread'[t].k = thread[t].k /\ thread'[t].todo = thread[t].todo /\ thread'[t].pc = "collect"
          /\ ThreadBut(t, AllFields)
      BY <2>26, Zenon DEF ShutdownBeginDone, Went, ThreadBut, AllFields
    <3>3. /\ thread[t].k \in Nat /\ thread[t].k >= 1 /\ HasCall(t) /\ Kind(t) \in ShutdownKinds
          /\ \A h \in Range(thread[t].todo) : Owned(h)
      BY <2>26, ThreadFacts, Zenon DEF ShutdownBeginDone, CallFits
    <3>4. Kind(t)' = Kind(t) /\ HasCall(t)'  BY <3>2, <3>3, Zenon DEF Call, Kind, HasCall
    <3>5. \A h : Owned(h) => Owned(h)'  BY <3>1, Zenon DEF Owned, SnapshotRead, Handles
    <3>6. CallFits(t)'
      BY <3>2, <3>3, <3>4, <3>5, Zenon DEF CallFits, OpenPcs, AppendPcs, FetchPcs, TrimPcs, MarkedPcs, ClosePcs
    <3>7. thread'[t].k \in Nat /\ thread'[t].k >= thread[t].k  BY <3>2, <3>3
    <3>. QED  BY <3>1, <3>2, <3>6, <3>7, <1>CallFrame, Zenon
  <2>27. CASE CollectDone(t)
    <3>1. Handled /\ Listened  BY <2>27, Zenon DEF CollectDone
    <3>2. Opens  BY <2>27, Zenon DEF CollectDone
    <3>3. PICK todo \in Seq(Handles) :
            ClosesWent(t, todo) /\ \A h \in Range(todo) : \E s \in StreamIds : h = client.opened[s]
      BY <2>27, Zenon DEF CollectDone
    <3>4. HasCall(t) /\ Kind(t) \in ShutdownKinds  BY <2>27, ThreadFacts, Zenon DEF CollectDone, CallFits
    <3>5. \A h \in Range(todo) : Owned(h)
      <4>1. \A h \in Handles : h # NoHandle  BY ClientAssumption, Zenon DEF ClientTypeOK, Handles
      <4>2. \A h \in Range(todo) : h \in Handles  BY DEF Range
      <4>. QED  BY <3>3, <4>1, <4>2, Zenon DEF CallInv, MapInv
    <3>. QED  BY <3>1, <3>2, <3>3, <3>4, <3>5, <1>ClosesFrame, Zenon
  <2>28. CASE HaltDone(t)
    <3>1. Opens /\ Handled /\ Listened  BY <2>28, Zenon DEF HaltDone, ClientBut
    <3>. QED  BY <2>28, <3>1, <1>ReturnFrame, Zenon DEF HaltDone
  <2>. QED
    BY <1>1, <2>1, <2>2, <2>3, <2>4, <2>5, <2>6, <2>7, <2>8, <2>9, <2>10, <2>11, <2>12, <2>13, <2>14, <2>15,
       <2>16, <2>17, <2>18, <2>19, <2>20, <2>21, <2>22, <2>23, <2>24, <2>25, <2>26, <2>27, <2>28, Zenon DEF ThreadDone
<1>2. ASSUME thread' = thread, client' = client, Handled, Listened PROVE CallInv'
  <2>1. ASSUME NEW u \in Threads PROVE CallFits(u)' /\ thread'[u].k \in Nat /\ thread'[u].k >= thread[u].k
    <3>1. CallFits(u) /\ thread[u].k \in Nat  BY ThreadFacts, Zenon
    <3>2. thread[u].pc \in OpenPcs => H(u) \in Handles
      BY <3>1, ThreadFacts, CallOf, Zenon DEF CallFits, OpenPcs
    <3>3. CallFits(u)'  BY <1>2, <3>1, <3>2, <1>OthersFit, Zenon
    <3>. QED  BY <1>2, <3>1, <3>3
  <2>2. OpenedBefore' /\ MapInv' /\ ListenInv'  BY <1>2, <2>1, <1>RestKept, Zenon
  <2>. QED  BY <2>1, <2>2, Zenon DEF CallInv
<1>3. ASSUME AckDone \/ StoreFailsDone \/ UNCHANGED clientVars PROVE CallInv'
  BY <1>2, <1>3, Zenon DEF AckDone, StoreFailsDone, clientVars
<1>4. ASSUME NEW s \in StreamIds, UploadDone(s) \/ FenceDone(s) PROVE CallInv'
  BY <1>2, <1>4, Zenon DEF UploadDone, FenceDone, CommittedAll, Notified
<1>5. ASSUME NEW n \in updates, NoticeDone(n) PROVE CallInv'
  <2>1. Handled  BY <1>5, Zenon DEF NoticeDone, HandleBut
  <2>. QED  BY <1>2, <1>5, <2>1, Zenon DEF NoticeDone
<1>. QED  BY <1>1, <1>3, <1>4, <1>5, Zenon DEF ClientDone

-----------------------------------------------------------------------------
(* What most steps leave alone *)

LEMMA KindKept ==
  ASSUME NEW t, plan' = plan, thread'[t].k = thread[t].k
  PROVE  Kind(t)' = Kind(t)
BY Zenon DEF Kind, Call

\* A step that admits no record, opens no handle and confirms nothing.
EndsKept == (\A s \in StreamIds : meta'[s].end = meta[s].end) \/ (\E s \in StreamIds : CommittedAll(s))
Calm ==
  /\ \A h \in Handles : /\ handle'[h].exists = handle[h].exists /\ handle'[h].next = handle[h].next
                        /\ handle'[h].confirm = handle[h].confirm
  /\ EndsKept
  /\ \A n \in updates' : n \in updates \/ (n.handle \in Handles /\ n.end <= meta'[StreamOf(n.handle)].end)

LEMMA StreamFacts ==
  ASSUME ClientTypeOK
  PROVE  /\ \A h \in Handles : StreamOf(h) \in StreamIds /\ EpochOf(h) \in Nat
         /\ \A s \in StreamIds : /\ meta[s].end \in Nat /\ meta[s].start \in Nat /\ meta[s].epoch \in Nat
                                 /\ meta[s].state \in {"closed", "opened", "deleted"}
         /\ \A h \in Handles : /\ handle[h].next \in Int /\ handle[h].confirm \in Int /\ handle[h].start \in Int
                               /\ handle[h].exists \in BOOLEAN
         /\ \A n \in updates : n.handle \in Handles /\ n.end \in Nat
         /\ NoHandle \notin Handles
<1>1. NoHandle \notin Handles /\ \A h \in Handles : StreamOf(h) \in StreamIds /\ EpochOf(h) \in Nat
  BY ClientAssumption, Zenon DEF ClientTypeOK, Handles, StreamOf, EpochOf
<1>2. \A s \in StreamIds : /\ meta[s].end \in Nat /\ meta[s].start \in Nat /\ meta[s].epoch \in Nat
                           /\ meta[s].state \in {"closed", "opened", "deleted"}
  BY Zenon DEF ClientTypeOK, MetaType
<1>3. \A h \in Handles : /\ handle[h].next \in Int /\ handle[h].confirm \in Int /\ handle[h].start \in Int
                         /\ handle[h].exists \in BOOLEAN
  BY Zenon DEF ClientTypeOK, HandleType
<1>4. \A n \in updates : n.handle \in Handles /\ n.end \in Nat  BY Zenon DEF ClientTypeOK
<1>. QED  BY <1>1, <1>2, <1>3, <1>4, Zenon

LEMMA CommitNoted ==
  ASSUME NEW s, CommittedAll(s), meta'[s].end \in Nat
  PROVE  \A n \in updates' : n \in updates \/ (n.handle \in Handles /\ n.end <= meta'[StreamOf(n.handle)].end)
<1>1. Notified(s, meta'[s].end)  BY Zenon DEF CommittedAll
<1>. QED  BY <1>1 DEF Notified

LEMMA CalmThread ==
  ASSUME ClientTypeOK, ClientTypeOK', CallInv, plan' = plan, NEW t \in Threads, ThreadDone(t)
  PROVE  \/ Calm /\ store' = store
         \/ OpenInsertDone(t) \/ AdmitAppendDone(t) \/ CompleteAppendDone(t)
<1>1. ASSUME \/ OpenDone(t) \/ AppendBeginDone(t) \/ AppendCheckDone(t) \/ CancelAppendDone(t)
             \/ FetchBeginDone(t) \/ FetchConfirmDone(t) \/ FetchStartDone(t) \/ FetchReadDone(t)
      PROVE  Calm /\ store' = store
  BY <1>1, Zenon DEF Calm, EndsKept, OpenDone, AppendBeginDone, AppendCheckDone, CancelAppendDone, FetchBeginDone,
              FetchConfirmDone, FetchStartDone, FetchReadDone, Dropped, Fetched, HandleBut
<1>2. ASSUME \/ TrimBeginDone(t) \/ TrimStoreDone(t) \/ TrimWaitDone(t) \/ CloseBeginDone(t)
             \/ CloseMarkDone(t) \/ CloseAppendsDone(t) \/ CloseFetchesDone(t) \/ CloseLockDone(t)
      PROVE  Calm /\ store' = store
  BY <1>2, Zenon DEF Calm, EndsKept, TrimBeginDone, TrimStoreDone, TrimWaitDone, CloseBeginDone, CloseMarkDone,
              CloseAppendsDone, CloseFetchesDone, CloseLockDone, HandleBut
<1>3. ASSUME \/ DestroyMarkDone(t) \/ ShutdownBeginDone(t) \/ CollectDone(t) \/ HaltDone(t)
      PROVE  Calm /\ store' = store
  BY <1>3, Zenon DEF Calm, EndsKept, DestroyMarkDone, ShutdownBeginDone, CollectDone, HaltDone, HandleBut
<1>4. ASSUME OpenManagerDone(t) \/ DeleteStreamDone(t) PROVE Calm /\ store' = store
  BY <1>4, Zenon DEF Calm, EndsKept, OpenManagerDone, DeleteStreamDone, MetaBut
<1>5. ASSUME CloseStreamDone(t) PROVE Calm /\ store' = store
  BY <1>5, Zenon DEF Calm, EndsKept, CloseStreamDone, ResultSet, HandleBut, MetaBut
<1>6. ASSUME TrimStreamDone(t) PROVE Calm /\ store' = store
  <2>1. /\ \A h \in Handles : /\ handle'[h].exists = handle[h].exists /\ handle'[h].next = handle[h].next
                              /\ handle'[h].confirm = handle[h].confirm
        /\ \A s \in StreamIds : meta'[s].end = meta[s].end
        /\ store' = store
    BY <1>6, Zenon DEF TrimStreamDone, HandleBut, MetaBut
  <2>2. updates' = updates \/ Notified(StreamOf(H(t)), meta[StreamOf(H(t))].end)
    BY <1>6, Zenon DEF TrimStreamDone
  <2>. QED  BY <2>1, <2>2, StreamFacts DEF Calm, EndsKept, Notified
<1>7. ASSUME CloseUploadDone(t) PROVE Calm /\ store' = store
  <2>1. /\ \A h \in Handles : /\ handle'[h].exists = handle[h].exists /\ handle'[h].next = handle[h].next
                              /\ handle'[h].confirm = handle[h].confirm
        /\ store' = store
    BY <1>7, Zenon DEF CloseUploadDone, ResultSet, HandleBut
  <2>2. CASE CommittedAll(StreamOf(H(t)))
    <3>1. H(t) \in Handles  BY <1>7, ThreadFacts, Zenon DEF CloseUploadDone, CallFits, MarkedPcs, Owned
    <3>2. meta'[StreamOf(H(t))].end \in Nat  BY <3>1, StreamFacts, Zenon DEF ClientTypeOK, MetaType
    <3>3. StreamOf(H(t)) \in StreamIds  BY <3>1, StreamFacts, Zenon
    <3>4. EndsKept  BY <2>2, <3>3, Zenon DEF EndsKept
    <3>5. \A n \in updates' : n \in updates \/ (n.handle \in Handles /\ n.end <= meta'[StreamOf(n.handle)].end)
      BY <2>2, <3>2, CommitNoted, Zenon
    <3>. QED  BY <2>1, <3>4, <3>5, Zenon DEF Calm
  <2>3. CASE meta' = meta /\ updates' = updates  BY <2>1, <2>3, Zenon DEF Calm, EndsKept
  <2>. QED  BY <1>7, <2>2, <2>3, Zenon DEF CloseUploadDone
<1>. QED  BY <1>1, <1>2, <1>3, <1>4, <1>5, <1>6, <1>7, Zenon DEF ThreadDone

LEMMA CalmOther ==
  ASSUME ClientTypeOK, ClientTypeOK', NEW s \in StreamIds, UploadDone(s) \/ FenceDone(s) \/ UNCHANGED clientVars
  PROVE  Calm /\ store' = store
<1>1. CASE UploadDone(s)
  <2>1. meta'[s].end \in Nat  BY Zenon DEF ClientTypeOK, MetaType
  <2>2. CommittedAll(s) /\ handle' = handle /\ store' = store  BY <1>1, Zenon DEF UploadDone
  <2>3. EndsKept  BY <2>2, Zenon DEF EndsKept
  <2>4. \A n \in updates' : n \in updates \/ (n.handle \in Handles /\ n.end <= meta'[StreamOf(n.handle)].end)
    BY <2>1, <2>2, CommitNoted, Zenon
  <2>. QED  BY <2>2, <2>3, <2>4, Zenon DEF Calm
<1>2. CASE FenceDone(s)  BY <1>2, Zenon DEF FenceDone, Calm, EndsKept, MetaBut
<1>3. CASE UNCHANGED clientVars  BY <1>3, Zenon DEF clientVars, Calm, EndsKept
<1>. QED  BY <1>1, <1>2, <1>3, Zenon

=============================================================================

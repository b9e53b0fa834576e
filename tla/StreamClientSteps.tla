------------------------- MODULE StreamClientSteps -------------------------
(***************************************************************************)
(* The steps of StreamClient keep its types and have the effects that       *)
(* StreamClientEffects says, for any number of threads, streams, handles    *)
(* and calls.                                                               *)
(***************************************************************************)
EXTENDS StreamClientEffects, TLAPS

-----------------------------------------------------------------------------
(* Plans *)

\* The handles and the calls of a plan are what ClientAssumption says.
LEMMA PlanFacts ==
  ASSUME plan \in ClientPlans
  PROVE  /\ NoHandle \notin Handles
         /\ \A h \in Handles : StreamOf(h) \in StreamIds /\ EpochOf(h) \in Nat /\ SnapshotRead(h) \in BOOLEAN
         /\ \A t \in Threads :
              /\ plan.programs[t] \in Seq([kind : CallKinds, h : Handles, from : Nat, to : Nat])
              /\ DOMAIN plan.programs[t] = 1..Len(plan.programs[t])
              /\ Len(plan.programs[t]) \in Nat
BY ClientAssumption DEF Handles, StreamOf, EpochOf, SnapshotRead

\* The length, the domain and the elements of a sequence.
LEMMA SeqDomain ==
  ASSUME NEW S, NEW q \in Seq(S)
  PROVE  Len(q) \in Nat /\ DOMAIN q = 1..Len(q)
OBVIOUS

LEMMA ElementOfSeq ==
  ASSUME NEW S, NEW q \in Seq(S), NEW i \in DOMAIN q
  PROVE  q[i] \in S
OBVIOUS

LEMMA InRange ==
  ASSUME NEW f, NEW i \in DOMAIN f
  PROVE  f[i] \in Range(f)
BY Zenon DEF Range

\* The call that thread t is at.
LEMMA CallTyped ==
  ASSUME ClientTypeOK, NEW t \in Threads, thread[t].k >= 1, HasCall(t)
  PROVE  /\ thread[t].k \in DOMAIN plan.programs[t]
         /\ Call(t) \in [kind : CallKinds, h : Handles, from : Nat, to : Nat]
         /\ Kind(t) \in CallKinds
<1>1. plan \in ClientPlans /\ thread[t].k \in Nat  BY Zenon DEF ClientTypeOK, ThreadType
<1>2. thread[t].k \in 1..Len(plan.programs[t])  BY <1>1, PlanFacts DEF HasCall
<1>3. /\ plan.programs[t] \in Seq([kind : CallKinds, h : Handles, from : Nat, to : Nat])
      /\ DOMAIN plan.programs[t] = 1..Len(plan.programs[t])
  BY <1>1, PlanFacts, Zenon
<1>4. plan.programs[t][thread[t].k] \in [kind : CallKinds, h : Handles, from : Nat, to : Nat]
  BY <1>2, <1>3, ElementOfSeq, Zenon
<1>. QED  BY <1>2, <1>3, <1>4, Zenon DEF Call, Kind

\* The steps leave the plan alone.
LEMMA PlanKept ==
  ASSUME [ClientNext]_clientVars
  PROVE  plan' = plan
<1>1. ASSUME NEW t \in Threads, ThreadStep(t) PROVE plan' = plan
  <2>1. CASE Open(t) \/ OpenManager(t) \/ OpenInsert(t)  BY <2>1, Zenon DEF Open, OpenManager, OpenInsert
  <2>2. CASE AppendBegin(t) \/ AppendCheck(t) \/ AdmitAppend(t) \/ CompleteAppend(t) \/ CancelAppend(t)
    BY <2>2, Zenon DEF AppendBegin, AppendCheck, AdmitAppend, CompleteAppend, CancelAppend
  <2>3. CASE FetchBegin(t) \/ FetchConfirm(t) \/ FetchStart(t) \/ FetchRead(t)
    BY <2>3, Zenon DEF FetchBegin, FetchConfirm, FetchStart, FetchRead
  <2>4. CASE TrimBegin(t) \/ TrimStore(t) \/ TrimWait(t) \/ TrimStream(t)
    BY <2>4, Zenon DEF TrimBegin, TrimStore, TrimWait, TrimStream
  <2>5. CASE CloseBegin(t) \/ CloseMark(t) \/ CloseAppends(t) \/ CloseFetches(t)
    BY <2>5, Zenon DEF CloseBegin, CloseMark, CloseAppends, CloseFetches
  <2>6. CASE CloseLock(t) \/ CloseUpload(t) \/ CloseStream(t) \/ DestroyMark(t) \/ DeleteStream(t)
    BY <2>6, Zenon DEF CloseLock, CloseUpload, CloseStream, DestroyMark, DeleteStream
  <2>7. CASE ShutdownBegin(t) \/ Collect(t) \/ Halt(t)  BY <2>7, Zenon DEF ShutdownBegin, Collect, Halt
  <2>. QED  BY <1>1, <2>1, <2>2, <2>3, <2>4, <2>5, <2>6, <2>7, Zenon DEF ThreadStep
<1>2. CASE Ack \/ StoreFails \/ \E s \in StreamIds : Upload(s) \/ Fence(s)
  BY <1>2, Zenon DEF Ack, StoreFails, Upload, Fence
<1>3. CASE \E n \in updates : NoticeConfirm(n) \/ NoticeStart(n)  BY <1>3, Zenon DEF NoticeConfirm, NoticeStart
<1>4. CASE UNCHANGED clientVars  BY <1>4, Zenon DEF clientVars
<1>. QED  BY <1>1, <1>2, <1>3, <1>4, Zenon DEF ClientNext

-----------------------------------------------------------------------------
(* Maxima *)

\* Max of two numbers, and of a number and a set that has a greatest element.
LEMMA MaxOfTwo ==
  ASSUME NEW a \in Int, NEW b \in Int
  PROVE  Max({a, b}) = IF a >= b THEN a ELSE b
BY DEF Max

LEMMA CommittedEnd ==
  ASSUME ClientTypeOK, EndInv, NEW s \in StreamIds
  PROVE  /\ Committed(s) = [meta[s] EXCEPT !.end = Max(EndsOf(s))]
         /\ Committed(s) \in MetaType
         /\ Committed(s).end \in EndsOf(s)
         /\ \A e \in EndsOf(s) : Committed(s).end >= e
         /\ Committed(s).end >= meta[s].end
         /\ Committed(s).state = meta[s].state /\ Committed(s).epoch = meta[s].epoch
         /\ Committed(s).start = meta[s].start
<1>1. Committed(s) = [meta[s] EXCEPT !.end = Max(EndsOf(s))]  BY Zenon DEF Committed, EndsOf
<1>2. meta[s] \in MetaType  BY Zenon DEF ClientTypeOK
<1>3. EndsOf(s) \subseteq Int  BY <1>2 DEF EndsOf, ClientTypeOK, MetaType, StoreType
<1>4. Max(EndsOf(s)) \in EndsOf(s) /\ \A e \in EndsOf(s) : Max(EndsOf(s)) >= e
  BY <1>3, Zenon DEF EndInv, Max
<1>5. meta[s].end \in EndsOf(s)  BY Zenon DEF EndsOf
<1>6. Max(EndsOf(s)) \in Nat  BY <1>2, <1>3, <1>4, <1>5 DEF MetaType
<1>. QED  BY <1>1, <1>2, <1>4, <1>5, <1>6, Zenon DEF MetaType

-----------------------------------------------------------------------------
(* Threads *)

LEMMA GoesDoes ==
  ASSUME thread \in [Threads -> ThreadType], NEW t \in Threads, NEW pc \in Pcs, Goes(t, pc)
  PROVE  Went(t, pc, {}) /\ thread' \in [Threads -> ThreadType]
BY Zenon DEF Goes, Went, ThreadBut, ThreadType

LEMMA TakesDoes ==
  ASSUME thread \in [Threads -> ThreadType], NEW t \in Threads, NEW pc \in Pcs, Call(t).h \in Handles,
         Takes(t, pc)
  PROVE  Went(t, pc, {"h"}) /\ thread'[t].h = Call(t).h /\ thread' \in [Threads -> ThreadType]
BY Zenon DEF Takes, Went, ThreadBut, ThreadType

LEMMA NotesDoes ==
  ASSUME thread \in [Threads -> ThreadType], NEW t \in Threads, NEW pc \in Pcs, NEW lo \in Int, NEW hi \in Int,
         Notes(t, pc, lo, hi)
  PROVE  /\ Went(t, pc, {"lo", "hi"}) /\ thread'[t].lo = lo /\ thread'[t].hi = hi
         /\ thread' \in [Threads -> ThreadType]
<1> DEFINE old == thread[t]
           new == [old EXCEPT !.pc = pc, !.lo = lo, !.hi = hi]
<1>1. old \in ThreadType  BY Zenon
<1>2. thread' = [thread EXCEPT ![t] = new]  BY Zenon DEF Notes
<1> HIDE DEF old
<1>3. /\ new.pc = pc /\ new.lo = lo /\ new.hi = hi
      /\ new.k = old.k /\ new.h = old.h /\ new.todo = old.todo
      /\ new \in ThreadType
  BY <1>1, Zenon DEF ThreadType
<1> HIDE DEF new
<1>4. thread' \in [Threads -> ThreadType] /\ thread'[t] = new
  BY <1>2, <1>3, Zenon
<1>5. \A u \in Threads : u # t => thread'[u] = thread[u]  BY <1>2, Zenon
<1>6. ThreadBut(t, {"pc", "lo", "hi"})  BY <1>3, <1>4, <1>5, Zenon DEF ThreadBut, old
<1>7. {"pc"} \cup {"lo", "hi"} = {"pc", "lo", "hi"}  BY Zenon
<1>. QED  BY <1>3, <1>4, <1>6, <1>7, Zenon DEF Went

LEMMA IdleTyped ==
  ASSUME NEW k \in Nat
  PROVE  Idle(k) \in ThreadType
BY DEF Idle, ThreadType, Pcs, NoHandle

LEMMA ReturnsDoes ==
  ASSUME thread \in [Threads -> ThreadType], NEW t \in Threads, Returns(t)
  PROVE  Returned(t) /\ thread' \in [Threads -> ThreadType]
<1>1. thread[t].k + 1 \in Nat  BY DEF ThreadType
<1>2. thread' = [thread EXCEPT ![t] = Idle(thread[t].k + 1)]  BY Zenon DEF Returns
<1>3. thread' \in [Threads -> ThreadType]  BY <1>1, <1>2, IdleTyped, Zenon
<1>4. Returned(t)  BY <1>2, Zenon DEF Returned, ThreadBut, Idle
<1>. QED  BY <1>3, <1>4, Zenon

LEMMA CloseTyped ==
  ASSUME NEW k \in Nat, NEW h \in Handles, NEW q \in Seq(Handles)
  PROVE  [k |-> k, pc |-> "close", h |-> h, lo |-> 0, hi |-> 0, todo |-> q] \in ThreadType
BY DEF ThreadType, Pcs

LEMMA ClosesDoes ==
  ASSUME thread \in [Threads -> ThreadType], NEW t \in Threads, NEW s \in Seq(Handles),
         thread' = [thread EXCEPT ![t] = Closes(t, s)]
  PROVE  ClosesWent(t, s) /\ thread' \in [Threads -> ThreadType]
<1>1. CASE s # <<>>
  <2>0. thread[t].k \in Nat  BY Zenon DEF ThreadType
  <2>1. Head(s) \in Handles /\ Tail(s) \in Seq(Handles)  BY <1>1
  <2>2. PICK h \in Handles, q \in Seq(Handles) : h = Head(s) /\ q = Tail(s)  BY <2>1, Zenon
  <2>3. Closes(t, s) = [k |-> thread[t].k, pc |-> "close", h |-> h, lo |-> 0, hi |-> 0, todo |-> q]
    BY <1>1, <2>2, Zenon DEF Closes
  <2>4. Closes(t, s) \in ThreadType  BY <2>0, <2>3, CloseTyped, Zenon
  <2>5. /\ thread' \in [Threads -> ThreadType] /\ thread'[t] = Closes(t, s)
        /\ \A u \in Threads \ {t} : thread'[u] = thread[u]
    BY <2>4, Zenon
  <2>6. thread'[t].k = thread[t].k /\ thread'[t].pc = "close" /\ thread'[t].h = h /\ thread'[t].todo = q
    BY <2>3, <2>5
  <2>7. Went(t, "close", {"h", "lo", "hi", "todo"})  BY <2>5, <2>6, Zenon DEF Went, ThreadBut
  <2>. QED  BY <1>1, <2>2, <2>5, <2>6, <2>7, Zenon DEF ClosesWent
<1>2. CASE s = <<>> /\ Kind(t) = "failure"
  <2>1. Goes(t, "halt")  BY <1>2, Zenon DEF Closes, Goes
  <2>. QED  BY <1>2, <2>1, GoesDoes, Zenon DEF ClosesWent, Pcs
<1>3. CASE s = <<>> /\ Kind(t) # "failure"
  <2>1. Returns(t)  BY <1>3, Zenon DEF Closes, Returns
  <2>. QED  BY <1>3, <2>1, ReturnsDoes, Zenon DEF ClosesWent
<1>. QED  BY <1>1, <1>2, <1>3, Zenon

LEMMA AfterCloseDoes ==
  ASSUME thread \in [Threads -> ThreadType], NEW t \in Threads, NEW r, AfterClose(t, r)
  PROVE  /\ \/ Kind(t) = "destroy" /\ r = "ok" /\ Went(t, "destroy", {})
            \/ ~(Kind(t) = "destroy" /\ r = "ok") /\ ClosesWent(t, thread[t].todo)
         /\ thread' \in [Threads -> ThreadType]
<1>1. thread[t].todo \in Seq(Handles)  BY Zenon DEF ThreadType
<1>2. CASE Kind(t) = "destroy" /\ r = "ok"
  <2>1. Goes(t, "destroy")  BY <1>2, Zenon DEF AfterClose
  <2>. QED  BY <1>2, <2>1, GoesDoes, Zenon DEF Pcs
<1>3. CASE ~(Kind(t) = "destroy" /\ r = "ok")
  <2>1. thread' = [thread EXCEPT ![t] = Closes(t, thread[t].todo)]  BY <1>3, Zenon DEF AfterClose
  <2>. QED  BY <1>1, <1>3, <2>1, ClosesDoes, Zenon
<1>. QED  BY <1>2, <1>3, Zenon

\* Assignments to fields of a handle, and what is left of it.
LEMMA SetTrimming ==
  ASSUME handle \in [Handles -> HandleType], NEW h \in Handles, NEW x \in BOOLEAN,
         handle' = [handle EXCEPT ![h].trimming = x]
  PROVE  HandleBut(h, {"trimming"}) /\ handle' \in [Handles -> HandleType]
<1>1. HandleBut(h, {"trimming"})  BY Zenon DEF HandleBut, HandleType
<1>2. [handle[h] EXCEPT !.trimming = x] \in HandleType  BY DEF HandleType
<1>. QED  BY <1>1, <1>2, Zenon

LEMMA SetClosing ==
  ASSUME handle \in [Handles -> HandleType], NEW h \in Handles, NEW x \in BOOLEAN,
         handle' = [handle EXCEPT ![h].closing = x]
  PROVE  HandleBut(h, {"closing"}) /\ handle' \in [Handles -> HandleType]
<1>1. HandleBut(h, {"closing"})  BY Zenon DEF HandleBut, HandleType
<1>2. [handle[h] EXCEPT !.closing = x] \in HandleType  BY DEF HandleType
<1>. QED  BY <1>1, <1>2, Zenon

LEMMA SetListens ==
  ASSUME handle \in [Handles -> HandleType], NEW h \in Handles,
         handle' = [handle EXCEPT ![h].listens = FALSE]
  PROVE  HandleBut(h, {"listens"}) /\ ~handle'[h].listens /\ handle' \in [Handles -> HandleType]
<1>1. HandleBut(h, {"listens"})  BY Zenon DEF HandleBut, HandleType
<1>2. ~handle'[h].listens  BY Zenon DEF HandleType
<1>3. [handle[h] EXCEPT !.listens = FALSE] \in HandleType  BY Zenon DEF HandleType
<1>. QED  BY <1>1, <1>2, <1>3, Zenon

LEMMA SetStatus ==
  ASSUME handle \in [Handles -> HandleType], NEW h \in Handles, NEW x \in SUBSET {"closed", "fenced", "destroyed"},
         handle' = [handle EXCEPT ![h].status = x]
  PROVE  HandleBut(h, {"status"}) /\ handle'[h].status = x /\ handle' \in [Handles -> HandleType]
<1>1. HandleBut(h, {"status"})  BY Zenon DEF HandleBut, HandleType
<1>2. handle'[h].status = x  BY Zenon DEF HandleType
<1>3. [handle[h] EXCEPT !.status = x] \in HandleType  BY DEF HandleType
<1>. QED  BY <1>1, <1>2, <1>3, Zenon

LEMMA SetStart ==
  ASSUME handle \in [Handles -> HandleType], NEW h \in Handles, NEW x \in Int,
         handle' = [handle EXCEPT ![h].start = x]
  PROVE  HandleBut(h, {"start"}) /\ handle' \in [Handles -> HandleType]
<1>1. HandleBut(h, {"start"})  BY Zenon DEF HandleBut, HandleType
<1>2. [handle[h] EXCEPT !.start = x] \in HandleType  BY DEF HandleType
<1>. QED  BY <1>1, <1>2, Zenon

LEMMA SetStartTrimming ==
  ASSUME handle \in [Handles -> HandleType], NEW h \in Handles, NEW x \in Int,
         handle' = [handle EXCEPT ![h].start = x, ![h].trimming = TRUE]
  PROVE  HandleBut(h, {"start", "trimming"}) /\ handle'[h].start = x /\ handle' \in [Handles -> HandleType]
<1>1. HandleBut(h, {"start", "trimming"})  BY Zenon DEF HandleBut, HandleType
<1>2. handle'[h].start = x  BY Zenon DEF HandleType
<1>3. [handle[h] EXCEPT !.start = x, !.trimming = TRUE] \in HandleType  BY Zenon DEF HandleType
<1>4. handle' = [handle EXCEPT ![h] = [handle[h] EXCEPT !.start = x, !.trimming = TRUE]]  BY Zenon
<1>. QED  BY <1>1, <1>2, <1>3, <1>4, Zenon

LEMMA SetResult ==
  ASSUME handle \in [Handles -> HandleType], NEW h \in Handles, NEW x \in {"ok", "error"},
         handle' = [handle EXCEPT ![h].closing = FALSE, ![h].result = x]
  PROVE  HandleBut(h, {"closing", "result"}) /\ handle'[h].result = x /\ handle' \in [Handles -> HandleType]
<1>1. HandleBut(h, {"closing", "result"})  BY Zenon DEF HandleBut, HandleType
<1>2. handle'[h].result = x  BY Zenon DEF HandleType
<1>3. [handle[h] EXCEPT !.closing = FALSE, !.result = x] \in HandleType  BY Zenon DEF HandleType
<1>4. handle' = [handle EXCEPT ![h] = [handle[h] EXCEPT !.closing = FALSE, !.result = x]]  BY Zenon
<1>. QED  BY <1>1, <1>2, <1>3, <1>4, Zenon

LEMMA StatusGrows ==
  ASSUME handle \in [Handles -> HandleType], NEW h \in Handles, NEW x \in {"closed", "fenced", "destroyed"}
  PROVE  handle[h].status \union {x} \in SUBSET {"closed", "fenced", "destroyed"}
BY Zenon DEF HandleType

-----------------------------------------------------------------------------
(* Every step has its effect, and keeps the types *)

LEMMA TypeFacts ==
  ASSUME ClientTypeOK
  PROVE  /\ plan \in ClientPlans /\ meta \in [StreamIds -> MetaType] /\ updates \subseteq UpdateType
         /\ store \in StoreType /\ client \in ClientType /\ handle \in [Handles -> HandleType]
         /\ thread \in [Threads -> ThreadType] /\ answered \subseteq Handles \X Int
BY Zenon DEF ClientTypeOK, UpdateType

LEMMA TypesKept ==
  ASSUME plan \in ClientPlans, plan' = plan, meta' \in [StreamIds -> MetaType], updates' \subseteq UpdateType,
         store' \in StoreType, client' \in ClientType, handle' \in [Handles -> HandleType],
         thread' \in [Threads -> ThreadType], answered' \subseteq Handles \X Int
  PROVE  ClientTypeOK'
<1>1. Handles' = Handles  BY Zenon DEF Handles
<1>2. ThreadType' = ThreadType  BY <1>1, Zenon DEF ThreadType
<1>3. StoreType' = StoreType  BY <1>1, Zenon DEF StoreType
<1>4. ClientType' = ClientType  BY <1>1, Zenon DEF ClientType
<1>5. UpdateType' = UpdateType  BY <1>1, Zenon DEF UpdateType
<1>. QED  BY <1>1, <1>2, <1>3, <1>4, <1>5, Zenon DEF ClientTypeOK, UpdateType

\* The call that a thread is to start or has started, and the handle it works on.
LEMMA CallHandle ==
  ASSUME ClientTypeOK, CallInv, NEW t \in Threads, HasCall(t)
  PROVE  /\ Call(t).h \in Handles /\ Call(t).from \in Nat /\ Call(t).to \in Nat /\ Call(t).to \in Int
         /\ StreamOf(Call(t).h) \in StreamIds /\ EpochOf(Call(t).h) \in Nat
<1>1. thread[t].k >= 1  BY Zenon DEF CallInv, CallFits
<1>2. Call(t) \in [kind : CallKinds, h : Handles, from : Nat, to : Nat]  BY <1>1, CallTyped, Zenon
<1>3. plan \in ClientPlans  BY TypeFacts, Zenon
<1>. QED  BY <1>2, <1>3, PlanFacts

LEMMA HeldHandle ==
  ASSUME ClientTypeOK, CallInv, NEW t \in Threads, thread[t].pc \notin {"idle", "collect", "halt"}
  PROVE  H(t) \in Handles /\ StreamOf(H(t)) \in StreamIds /\ EpochOf(H(t)) \in Nat
<1>1. plan \in ClientPlans /\ thread[t].pc \in Pcs  BY TypeFacts, Zenon DEF ThreadType
<1>2. CallFits(t)  BY Zenon DEF CallInv
<1>3. CASE thread[t].pc \in OpenPcs
  <2>1. HasCall(t) /\ H(t) = Call(t).h  BY <1>2, <1>3, Zenon DEF CallFits, OpenPcs
  <2>. QED  BY <2>1, CallHandle, Zenon
<1>4. CASE thread[t].pc \in AppendPcs \union FetchPcs \union TrimPcs \union ClosePcs
  <2>1. H(t) \in Handles  BY <1>2, <1>4, Zenon DEF CallFits, Owned, ClosePcs
  <2>. QED  BY <1>1, <2>1, PlanFacts, Zenon
<1>. QED
  BY <1>1, <1>3, <1>4, Zenon DEF Pcs, OpenPcs, AppendPcs, FetchPcs, TrimPcs, MarkedPcs, ClosePcs

LEMMA UnderWay ==
  ASSUME CallInv, NEW t \in Threads, thread[t].pc # "idle"
  PROVE  HasCall(t)
BY Zenon DEF CallInv, CallFits

\* A step that changes a thread only.
LEMMA ThreadTypesKept ==
  ASSUME ClientTypeOK, plan' = plan, thread' \in [Threads -> ThreadType],
         UNCHANGED <<meta, updates, store, client, handle, answered>>
  PROVE  ClientTypeOK'
BY TypeFacts, TypesKept, Zenon

\* A step that changes a thread and a handle only.
LEMMA HandleTypesKept ==
  ASSUME ClientTypeOK, plan' = plan, thread' \in [Threads -> ThreadType], handle' \in [Handles -> HandleType],
         UNCHANGED <<meta, updates, store, client, answered>>
  PROVE  ClientTypeOK'
BY TypeFacts, TypesKept, Zenon

LEMMA TookDoes ==
  ASSUME thread \in [Threads -> ThreadType], NEW t \in Threads, NEW pc \in Pcs, Call(t).h \in Handles,
         Takes(t, pc)
  PROVE  Took(t, pc) /\ thread' \in [Threads -> ThreadType]
BY TakesDoes, Zenon DEF Took

LEMMA OpenStep ==
  ASSUME ClientTypeOK, CallInv, NEW t \in Threads, Open(t)
  PROVE  OpenDone(t) /\ ClientTypeOK'
<1>1. /\ plan' = plan /\ thread[t].pc = "idle" /\ HasCall(t) /\ Kind(t) = "open"
      /\ UNCHANGED <<meta, updates, store, client, handle, answered>>
      /\ IF client.shutdown THEN Returns(t)
         ELSE Takes(t, IF SnapshotRead(Call(t).h) THEN "insert" ELSE "open")
  BY Zenon DEF Open, At
<1>2. Call(t).h \in Handles  BY <1>1, CallHandle, Zenon
<1>3. thread \in [Threads -> ThreadType]  BY TypeFacts, Zenon
<1>4. "insert" \in Pcs /\ "open" \in Pcs  BY Zenon DEF Pcs
<1>5. CASE client.shutdown
  <2>1. Returned(t) /\ thread' \in [Threads -> ThreadType]  BY <1>1, <1>3, <1>5, ReturnsDoes, Zenon
  <2>. QED  BY <1>1, <2>1, ThreadTypesKept, Zenon DEF OpenDone
<1>6. CASE ~client.shutdown
  <2>. DEFINE pc == IF SnapshotRead(Call(t).h) THEN "insert" ELSE "open"
  <2>1. pc \in Pcs /\ Takes(t, pc)  BY <1>1, <1>4, <1>6, Zenon
  <2>. HIDE DEF pc
  <2>2. Took(t, pc) /\ thread' \in [Threads -> ThreadType]  BY <1>2, <1>3, <2>1, TookDoes, Zenon
  <2>. QED  BY <1>1, <1>6, <2>2, ThreadTypesKept, Zenon DEF OpenDone, pc
<1>. QED  BY <1>5, <1>6, Zenon

LEMMA MetaSet ==
  ASSUME meta \in [StreamIds -> MetaType], NEW s \in StreamIds, NEW m \in MetaType,
         meta' = [meta EXCEPT ![s] = m]
  PROVE  meta' \in [StreamIds -> MetaType] /\ meta'[s] = m /\ \A r \in StreamIds \ {s} : meta'[r] = meta[r]
BY Zenon

LEMMA OpenManagerStep ==
  ASSUME ClientTypeOK, CallInv, NEW t \in Threads, OpenManager(t)
  PROVE  OpenManagerDone(t) /\ ClientTypeOK'
<1>. DEFINE s == StreamOf(H(t))
            e == EpochOf(H(t))
<1>1. /\ plan' = plan /\ thread[t].pc = "open" /\ UNCHANGED <<updates, store, client, handle, answered>>
      /\ \/ Returns(t) /\ meta' = meta
         \/ /\ Exists(s) /\ ~(meta[s].epoch > e) /\ Notes(t, "insert", meta[s].start, meta[s].end)
            /\ meta' = [meta EXCEPT ![s].epoch = e, ![s].state = "opened"]
  BY Zenon DEF OpenManager, At
<1>2. H(t) \in Handles /\ s \in StreamIds /\ e \in Nat  BY <1>1, HeldHandle, Zenon
<1>3. thread \in [Threads -> ThreadType] /\ meta \in [StreamIds -> MetaType]  BY TypeFacts, Zenon
<1>. HIDE DEF s, e
<1>4. CASE Returns(t) /\ meta' = meta
  <2>1. Returned(t) /\ thread' \in [Threads -> ThreadType]  BY <1>3, <1>4, ReturnsDoes, Zenon
  <2>. QED  BY <1>1, <1>4, <2>1, ThreadTypesKept, Zenon DEF OpenManagerDone
<1>5. CASE /\ Exists(s) /\ ~(meta[s].epoch > e) /\ Notes(t, "insert", meta[s].start, meta[s].end)
           /\ meta' = [meta EXCEPT ![s].epoch = e, ![s].state = "opened"]
  <2>1. "insert" \in Pcs /\ meta[s].start \in Int /\ meta[s].end \in Int /\ meta[s].epoch \in Nat
    BY <1>2, <1>3 DEF Pcs, MetaType
  <2>2. PICK lo \in Int, hi \in Int : lo = meta[s].start /\ hi = meta[s].end /\ Notes(t, "insert", lo, hi)
    BY <1>5, <2>1, Zenon
  <2>3. /\ Went(t, "insert", {"lo", "hi"}) /\ thread'[t].lo = lo /\ thread'[t].hi = hi
        /\ thread' \in [Threads -> ThreadType]
    BY <1>3, <2>1, <2>2, NotesDoes, Zenon
  <2>4. meta' \in [StreamIds -> MetaType]  BY <1>2, <1>3, <1>5, Zenon DEF MetaType
  <2>5. meta'[s].epoch = e /\ meta'[s].state = "opened" /\ MetaBut(s, {"epoch", "state"})
    BY <1>2, <1>3, <1>5, Zenon DEF MetaType, MetaBut
  <2>6. meta[s].epoch <= e  BY <1>2, <1>5, <2>1
  <2>7. OpenManagerDone(t)  BY <1>1, <1>5, <2>2, <2>3, <2>5, <2>6, Zenon DEF OpenManagerDone, s, e
  <2>. QED  BY <1>1, <2>3, <2>4, <2>7, TypeFacts, TypesKept, Zenon
<1>. QED  BY <1>1, <1>4, <1>5, Zenon

LEMMA OpenedSet ==
  ASSUME client \in ClientType, NEW s \in StreamIds, NEW h \in Handles \union {NoHandle},
         client' = [client EXCEPT !.opened[s] = h]
  PROVE  /\ client' \in ClientType /\ ClientBut({"opened"})
         /\ client'.opened = [client.opened EXCEPT ![s] = h]
<1>1. client'.opened = [client.opened EXCEPT ![s] = h]  BY Zenon DEF ClientType
<1>2. client' = [client EXCEPT !.opened = [client.opened EXCEPT ![s] = h]]  BY Zenon
<1>3. [client.opened EXCEPT ![s] = h] \in [StreamIds -> Handles \union {NoHandle}]  BY Zenon DEF ClientType
<1>4. client' \in ClientType  BY <1>2, <1>3, Zenon DEF ClientType
<1>5. ClientBut({"opened"})  BY <1>2, Zenon DEF ClientType, ClientBut
<1>. QED  BY <1>1, <1>4, <1>5, Zenon

LEMMA OpenInsertStep ==
  ASSUME ClientTypeOK, CallInv, NEW t \in Threads, OpenInsert(t)
  PROVE  OpenInsertDone(t) /\ ClientTypeOK'
<1>1. /\ plan' = plan /\ thread[t].pc = "insert" /\ Returns(t) /\ UNCHANGED <<meta, updates, store, answered>>
      /\ client' = IF SnapshotRead(H(t)) THEN client ELSE [client EXCEPT !.opened[StreamOf(H(t))] = H(t)]
  BY Zenon DEF OpenInsert, At
<1>2. H(t) \in Handles /\ StreamOf(H(t)) \in StreamIds  BY <1>1, HeldHandle, Zenon
<1>3. thread \in [Threads -> ThreadType] /\ handle \in [Handles -> HandleType] /\ client \in ClientType
  BY TypeFacts, Zenon
<1>4. Returned(t) /\ thread' \in [Threads -> ThreadType]  BY <1>1, <1>3, ReturnsDoes, Zenon
<1>5. /\ client' \in ClientType
      /\ \/ SnapshotRead(H(t)) /\ client' = client
         \/ /\ ~SnapshotRead(H(t)) /\ ClientBut({"opened"})
            /\ client'.opened = [client.opened EXCEPT ![StreamOf(H(t))] = H(t)]
  BY <1>1, <1>2, <1>3, OpenedSet, Zenon
<1>6. /\ HandleBut(H(t), {"exists", "start", "next", "confirm", "status", "appends", "fetches",
                          "trimming", "closing", "result", "listens"})
      /\ handle'[H(t)] = IF SnapshotRead(H(t)) THEN NewHandle(FakeOffset, FakeOffset, TRUE)
                         ELSE NewHandle(thread[t].lo, thread[t].hi, FALSE)
      /\ handle' \in [Handles -> HandleType]
  <2>. USE <1>2, <1>3
  <2>1. thread[t].lo \in Int /\ thread[t].hi \in Int  BY Zenon DEF ThreadType
  <2>2. NewHandle(thread[t].lo, thread[t].hi, FALSE) \in HandleType  BY <2>1 DEF NewHandle, HandleType
  <2>3. NewHandle(FakeOffset, FakeOffset, TRUE) \in HandleType
    BY DEF NewHandle, HandleType, FakeOffset
  <2>4. PICK x \in HandleType :
          /\ handle' = [handle EXCEPT ![H(t)] = x]
          /\ x = IF SnapshotRead(H(t)) THEN NewHandle(FakeOffset, FakeOffset, TRUE)
                 ELSE NewHandle(thread[t].lo, thread[t].hi, FALSE)
    BY <2>2, <2>3, Zenon DEF OpenInsert
  <2>5. handle' \in [Handles -> HandleType] /\ handle'[H(t)] = x  BY <2>4, Zenon
  <2>6. \A g \in Handles \ {H(t)} : handle'[g] = handle[g]  BY <2>4, Zenon
  <2>. QED  BY <2>4, <2>5, <2>6, Zenon DEF HandleBut
<1>7. OpenInsertDone(t)  BY <1>1, <1>4, <1>5, <1>6, Zenon DEF OpenInsertDone
<1>. QED  BY <1>1, <1>4, <1>5, <1>6, <1>7, TypeFacts, TypesKept, Zenon

LEMMA AppendBeginStep ==
  ASSUME ClientTypeOK, CallInv, NEW t \in Threads, AppendBegin(t)
  PROVE  AppendBeginDone(t) /\ ClientTypeOK'
<1>1. /\ plan' = plan /\ Started(t, {"append", "submit"})
      /\ UNCHANGED <<meta, updates, store, client, answered>>
  BY Zenon DEF AppendBegin, Starts, At, Started
<1>2. Call(t).h \in Handles  BY <1>1, CallHandle, Zenon DEF Started
<1>3. thread \in [Threads -> ThreadType] /\ handle \in [Handles -> HandleType]  BY TypeFacts, Zenon
<1>4. /\ \/ SnapshotRead(Call(t).h) /\ Returns(t) /\ handle' = handle
         \/ /\ ~SnapshotRead(Call(t).h) /\ Takes(t, "check") /\ HandleBut(Call(t).h, {"appends"})
            /\ handle'[Call(t).h].appends = handle[Call(t).h].appends + 1
      /\ handle' \in [Handles -> HandleType]
  BY <1>2, <1>3 DEF AppendBegin, HandleBut, HandleType
<1>5. /\ Returns(t) => Returned(t) /\ thread' \in [Threads -> ThreadType]
      /\ Takes(t, "check") => Took(t, "check") /\ thread' \in [Threads -> ThreadType]
  <2>1. "check" \in Pcs  BY Zenon DEF Pcs
  <2>. QED  BY <1>2, <1>3, <2>1, ReturnsDoes, TookDoes, Zenon
<1>6. AppendBeginDone(t)  BY <1>1, <1>4, <1>5, Zenon DEF AppendBeginDone
<1>. QED  BY <1>1, <1>4, <1>5, <1>6, HandleTypesKept, Zenon

LEMMA DroppedDoes ==
  ASSUME ClientTypeOK, NEW t \in Threads, H(t) \in Handles, DropAppend(H(t)), Returns(t)
  PROVE  Dropped(t) /\ thread' \in [Threads -> ThreadType] /\ handle' \in [Handles -> HandleType]
<1>1. thread \in [Threads -> ThreadType] /\ handle \in [Handles -> HandleType]  BY TypeFacts, Zenon
<1>2. Returned(t) /\ thread' \in [Threads -> ThreadType]  BY <1>1, ReturnsDoes, Zenon
<1>3. /\ HandleBut(H(t), {"appends"}) /\ handle'[H(t)].appends = handle[H(t)].appends - 1
      /\ handle' \in [Handles -> HandleType]
  BY <1>1 DEF DropAppend, HandleBut, HandleType
<1>. QED  BY <1>2, <1>3, Zenon DEF Dropped

LEMMA AppendCheckStep ==
  ASSUME ClientTypeOK, CallInv, NEW t \in Threads, AppendCheck(t)
  PROVE  AppendCheckDone(t) /\ ClientTypeOK'
<1>1. /\ plan' = plan /\ thread[t].pc = "check" /\ UNCHANGED <<meta, updates, store, client, answered>>
      /\ \/ handle[H(t)].status = {} /\ Goes(t, "reserve") /\ handle' = handle
         \/ Returns(t) /\ DropAppend(H(t))
  BY Zenon DEF AppendCheck, At, Operable
<1>2. H(t) \in Handles  BY <1>1, HeldHandle, Zenon
<1>3. thread \in [Threads -> ThreadType] /\ handle \in [Handles -> HandleType] /\ "reserve" \in Pcs
  BY TypeFacts, Zenon DEF Pcs
<1>4. CASE handle[H(t)].status = {} /\ Goes(t, "reserve") /\ handle' = handle
  <2>1. Went(t, "reserve", {}) /\ thread' \in [Threads -> ThreadType]  BY <1>3, <1>4, GoesDoes, Zenon
  <2>. QED  BY <1>1, <1>4, <2>1, ThreadTypesKept, Zenon DEF AppendCheckDone
<1>5. CASE Returns(t) /\ DropAppend(H(t))
  <2>1. Dropped(t) /\ thread' \in [Threads -> ThreadType] /\ handle' \in [Handles -> HandleType]
    BY <1>2, <1>5, DroppedDoes, Zenon
  <2>. QED  BY <1>1, <2>1, HandleTypesKept, Zenon DEF AppendCheckDone
<1>. QED  BY <1>1, <1>4, <1>5, Zenon

LEMMA StoreAppended ==
  ASSUME store \in StoreType, NEW r \in Handles \X Int,
         store' = IF store.down THEN [store EXCEPT !.failed = @ \union {r}]
                  ELSE [store EXCEPT !.queue = Append(@, r)]
  PROVE  /\ store' \in StoreType
         /\ store'.acked = store.acked /\ store'.down = store.down
         /\ store'.queue = IF store.down THEN store.queue ELSE Append(store.queue, r)
         /\ store'.failed = IF store.down THEN store.failed \union {r} ELSE store.failed
<1>1. CASE store.down
  <2>1. store' = [store EXCEPT !.failed = store.failed \union {r}]  BY <1>1, Zenon
  <2>2. store.failed \union {r} \in SUBSET (Handles \X Int)  BY Zenon DEF StoreType
  <2>3. store' \in StoreType  BY <2>1, <2>2, Zenon DEF StoreType
  <2>. QED  BY <1>1, <2>1, <2>3, Zenon DEF StoreType
<1>2. CASE ~store.down
  <2>1. store' = [store EXCEPT !.queue = Append(store.queue, r)]  BY <1>2, Zenon
  <2>2. Append(store.queue, r) \in Seq(Handles \X Int)  BY DEF StoreType
  <2>3. store' \in StoreType  BY <2>1, <2>2, Zenon DEF StoreType
  <2>. QED  BY <1>2, <2>1, <2>3, Zenon DEF StoreType
<1>. QED  BY <1>1, <1>2, Zenon

LEMMA AdmitAppendStep ==
  ASSUME ClientTypeOK, CallInv, NEW t \in Threads, AdmitAppend(t)
  PROVE  AdmitAppendDone(t) /\ ClientTypeOK'
<1>. DEFINE r == <<H(t), handle[H(t)].next>>
<1>1. /\ plan' = plan /\ thread[t].pc = "reserve" /\ UNCHANGED <<meta, updates, client, answered>>
      /\ store' = IF store.down THEN [store EXCEPT !.failed = @ \union {r}]
                  ELSE [store EXCEPT !.queue = Append(@, r)]
  BY Zenon DEF AdmitAppend, At
<1>2. H(t) \in Handles  BY <1>1, HeldHandle, Zenon
<1>3. thread \in [Threads -> ThreadType] /\ handle \in [Handles -> HandleType] /\ store \in StoreType
  BY TypeFacts, Zenon
<1>4. handle[H(t)].next \in Int  BY <1>2, <1>3, Zenon DEF HandleType
<1>5. r \in Handles \X Int  BY <1>2, <1>4, Zenon
<1>. HIDE DEF r
<1>6. /\ store' \in StoreType
      /\ store'.acked = store.acked /\ store'.down = store.down
      /\ store'.queue = IF store.down THEN store.queue ELSE Append(store.queue, r)
      /\ store'.failed = IF store.down THEN store.failed \union {r} ELSE store.failed
  BY <1>1, <1>3, <1>5, StoreAppended, Zenon
<1>7. /\ HandleBut(H(t), {"next"}) /\ handle'[H(t)].next = handle[H(t)].next + 1
      /\ handle' \in [Handles -> HandleType]
      /\ Went(t, "durable", {"lo", "hi"}) /\ thread'[t].lo = handle[H(t)].next
      /\ thread' \in [Threads -> ThreadType]
  <2>. USE <1>2, <1>3
  <2>1. handle[H(t)].next \in Int  BY DEF HandleType
  <2>2. /\ HandleBut(H(t), {"next"}) /\ handle'[H(t)].next = handle[H(t)].next + 1
        /\ handle' \in [Handles -> HandleType]
    <3>1. handle' = [handle EXCEPT ![H(t)].next = @ + 1]  BY Zenon DEF AdmitAppend
    <3>. QED  BY <3>1 DEF HandleBut, HandleType
  <2>3. PICK n \in Int : n = handle[H(t)].next /\ Notes(t, "durable", n, 0)  BY <2>1, Zenon DEF AdmitAppend
  <2>4. /\ Went(t, "durable", {"lo", "hi"}) /\ thread'[t].lo = handle[H(t)].next
        /\ thread' \in [Threads -> ThreadType]
    <3>1. "durable" \in Pcs /\ 0 \in Int  BY DEF Pcs
    <3>2. /\ Went(t, "durable", {"lo", "hi"}) /\ thread'[t].lo = n
          /\ thread' \in [Threads -> ThreadType]
      BY <2>3, <3>1, NotesDoes, Zenon
    <3>. QED  BY <2>3, <3>2, Zenon
  <2>. QED  BY <2>2, <2>4, Zenon
<1>8. AdmitAppendDone(t)  BY <1>1, <1>6, <1>7, Zenon DEF AdmitAppendDone, r
<1>. QED  BY <1>1, <1>6, <1>7, <1>8, TypeFacts, TypesKept, Zenon

LEMMA CompleteAppendStep ==
  ASSUME ClientTypeOK, CallInv, NEW t \in Threads, CompleteAppend(t)
  PROVE  CompleteAppendDone(t) /\ ClientTypeOK'
<1>1. /\ plan' = plan /\ thread[t].pc = "durable" /\ Returns(t)
      /\ UNCHANGED <<meta, updates, store, client>>
  BY Zenon DEF CompleteAppend, At
<1>2. H(t) \in Handles  BY <1>1, HeldHandle, Zenon
<1>3. /\ thread \in [Threads -> ThreadType] /\ handle \in [Handles -> HandleType]
      /\ answered \subseteq Handles \X Int
  BY TypeFacts, Zenon
<1>4. Returned(t) /\ thread' \in [Threads -> ThreadType]  BY <1>1, <1>3, ReturnsDoes, Zenon
<1>5. /\ \/ /\ <<H(t), thread[t].lo>> \in store.acked /\ HandleBut(H(t), {"confirm", "appends"})
            /\ handle'[H(t)].confirm = IF handle[H(t)].confirm >= thread[t].lo + 1
                                       THEN handle[H(t)].confirm ELSE thread[t].lo + 1
            /\ answered' = answered \union {<<H(t), thread[t].lo>>}
         \/ /\ HandleBut(H(t), {"status", "appends"})
            /\ handle'[H(t)].status = handle[H(t)].status \union {"fenced"}
            /\ answered' = answered
      /\ handle'[H(t)].appends = handle[H(t)].appends - 1
      /\ handle' \in [Handles -> HandleType]
  <2>. USE <1>2, <1>3
  <2>. DEFINE r == <<H(t), thread[t].lo>>
              c == Confirmed(H(t), r[2])
  <2>0. handle[H(t)].confirm \in Int /\ thread[t].lo \in Int  BY Zenon DEF HandleType, ThreadType
  <2>1. c = IF handle[H(t)].confirm >= thread[t].lo + 1 THEN handle[H(t)].confirm ELSE thread[t].lo + 1
    BY <2>0, MaxOfTwo DEF Confirmed
  <2>2. c \in Int  BY <2>0, <2>1
  <2>. HIDE DEF c
  <2>3. CASE /\ r \in store.acked /\ answered' = answered \union {r}
             /\ handle' = [handle EXCEPT ![H(t)].confirm = c, ![H(t)].appends = @ - 1]
    <3>1. /\ HandleBut(H(t), {"confirm", "appends"}) /\ handle'[H(t)].confirm = c
          /\ handle'[H(t)].appends = handle[H(t)].appends - 1 /\ handle' \in [Handles -> HandleType]
      BY <2>2, <2>3 DEF HandleBut, HandleType
    <3>. QED  BY <2>1, <2>3, <3>1, Zenon
  <2>4. CASE /\ r \in store.failed /\ answered' = answered
             /\ handle' = [handle EXCEPT ![H(t)].status = @ \union {"fenced"}, ![H(t)].appends = @ - 1]
    <3>1. /\ HandleBut(H(t), {"status", "appends"})
          /\ handle'[H(t)].status = handle[H(t)].status \union {"fenced"}
          /\ handle'[H(t)].appends = handle[H(t)].appends - 1 /\ handle' \in [Handles -> HandleType]
      BY <2>4 DEF HandleBut, HandleType
    <3>. QED  BY <2>4, <3>1, Zenon
  <2>. QED  BY <2>3, <2>4, Zenon DEF CompleteAppend, c
<1>6. thread[t].lo \in Int  BY <1>3, Zenon DEF ThreadType
<1>7. answered' \subseteq Handles \X Int  BY <1>2, <1>3, <1>5, <1>6
<1>8. CompleteAppendDone(t)  BY <1>1, <1>4, <1>5, Zenon DEF CompleteAppendDone
<1>. QED  BY <1>1, <1>4, <1>5, <1>7, <1>8, TypeFacts, TypesKept, Zenon

LEMMA CancelAppendStep ==
  ASSUME ClientTypeOK, CallInv, NEW t \in Threads, CancelAppend(t)
  PROVE  CancelAppendDone(t) /\ ClientTypeOK'
<1>1. /\ plan' = plan /\ thread[t].pc = "durable" /\ DropAppend(H(t)) /\ Returns(t)
      /\ UNCHANGED <<meta, updates, store, client, answered>>
  BY Zenon DEF CancelAppend, At
<1>2. H(t) \in Handles  BY <1>1, HeldHandle, Zenon
<1>3. Dropped(t) /\ thread' \in [Threads -> ThreadType] /\ handle' \in [Handles -> HandleType]
  BY <1>1, <1>2, DroppedDoes, Zenon
<1>. QED  BY <1>1, <1>3, HandleTypesKept, Zenon DEF CancelAppendDone

LEMMA FetchBeginStep ==
  ASSUME ClientTypeOK, CallInv, NEW t \in Threads, FetchBegin(t)
  PROVE  FetchBeginDone(t) /\ ClientTypeOK'
<1>1. /\ plan' = plan /\ Started(t, {"fetch"}) /\ Takes(t, "confirm")
      /\ UNCHANGED <<meta, updates, store, client, answered>>
  BY Zenon DEF FetchBegin, Starts, At, Started
<1>2. Call(t).h \in Handles  BY <1>1, CallHandle, Zenon DEF Started
<1>3. thread \in [Threads -> ThreadType] /\ handle \in [Handles -> HandleType] /\ "confirm" \in Pcs
  BY TypeFacts, Zenon DEF Pcs
<1>4. Took(t, "confirm") /\ thread' \in [Threads -> ThreadType]  BY <1>1, <1>2, <1>3, TookDoes, Zenon
<1>5. /\ HandleBut(Call(t).h, {"fetches"}) /\ handle'[Call(t).h].fetches = handle[Call(t).h].fetches + 1
      /\ handle' \in [Handles -> HandleType]
  BY <1>2, <1>3 DEF FetchBegin, HandleBut, HandleType
<1>. QED  BY <1>1, <1>4, <1>5, HandleTypesKept, Zenon DEF FetchBeginDone

LEMMA FetchedDoes ==
  ASSUME ClientTypeOK, NEW t \in Threads, H(t) \in Handles, FetchEnds(t)
  PROVE  Fetched(t) /\ thread' \in [Threads -> ThreadType] /\ handle' \in [Handles -> HandleType]
<1>1. thread \in [Threads -> ThreadType] /\ handle \in [Handles -> HandleType]  BY TypeFacts, Zenon
<1>2. Returns(t)  BY Zenon DEF FetchEnds
<1>3. Returned(t) /\ thread' \in [Threads -> ThreadType]  BY <1>1, <1>2, ReturnsDoes, Zenon
<1>4. /\ HandleBut(H(t), {"fetches"}) /\ handle'[H(t)].fetches = handle[H(t)].fetches - 1
      /\ handle' \in [Handles -> HandleType]
  BY <1>1 DEF FetchEnds, HandleBut, HandleType
<1>. QED  BY <1>3, <1>4, Zenon DEF Fetched

LEMMA FetchConfirmStep ==
  ASSUME ClientTypeOK, CallInv, NEW t \in Threads, FetchConfirm(t)
  PROVE  FetchConfirmDone(t) /\ ClientTypeOK'
<1>1. plan' = plan /\ thread[t].pc = "confirm" /\ UNCHANGED <<meta, updates, store, client, answered>>
  BY Zenon DEF FetchConfirm, At
<1>2. H(t) \in Handles  BY <1>1, HeldHandle, Zenon
<1>3. thread \in [Threads -> ThreadType] /\ handle \in [Handles -> HandleType]  BY TypeFacts
<1>4. /\ \/ /\ handle[H(t)].status = {} /\ handle' = handle
            /\ Went(t, "start", {"lo", "hi"}) /\ thread'[t].hi = handle[H(t)].confirm
         \/ handle[H(t)].status # {} /\ FetchEnds(t)
      /\ thread' \in [Threads -> ThreadType]
  <2>. USE <1>2, <1>3
  <2>1. handle[H(t)].confirm \in Int  BY Zenon DEF HandleType
  <2>2. CASE Operable(H(t))
    <3>1. Notes(t, "start", 0, handle[H(t)].confirm) /\ handle' = handle
      BY <2>2, Zenon DEF FetchConfirm
    <3>2. /\ Went(t, "start", {"lo", "hi"}) /\ thread'[t].hi = handle[H(t)].confirm
          /\ thread' \in [Threads -> ThreadType]
      <4> DEFINE c == handle[H(t)].confirm
      <4>1. "start" \in Pcs /\ 0 \in Int  BY DEF Pcs
      <4>2. c \in Int /\ Notes(t, "start", 0, c)  BY <2>1, <3>1, Zenon
      <4> HIDE DEF c
      <4>3. /\ Went(t, "start", {"lo", "hi"}) /\ thread'[t].hi = c
            /\ thread' \in [Threads -> ThreadType]
        BY <1>3, <4>1, <4>2, NotesDoes, Zenon
      <4>. QED  BY <4>3, Zenon DEF c
    <3>. QED  BY <2>2, <3>1, <3>2, Zenon DEF Operable
  <2>3. CASE ~Operable(H(t))
    <3>1. FetchEnds(t)  BY <2>3, Zenon DEF FetchConfirm
    <3>2. Returns(t)  BY <3>1, Zenon DEF FetchEnds
    <3>. QED  BY <2>3, <3>1, <3>2, ReturnsDoes, Zenon DEF Operable
  <2>. QED  BY <2>2, <2>3, Zenon
<1>5. FetchEnds(t) => Fetched(t) /\ handle' \in [Handles -> HandleType]  BY <1>2, FetchedDoes, Zenon
<1>6. FetchConfirmDone(t)  BY <1>1, <1>4, <1>5, Zenon DEF FetchConfirmDone
<1>. QED  BY <1>1, <1>3, <1>4, <1>5, <1>6, HandleTypesKept, Zenon

LEMMA FetchStartStep ==
  ASSUME ClientTypeOK, CallInv, NEW t \in Threads, FetchStart(t)
  PROVE  FetchStartDone(t) /\ ClientTypeOK'
<1>1. /\ plan' = plan /\ thread[t].pc = "start" /\ UNCHANGED <<meta, updates, store, client, answered>>
      /\ \/ FetchEnds(t)
         \/ /\ ~(Call(t).from < handle[H(t)].start) /\ ~(Call(t).to > thread[t].hi)
            /\ ~(Call(t).from >= Call(t).to) /\ Goes(t, "read") /\ handle' = handle
  BY Zenon DEF FetchStart, At
<1>2. H(t) \in Handles /\ HasCall(t)  BY <1>1, HeldHandle, UnderWay, Zenon
<1>3. /\ thread \in [Threads -> ThreadType] /\ handle \in [Handles -> HandleType] /\ "read" \in Pcs
      /\ Call(t).from \in Nat /\ Call(t).to \in Nat
  BY <1>2, TypeFacts, CallHandle, Zenon DEF Pcs
<1>4. CASE FetchEnds(t)
  <2>1. Fetched(t) /\ thread' \in [Threads -> ThreadType] /\ handle' \in [Handles -> HandleType]
    BY <1>2, <1>4, FetchedDoes, Zenon
  <2>. QED  BY <1>1, <2>1, HandleTypesKept, Zenon DEF FetchStartDone
<1>5. CASE /\ ~(Call(t).from < handle[H(t)].start) /\ ~(Call(t).to > thread[t].hi)
           /\ ~(Call(t).from >= Call(t).to) /\ Goes(t, "read") /\ handle' = handle
  <2>1. Went(t, "read", {}) /\ thread' \in [Threads -> ThreadType]  BY <1>3, <1>5, GoesDoes, Zenon
  <2>2. handle[H(t)].start \in Int /\ thread[t].hi \in Int  BY <1>2, <1>3, Zenon DEF HandleType, ThreadType
  <2>3. Call(t).from >= handle[H(t)].start /\ Call(t).to <= thread[t].hi /\ Call(t).from < Call(t).to
    BY <1>3, <1>5, <2>2
  <2>4. FetchStartDone(t)  BY <1>1, <1>5, <2>1, <2>3, Zenon DEF FetchStartDone
  <2>. QED  BY <1>1, <1>5, <2>1, <2>4, ThreadTypesKept, Zenon
<1>. QED  BY <1>1, <1>4, <1>5, Zenon

LEMMA FetchReadStep ==
  ASSUME ClientTypeOK, CallInv, NEW t \in Threads, FetchRead(t)
  PROVE  FetchReadDone(t) /\ ClientTypeOK'
<1>1. /\ plan' = plan /\ thread[t].pc = "read" /\ FetchEnds(t)
      /\ UNCHANGED <<meta, updates, store, client, answered>>
  BY Zenon DEF FetchRead, At
<1>2. H(t) \in Handles  BY <1>1, HeldHandle, Zenon
<1>3. Fetched(t) /\ thread' \in [Threads -> ThreadType] /\ handle' \in [Handles -> HandleType]
  BY <1>1, <1>2, FetchedDoes, Zenon
<1>. QED  BY <1>1, <1>3, HandleTypesKept, Zenon DEF FetchReadDone

LEMMA TrimBeginStep ==
  ASSUME ClientTypeOK, CallInv, NEW t \in Threads, TrimBegin(t)
  PROVE  TrimBeginDone(t) /\ ClientTypeOK'
<1>1. /\ plan' = plan /\ Started(t, {"trim"}) /\ UNCHANGED <<meta, updates, store, client, handle, answered>>
      /\ Returns(t) \/ (~SnapshotRead(Call(t).h) /\ Takes(t, "trim lock"))
  BY Zenon DEF TrimBegin, Starts, At, Started
<1>2. Call(t).h \in Handles  BY <1>1, CallHandle, Zenon DEF Started
<1>3. thread \in [Threads -> ThreadType] /\ "trim lock" \in Pcs  BY TypeFacts, Zenon DEF Pcs
<1>4. /\ Returns(t) => Returned(t) /\ thread' \in [Threads -> ThreadType]
      /\ Takes(t, "trim lock") => Took(t, "trim lock") /\ thread' \in [Threads -> ThreadType]
  BY <1>2, <1>3, ReturnsDoes, TookDoes, Zenon
<1>. QED  BY <1>1, <1>4, ThreadTypesKept, Zenon DEF TrimBeginDone

LEMMA TrimStoreStep ==
  ASSUME ClientTypeOK, CallInv, NEW t \in Threads, TrimStore(t)
  PROVE  TrimStoreDone(t) /\ ClientTypeOK'
<1>1. plan' = plan /\ thread[t].pc = "trim lock" /\ UNCHANGED <<meta, updates, store, client, answered>>
  BY Zenon DEF TrimStore, At
<1>2. H(t) \in Handles /\ Call(t).to \in Nat /\ Call(t).to \in Int
  BY <1>1, HeldHandle, UnderWay, CallHandle, Zenon
<1>3. thread \in [Threads -> ThreadType] /\ handle \in [Handles -> HandleType] /\ "trim wait" \in Pcs
  BY TypeFacts, Zenon DEF Pcs
<1>4. /\ \/ Call(t).to < handle[H(t)].start /\ Returns(t) /\ handle' = handle
         \/ /\ ~(Call(t).to < handle[H(t)].start) /\ Goes(t, "trim wait")
            /\ HandleBut(H(t), {"start", "trimming"}) /\ handle'[H(t)].start = Call(t).to
      /\ handle' \in [Handles -> HandleType]
  <2>. USE <1>2, <1>3
  <2>1. CASE Call(t).to < handle[H(t)].start  BY <2>1, Zenon DEF TrimStore
  <2>2. CASE ~(Call(t).to < handle[H(t)].start)
    <3>1. handle' = [handle EXCEPT ![H(t)].start = Call(t).to, ![H(t)].trimming = TRUE]
      BY <2>2, Zenon DEF TrimStore
    <3>2. /\ HandleBut(H(t), {"start", "trimming"}) /\ handle'[H(t)].start = Call(t).to
          /\ handle' \in [Handles -> HandleType]
      BY <3>1, SetStartTrimming, Zenon
    <3>. QED  BY <2>2, <3>2, Zenon DEF TrimStore
  <2>. QED  BY <2>1, <2>2, Zenon
<1>5. /\ Returns(t) => Returned(t) /\ thread' \in [Threads -> ThreadType]
      /\ Goes(t, "trim wait") => Went(t, "trim wait", {}) /\ thread' \in [Threads -> ThreadType]
  BY <1>3, ReturnsDoes, GoesDoes, Zenon
<1>6. handle[H(t)].start \in Int  BY <1>2, <1>3, Zenon DEF HandleType
<1>7. ~(Call(t).to < handle[H(t)].start) => Call(t).to >= handle[H(t)].start  BY <1>2, <1>6
<1>8. TrimStoreDone(t)  BY <1>1, <1>4, <1>5, <1>7, Zenon DEF TrimStoreDone
<1>. QED  BY <1>1, <1>4, <1>5, <1>8, HandleTypesKept, Zenon

LEMMA TrimWaitStep ==
  ASSUME ClientTypeOK, CallInv, NEW t \in Threads, TrimWait(t)
  PROVE  TrimWaitDone(t) /\ ClientTypeOK'
<1>1. /\ plan' = plan /\ thread[t].pc = "trim wait" /\ handle[H(t)].fetches = 0 /\ Goes(t, "trim stream")
      /\ UNCHANGED <<meta, updates, store, client, handle, answered>>
  BY Zenon DEF TrimWait, At
<1>2. thread \in [Threads -> ThreadType] /\ "trim stream" \in Pcs  BY TypeFacts, Zenon DEF Pcs
<1>3. Went(t, "trim stream", {}) /\ thread' \in [Threads -> ThreadType]  BY <1>1, <1>2, GoesDoes, Zenon
<1>. QED  BY <1>1, <1>3, ThreadTypesKept, Zenon DEF TrimWaitDone

LEMMA NotifyDoes ==
  ASSUME updates \subseteq UpdateType, NEW m \in MetaType, NEW s \in StreamIds, Notify(m, s)
  PROVE  updates' \subseteq UpdateType /\ Notified(s, m.end)
<1>. DEFINE new == {[handle |-> h, start |-> m.start, end |-> m.end, confirmed |-> FALSE] :
                      h \in {g \in Handles : StreamOf(g) = s /\ handle[g].listens}}
<1>1. updates' = updates \union new  BY Zenon DEF Notify
<1>2. m.start \in Nat /\ m.end \in Nat  BY Zenon DEF MetaType
<1>3. ASSUME NEW n \in new
      PROVE  n \in UpdateType /\ n.handle \in Handles /\ handle[n.handle].listens /\ StreamOf(n.handle) = s
             /\ n.end = m.end
  <2>1. PICK h \in Handles : /\ StreamOf(h) = s /\ handle[h].listens
                             /\ n = [handle |-> h, start |-> m.start, end |-> m.end, confirmed |-> FALSE]
    BY <1>3, Zenon
  <2>. QED  BY <1>2, <2>1, Zenon DEF UpdateType
<1>. QED  BY <1>1, <1>3, Zenon DEF Notified

LEMMA TrimStreamStep ==
  ASSUME ClientTypeOK, CallInv, NEW t \in Threads, TrimStream(t)
  PROVE  TrimStreamDone(t) /\ ClientTypeOK'
<1>. DEFINE s == StreamOf(H(t))
<1>1. plan' = plan /\ thread[t].pc = "trim stream" /\ Returns(t) /\ UNCHANGED <<store, client, answered>>
  BY Zenon DEF TrimStream, At
<1>2. H(t) \in Handles /\ s \in StreamIds /\ Call(t).to \in Nat
  BY <1>1, HeldHandle, UnderWay, CallHandle, Zenon
<1>3. /\ thread \in [Threads -> ThreadType] /\ handle \in [Handles -> HandleType]
      /\ meta \in [StreamIds -> MetaType] /\ updates \subseteq UpdateType
  BY TypeFacts, Zenon
<1>4. Returned(t) /\ thread' \in [Threads -> ThreadType]  BY <1>1, <1>3, ReturnsDoes, Zenon
<1>5. /\ HandleBut(H(t), {"trimming"}) /\ handle' \in [Handles -> HandleType]
      /\ meta' \in [StreamIds -> MetaType]
      /\ \/ meta' = meta /\ updates' = updates
         \/ \E m \in MetaType :
              /\ Holds(H(t)) /\ meta' = [meta EXCEPT ![s] = m] /\ Notify(m, s)
              /\ m.state = meta[s].state /\ m.epoch = meta[s].epoch /\ m.end = meta[s].end
              /\ m.start = IF meta[s].start >= Call(t).to THEN meta[s].start ELSE Call(t).to
  <2>. USE <1>2, <1>3
  <2>. DEFINE m == [meta[s] EXCEPT !.start = Max({@, Call(t).to})]
  <2>1. HandleBut(H(t), {"trimming"}) /\ handle' \in [Handles -> HandleType]
    <3>1. handle' = [handle EXCEPT ![H(t)].trimming = FALSE]  BY Zenon DEF TrimStream
    <3>. QED  BY <3>1, SetTrimming, Zenon
  <2>2. CASE ~Holds(H(t))  BY <2>1, <2>2, Zenon DEF TrimStream
  <2>3. CASE Holds(H(t))
    <3>0. meta[s] \in MetaType /\ meta[s].start \in Int /\ Call(t).to \in Int  BY DEF MetaType
    <3>1. Max({meta[s].start, Call(t).to}) = IF meta[s].start >= Call(t).to THEN meta[s].start ELSE Call(t).to
      BY <3>0, MaxOfTwo, Zenon
    <3>2. PICK n \in Nat : /\ n = Max({meta[s].start, Call(t).to})
                           /\ n = IF meta[s].start >= Call(t).to THEN meta[s].start ELSE Call(t).to
      BY <3>0, <3>1, Zenon DEF MetaType
    <3>3. m = [meta[s] EXCEPT !.start = n]  BY <3>2, Zenon
    <3>4. m \in MetaType /\ m.start = n /\ m.state = meta[s].state /\ m.epoch = meta[s].epoch /\ m.end = meta[s].end
      BY <3>0, <3>3, Zenon DEF MetaType
    <3>5. meta' = [meta EXCEPT ![s] = m] /\ Notify(m, s)  BY <2>3, Zenon DEF TrimStream
    <3>. HIDE DEF m
    <3>6. meta' \in [StreamIds -> MetaType]  BY <3>4, <3>5, Zenon
    <3>. QED  BY <2>1, <2>3, <3>2, <3>4, <3>5, <3>6, Zenon
  <2>. QED  BY <2>2, <2>3, Zenon
<1>. HIDE DEF s
<1>6. CASE meta' = meta /\ updates' = updates
  <2>1. TrimStreamDone(t)  BY <1>1, <1>4, <1>5, <1>6, Zenon DEF TrimStreamDone
  <2>. QED  BY <1>1, <1>3, <1>4, <1>5, <1>6, <2>1, TypeFacts, TypesKept, Zenon
<1>7. ASSUME NEW m \in MetaType,
             Holds(H(t)), meta' = [meta EXCEPT ![s] = m], Notify(m, s),
             m.state = meta[s].state, m.epoch = meta[s].epoch, m.end = meta[s].end,
             m.start = IF meta[s].start >= Call(t).to THEN meta[s].start ELSE Call(t).to
      PROVE  TrimStreamDone(t) /\ ClientTypeOK'
  <2>1. updates' \subseteq UpdateType /\ Notified(s, meta[s].end)  BY <1>2, <1>3, <1>7, NotifyDoes, Zenon
  <2>2. meta'[s] = m /\ \A r \in StreamIds \ {s} : meta'[r] = meta[r]  BY <1>2, <1>3, <1>7, MetaSet, Zenon
  <2>3. MetaBut(s, {"start"})  BY <1>7, <2>2, Zenon DEF MetaBut
  <2>4. TrimStreamDone(t)  BY <1>1, <1>4, <1>5, <1>7, <2>1, <2>2, <2>3, Zenon DEF TrimStreamDone, s
  <2>. QED  BY <1>1, <1>4, <1>5, <2>1, <2>4, TypeFacts, TypesKept, Zenon
<1>. QED  BY <1>5, <1>6, <1>7, Zenon

LEMMA CloseBeginStep ==
  ASSUME ClientTypeOK, CallInv, NEW t \in Threads, CloseBegin(t)
  PROVE  CloseBeginDone(t) /\ ClientTypeOK'
<1>1. /\ plan' = plan /\ Started(t, {"close", "destroy"}) /\ (Returns(t) \/ Takes(t, "close"))
      /\ UNCHANGED <<meta, updates, store, client, handle, answered>>
  BY Zenon DEF CloseBegin, Starts, At, Started
<1>2. Call(t).h \in Handles  BY <1>1, CallHandle, Zenon DEF Started
<1>3. thread \in [Threads -> ThreadType] /\ "close" \in Pcs  BY TypeFacts, Zenon DEF Pcs
<1>4. /\ Returns(t) => Returned(t) /\ thread' \in [Threads -> ThreadType]
      /\ Takes(t, "close") => Took(t, "close") /\ thread' \in [Threads -> ThreadType]
  BY <1>2, <1>3, ReturnsDoes, TookDoes, Zenon
<1>. QED  BY <1>1, <1>4, ThreadTypesKept, Zenon DEF CloseBeginDone

LEMMA ForcedSet ==
  ASSUME client \in ClientType, NEW h \in Handles, client' = [client EXCEPT !.forced = @ \union {h}]
  PROVE  client' \in ClientType /\ ClientBut({"forced"}) /\ client'.forced = client.forced \union {h}
<1>1. client' = [client EXCEPT !.forced = client.forced \union {h}]  BY Zenon
<1>2. client.forced \union {h} \in SUBSET Handles  BY Zenon DEF ClientType
<1>3. client' \in ClientType  BY <1>1, <1>2, Zenon DEF ClientType
<1>4. ClientBut({"forced"})  BY <1>1, Zenon DEF ClientType, ClientBut
<1>5. client'.forced = client.forced \union {h}  BY <1>1, Zenon DEF ClientType
<1>. QED  BY <1>3, <1>4, <1>5, Zenon

LEMMA ClientSame ==
  ASSUME client' = client, NEW F
  PROVE  ClientBut(F)
BY Zenon DEF ClientBut

LEMMA CloseMarkStep ==
  ASSUME ClientTypeOK, CallInv, NEW t \in Threads, CloseMark(t)
  PROVE  CloseMarkDone(t) /\ ClientTypeOK'
<1>1. /\ plan' = plan /\ thread[t].pc = "close" /\ UNCHANGED <<meta, updates, store, answered>>
      /\ client' = IF Forces(t) THEN [client EXCEPT !.forced = @ \union {H(t)}] ELSE client
  BY Zenon DEF CloseMark, At
<1>2. H(t) \in Handles  BY <1>1, HeldHandle, Zenon
<1>3. thread \in [Threads -> ThreadType] /\ handle \in [Handles -> HandleType] /\ client \in ClientType
  BY TypeFacts
<1>4. /\ client' \in ClientType /\ ClientBut({"forced"})
      /\ client'.forced = IF Forces(t) THEN client.forced \union {H(t)} ELSE client.forced
  BY <1>1, <1>2, <1>3, ForcedSet, ClientSame, Zenon
<1>. DEFINE pc == IF Forces(t) THEN "close lock" ELSE "close appends"
<1>5. /\ \/ SnapshotRead(H(t)) /\ Returns(t) /\ HandleBut(H(t), {"listens"}) /\ ~handle'[H(t)].listens
         \/ /\ ~SnapshotRead(H(t)) /\ Goes(t, pc) /\ HandleBut(H(t), {"status"})
            /\ handle'[H(t)].status = handle[H(t)].status \union {"closed"}
      /\ handle' \in [Handles -> HandleType]
  <2>. USE <1>2, <1>3
  <2>1. CASE SnapshotRead(H(t))
    <3>1. Returns(t) /\ handle' = [handle EXCEPT ![H(t)].listens = FALSE]  BY <2>1, Zenon DEF CloseMark
    <3>. QED  BY <2>1, <3>1, SetListens, Zenon
  <2>2. CASE ~SnapshotRead(H(t))
    <3>1. /\ handle' = [handle EXCEPT ![H(t)].status = handle[H(t)].status \union {"closed"}]
          /\ Goes(t, IF Forces(t) THEN "close lock" ELSE "close appends")
      BY <2>2, Zenon DEF CloseMark
    <3>2. handle[H(t)].status \union {"closed"} \in SUBSET {"closed", "fenced", "destroyed"}  BY StatusGrows, Zenon
    <3>3. /\ HandleBut(H(t), {"status"}) /\ handle'[H(t)].status = handle[H(t)].status \union {"closed"}
          /\ handle' \in [Handles -> HandleType]
      BY <3>1, <3>2, SetStatus, Zenon
    <3>. QED  BY <2>2, <3>1, <3>3, Zenon
  <2>. QED  BY <2>1, <2>2, Zenon
<1>6. pc \in Pcs  BY Zenon DEF Pcs
<1>. HIDE DEF pc
<1>7. /\ Returns(t) => Returned(t) /\ thread' \in [Threads -> ThreadType]
      /\ Goes(t, pc) => Went(t, pc, {}) /\ thread' \in [Threads -> ThreadType]
  BY <1>3, <1>6, ReturnsDoes, GoesDoes, Zenon
<1>8. CloseMarkDone(t)  BY <1>1, <1>4, <1>5, <1>7, Zenon DEF CloseMarkDone, pc
<1>. QED  BY <1>1, <1>4, <1>5, <1>7, <1>8, TypeFacts, TypesKept, Zenon

LEMMA CloseAppendsStep ==
  ASSUME ClientTypeOK, CallInv, NEW t \in Threads, CloseAppends(t)
  PROVE  CloseAppendsDone(t) /\ ClientTypeOK'
<1>1. /\ plan' = plan /\ thread[t].pc = "close appends" /\ handle[H(t)].appends = 0 /\ Goes(t, "close fetches")
      /\ UNCHANGED <<meta, updates, store, client, handle, answered>>
  BY Zenon DEF CloseAppends, At
<1>2. thread \in [Threads -> ThreadType] /\ "close fetches" \in Pcs  BY TypeFacts, Zenon DEF Pcs
<1>3. Went(t, "close fetches", {}) /\ thread' \in [Threads -> ThreadType]  BY <1>1, <1>2, GoesDoes, Zenon
<1>. QED  BY <1>1, <1>3, ThreadTypesKept, Zenon DEF CloseAppendsDone

LEMMA CloseFetchesStep ==
  ASSUME ClientTypeOK, CallInv, NEW t \in Threads, CloseFetches(t)
  PROVE  CloseFetchesDone(t) /\ ClientTypeOK'
<1>1. /\ plan' = plan /\ thread[t].pc = "close fetches" /\ Goes(t, "close lock")
      /\ UNCHANGED <<meta, updates, store, client, handle, answered>>
  BY Zenon DEF CloseFetches, At
<1>2. thread \in [Threads -> ThreadType] /\ "close lock" \in Pcs  BY TypeFacts, Zenon DEF Pcs
<1>3. Went(t, "close lock", {}) /\ thread' \in [Threads -> ThreadType]  BY <1>1, <1>2, GoesDoes, Zenon
<1>. QED  BY <1>1, <1>3, ThreadTypesKept, Zenon DEF CloseFetchesDone

LEMMA ClosedDoes ==
  ASSUME ClientTypeOK, NEW t \in Threads, H(t) \in Handles, StreamOf(H(t)) \in StreamIds, NEW r,
         AfterClose(t, r), Forgets(t)
  PROVE  Closed(t, r) /\ thread' \in [Threads -> ThreadType] /\ client' \in ClientType
<1>1. thread \in [Threads -> ThreadType] /\ client \in ClientType  BY TypeFacts, Zenon
<1>2. /\ \/ Kind(t) = "destroy" /\ r = "ok" /\ Went(t, "destroy", {})
         \/ ~(Kind(t) = "destroy" /\ r = "ok") /\ ClosesWent(t, thread[t].todo)
      /\ thread' \in [Threads -> ThreadType]
  BY <1>1, AfterCloseDoes, Zenon
<1>3. /\ client' \in ClientType /\ ClientBut({"opened"})
      /\ client'.opened = IF Forces(t) THEN [client.opened EXCEPT ![StreamOf(H(t))] = NoHandle]
                          ELSE client.opened
  BY <1>1, OpenedSet, ClientSame, Zenon DEF Forgets
<1>. QED  BY <1>2, <1>3, Zenon DEF Closed

LEMMA CloseLockStep ==
  ASSUME ClientTypeOK, CallInv, NEW t \in Threads, CloseLock(t)
  PROVE  CloseLockDone(t) /\ ClientTypeOK'
<1>1. plan' = plan /\ thread[t].pc = "close lock" /\ UNCHANGED <<meta, updates, store, answered>>
  BY Zenon DEF CloseLock, At
<1>2. H(t) \in Handles /\ StreamOf(H(t)) \in StreamIds  BY <1>1, HeldHandle, Zenon
<1>3. /\ thread \in [Threads -> ThreadType] /\ handle \in [Handles -> HandleType] /\ client \in ClientType
      /\ "upload" \in Pcs
  BY TypeFacts, Zenon DEF Pcs
<1>4. /\ \/ /\ handle[H(t)].result = "none" /\ HandleBut(H(t), {"closing"}) /\ Goes(t, "upload")
            /\ client' = client
         \/ /\ handle[H(t)].result # "none" /\ handle' = handle /\ AfterClose(t, handle[H(t)].result)
            /\ Forgets(t)
      /\ handle' \in [Handles -> HandleType]
  <2>. USE <1>2, <1>3
  <2>1. CASE handle[H(t)].result = "none"
    <3>1. handle' = [handle EXCEPT ![H(t)].closing = TRUE] /\ Goes(t, "upload") /\ client' = client
      BY <2>1, Zenon DEF CloseLock
    <3>. QED  BY <2>1, <3>1, SetClosing, Zenon
  <2>2. CASE handle[H(t)].result # "none"  BY <2>2, Zenon DEF CloseLock
  <2>. QED  BY <2>1, <2>2, Zenon
<1>5. CASE HandleBut(H(t), {"closing"}) /\ Goes(t, "upload") /\ client' = client
  <2>1. Went(t, "upload", {}) /\ thread' \in [Threads -> ThreadType]  BY <1>3, <1>5, GoesDoes, Zenon
  <2>. QED  BY <1>1, <1>4, <1>5, <2>1, HandleTypesKept, Zenon DEF CloseLockDone
<1>6. CASE /\ handle[H(t)].result # "none" /\ handle' = handle /\ AfterClose(t, handle[H(t)].result)
           /\ Forgets(t)
  <2>1. /\ Closed(t, handle[H(t)].result) /\ thread' \in [Threads -> ThreadType] /\ client' \in ClientType
    BY <1>2, <1>6, ClosedDoes, Zenon
  <2>2. CloseLockDone(t)  BY <1>1, <1>6, <2>1, Zenon DEF CloseLockDone
  <2>. QED  BY <1>1, <1>4, <2>1, <2>2, TypeFacts, TypesKept, Zenon
<1>. QED  BY <1>4, <1>5, <1>6, Zenon

LEMMA ResultSetDoes ==
  ASSUME ClientTypeOK, NEW t \in Threads, H(t) \in Handles, StreamOf(H(t)) \in StreamIds,
         NEW r \in {"ok", "error"}, ClosedWith(t, r)
  PROVE  /\ ResultSet(t, r) /\ handle' \in [Handles -> HandleType]
         /\ thread' \in [Threads -> ThreadType] /\ client' \in ClientType
<1>1. handle \in [Handles -> HandleType]  BY TypeFacts, Zenon
<1>2. /\ HandleBut(H(t), {"closing", "result"}) /\ handle'[H(t)].result = r
      /\ handle' \in [Handles -> HandleType] /\ AfterClose(t, r) /\ Forgets(t)
  <2>. USE <1>1
  <2>1. handle' = [handle EXCEPT ![H(t)].closing = FALSE, ![H(t)].result = r]  BY Zenon DEF ClosedWith
  <2>2. /\ HandleBut(H(t), {"closing", "result"}) /\ handle'[H(t)].result = r
        /\ handle' \in [Handles -> HandleType]
    BY <2>1, SetResult, Zenon
  <2>. QED  BY <2>2, Zenon DEF ClosedWith
<1>3. Closed(t, r) /\ thread' \in [Threads -> ThreadType] /\ client' \in ClientType  BY <1>2, ClosedDoes, Zenon
<1>. QED  BY <1>2, <1>3, Zenon DEF ResultSet

LEMMA CommitsAckedDoes ==
  ASSUME ClientTypeOK, EndInv, NEW s \in StreamIds, CommitsAcked(s)
  PROVE  CommittedAll(s) /\ meta' \in [StreamIds -> MetaType] /\ updates' \subseteq UpdateType
<1>1. meta \in [StreamIds -> MetaType] /\ updates \subseteq UpdateType  BY TypeFacts, Zenon
<1>2. /\ Committed(s) = [meta[s] EXCEPT !.end = Max(EndsOf(s))] /\ Committed(s) \in MetaType
      /\ Committed(s).end \in EndsOf(s) /\ \A e \in EndsOf(s) : Committed(s).end >= e
      /\ Committed(s).end >= meta[s].end
  BY CommittedEnd, Zenon
<1>3. meta[s].end \in EndsOf(s)  BY Zenon DEF EndsOf
<1>4. Committed(s).end \in Nat /\ meta[s].end \in Nat  BY <1>1, <1>2, Zenon DEF MetaType
<1>5. CASE Exists(s) /\ Committed(s).end > meta[s].end
  <2>1. meta' = [meta EXCEPT ![s] = Committed(s)] /\ Notify(Committed(s), s)  BY <1>5, Zenon DEF CommitsAcked
  <2>2. updates' \subseteq UpdateType /\ Notified(s, Committed(s).end)  BY <1>1, <1>2, <2>1, NotifyDoes, Zenon
  <2>3. /\ meta' \in [StreamIds -> MetaType] /\ meta'[s] = Committed(s)
        /\ \A r \in StreamIds \ {s} : meta'[r] = meta[r]
    BY <1>1, <1>2, <2>1, MetaSet, Zenon
  <2>4. MetaBut(s, {"end"})
    <3>1. /\ Committed(s).state = meta[s].state /\ Committed(s).epoch = meta[s].epoch
          /\ Committed(s).start = meta[s].start
      BY <1>1, <1>2, Zenon DEF MetaType
    <3>. QED  BY <2>3, <3>1, Zenon DEF MetaBut
  <2>. QED  BY <1>2, <2>2, <2>3, <2>4, Zenon DEF CommittedAll
<1>6. CASE ~(Exists(s) /\ Committed(s).end > meta[s].end)
  <2>1. meta' = meta /\ updates' = updates  BY <1>6, Zenon DEF CommitsAcked
  <2>2. Exists(s) => meta[s].end = Committed(s).end  BY <1>2, <1>4, <1>6
  <2>3. Exists(s) => \A e \in EndsOf(s) : meta[s].end >= e  BY <1>2, <2>2, Zenon
  <2>4. MetaBut(s, {"end"}) /\ Notified(s, meta'[s].end)  BY <2>1, Zenon DEF MetaBut, Notified
  <2>. QED  BY <1>1, <1>3, <1>4, <2>1, <2>3, <2>4 DEF CommittedAll
<1>. QED  BY <1>5, <1>6, Zenon

LEMMA CloseUploadStep ==
  ASSUME ClientTypeOK, CallInv, EndInv, NEW t \in Threads, CloseUpload(t)
  PROVE  CloseUploadDone(t) /\ ClientTypeOK'
<1>1. /\ plan' = plan /\ thread[t].pc = "upload" /\ UNCHANGED <<store, answered>>
      /\ \/ CommitsAcked(StreamOf(H(t))) /\ Goes(t, "close stream") /\ UNCHANGED <<client, handle>>
         \/ ClosedWith(t, "error") /\ UNCHANGED <<meta, updates>>
  BY Zenon DEF CloseUpload, At
<1>2. H(t) \in Handles /\ StreamOf(H(t)) \in StreamIds  BY <1>1, HeldHandle, Zenon
<1>3. thread \in [Threads -> ThreadType] /\ "close stream" \in Pcs  BY TypeFacts, Zenon DEF Pcs
<1>4. CASE CommitsAcked(StreamOf(H(t))) /\ Goes(t, "close stream") /\ UNCHANGED <<client, handle>>
  <2>1. Went(t, "close stream", {}) /\ thread' \in [Threads -> ThreadType]  BY <1>3, <1>4, GoesDoes, Zenon
  <2>2. /\ CommittedAll(StreamOf(H(t))) /\ meta' \in [StreamIds -> MetaType]
        /\ updates' \subseteq UpdateType
    BY <1>2, <1>4, CommitsAckedDoes, Zenon
  <2>3. CloseUploadDone(t)  BY <1>1, <1>4, <2>1, <2>2, Zenon DEF CloseUploadDone
  <2>. QED  BY <1>1, <1>4, <2>1, <2>2, <2>3, TypeFacts, TypesKept, Zenon
<1>5. CASE ClosedWith(t, "error") /\ UNCHANGED <<meta, updates>>
  <2>1. /\ ResultSet(t, "error") /\ handle' \in [Handles -> HandleType]
        /\ thread' \in [Threads -> ThreadType] /\ client' \in ClientType
    BY <1>2, <1>5, ResultSetDoes, Zenon
  <2>2. CloseUploadDone(t)  BY <1>1, <1>5, <2>1, Zenon DEF CloseUploadDone
  <2>. QED  BY <1>1, <1>5, <2>1, <2>2, TypeFacts, TypesKept, Zenon
<1>. QED  BY <1>1, <1>4, <1>5, Zenon

LEMMA StateSet ==
  ASSUME meta \in [StreamIds -> MetaType], NEW s \in StreamIds, NEW x \in {"closed", "opened", "deleted"},
         meta' = [meta EXCEPT ![s].state = x]
  PROVE  meta' \in [StreamIds -> MetaType] /\ MetaBut(s, {"state"}) /\ meta'[s].state = x
<1>1. MetaBut(s, {"state"})  BY Zenon DEF MetaBut, MetaType
<1>2. meta'[s].state = x  BY Zenon DEF MetaType
<1>3. meta' \in [StreamIds -> MetaType]  BY Zenon DEF MetaType
<1>. QED  BY <1>1, <1>2, <1>3, Zenon

LEMMA CloseStreamStep ==
  ASSUME ClientTypeOK, CallInv, NEW t \in Threads, CloseStream(t)
  PROVE  CloseStreamDone(t) /\ ClientTypeOK'
<1>1. /\ plan' = plan /\ thread[t].pc = "close stream" /\ UNCHANGED <<updates, store, answered>>
      /\ \/ /\ Holds(H(t)) /\ meta' = [meta EXCEPT ![StreamOf(H(t))].state = "closed"]
            /\ ClosedWith(t, "ok")
         \/ meta' = meta /\ ClosedWith(t, "error")
  BY Zenon DEF CloseStream, At
<1>2. H(t) \in Handles /\ StreamOf(H(t)) \in StreamIds  BY <1>1, HeldHandle, Zenon
<1>3. meta \in [StreamIds -> MetaType]  BY TypeFacts, Zenon
<1>4. CASE /\ Holds(H(t)) /\ meta' = [meta EXCEPT ![StreamOf(H(t))].state = "closed"]
           /\ ClosedWith(t, "ok")
  <2>1. /\ ResultSet(t, "ok") /\ handle' \in [Handles -> HandleType]
        /\ thread' \in [Threads -> ThreadType] /\ client' \in ClientType
    BY <1>2, <1>4, ResultSetDoes, Zenon
  <2>2. /\ meta' \in [StreamIds -> MetaType] /\ MetaBut(StreamOf(H(t)), {"state"})
        /\ meta'[StreamOf(H(t))].state = "closed"
    BY <1>2, <1>3, <1>4, StateSet, Zenon
  <2>3. CloseStreamDone(t)  BY <1>1, <1>4, <2>1, <2>2, Zenon DEF CloseStreamDone
  <2>. QED  BY <1>1, <2>1, <2>2, <2>3, TypeFacts, TypesKept, Zenon
<1>5. CASE meta' = meta /\ ClosedWith(t, "error")
  <2>1. /\ ResultSet(t, "error") /\ handle' \in [Handles -> HandleType]
        /\ thread' \in [Threads -> ThreadType] /\ client' \in ClientType
    BY <1>2, <1>5, ResultSetDoes, Zenon
  <2>2. CloseStreamDone(t)  BY <1>1, <1>5, <2>1, Zenon DEF CloseStreamDone
  <2>. QED  BY <1>1, <1>5, <2>1, <2>2, TypeFacts, TypesKept, Zenon
<1>. QED  BY <1>1, <1>4, <1>5, Zenon

LEMMA DestroyMarkStep ==
  ASSUME ClientTypeOK, CallInv, NEW t \in Threads, DestroyMark(t)
  PROVE  DestroyMarkDone(t) /\ ClientTypeOK'
<1>1. /\ plan' = plan /\ thread[t].pc = "destroy" /\ Goes(t, "delete")
      /\ UNCHANGED <<meta, updates, store, client, answered>>
  BY Zenon DEF DestroyMark, At
<1>2. H(t) \in Handles  BY <1>1, HeldHandle, Zenon
<1>3. thread \in [Threads -> ThreadType] /\ handle \in [Handles -> HandleType] /\ "delete" \in Pcs
  BY TypeFacts, Zenon DEF Pcs
<1>4. Went(t, "delete", {}) /\ thread' \in [Threads -> ThreadType]  BY <1>1, <1>3, GoesDoes, Zenon
<1>5. /\ HandleBut(H(t), {"status", "start"}) /\ handle'[H(t)].start = handle[H(t)].confirm
      /\ handle'[H(t)].status = handle[H(t)].status \union {"destroyed"}
      /\ handle' \in [Handles -> HandleType]
  <2>. USE <1>2, <1>3
  <2>1. handle' = [handle EXCEPT ![H(t)].status = handle[H(t)].status \union {"destroyed"},
                                 ![H(t)].start = handle[H(t)].confirm]
    BY Zenon DEF DestroyMark
  <2>. DEFINE x == handle[H(t)].status \union {"destroyed"}
              y == handle[H(t)].confirm
  <2>2. x \in SUBSET {"closed", "fenced", "destroyed"} /\ y \in Int  BY StatusGrows, Zenon DEF HandleType
  <2>3. handle' = [handle EXCEPT ![H(t)].status = x, ![H(t)].start = y]  BY <2>1, Zenon
  <2>. HIDE DEF x, y
  <2>4. HandleBut(H(t), {"status", "start"})  BY <2>2, <2>3, Zenon DEF HandleBut, HandleType
  <2>5. handle'[H(t)].status = x /\ handle'[H(t)].start = y  BY <2>2, <2>3, Zenon DEF HandleType
  <2>6. [handle[H(t)] EXCEPT !.status = x, !.start = y] \in HandleType  BY <2>2, Zenon DEF HandleType
  <2>7. handle' = [handle EXCEPT ![H(t)] = [handle[H(t)] EXCEPT !.status = x, !.start = y]]  BY <2>3, Zenon
  <2>8. handle' \in [Handles -> HandleType]  BY <2>6, <2>7, Zenon
  <2>. QED  BY <2>4, <2>5, <2>8, Zenon DEF x, y
<1>. QED  BY <1>1, <1>4, <1>5, HandleTypesKept, Zenon DEF DestroyMarkDone

LEMMA DeleteStreamStep ==
  ASSUME ClientTypeOK, CallInv, NEW t \in Threads, DeleteStream(t)
  PROVE  DeleteStreamDone(t) /\ ClientTypeOK'
<1>1. /\ plan' = plan /\ thread[t].pc = "delete" /\ Returns(t)
      /\ UNCHANGED <<updates, store, client, handle, answered>>
      /\ meta' = meta \/ meta' = [meta EXCEPT ![StreamOf(H(t))].state = "deleted"]
  BY Zenon DEF DeleteStream, At
<1>2. H(t) \in Handles /\ StreamOf(H(t)) \in StreamIds  BY <1>1, HeldHandle, Zenon
<1>3. thread \in [Threads -> ThreadType] /\ meta \in [StreamIds -> MetaType]  BY TypeFacts
<1>4. Returned(t) /\ thread' \in [Threads -> ThreadType]  BY <1>1, <1>3, ReturnsDoes, Zenon
<1>5. /\ meta' \in [StreamIds -> MetaType]
      /\ meta' = meta \/ (MetaBut(StreamOf(H(t)), {"state"}) /\ meta'[StreamOf(H(t))].state = "deleted")
  BY <1>1, <1>2, <1>3, StateSet, Zenon
<1>6. DeleteStreamDone(t)  BY <1>1, <1>4, <1>5, Zenon DEF DeleteStreamDone
<1>. QED  BY <1>1, <1>4, <1>5, <1>6, TypeFacts, TypesKept, Zenon

LEMMA ShutdownBeginStep ==
  ASSUME ClientTypeOK, CallInv, NEW t \in Threads, ShutdownBegin(t)
  PROVE  ShutdownBeginDone(t) /\ ClientTypeOK'
<1>. DEFINE late == client.late \union {H(u) : u \in {v \in Threads : thread[v].pc \in OpenPcs}}
<1>1. /\ plan' = plan /\ thread[t].pc = "idle" /\ HasCall(t) /\ Kind(t) \in ShutdownKinds
      /\ Goes(t, "collect") /\ UNCHANGED <<meta, updates, store, handle, answered>>
      /\ client' = [client EXCEPT !.shutdown = TRUE, !.late = late]
  BY Zenon DEF ShutdownBegin, At, OpenPcs
<1>2. thread \in [Threads -> ThreadType] /\ client \in ClientType /\ "collect" \in Pcs  BY TypeFacts, Zenon DEF Pcs
<1>3. Went(t, "collect", {}) /\ thread' \in [Threads -> ThreadType]  BY <1>1, <1>2, GoesDoes, Zenon
<1>4. late \in SUBSET Handles
  <2>1. ASSUME NEW v \in Threads, thread[v].pc \in OpenPcs PROVE H(v) \in Handles
    BY <2>1, HeldHandle, Zenon DEF OpenPcs
  <2>. QED  BY <1>2, <2>1, Zenon DEF ClientType
<1>. HIDE DEF late
<1>5. client' \in ClientType  BY <1>1, <1>2, <1>4, Zenon DEF ClientType
<1>6. ClientBut({"shutdown", "late"})  BY <1>1, <1>2, Zenon DEF ClientType, ClientBut
<1>7. client'.shutdown = TRUE /\ client'.late = late  BY <1>1, <1>2, Zenon DEF ClientType
<1>8. ShutdownBeginDone(t)  BY <1>1, <1>3, <1>6, <1>7, Zenon DEF ShutdownBeginDone, late
<1>. QED  BY <1>1, <1>3, <1>5, <1>8, TypeFacts, TypesKept, Zenon

LEMMA CollectStep ==
  ASSUME ClientTypeOK, CallInv, FiniteOpened, NEW t \in Threads, Collect(t)
  PROVE  CollectDone(t) /\ ClientTypeOK'
<1>. DEFINE opened == {client.opened[s] : s \in StreamIds} \ {NoHandle}
            none == [s \in StreamIds |-> NoHandle]
<1>1. /\ plan' = plan /\ thread[t].pc = "collect" /\ UNCHANGED <<meta, updates, store, handle, answered>>
      /\ client' = client \/ client' = [client EXCEPT !.opened = none]
  BY Zenon DEF Collect, At
<1>2. PICK todo \in [1..Cardinality(opened) -> opened] :
        Range(todo) = opened /\ thread' = [thread EXCEPT ![t] = Closes(t, todo)]
  BY Zenon DEF Collect
<1>3. thread \in [Threads -> ThreadType] /\ client \in ClientType  BY TypeFacts, Zenon
<1>4. client.opened \in [StreamIds -> Handles \union {NoHandle}]  BY <1>3, Zenon DEF ClientType
<1>5. opened \subseteq Handles /\ Cardinality(opened) \in Nat  BY <1>4, Zenon DEF FiniteOpened
<1>6. Range(todo) = opened  BY <1>2, Zenon
<1>7. todo \in Seq(Handles)
  <2>1. PICK n \in Nat : n = Cardinality(opened)  BY <1>5, Zenon
  <2>2. todo \in [1..n -> Handles]  BY <1>2, <1>5, <2>1, Zenon
  <2>. QED  BY <2>2
<1>8. ClosesWent(t, todo) /\ thread' \in [Threads -> ThreadType]  BY <1>2, <1>3, <1>7, ClosesDoes, Zenon
<1>9. /\ client' \in ClientType
      /\ client' = client \/ (ClientBut({"opened"}) /\ client'.opened = none)
  <2>1. none \in [StreamIds -> Handles \union {NoHandle}]  BY Zenon
  <2>. HIDE DEF none
  <2>2. CASE client' = [client EXCEPT !.opened = none]
    <3>1. client' \in ClientType  BY <1>3, <2>1, <2>2, Zenon DEF ClientType
    <3>2. client'.opened = none  BY <1>3, <2>2, Zenon DEF ClientType
    <3>3. ClientBut({"opened"})  BY <1>3, <2>2, Zenon DEF ClientType, ClientBut
    <3>. QED  BY <3>1, <3>2, <3>3, Zenon
  <2>. QED  BY <1>1, <1>3, <2>2, Zenon
<1>10. CollectDone(t)
  <2>1. \A h \in Range(todo) : \E s \in StreamIds : h = client.opened[s]  BY <1>6, Zenon
  <2>2. \A s \in StreamIds : client.opened[s] # NoHandle => client.opened[s] \in Range(todo)  BY <1>6, Zenon
  <2>. QED  BY <1>1, <1>7, <1>8, <1>9, <2>1, <2>2, Zenon DEF CollectDone
<1>. QED  BY <1>1, <1>8, <1>9, <1>10, TypeFacts, TypesKept, Zenon

LEMMA HaltStep ==
  ASSUME ClientTypeOK, CallInv, NEW t \in Threads, Halt(t)
  PROVE  HaltDone(t) /\ ClientTypeOK'
<1>1. /\ plan' = plan /\ thread[t].pc = "halt" /\ Returns(t) /\ client' = [client EXCEPT !.halted = TRUE]
      /\ UNCHANGED <<meta, updates, store, handle, answered>>
  BY Zenon DEF Halt, At
<1>2. thread \in [Threads -> ThreadType] /\ client \in ClientType  BY TypeFacts, Zenon
<1>3. Returned(t) /\ thread' \in [Threads -> ThreadType]  BY <1>1, <1>2, ReturnsDoes, Zenon
<1>4. client' \in ClientType  BY <1>1, <1>2, Zenon DEF ClientType
<1>5. ClientBut({"halted"})  BY <1>1, <1>2, Zenon DEF ClientType, ClientBut
<1>6. HaltDone(t)  BY <1>1, <1>3, <1>5, Zenon DEF HaltDone
<1>. QED  BY <1>1, <1>3, <1>4, <1>6, TypeFacts, TypesKept, Zenon

\* The steps below the streams.
LEMMA AckStep ==
  ASSUME ClientTypeOK, Ack
  PROVE  AckDone /\ ClientTypeOK'
<1>. DEFINE r == Head(store.queue)
<1>1. /\ plan' = plan /\ store.queue # <<>>
      /\ store' = [store EXCEPT !.queue = Tail(store.queue), !.acked = store.acked \union {r}]
      /\ UNCHANGED <<meta, updates, client, handle, thread, answered>>
  BY Zenon DEF Ack
<1>2. store \in StoreType  BY TypeFacts, Zenon
<1>3. store.queue \in Seq(Handles \X Int)  BY <1>2, Zenon DEF StoreType
<1>4. r \in Handles \X Int /\ Tail(store.queue) \in Seq(Handles \X Int)  BY <1>1, <1>3
<1>. HIDE DEF r
<1>5. store.acked \union {r} \in SUBSET (Handles \X Int)  BY <1>2, <1>4, Zenon DEF StoreType
<1>6. store' \in StoreType  BY <1>1, <1>2, <1>4, <1>5, Zenon DEF StoreType
<1>7. /\ store'.queue = Tail(store.queue) /\ store'.failed = store.failed
      /\ store'.acked = store.acked \union {r} /\ store'.down = store.down
  BY <1>1, <1>2, Zenon DEF StoreType
<1>8. AckDone  BY <1>1, <1>7, Zenon DEF AckDone, r
<1>. QED  BY <1>1, <1>6, <1>8, TypeFacts, TypesKept, Zenon

LEMMA StoreFailed ==
  ASSUME store \in StoreType, NEW f \in SUBSET (Handles \X Int),
         store' = [store EXCEPT !.queue = <<>>, !.failed = f, !.down = TRUE]
  PROVE  store' \in StoreType
<1>1. <<>> \in Seq(Handles \X Int)  OBVIOUS
<1>. QED  BY <1>1, Zenon DEF StoreType

LEMMA StoreFailsStep ==
  ASSUME ClientTypeOK, StoreFails
  PROVE  StoreFailsDone /\ ClientTypeOK'
<1>. DEFINE f == store.failed \union Range(store.queue)
<1>1. /\ plan' = plan /\ UNCHANGED <<meta, updates, client, handle, thread, answered>>
      /\ store' = [store EXCEPT !.queue = <<>>, !.failed = f, !.down = TRUE]
  BY Zenon DEF StoreFails
<1>2. store \in StoreType  BY TypeFacts
<1>3. f \in SUBSET (Handles \X Int)
  <2>1. store.queue \in Seq(Handles \X Int) /\ store.failed \in SUBSET (Handles \X Int)  BY <1>2, Zenon DEF StoreType
  <2>2. \A x \in Range(store.queue) : x \in Handles \X Int
    <3>1. SUFFICES ASSUME NEW i \in DOMAIN store.queue PROVE store.queue[i] \in Handles \X Int
      BY Zenon DEF Range
    <3>. QED  BY <2>1, ElementOfSeq, Zenon
  <2>. QED  BY <2>1, <2>2, Zenon
<1>. HIDE DEF f
<1>4. store' \in StoreType  BY <1>1, <1>2, <1>3, StoreFailed, Zenon
<1>5. store'.queue = <<>> /\ store'.failed = f /\ store'.acked = store.acked /\ store'.down = TRUE
  BY <1>1, <1>2, Zenon DEF StoreType
<1>6. StoreFailsDone  BY <1>1, <1>5, Zenon DEF StoreFailsDone, f
<1>. QED  BY <1>1, <1>4, <1>6, TypeFacts, TypesKept, Zenon

LEMMA UploadStep ==
  ASSUME ClientTypeOK, EndInv, NEW s \in StreamIds, Upload(s)
  PROVE  UploadDone(s) /\ ClientTypeOK'
<1>1. plan' = plan /\ CommitsAcked(s) /\ UNCHANGED <<store, client, handle, thread, answered>>  BY Zenon DEF Upload
<1>2. CommittedAll(s) /\ meta' \in [StreamIds -> MetaType] /\ updates' \subseteq UpdateType
  BY <1>1, CommitsAckedDoes, Zenon
<1>3. UploadDone(s)  BY <1>1, <1>2, Zenon DEF UploadDone
<1>. QED  BY <1>1, <1>2, <1>3, TypeFacts, TypesKept, Zenon

LEMMA FenceStep ==
  ASSUME ClientTypeOK, NEW s \in StreamIds, Fence(s)
  PROVE  FenceDone(s) /\ ClientTypeOK'
<1>1. /\ plan' = plan /\ meta[s].epoch = 1 /\ meta' = [meta EXCEPT ![s].epoch = 2]
      /\ UNCHANGED <<updates, store, client, handle, thread, answered>>
  BY Zenon DEF Fence
<1>2. meta \in [StreamIds -> MetaType]  BY TypeFacts, Zenon
<1>3. meta' \in [StreamIds -> MetaType]  BY <1>1, <1>2, Zenon DEF MetaType
<1>4. MetaBut(s, {"epoch"}) /\ meta'[s].epoch = 2  BY <1>1, <1>2, Zenon DEF MetaType, MetaBut
<1>5. meta'[s].epoch >= meta[s].epoch  BY <1>1, <1>4
<1>6. FenceDone(s)  BY <1>1, <1>4, <1>5, Zenon DEF FenceDone
<1>. QED  BY <1>1, <1>3, <1>6, TypeFacts, TypesKept, Zenon

LEMMA NoticeStep ==
  ASSUME ClientTypeOK, NEW n \in updates, NoticeConfirm(n) \/ NoticeStart(n)
  PROVE  NoticeDone(n) /\ ClientTypeOK'
<1>1. plan' = plan /\ UNCHANGED <<meta, store, client, thread, answered>>  BY Zenon DEF NoticeConfirm, NoticeStart
<1>2. updates \subseteq UpdateType /\ handle \in [Handles -> HandleType]  BY TypeFacts, Zenon
<1>3. n \in UpdateType /\ n.handle \in Handles /\ n.start \in Nat /\ n.end \in Nat  BY <1>2, Zenon DEF UpdateType
<1>4. CASE NoticeConfirm(n)
  <2>1. \E c \in Int :
          /\ HandleBut(n.handle, {"confirm", "next"}) /\ handle' \in [Handles -> HandleType]
          /\ handle'[n.handle].confirm = c /\ handle'[n.handle].next = c
          /\ c = IF handle[n.handle].confirm >= n.end THEN handle[n.handle].confirm ELSE n.end
    <3>. USE <1>2, <1>3, <1>4
    <3>1. handle[n.handle].confirm \in Int /\ n.end \in Int  BY DEF HandleType
    <3>2. PICK c \in Int : /\ c = Max({handle[n.handle].confirm, n.end})
                           /\ c = IF handle[n.handle].confirm >= n.end THEN handle[n.handle].confirm ELSE n.end
      BY <3>1, MaxOfTwo, Zenon
    <3>3. handle' = [handle EXCEPT ![n.handle].confirm = c, ![n.handle].next = c]
      BY <3>2, Zenon DEF NoticeConfirm
    <3>4. /\ HandleBut(n.handle, {"confirm", "next"}) /\ handle' \in [Handles -> HandleType]
          /\ handle'[n.handle].confirm = c /\ handle'[n.handle].next = c
      BY <3>3 DEF HandleBut, HandleType
    <3>. QED  BY <3>2, <3>4, Zenon
  <2>2. updates' = (updates \ {n}) \union {[n EXCEPT !.confirmed = TRUE]}  BY <1>4, Zenon DEF NoticeConfirm
  <2>. DEFINE m == [n EXCEPT !.confirmed = TRUE]
  <2>3. m \in UpdateType /\ m.handle = n.handle /\ m.end = n.end  BY <1>3, Zenon DEF UpdateType
  <2>. HIDE DEF m
  <2>4. updates' = (updates \ {n}) \union {m}  BY <2>2, Zenon DEF m
  <2>5. updates' \subseteq UpdateType /\ \A x \in updates' : x \in updates \/ (x.handle = n.handle /\ x.end = n.end)
    BY <1>2, <2>3, <2>4, Zenon
  <2>6. NoticeDone(n)  BY <1>1, <2>1, <2>5, Zenon DEF NoticeDone
  <2>. QED  BY <1>1, <2>1, <2>5, <2>6, TypeFacts, TypesKept, Zenon
<1>5. CASE NoticeStart(n)
  <2>1. HandleBut(n.handle, {"start"}) /\ handle' \in [Handles -> HandleType]
    <3>. USE <1>2, <1>3, <1>5
    <3>1. n.start \in Int /\ handle' = [handle EXCEPT ![n.handle].start = n.start]  BY DEF NoticeStart
    <3>. QED  BY <3>1, SetStart, Zenon
  <2>2. updates' = updates \ {n}  BY <1>5, Zenon DEF NoticeStart
  <2>3. NoticeDone(n)  BY <1>1, <2>1, <2>2, Zenon DEF NoticeDone
  <2>. QED  BY <1>1, <1>2, <2>1, <2>2, <2>3, TypeFacts, TypesKept, Zenon
<1>. QED  BY <1>4, <1>5, Zenon

\* Every step keeps the types and has its effect.
LEMMA StepDone ==
  ASSUME ClientTypeOK, CallInv, EndInv, FiniteOpened, [ClientNext]_clientVars
  PROVE  ClientDone /\ ClientTypeOK'
<1>1. ASSUME NEW t \in Threads, ThreadStep(t) PROVE ThreadDone(t) /\ ClientTypeOK'
  <2>1. CASE Open(t) \/ OpenManager(t) \/ OpenInsert(t) \/ AppendBegin(t) \/ AppendCheck(t) \/ AdmitAppend(t)
    BY <2>1, OpenStep, OpenManagerStep, OpenInsertStep, AppendBeginStep, AppendCheckStep, AdmitAppendStep, Zenon
    DEF ThreadDone
  <2>2. CASE CompleteAppend(t) \/ CancelAppend(t) \/ FetchBegin(t) \/ FetchConfirm(t) \/ FetchStart(t)
             \/ FetchRead(t)
    BY <2>2, CompleteAppendStep, CancelAppendStep, FetchBeginStep, FetchConfirmStep, FetchStartStep,
       FetchReadStep, Zenon
    DEF ThreadDone
  <2>3. CASE TrimBegin(t) \/ TrimStore(t) \/ TrimWait(t) \/ TrimStream(t) \/ CloseBegin(t) \/ CloseMark(t)
             \/ CloseAppends(t)
    BY <2>3, TrimBeginStep, TrimStoreStep, TrimWaitStep, TrimStreamStep, CloseBeginStep, CloseMarkStep,
       CloseAppendsStep, Zenon
    DEF ThreadDone
  <2>4. CASE CloseFetches(t) \/ CloseLock(t) \/ CloseUpload(t) \/ CloseStream(t) \/ DestroyMark(t)
             \/ DeleteStream(t)
    BY <2>4, CloseFetchesStep, CloseLockStep, CloseUploadStep, CloseStreamStep, DestroyMarkStep,
       DeleteStreamStep, Zenon
    DEF ThreadDone
  <2>5. CASE ShutdownBegin(t) \/ Collect(t) \/ Halt(t)
    BY <2>5, ShutdownBeginStep, CollectStep, HaltStep, Zenon DEF ThreadDone
  <2>. QED  BY <1>1, <2>1, <2>2, <2>3, <2>4, <2>5, Zenon DEF ThreadStep
<1>2. CASE \E t \in Threads : ThreadStep(t)  BY <1>1, <1>2, Zenon DEF ClientDone
<1>3. CASE Ack \/ StoreFails  BY <1>3, AckStep, StoreFailsStep, Zenon DEF ClientDone
<1>4. CASE \E s \in StreamIds : Upload(s) \/ Fence(s)  BY <1>4, UploadStep, FenceStep, Zenon DEF ClientDone
<1>5. CASE \E n \in updates : NoticeConfirm(n) \/ NoticeStart(n)  BY <1>5, NoticeStep, Zenon DEF ClientDone
<1>6. CASE UNCHANGED clientVars
  <2>1. ClientTypeOK'  BY <1>6, TypeFacts, TypesKept, Zenon DEF clientVars
  <2>. QED  BY <1>6, <2>1, Zenon DEF ClientDone
<1>. QED  BY <1>2, <1>3, <1>4, <1>5, <1>6, Zenon DEF ClientNext
=============================================================================

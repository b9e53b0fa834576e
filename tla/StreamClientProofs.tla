------------------------- MODULE StreamClientProofs -------------------------
(***************************************************************************)
(* Theorems about StreamClient.  The inductive invariant ClientInv is the   *)
(* conjunction of the layers: StreamClientSteps has what each step does,     *)
(* StreamClientCalls, StreamClientLayers and StreamClientGuards that each    *)
(* layer is kept; here are the counters of the calls under way, the initial  *)
(* state and the theorems.                                                   *)
(***************************************************************************)
EXTENDS StreamClientLayers, StreamClientGuards, StreamClientSteps, FiniteSetTheorems, TLAPS


-----------------------------------------------------------------------------
(* The counters of InflightTracker *)

\* The calls under way on handle h at the states C, of which the field f of h is
\* the number.
CallersOf(C, h) == {t \in Threads : thread[t].h = h /\ thread[t].pc \in C}
Counts(C, f) == \A h \in Handles : handle[h][f] = Cardinality(CallersOf(C, h))

LEMMA CountInvCounts == CountInv <=> Counts(AppendPcs, "appends") /\ Counts(FetchPcs, "fetches")
<1>1. \A h : AppendersOf(h) = CallersOf(AppendPcs, h) /\ FetchersOf(h) = CallersOf(FetchPcs, h)
  BY Zenon DEF AppendersOf, FetchersOf, CallersOf
<1>. QED  BY <1>1, Zenon DEF CountInv, Counts

\* A counter that is zero has nothing to count.
LEMMA CountIdles ==
  ASSUME CountInv
  PROVE  Idles
<1>1. \A h : AppendersOf(h) \in SUBSET Threads /\ FetchersOf(h) \in SUBSET Threads
  BY Zenon DEF AppendersOf, FetchersOf
<1>2. IsFiniteSet(Threads)  BY ClientAssumption, Zenon
<1>3. \A h : IsFiniteSet(AppendersOf(h)) /\ IsFiniteSet(FetchersOf(h))  BY <1>1, <1>2, FS_Subset, Zenon
<1>4. \A S : IsFiniteSet(S) /\ Cardinality(S) = 0 => S = {}  BY FS_EmptySet, Zenon
<1>. QED  BY <1>3, <1>4, Zenon DEF CountInv, Idles

\* Thread t stays in C, on its handle, or out of C.
Stays(t, C) ==
  \/ thread[t].pc \in C /\ thread'[t].pc \in C /\ thread'[t].h = thread[t].h
  \/ thread[t].pc \notin C /\ thread'[t].pc \notin C

LEMMA CountStays ==
  ASSUME Handles' = Handles, NEW t \in Threads, ThreadBut(t, AllFields), NEW C, NEW f, Counts(C, f), Stays(t, C),
         \A h \in Handles : handle'[h][f] = handle[h][f]
  PROVE  Counts(C, f)'
<1>1. \A u \in Threads : u # t => thread'[u].h = thread[u].h /\ thread'[u].pc = thread[u].pc
  BY Zenon DEF ThreadBut
<1>2. \A h : CallersOf(C, h)' = CallersOf(C, h)  BY <1>1, Zenon DEF CallersOf, Stays
<1>. QED  BY <1>2, Zenon DEF Counts

LEMMA CountEnters ==
  ASSUME Handles' = Handles, NEW t \in Threads, ThreadBut(t, AllFields), NEW C, NEW f, Counts(C, f),
         thread[t].pc \notin C, thread'[t].pc \in C, NEW g, g = thread'[t].h,
         \A h \in Handles : h # g => handle'[h][f] = handle[h][f],
         handle'[g][f] = handle[g][f] + 1
  PROVE  Counts(C, f)'
<1>1. \A u \in Threads : u # t => thread'[u].h = thread[u].h /\ thread'[u].pc = thread[u].pc
  BY Zenon DEF ThreadBut
<1>2. \A h : h # g => CallersOf(C, h)' = CallersOf(C, h)  BY <1>1, Zenon DEF CallersOf
<1>3. CallersOf(C, g)' = CallersOf(C, g) \union {t} /\ t \notin CallersOf(C, g)  BY <1>1, Zenon DEF CallersOf
<1>4. IsFiniteSet(CallersOf(C, g))
  <2>1. CallersOf(C, g) \in SUBSET Threads  BY Zenon DEF CallersOf
  <2>. QED  BY <2>1, ClientAssumption, FS_Subset, Zenon
<1>5. Cardinality(CallersOf(C, g) \union {t}) = Cardinality(CallersOf(C, g)) + 1  BY <1>3, <1>4, FS_AddElement, Zenon
<1>. QED  BY <1>2, <1>3, <1>5, Zenon DEF Counts

LEMMA CountLeaves ==
  ASSUME Handles' = Handles, NEW t \in Threads, ThreadBut(t, AllFields), NEW C, NEW f, Counts(C, f),
         thread[t].pc \in C, thread'[t].pc \notin C, NEW g, g = thread[t].h,
         \A h \in Handles : h # g => handle'[h][f] = handle[h][f],
         handle'[g][f] = handle[g][f] - 1
  PROVE  Counts(C, f)'
<1>1. \A u \in Threads : u # t => thread'[u].h = thread[u].h /\ thread'[u].pc = thread[u].pc
  BY Zenon DEF ThreadBut
<1>2. \A h : h # g => CallersOf(C, h)' = CallersOf(C, h)  BY <1>1, Zenon DEF CallersOf
<1>3. CallersOf(C, g)' = CallersOf(C, g) \ {t} /\ t \in CallersOf(C, g)  BY <1>1, Zenon DEF CallersOf
<1>4. IsFiniteSet(CallersOf(C, g))
  <2>1. CallersOf(C, g) \in SUBSET Threads  BY Zenon DEF CallersOf
  <2>. QED  BY <2>1, ClientAssumption, FS_Subset, Zenon
<1>5. Cardinality(CallersOf(C, g) \ {t}) = Cardinality(CallersOf(C, g)) - 1  BY <1>3, <1>4, FS_RemoveElement, Zenon
<1>. QED  BY <1>2, <1>3, <1>5, Zenon DEF Counts

\* Both counters at once.
LEMMA CountQuiet ==
  ASSUME Handles' = Handles, CountInv, NEW t \in Threads, ThreadBut(t, AllFields),
         Stays(t, AppendPcs), Stays(t, FetchPcs),
         \A h \in Handles : handle'[h].appends = handle[h].appends /\ handle'[h].fetches = handle[h].fetches
  PROVE  CountInv'
<1>1. Counts(AppendPcs, "appends") /\ Counts(FetchPcs, "fetches")  BY CountInvCounts, Zenon
<1>2. \A h \in Handles : handle'[h]["appends"] = handle[h]["appends"] /\ handle'[h]["fetches"] = handle[h]["fetches"]
  BY Zenon
<1>3. Counts(AppendPcs, "appends")' /\ Counts(FetchPcs, "fetches")'
  BY <1>1, <1>2, CountStays, Zenon DEF AppendPcs, FetchPcs
<1>4. (CountInv <=> Counts(AppendPcs, "appends") /\ Counts(FetchPcs, "fetches"))'  BY CountInvCounts, PTL
<1>. QED  BY <1>3, <1>4, Zenon


\* An append, or a fetch, begins or ends.
LEMMA CountBegins ==
  ASSUME Handles' = Handles, CountInv, NEW t \in Threads, NEW pc, Took(t, pc), thread[t].pc = "idle",
         NEW f, NEW g, g = Call(t).h, HandleBut(g, {f}), handle'[g][f] = handle[g][f] + 1,
         (f = "appends" /\ pc = "check") \/ (f = "fetches" /\ pc = "confirm")
  PROVE  CountInv'
<1>1. Counts(AppendPcs, "appends") /\ Counts(FetchPcs, "fetches")  BY CountInvCounts, Zenon
<1>2. ThreadBut(t, AllFields) /\ thread'[t].pc = pc /\ thread'[t].h = g
  BY Zenon DEF Took, Went, ThreadBut, AllFields
<1>3. \A h \in Handles : h # g => handle'[h]["appends"] = handle[h]["appends"]
                                  /\ handle'[h]["fetches"] = handle[h]["fetches"]
  BY Zenon DEF HandleBut
<1>4. (CountInv <=> Counts(AppendPcs, "appends") /\ Counts(FetchPcs, "fetches"))'  BY CountInvCounts, PTL
<1>5. CASE f = "appends" /\ pc = "check"
  <2>1. \A h \in Handles : handle'[h]["fetches"] = handle[h]["fetches"]  BY <1>5, Zenon DEF HandleBut
  <2>2. thread[t].pc \notin AppendPcs /\ thread'[t].pc \in AppendPcs /\ Stays(t, FetchPcs)
    BY <1>2, <1>5, Zenon DEF AppendPcs, FetchPcs, Stays
  <2>3. Counts(AppendPcs, "appends")'  BY <1>1, <1>2, <1>3, <1>5, <2>2, CountEnters, Zenon
  <2>4. Counts(FetchPcs, "fetches")'  BY <1>1, <1>2, <2>1, <2>2, CountStays, Zenon
  <2>. QED  BY <1>4, <2>3, <2>4, Zenon
<1>6. CASE f = "fetches" /\ pc = "confirm"
  <2>1. \A h \in Handles : handle'[h]["appends"] = handle[h]["appends"]  BY <1>6, Zenon DEF HandleBut
  <2>2. thread[t].pc \notin FetchPcs /\ thread'[t].pc \in FetchPcs /\ Stays(t, AppendPcs)
    BY <1>2, <1>6, Zenon DEF AppendPcs, FetchPcs, Stays
  <2>3. Counts(FetchPcs, "fetches")'  BY <1>1, <1>2, <1>3, <1>6, <2>2, CountEnters, Zenon
  <2>4. Counts(AppendPcs, "appends")'  BY <1>1, <1>2, <2>1, <2>2, CountStays, Zenon
  <2>. QED  BY <1>4, <2>3, <2>4, Zenon
<1>. QED  BY <1>5, <1>6, Zenon

LEMMA CountEnds ==
  ASSUME Handles' = Handles, CountInv, NEW t \in Threads, Returned(t), NEW f, NEW g, g = H(t),
         \A h \in Handles : /\ h # g \/ f # "appends" => handle'[h].appends = handle[h].appends
                            /\ h # g \/ f # "fetches" => handle'[h].fetches = handle[h].fetches,
         handle'[g][f] = handle[g][f] - 1,
         (f = "appends" /\ thread[t].pc \in AppendPcs) \/ (f = "fetches" /\ thread[t].pc \in FetchPcs)
  PROVE  CountInv'
<1>1. Counts(AppendPcs, "appends") /\ Counts(FetchPcs, "fetches")  BY CountInvCounts, Zenon
<1>2. ThreadBut(t, AllFields) /\ thread'[t].pc = "idle"  BY Zenon DEF Returned, AllFields
<1>3. (CountInv <=> Counts(AppendPcs, "appends") /\ Counts(FetchPcs, "fetches"))'  BY CountInvCounts, PTL
<1>4. "idle" \notin AppendPcs /\ "idle" \notin FetchPcs /\ \A pc \in AppendPcs : pc \notin FetchPcs
  BY Zenon DEF AppendPcs, FetchPcs
<1>5. CASE f = "appends" /\ thread[t].pc \in AppendPcs
  <2>1. \A h \in Handles : handle'[h]["fetches"] = handle[h]["fetches"]  BY <1>5, Zenon
  <2>2. \A h \in Handles : h # g => handle'[h]["appends"] = handle[h]["appends"]  BY Zenon
  <2>3. Stays(t, FetchPcs)  BY <1>2, <1>4, <1>5, Zenon DEF Stays
  <2>4. Counts(AppendPcs, "appends")'  BY <1>1, <1>2, <1>4, <1>5, <2>2, CountLeaves DEF H
  <2>5. Counts(FetchPcs, "fetches")'  BY <1>1, <1>2, <2>1, <2>3, CountStays, Zenon
  <2>. QED  BY <1>3, <2>4, <2>5, Zenon
<1>6. CASE f = "fetches" /\ thread[t].pc \in FetchPcs
  <2>1. \A h \in Handles : handle'[h]["appends"] = handle[h]["appends"]  BY <1>6, Zenon
  <2>2. \A h \in Handles : h # g => handle'[h]["fetches"] = handle[h]["fetches"]  BY Zenon
  <2>3. Stays(t, AppendPcs)  BY <1>2, <1>4, <1>6, Zenon DEF Stays
  <2>4. Counts(FetchPcs, "fetches")'  BY <1>1, <1>2, <1>4, <1>6, <2>2, CountLeaves DEF H
  <2>5. Counts(AppendPcs, "appends")'  BY <1>1, <1>2, <2>1, <2>3, CountStays, Zenon
  <2>. QED  BY <1>3, <2>4, <2>5, Zenon
<1>. QED  BY <1>5, <1>6, Zenon

\* The steps in which no append and no fetch begins or ends.
LEMMA CountOther ==
  ASSUME ClientTypeOK, Handles' = Handles, CountInv, NEW t \in Threads,
         \/ OpenDone(t) \/ OpenManagerDone(t) \/ AdmitAppendDone(t)
         \/ TrimBeginDone(t) \/ TrimStoreDone(t) \/ TrimWaitDone(t) \/ TrimStreamDone(t)
         \/ CloseBeginDone(t) \/ CloseMarkDone(t) \/ CloseAppendsDone(t) \/ CloseFetchesDone(t)
         \/ CloseLockDone(t) \/ CloseUploadDone(t) \/ CloseStreamDone(t)
         \/ DestroyMarkDone(t) \/ DeleteStreamDone(t)
         \/ ShutdownBeginDone(t) \/ CollectDone(t) \/ HaltDone(t)
  PROVE  CountInv'
<1>1. \A h \in Handles : handle'[h].appends = handle[h].appends /\ handle'[h].fetches = handle[h].fetches
  BY Zenon DEF OpenDone, OpenManagerDone, AdmitAppendDone, TrimBeginDone, TrimStoreDone, TrimWaitDone, TrimStreamDone,
         CloseBeginDone, CloseMarkDone, CloseAppendsDone, CloseFetchesDone, CloseLockDone, CloseUploadDone,
         CloseStreamDone, DestroyMarkDone, DeleteStreamDone, ShutdownBeginDone, CollectDone, HaltDone, ResultSet,
         HandleBut
<1>2. ASSUME AdmitAppendDone(t) PROVE ThreadBut(t, AllFields) /\ Stays(t, AppendPcs) /\ Stays(t, FetchPcs)
  BY <1>2, Zenon DEF AdmitAppendDone, Went, ThreadBut, AllFields, Stays, AppendPcs, FetchPcs
<1>3. ASSUME ThreadBut(t, AllFields), thread[t].pc \notin AppendPcs \union FetchPcs,
             thread'[t].pc \notin AppendPcs \union FetchPcs
      PROVE  ThreadBut(t, AllFields) /\ Stays(t, AppendPcs) /\ Stays(t, FetchPcs)
  BY <1>3, Zenon DEF Stays
<1>4. \A s : ClosesWent(t, s) => ThreadBut(t, AllFields) /\ thread'[t].pc \notin AppendPcs \union FetchPcs
  BY Zenon DEF ClosesWent, Went, Returned, ThreadBut, AllFields, AppendPcs, FetchPcs
<1>5. \A r : Closed(t, r) => ThreadBut(t, AllFields) /\ thread'[t].pc \notin AppendPcs \union FetchPcs
  BY <1>4, Zenon DEF Closed, Went, ThreadBut, AllFields, AppendPcs, FetchPcs
<1>6. ASSUME \/ OpenDone(t) \/ OpenManagerDone(t) \/ TrimBeginDone(t) \/ TrimStoreDone(t) \/ TrimWaitDone(t)
             \/ TrimStreamDone(t) \/ CloseBeginDone(t)
      PROVE  /\ ThreadBut(t, AllFields) /\ thread[t].pc \notin AppendPcs \union FetchPcs
             /\ thread'[t].pc \notin AppendPcs \union FetchPcs
  BY <1>6, Zenon DEF OpenDone, OpenManagerDone, TrimBeginDone, TrimStoreDone, TrimWaitDone, TrimStreamDone,
              CloseBeginDone, Started, Took, Went, Returned, ThreadBut, AllFields, AppendPcs, FetchPcs
<1>7. ASSUME \/ CloseMarkDone(t) \/ CloseAppendsDone(t) \/ CloseFetchesDone(t)
             \/ DestroyMarkDone(t) \/ DeleteStreamDone(t) \/ ShutdownBeginDone(t) \/ HaltDone(t)
      PROVE  /\ ThreadBut(t, AllFields) /\ thread[t].pc \notin AppendPcs \union FetchPcs
             /\ thread'[t].pc \notin AppendPcs \union FetchPcs
  BY <1>7, Zenon DEF CloseMarkDone, CloseAppendsDone, CloseFetchesDone, DestroyMarkDone, DeleteStreamDone,
              ShutdownBeginDone, HaltDone, Went, Returned, ThreadBut, AllFields, AppendPcs, FetchPcs
<1>8. ASSUME CloseLockDone(t) \/ CloseUploadDone(t)
      PROVE  /\ ThreadBut(t, AllFields) /\ thread[t].pc \notin AppendPcs \union FetchPcs
             /\ thread'[t].pc \notin AppendPcs \union FetchPcs
  BY <1>5, <1>8, Zenon DEF CloseLockDone, CloseUploadDone, ResultSet, Went, ThreadBut, AllFields, AppendPcs, FetchPcs
<1>9. ASSUME CloseStreamDone(t) \/ CollectDone(t)
      PROVE  /\ ThreadBut(t, AllFields) /\ thread[t].pc \notin AppendPcs \union FetchPcs
             /\ thread'[t].pc \notin AppendPcs \union FetchPcs
  <2>1. thread[t].pc \notin AppendPcs \union FetchPcs
    BY <1>9, Zenon DEF CloseStreamDone, CollectDone, AppendPcs, FetchPcs
  <2>. QED  BY <1>4, <1>5, <1>9, <2>1, Zenon DEF CloseStreamDone, CollectDone, ResultSet
<1>10. ThreadBut(t, AllFields) /\ Stays(t, AppendPcs) /\ Stays(t, FetchPcs)
  BY <1>2, <1>3, <1>6, <1>7, <1>8, <1>9, Zenon
<1>. QED  BY <1>1, <1>10, CountQuiet, Zenon


LEMMA CountKept ==
  ASSUME ClientTypeOK, CallInv, CountInv, plan' = plan, ClientDone
  PROVE  CountInv'
<1>1. Handles' = Handles  BY Zenon DEF Handles
<1>2. ASSUME NEW t \in Threads, OpenInsertDone(t) PROVE CountInv'
  <2>1. PICK g : g = H(t)  BY Zenon
  <2>2. thread[t].pc = "insert" /\ g \in Handles /\ ~handle[g].exists
    BY <1>2, <2>1, ThreadFacts, CallOf, Zenon DEF OpenInsertDone, CallFits, OpenPcs
  <2>3. AppendersOf(g) = {} /\ FetchersOf(g) = {}
    <3>1. \A u \in Threads : CallFits(u)  BY ThreadFacts, Zenon
    <3>2. \A u \in Threads : thread[u].h = g => thread[u].pc \notin AppendPcs /\ thread[u].pc \notin FetchPcs
      BY <2>2, <3>1, Zenon DEF CallFits, Owned, H
    <3>. QED  BY <3>2, Zenon DEF AppendersOf, FetchersOf
  <2>4. handle[g].appends = 0 /\ handle[g].fetches = 0  BY <2>2, <2>3, FS_EmptySet, Zenon DEF CountInv
  <2>5. handle'[g].appends = 0 /\ handle'[g].fetches = 0
    <3>1. CASE SnapshotRead(g)  BY <1>2, <2>1, <3>1 DEF OpenInsertDone, NewHandle
    <3>2. CASE ~SnapshotRead(g)  BY <1>2, <2>1, <3>2 DEF OpenInsertDone, NewHandle
    <3>. QED  BY <3>1, <3>2, Zenon
  <2>6. \A h \in Handles : handle'[h].appends = handle[h].appends /\ handle'[h].fetches = handle[h].fetches
    <3>1. \A h \in Handles : h # g => handle'[h].appends = handle[h].appends /\ handle'[h].fetches = handle[h].fetches
      BY <1>2, <2>1, Zenon DEF OpenInsertDone, HandleBut
    <3>. QED  BY <2>4, <2>5, <3>1, Zenon
  <2>7. ThreadBut(t, AllFields) /\ Stays(t, AppendPcs) /\ Stays(t, FetchPcs)
    BY <1>2, <2>2, Zenon DEF OpenInsertDone, Returned, AllFields, Stays, AppendPcs, FetchPcs
  <2>. QED  BY <1>1, <2>6, <2>7, CountQuiet, Zenon
<1>3. ASSUME NEW t \in Threads, Returned(t), handle' = handle, thread[t].pc = "idle" PROVE CountInv'
  <2>1. ThreadBut(t, AllFields) /\ Stays(t, AppendPcs) /\ Stays(t, FetchPcs)
    BY <1>3, Zenon DEF Returned, AllFields, Stays, AppendPcs, FetchPcs
  <2>. QED  BY <1>1, <1>3, <2>1, CountQuiet, Zenon
<1>4. ASSUME NEW t \in Threads, NEW pc, NEW F \in SUBSET {"lo", "hi"}, Went(t, pc, F), handle' = handle,
             \/ pc \in AppendPcs /\ thread[t].pc \in AppendPcs
             \/ pc \in FetchPcs /\ thread[t].pc \in FetchPcs
      PROVE  CountInv'
  <2>1. ThreadBut(t, AllFields) /\ Stays(t, AppendPcs) /\ Stays(t, FetchPcs)
    BY <1>4, Zenon DEF Went, ThreadBut, AllFields, Stays, AppendPcs, FetchPcs
  <2>. QED  BY <1>1, <1>4, <2>1, CountQuiet, Zenon
<1>5. ASSUME NEW t \in Threads, Dropped(t), thread[t].pc \in AppendPcs PROVE CountInv'
  <2>1. PICK g : g = H(t)  OBVIOUS
  <2>2. /\ \A h \in Handles : /\ h # g => handle'[h].appends = handle[h].appends
                              /\ handle'[h].fetches = handle[h].fetches
        /\ handle'[g].appends = handle[g].appends - 1 /\ Returned(t)
    BY <1>5, <2>1, Zenon DEF Dropped, HandleBut
  <2>. QED  BY <1>1, <1>5, <2>1, <2>2, CountEnds, Zenon
<1>6. ASSUME NEW t \in Threads, Fetched(t), thread[t].pc \in FetchPcs PROVE CountInv'
  <2>1. PICK g : g = H(t)  OBVIOUS
  <2>2. /\ \A h \in Handles : /\ h # g => handle'[h].fetches = handle[h].fetches
                              /\ handle'[h].appends = handle[h].appends
        /\ handle'[g].fetches = handle[g].fetches - 1 /\ Returned(t)
    BY <1>6, <2>1, Zenon DEF Fetched, HandleBut
  <2>. QED  BY <1>1, <1>6, <2>1, <2>2, CountEnds, Zenon
<1>7. ASSUME NEW t \in Threads, AppendBeginDone(t) PROVE CountInv'
  <2>1. PICK g : g = Call(t).h  BY Zenon
  <2>2. thread[t].pc = "idle"  BY <1>7, Zenon DEF AppendBeginDone, Started
  <2>3. CASE Returned(t) /\ handle' = handle  BY <1>3, <2>2, <2>3, Zenon
  <2>4. CASE Took(t, "check") /\ HandleBut(Call(t).h, {"appends"})
             /\ handle'[Call(t).h].appends = handle[Call(t).h].appends + 1
    BY <1>1, <2>1, <2>2, <2>4, CountBegins, Zenon
  <2>. QED  BY <1>7, <2>3, <2>4, Zenon DEF AppendBeginDone
<1>8. ASSUME NEW t \in Threads, FetchBeginDone(t) PROVE CountInv'
  <2>1. PICK g : g = Call(t).h  OBVIOUS
  <2>2. /\ thread[t].pc = "idle" /\ Took(t, "confirm") /\ HandleBut(g, {"fetches"})
        /\ handle'[g].fetches = handle[g].fetches + 1
    BY <1>8, <2>1, Zenon DEF FetchBeginDone, Started
  <2>. QED  BY <1>1, <2>1, <2>2, CountBegins, Zenon
<1>9. ASSUME NEW t \in Threads, AppendCheckDone(t) \/ CancelAppendDone(t) PROVE CountInv'
  <2>1. thread[t].pc \in AppendPcs /\ "reserve" \in AppendPcs /\ {} \in SUBSET {"lo", "hi"}
    BY <1>9, Zenon DEF AppendCheckDone, CancelAppendDone, AppendPcs
  <2>. QED  BY <1>4, <1>5, <1>9, <2>1, Zenon DEF AppendCheckDone, CancelAppendDone
<1>10. ASSUME NEW t \in Threads, CompleteAppendDone(t) PROVE CountInv'
  <2>1. PICK g : g = H(t)  OBVIOUS
  <2>2. /\ \A h \in Handles : /\ h # g => handle'[h].appends = handle[h].appends
                              /\ handle'[h].fetches = handle[h].fetches
        /\ handle'[g].appends = handle[g].appends - 1 /\ Returned(t) /\ thread[t].pc \in AppendPcs
    BY <1>10, <2>1, Zenon DEF CompleteAppendDone, HandleBut, AppendPcs
  <2>. QED  BY <1>1, <2>1, <2>2, CountEnds, Zenon
<1>11. ASSUME NEW t \in Threads, FetchConfirmDone(t) \/ FetchStartDone(t) \/ FetchReadDone(t) PROVE CountInv'
  <2>1. /\ thread[t].pc \in FetchPcs /\ "start" \in FetchPcs /\ "read" \in FetchPcs
        /\ {} \in SUBSET {"lo", "hi"} /\ {"lo", "hi"} \in SUBSET {"lo", "hi"}
    BY <1>11, Zenon DEF FetchConfirmDone, FetchStartDone, FetchReadDone, FetchPcs
  <2>. QED  BY <1>4, <1>6, <1>11, <2>1, Zenon DEF FetchConfirmDone, FetchStartDone, FetchReadDone
<1>12. ASSUME NEW t \in Threads, ThreadDone(t) PROVE CountInv'
  BY <1>1, <1>2, <1>7, <1>8, <1>9, <1>10, <1>11, <1>12, CountOther, Zenon DEF ThreadDone
<1>13. ASSUME thread' = thread,
              \A h \in Handles : handle'[h].appends = handle[h].appends /\ handle'[h].fetches = handle[h].fetches
       PROVE  CountInv'
  <2>1. \A h : AppendersOf(h)' = AppendersOf(h) /\ FetchersOf(h)' = FetchersOf(h)
    BY <1>13, Zenon DEF AppendersOf, FetchersOf
  <2>. QED  BY <1>1, <1>13, <2>1, Zenon DEF CountInv
<1>14. ASSUME AckDone \/ StoreFailsDone \/ UNCHANGED clientVars PROVE CountInv'
  BY <1>13, <1>14, Zenon DEF AckDone, StoreFailsDone, clientVars
<1>15. ASSUME NEW s \in StreamIds, UploadDone(s) \/ FenceDone(s) PROVE CountInv'
  BY <1>13, <1>15, Zenon DEF UploadDone, FenceDone
<1>16. ASSUME NEW n \in updates, NoticeDone(n) PROVE CountInv'
  <2>1. \A h \in Handles : handle'[h].appends = handle[h].appends /\ handle'[h].fetches = handle[h].fetches
    BY <1>16, Zenon DEF NoticeDone, HandleBut
  <2>. QED  BY <1>13, <1>16, <2>1, Zenon DEF NoticeDone
<1>. QED  BY <1>12, <1>14, <1>15, <1>16, Zenon DEF ClientDone

\* There are finitely many streams in the map.
LEMMA OpenedFinite ==
  ASSUME ClientTypeOK
  PROVE  FiniteOpened
<1>1. PICK f : f = client.opened  BY Zenon
<1>2. PICK T : T = {f[s] : s \in StreamIds}  BY Zenon
<1>3. f \in [StreamIds -> Handles \union {NoHandle}]  BY <1>1, Zenon DEF ClientTypeOK, ClientType
<1>4. f \in [StreamIds -> T] /\ \A x \in T : \E s \in StreamIds : f[s] = x  BY <1>2, <1>3, Zenon
<1>5. f \in Surjection(StreamIds, T)  BY <1>4, Zenon DEF Surjection
<1>6. IsFiniteSet(T)  BY <1>5, ClientAssumption, FS_Surjection, Zenon
<1>7. IsFiniteSet(T \ {NoHandle})  BY <1>6, FS_RemoveElement, Zenon
<1>8. Cardinality(T \ {NoHandle}) \in Nat  BY <1>7, FS_CardinalityType, Zenon
<1>. QED  BY <1>1, <1>2, <1>8, Zenon DEF FiniteOpened


-----------------------------------------------------------------------------
(* The theorems *)

\* The inductive invariant.
ClientInv ==
  /\ ClientTypeOK /\ CallInv /\ EndInv /\ QueueInv /\ ConfirmInv
  /\ CountInv /\ FetchInv /\ CloseInv /\ ShutdownInv

\* The client starts idle, with no handle and nothing written.
LEMMA ClientInitInv ==
  ASSUME ClientInit
  PROVE  ClientInv
<1>1. /\ plan \in ClientPlans /\ updates = {} /\ answered = {}
      /\ \A s \in StreamIds : meta[s] = [state |-> "closed", epoch |-> 0, start |-> 0, end |-> 0]
      /\ store = [queue |-> <<>>, acked |-> {}, failed |-> {}, down |-> FALSE]
      /\ client = [shutdown |-> FALSE, opened |-> [s \in StreamIds |-> NoHandle],
                   forced |-> {}, late |-> {}, halted |-> FALSE]
      /\ \A t \in Threads : thread[t] = Idle(1)
  BY Zenon DEF ClientInit
<1>2. \A h \in Handles : /\ ~handle[h].exists /\ handle[h].start = 0 /\ handle[h].next = 0
                         /\ handle[h].confirm = 0 /\ handle[h].status = {} /\ handle[h].appends = 0
                         /\ handle[h].fetches = 0 /\ handle[h].result = "none" /\ ~handle[h].listens
  BY Zenon DEF ClientInit, NewHandle
<1>3. \A t \in Threads : /\ thread[t].k = 1 /\ thread[t].pc = "idle" /\ thread[t].h = NoHandle
                         /\ thread[t].todo = <<>>
  BY <1>1 DEF Idle
<1>4. Range(<<>>) = {}  BY DEF Range
<1>5. ClientTypeOK
  <2>1. meta \in [StreamIds -> MetaType]  BY Zenon DEF ClientInit, MetaType
  <2>2. store \in StoreType  BY <1>1 DEF StoreType
  <2>3. client \in ClientType  BY <1>1, Zenon DEF ClientType
  <2>4. handle \in [Handles -> HandleType]
    <3>1. NewHandle(0, 0, FALSE) \in HandleType
      <4>1. {} \in SUBSET {"closed", "fenced", "destroyed"}  BY Zenon
      <4>. QED  BY <4>1 DEF NewHandle, HandleType
    <3>2. \A r \in HandleType : [r EXCEPT !.exists = FALSE] \in HandleType  BY Zenon DEF HandleType
    <3>3. [NewHandle(0, 0, FALSE) EXCEPT !.exists = FALSE] \in HandleType  BY <3>1, <3>2, Zenon
    <3>. QED  BY <3>3, Zenon DEF ClientInit
  <2>5. thread \in [Threads -> ThreadType]
    <3>1. Idle(1) \in ThreadType  BY DEF Idle, ThreadType, Pcs
    <3>. QED  BY <3>1, Zenon DEF ClientInit
  <2>. QED  BY <1>1, <2>1, <2>2, <2>3, <2>4, <2>5, Zenon DEF ClientTypeOK
<1>6. CallInv
  <2>1. ASSUME NEW t \in Threads PROVE CallFits(t)
    <3>1. /\ thread[t].k >= 1 /\ Range(thread[t].todo) = {} /\ thread[t].pc = "idle"
          /\ "idle" \notin OpenPcs \union AppendPcs \union FetchPcs \union TrimPcs \union ClosePcs
      BY <1>3, <1>4 DEF OpenPcs, AppendPcs, FetchPcs, TrimPcs, MarkedPcs, ClosePcs
    <3>. QED  BY <3>1, Zenon DEF CallFits, ClosePcs, OpenPcs
  <2>2. OpenedBefore  BY <1>1, <1>2, ProgramOf, Zenon DEF OpenedBefore
  <2>3. MapInv  BY <1>1, Zenon DEF MapInv
  <2>4. ListenInv  BY <1>1, <1>2, Zenon DEF ListenInv
  <2>. QED  BY <2>1, <2>2, <2>3, <2>4, Zenon DEF CallInv
<1>7. EndInv
  <2>1. \A s \in StreamIds : EndsOf(s) = {0}  BY <1>1 DEF EndsOf
  <2>2. 0 >= 0  OBVIOUS
  <2>. QED  BY <2>1, <2>2, Zenon DEF EndInv
<1>8. Pending = {} /\ Admitted = {}  BY <1>1, <1>4, Zenon DEF Pending, Admitted
<1>9. QueueInv  BY <1>1, <1>8 DEF QueueInv
<1>10. ConfirmInv
  <2>1. \A h \in Handles : handle[h].confirm <= handle[h].next  BY <1>2
  <2>2. \A h \in Handles : handle[h].confirm <= meta[StreamOf(h)].end  BY <1>1, <1>2, <1>5, StreamFacts
  <2>. QED  BY <1>1, <1>8, <2>1, <2>2, Zenon DEF ConfirmInv
<1>11. CountInv
  <2>1. \A h : AppendersOf(h) = {} /\ FetchersOf(h) = {}
    BY <1>3, Zenon DEF AppendersOf, FetchersOf, AppendPcs, FetchPcs
  <2>. QED  BY <1>2, <2>1, FS_EmptySet, Zenon DEF CountInv
<1>12. FetchInv  BY <1>2, <1>3, Zenon DEF FetchInv, Owned, FetchesAreNotTrimmed
<1>13. CloseInv
  <2>1. \A t \in Threads : thread[t].pc \notin MarkedPcs  BY <1>3, Zenon DEF MarkedPcs
  <2>. QED  BY <1>1, <1>2, <2>1, Zenon DEF CloseInv, ClosedKeepsAnswered
<1>14. ShutdownInv
  <2>1. \A t \in Threads : ~HasCollected(t) /\ thread[t].pc # "collect"
    <3>1. \A k \in 1..(1 - 1) : FALSE  OBVIOUS
    <3>. QED  BY <1>3, <3>1, Zenon DEF HasCollected, ClosePcs, MarkedPcs
  <2>. QED  BY <1>1, <1>2, <2>1, Zenon DEF ShutdownInv, Owned
<1>. QED  BY <1>5, <1>6, <1>7, <1>9, <1>10, <1>11, <1>12, <1>13, <1>14, Zenon DEF ClientInv

\* Every step of a thread, of the storage engine and of the metadata plane keeps it.
LEMMA ClientStepInv ==
  ASSUME ClientInv, [ClientNext]_clientVars
  PROVE  ClientInv'
<1>1. FiniteOpened /\ Idles  BY OpenedFinite, CountIdles, Zenon DEF ClientInv
<1>2. plan' = plan  BY PlanKept, Zenon
<1>3. ClientDone /\ ClientTypeOK'  BY <1>1, StepDone, Zenon DEF ClientInv
<1>4. CallInv'  BY <1>2, <1>3, CallKept, Zenon DEF ClientInv
<1>5. EndInv'  BY <1>2, <1>3, EndKept, Zenon DEF ClientInv
<1>6. QueueInv'  BY <1>2, <1>3, QueueKept, Zenon DEF ClientInv
<1>7. ConfirmInv'  BY <1>2, <1>3, ConfirmKept, Zenon DEF ClientInv
<1>8. CountInv'  BY <1>2, <1>3, CountKept, Zenon DEF ClientInv
<1>9. FetchInv'  BY <1>1, <1>2, <1>3, <1>4, FetchKept, Zenon DEF ClientInv
<1>10. CloseInv'  BY <1>1, <1>2, <1>3, CloseKept, Zenon DEF ClientInv
<1>11. ShutdownInv'  BY <1>2, <1>3, ShutdownKept, Zenon DEF ClientInv
<1>. QED  BY <1>3, <1>4, <1>5, <1>6, <1>7, <1>8, <1>9, <1>10, <1>11, Zenon DEF ClientInv

LEMMA ClientInvariant == ClientSpec => []ClientInv
<1>1. ClientInit => ClientInv  BY ClientInitInv, Zenon
<1>2. ClientInv /\ [ClientNext]_clientVars => ClientInv'  BY ClientStepInv, Zenon
<1>. QED  BY <1>1, <1>2, PTL DEF ClientSpec

\* The state of the streams, the handles and the calls under way is always well
\* typed, for every set of plans: no handle is used before it is opened, and no
\* collection of the map waits for an infinite one.
THEOREM ClientIsTyped == ClientSpec => []ClientTypeOK
<1>1. ClientInv => ClientTypeOK  BY Zenon DEF ClientInv
<1>. QED  BY <1>1, ClientInvariant, PTL

\* complete_append raises the confirm offset to acknowledged records only, even
\* when the calls end out of order or the engine fails between them; and what
\* on_new_stream_metadata tells a snapshot read is committed.
THEOREM ConfirmsAreDurable == ClientSpec => []ConfirmIsDurable
<1>1. ClientInv => ConfirmIsDurable
  <2>1. SUFFICES ASSUME ClientInv PROVE ConfirmIsDurable  BY Zenon
  <2>2. ConfirmInv  BY <2>1, Zenon DEF ClientInv
  <2>3. Range(store.queue) \union store.failed = Pending  BY Zenon DEF Pending
  <2>. QED  BY <2>2, <2>3, Zenon DEF ConfirmInv, ConfirmIsDurable
<1>. QED  BY <1>1, ClientInvariant, PTL

\* trim waits for the fetches that saw the old start offset, so no fetch that is
\* reading is below the start offset of the metadata plane, unless the stream has
\* another owner.
THEOREM FetchesAreSafeFromTrims == ClientSpec => []FetchesAreNotTrimmed
<1>1. ClientInv => FetchesAreNotTrimmed  BY Zenon DEF ClientInv, FetchInv
<1>. QED  BY <1>1, ClientInvariant, PTL

\* A close that reports success has committed every append that was answered,
\* whatever appends, cancelled calls and other closes it raced with.
THEOREM ClosesKeepAnswered == ClientSpec => []ClosedKeepsAnswered
<1>1. ClientInv => ClosedKeepsAnswered  BY Zenon DEF ClientInv, CloseInv
<1>. QED  BY <1>1, ClientInvariant, PTL

\* Once shutdown has returned, every stream that was open at the time is closed
\* or is being closed by another shutdown; what escapes is an open that was under
\* way, and a stream that a second open took out of the map.
THEOREM ShutdownsCloseAll == ClientSpec => []ShutdownClosesAll
<1>1. ClientInv => ShutdownClosesAll
  <2>1. SUFFICES ASSUME ClientInv,
                        NEW t \in Threads, NEW k \in 1..(thread[t].k - 1),
                        plan.programs[t][k].kind \in ShutdownKinds,
                        NEW h \in Handles, handle[h].exists, ~SnapshotRead(h)
                 PROVE  Covered(h)
    BY Zenon DEF ShutdownClosesAll, Covered
  <2>2. HasCollected(t) /\ Owned(h)  BY <2>1, Zenon DEF HasCollected, Owned
  <2>. QED  BY <2>1, <2>2, Zenon DEF ClientInv, ShutdownInv
<1>. QED  BY <1>1, ClientInvariant, PTL
=============================================================================

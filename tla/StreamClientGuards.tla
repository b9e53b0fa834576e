------------------------- MODULE StreamClientGuards -------------------------
(***************************************************************************)
(* The layers of the inductive invariant of StreamClient that guard reads    *)
(* and closes: no step has a fetch read what was trimmed, or closes a stream *)
(* without what it answered.                                                *)
(***************************************************************************)
EXTENDS StreamClientCalls

\* The counters of InflightTracker count the calls under way.
AppendersOf(h) == {t \in Threads : thread[t].h = h /\ thread[t].pc \in AppendPcs}
FetchersOf(h) == {t \in Threads : thread[t].h = h /\ thread[t].pc \in FetchPcs}
CountInv ==
  \A h \in Handles : /\ handle[h].appends = Cardinality(AppendersOf(h))
                     /\ handle[h].fetches = Cardinality(FetchersOf(h))

\* No other handle of the stream was opened in the epoch of h, and none by another node.
Sole(h) == Holds(h) /\ \A g \in Others(h) : EpochOf(g) # EpochOf(h)
Destroyed(h) == "destroyed" \in handle[h].status

\* The start offset of the metadata plane is at most that of the handle, to which
\* a trim under way has raised it, until a destroy moves it to the confirm offset;
\* then no fetch that is under way finds a range in the stream any more.
FetchInv ==
  /\ \A h \in Handles : Owned(h) => meta[StreamOf(h)].epoch >= EpochOf(h)
  /\ \A t \in Threads :
       /\ (thread[t].pc = "insert" /\ ~SnapshotRead(H(t))) =>
            /\ meta[StreamOf(H(t))].epoch >= EpochOf(H(t))
            /\ Sole(H(t)) => meta[StreamOf(H(t))].start <= thread[t].lo
       /\ (thread[t].pc \in {"trim wait", "trim stream"} /\ ~Destroyed(H(t)))
            => Call(t).to <= handle[H(t)].start
       /\ (thread[t].pc = "start" /\ ~SnapshotRead(H(t))) =>
            /\ thread[t].hi <= handle[H(t)].confirm
            /\ Destroyed(H(t)) => thread[t].hi <= handle[H(t)].start
       /\ (thread[t].pc = "read" /\ ~SnapshotRead(H(t))) =>
            \A u \in Threads : (thread[u].pc = "trim stream" /\ H(u) = H(t)) => Call(t).from >= Call(u).to
  /\ \A h \in Handles : (Owned(h) /\ Sole(h) /\ ~Destroyed(h)) => meta[StreamOf(h)].start <= handle[h].start
  /\ FetchesAreNotTrimmed

\* No append of h has an offset and no answer yet, and none will get an offset.
Sealed(h) ==
  /\ "closed" \in handle[h].status
  /\ \A t \in Threads : H(t) = h => thread[t].pc \notin {"reserve", "durable"}

\* A close that does not force waits until the handle is sealed; then it commits
\* what was answered.
CloseInv ==
  /\ answered \subseteq store.acked
  /\ \A t \in Threads : thread[t].pc \in MarkedPcs =>
       /\ "closed" \in handle[H(t)].status
       /\ Forces(t) => H(t) \in client.forced
       /\ (thread[t].pc # "close appends" /\ H(t) \notin client.forced) => Sealed(H(t))
       /\ (thread[t].pc = "close stream" /\ H(t) \notin client.forced /\ Exists(StreamOf(H(t)))) =>
            \A r \in answered : r[1] = H(t) => r[2] < meta[StreamOf(H(t))].end
  /\ \A h \in Handles : (handle[h].result = "ok" /\ h \notin client.forced) => Sealed(h)
  /\ ClosedKeepsAnswered

-----------------------------------------------------------------------------
(* What the steps do to the start offsets *)

\* The states of a call that FetchInv speaks of.
Watched == {"insert", "trim wait", "trim stream", "start", "read"}

FetchMove(t) ==
  \/ \A f \in AllFields : thread'[t][f] = thread[t][f]
  \/ thread'[t].pc \notin Watched
  \/ thread'[t].pc = "insert" /\ SnapshotRead(thread'[t].h)
  \/ /\ thread'[t].k = thread[t].k /\ thread'[t].h = thread[t].h
     /\ \/ /\ thread[t].pc = "open" /\ thread'[t].pc = "insert"
           /\ thread'[t].lo = meta[StreamOf(H(t))].start /\ meta'[StreamOf(H(t))].epoch = EpochOf(H(t))
           /\ meta'[StreamOf(H(t))].start = meta[StreamOf(H(t))].start
        \/ /\ thread[t].pc = "confirm" /\ thread'[t].pc = "start" /\ thread'[t].hi = handle[H(t)].confirm
           /\ handle[H(t)].status = {} /\ handle' = handle
        \/ /\ thread[t].pc = "start" /\ thread'[t].pc = "read" /\ handle' = handle /\ meta' = meta
           /\ Call(t).from >= handle[H(t)].start /\ Call(t).to <= thread[t].hi /\ Call(t).from < Call(t).to
        \/ /\ thread[t].pc = "trim lock" /\ thread'[t].pc = "trim wait" /\ handle'[H(t)].start = Call(t).to
        \/ /\ thread[t].pc = "trim wait" /\ thread'[t].pc = "trim stream" /\ handle' = handle
           /\ handle[H(t)].fetches = 0

HandleGrows(h) ==
  \/ /\ handle'[h].exists = handle[h].exists /\ handle'[h].confirm >= handle[h].confirm
     /\ handle[h].status \subseteq handle'[h].status
     /\ \/ /\ handle'[h].start >= handle[h].start
           /\ "destroyed" \in handle'[h].status => "destroyed" \in handle[h].status
        \/ handle'[h].start = handle'[h].confirm /\ "destroyed" \in handle'[h].status
  \/ SnapshotRead(h) /\ (handle[h].exists => handle'[h].exists)
  \/ \E t \in Threads : /\ thread[t].pc = "insert" /\ H(t) = h /\ handle'[h].exists
                        /\ handle'[h].start = thread[t].lo /\ meta' = meta

MetaGrows(s) ==
  /\ meta'[s].epoch >= meta[s].epoch /\ (meta'[s].state # "deleted" => meta[s].state # "deleted")
  /\ \/ meta'[s].start = meta[s].start
     \/ \E t \in Threads :
          /\ thread[t].pc = "trim stream" /\ StreamOf(H(t)) = s /\ Holds(H(t))
          /\ meta'[s].start = IF meta[s].start >= Call(t).to THEN meta[s].start ELSE Call(t).to

FetchEffect ==
  /\ \A t \in Threads : FetchMove(t)
  /\ \A h \in Handles : HandleGrows(h)
  /\ \A s \in StreamIds : MetaGrows(s)

\* Every step.
LEMMA FetchEffects ==
  ClientTypeOK /\ ClientTypeOK' /\ CallInv /\ plan' = plan /\ ClientDone => FetchEffect
<1>SameHandles. ASSUME ClientTypeOK,
             \A h \in Handles : /\ handle'[h].exists = handle[h].exists /\ handle'[h].confirm = handle[h].confirm
                                /\ handle'[h].start = handle[h].start /\ handle'[h].status = handle[h].status
      PROVE  \A h \in Handles : HandleGrows(h)
  <2> USE <1>SameHandles
  <2>1. \A h \in Handles : handle[h].confirm \in Int /\ handle[h].start \in Int  BY StreamFacts, Zenon
  <2>. QED  BY <2>1 DEF HandleGrows
<1>SameMeta. ASSUME ClientTypeOK, meta' = meta
      PROVE  \A s \in StreamIds : MetaGrows(s)
  <2> USE <1>SameMeta
  <2>1. \A s \in StreamIds : meta[s].epoch \in Nat  BY StreamFacts, Zenon
  <2>. QED  BY <2>1 DEF MetaGrows
<1>OneMoves. ASSUME NEW t \in Threads, ThreadBut(t, AllFields), FetchMove(t)
      PROVE  \A u \in Threads : FetchMove(u)
  <2> USE <1>OneMoves
  <2>1. \A u \in Threads : u # t => \A f \in AllFields : thread'[u][f] = thread[u][f]
    BY Zenon DEF ThreadBut, AllFields
  <2>2. \A u \in Threads : u # t => FetchMove(u)  BY <2>1, Zenon DEF FetchMove
  <2>. QED  BY <2>2, Zenon
<1>MovesAway. ASSUME NEW t \in Threads, ThreadBut(t, AllFields), thread'[t].pc \notin Watched
      PROVE  \A u \in Threads : FetchMove(u)
  <2> USE <1>MovesAway
  <2>1. FetchMove(t)  BY Zenon DEF FetchMove
  <2>. QED  BY <2>1, <1>OneMoves, Zenon
<1>ReturnMoves. ASSUME NEW t \in Threads, Returned(t)
      PROVE  \A u \in Threads : FetchMove(u)
  <2> USE <1>ReturnMoves
  <2>1. ThreadBut(t, AllFields) /\ thread'[t].pc \notin Watched  BY Zenon DEF Returned, AllFields, Watched
  <2>. QED  BY <2>1, <1>MovesAway, Zenon

\* The steps of a thread that change no start offset.
<1>FetchQuiet. ASSUME ClientTypeOK, NEW t \in Threads,
             \/ AppendBeginDone(t) \/ AppendCheckDone(t) \/ AdmitAppendDone(t) \/ CancelAppendDone(t)
             \/ FetchBeginDone(t) \/ FetchReadDone(t) \/ TrimBeginDone(t) \/ CloseBeginDone(t)
             \/ CloseAppendsDone(t) \/ CloseFetchesDone(t) \/ CloseLockDone(t)
             \/ ShutdownBeginDone(t) \/ CollectDone(t) \/ HaltDone(t)
      PROVE  FetchEffect
  <2> USE <1>FetchQuiet
  <2>1. ThreadBut(t, AllFields) /\ thread'[t].pc \notin Watched
    <3>1. CASE AppendBeginDone(t) \/ AppendCheckDone(t) \/ AdmitAppendDone(t) \/ CancelAppendDone(t)
      BY <3>1, Zenon DEF AppendBeginDone, AppendCheckDone, AdmitAppendDone, CancelAppendDone, Dropped, Took, Went,
                  Returned, ThreadBut, AllFields, Watched
    <3>2. CASE FetchBeginDone(t) \/ FetchReadDone(t) \/ TrimBeginDone(t) \/ CloseBeginDone(t)
      BY <3>2, Zenon DEF FetchBeginDone, FetchReadDone, TrimBeginDone, CloseBeginDone, Fetched, Took, Went,
                  Returned, ThreadBut, AllFields, Watched
    <3>3. CASE CloseAppendsDone(t) \/ CloseFetchesDone(t) \/ ShutdownBeginDone(t) \/ HaltDone(t)
      BY <3>3, Zenon DEF CloseAppendsDone, CloseFetchesDone, ShutdownBeginDone, HaltDone, Went, Returned, ThreadBut,
                  AllFields, Watched
    <3>4. ASSUME NEW s, ClosesWent(t, s) PROVE ThreadBut(t, AllFields) /\ thread'[t].pc \notin Watched
      BY <3>4, Zenon DEF ClosesWent, Went, Returned, ThreadBut, AllFields, Watched
    <3>5. CASE CloseLockDone(t)
      BY <3>4, <3>5, Zenon DEF CloseLockDone, Closed, Went, ThreadBut, AllFields, Watched
    <3>6. CASE CollectDone(t)  BY <3>4, <3>6, Zenon DEF CollectDone
    <3>. QED  BY <3>1, <3>2, <3>3, <3>5, <3>6, Zenon
  <2>2. \A h \in Handles : /\ handle'[h].exists = handle[h].exists /\ handle'[h].confirm = handle[h].confirm
                           /\ handle'[h].start = handle[h].start /\ handle'[h].status = handle[h].status
    BY Zenon DEF AppendBeginDone, AppendCheckDone, AdmitAppendDone, CancelAppendDone, FetchBeginDone, FetchReadDone,
           TrimBeginDone, CloseBeginDone, CloseAppendsDone, CloseFetchesDone, CloseLockDone, ShutdownBeginDone,
           CollectDone, HaltDone, Dropped, Fetched, HandleBut
  <2>3. meta' = meta
    BY Zenon DEF AppendBeginDone, AppendCheckDone, AdmitAppendDone, CancelAppendDone, FetchBeginDone, FetchReadDone,
           TrimBeginDone, CloseBeginDone, CloseAppendsDone, CloseFetchesDone, CloseLockDone, ShutdownBeginDone,
           CollectDone, HaltDone
  <2>. QED  BY <2>1, <2>2, <2>3, <1>MovesAway, <1>SameHandles, <1>SameMeta, Zenon DEF FetchEffect
<1> SUFFICES ASSUME ClientTypeOK, ClientTypeOK', CallInv, plan' = plan, ClientDone PROVE FetchEffect
  BY Zenon
<1>1. \A h \in Handles : /\ handle[h].confirm \in Int /\ handle[h].start \in Int /\ handle[h].next \in Int
                         /\ StreamOf(h) \in StreamIds
  BY StreamFacts, Zenon
<1>2. \A s \in StreamIds : meta[s].epoch \in Nat  BY StreamFacts, Zenon
<1>3. ASSUME NEW t \in Threads, OpenDone(t) PROVE FetchEffect
  <2>1. FetchMove(t) /\ ThreadBut(t, AllFields)
    <3>1. CASE Returned(t)  BY <3>1, Zenon DEF Returned, FetchMove, Watched, AllFields
    <3>2. CASE Took(t, IF SnapshotRead(Call(t).h) THEN "insert" ELSE "open")
      <4>1. CASE SnapshotRead(Call(t).h)
        BY <3>2, <4>1, Zenon DEF Took, Went, ThreadBut, FetchMove, AllFields
      <4>2. CASE ~SnapshotRead(Call(t).h)
        BY <3>2, <4>2, Zenon DEF Took, Went, ThreadBut, FetchMove, AllFields, Watched
      <4>. QED  BY <4>1, <4>2, Zenon
    <3>. QED  BY <1>3, <3>1, <3>2, Zenon DEF OpenDone
  <2>2. handle' = handle /\ meta' = meta  BY <1>3, Zenon DEF OpenDone
  <2>. QED  BY <2>1, <2>2, <1>OneMoves, <1>SameHandles, <1>SameMeta, Zenon DEF FetchEffect
<1>4. ASSUME NEW t \in Threads, OpenManagerDone(t) PROVE FetchEffect
  <2>1. handle' = handle  BY <1>4, Zenon DEF OpenManagerDone
  <2>2. CASE Returned(t) /\ meta' = meta  BY <2>1, <2>2, <1>ReturnMoves, <1>SameHandles, <1>SameMeta, Zenon DEF FetchEffect
  <2>3. CASE /\ Went(t, "insert", {"lo", "hi"})
             /\ thread'[t].lo = meta[StreamOf(H(t))].start
             /\ Exists(StreamOf(H(t))) /\ meta[StreamOf(H(t))].epoch <= EpochOf(H(t))
             /\ meta'[StreamOf(H(t))].epoch = EpochOf(H(t)) /\ MetaBut(StreamOf(H(t)), {"epoch", "state"})
    <3>1. thread[t].pc = "open" /\ H(t) \in Handles
      BY <1>4, ThreadFacts, CallOf, Zenon DEF OpenManagerDone, CallFits, OpenPcs
    <3>2. PICK s \in StreamIds : s = StreamOf(H(t))  BY <1>1, <3>1, Zenon
    <3>3. meta'[s].start = meta[s].start  BY <2>3, <3>2, Zenon DEF MetaBut
    <3>4. FetchMove(t) /\ ThreadBut(t, AllFields)
      BY <2>3, <3>1, <3>2, <3>3, Zenon DEF FetchMove, Went, ThreadBut, AllFields
    <3>5. EpochOf(H(t)) \in Nat  BY <3>1, StreamFacts, Zenon
    <3>6. MetaGrows(s)  BY <1>2, <2>3, <3>2, <3>3, <3>5, Zenon DEF MetaGrows, Exists
    <3>7. ASSUME NEW r \in StreamIds, r # s PROVE MetaGrows(r)
      <4>1. meta'[r].epoch = meta[r].epoch /\ meta'[r].state = meta[r].state /\ meta'[r].start = meta[r].start
        BY <2>3, <3>2, <3>7, Zenon DEF MetaBut
      <4>. QED  BY <1>2, <4>1 DEF MetaGrows
    <3>. QED  BY <2>1, <3>4, <3>6, <3>7, <1>OneMoves, <1>SameHandles, Zenon DEF FetchEffect
  <2>. QED  BY <1>4, <2>2, <2>3, Zenon DEF OpenManagerDone
<1>5. ASSUME NEW t \in Threads, OpenInsertDone(t) PROVE FetchEffect
  <2>1. Returned(t) /\ meta' = meta /\ thread[t].pc = "insert"  BY <1>5, Zenon DEF OpenInsertDone
  <2>2. PICK g : g = H(t)  BY Zenon
  <2>3. g \in Handles /\ ~handle[g].exists
    BY <2>1, <2>2, ThreadFacts, CallOf, Zenon DEF CallFits, OpenPcs
  <2>4. ASSUME NEW h \in Handles, h # g PROVE HandleGrows(h)
    <3>1. /\ handle'[h].exists = handle[h].exists /\ handle'[h].confirm = handle[h].confirm
          /\ handle'[h].start = handle[h].start /\ handle'[h].status = handle[h].status
      BY <1>5, <2>2, <2>4, Zenon DEF OpenInsertDone, HandleBut
    <3>. QED  BY <1>1, <3>1 DEF HandleGrows
  <2>5. HandleGrows(g)
    <3>1. CASE SnapshotRead(g)  BY <2>3, <3>1, Zenon DEF HandleGrows
    <3>2. CASE ~SnapshotRead(g)
      <4>1. handle'[g].exists /\ handle'[g].start = thread[t].lo
        BY <1>5, <2>2, <3>2 DEF OpenInsertDone, NewHandle
      <4>. QED  BY <2>1, <2>2, <4>1, Zenon DEF HandleGrows
    <3>. QED  BY <3>1, <3>2, Zenon
  <2>. QED  BY <2>1, <2>4, <2>5, <1>ReturnMoves, <1>SameMeta, Zenon DEF FetchEffect
<1>6. ASSUME NEW t \in Threads, CompleteAppendDone(t) PROVE FetchEffect
  <2>1. Returned(t) /\ meta' = meta  BY <1>6, Zenon DEF CompleteAppendDone
  <2>2. thread[t].lo \in Int  BY Zenon DEF ClientTypeOK, ThreadType
  <2>3. ASSUME NEW h \in Handles PROVE HandleGrows(h)
    <3>1. /\ handle'[h].exists = handle[h].exists /\ handle'[h].start = handle[h].start
      BY <1>6, Zenon DEF CompleteAppendDone, HandleBut
    <3>2. handle'[h].confirm >= handle[h].confirm
      <4>1. \/ handle'[h].confirm = handle[h].confirm
            \/ handle'[h].confirm = IF handle[h].confirm >= thread[t].lo + 1 THEN handle[h].confirm ELSE thread[t].lo + 1
        BY <1>6, Zenon DEF CompleteAppendDone, HandleBut
      <4>. QED  BY <1>1, <2>2, <4>1
    <3>3. handle'[h].status = handle[h].status \/ handle'[h].status = handle[h].status \union {"fenced"}
      BY <1>6, Zenon DEF CompleteAppendDone, HandleBut
    <3>4. /\ handle[h].status \subseteq handle'[h].status
          /\ "destroyed" \in handle'[h].status => "destroyed" \in handle[h].status
      BY <3>3, Zenon
    <3>. QED  BY <1>1, <3>1, <3>2, <3>4 DEF HandleGrows
  <2>. QED  BY <2>1, <2>3, <1>ReturnMoves, <1>SameMeta, Zenon DEF FetchEffect
<1>7. ASSUME NEW t \in Threads, FetchConfirmDone(t) \/ FetchStartDone(t) \/ TrimWaitDone(t) PROVE FetchEffect
  <2>1. meta' = meta  BY <1>7, Zenon DEF FetchConfirmDone, FetchStartDone, TrimWaitDone
  <2>2. \A h \in Handles : /\ handle'[h].exists = handle[h].exists /\ handle'[h].confirm = handle[h].confirm
                           /\ handle'[h].start = handle[h].start /\ handle'[h].status = handle[h].status
    BY <1>7, Zenon DEF FetchConfirmDone, FetchStartDone, TrimWaitDone, Fetched, HandleBut
  <2>3. ThreadBut(t, AllFields) /\ FetchMove(t)
    <3>1. CASE Returned(t)  BY <3>1, Zenon DEF Returned, FetchMove, Watched, AllFields
    <3>2. CASE FetchConfirmDone(t)
      BY <3>1, <3>2, Zenon DEF FetchConfirmDone, Fetched, FetchMove, Went, ThreadBut, AllFields
    <3>3. CASE FetchStartDone(t)
      BY <2>1, <3>1, <3>3, Zenon DEF FetchStartDone, Fetched, FetchMove, Went, ThreadBut, AllFields
    <3>4. CASE TrimWaitDone(t)
      BY <3>4, Zenon DEF TrimWaitDone, FetchMove, Went, ThreadBut, AllFields
    <3>. QED  BY <1>7, <3>2, <3>3, <3>4, Zenon
  <2>. QED  BY <2>1, <2>2, <2>3, <1>OneMoves, <1>SameHandles, <1>SameMeta, Zenon DEF FetchEffect

<1>8. ASSUME NEW t \in Threads, TrimStoreDone(t) PROVE FetchEffect
  <2>1. meta' = meta  BY <1>8, Zenon DEF TrimStoreDone
  <2>2. CASE Returned(t) /\ handle' = handle
    BY <2>1, <2>2, <1>ReturnMoves, <1>SameHandles, <1>SameMeta, Zenon DEF FetchEffect
  <2>3. CASE /\ Call(t).to >= handle[H(t)].start /\ Went(t, "trim wait", {})
             /\ HandleBut(H(t), {"start", "trimming"}) /\ handle'[H(t)].start = Call(t).to
    <3>1. ThreadBut(t, AllFields) /\ FetchMove(t)
      BY <1>8, <2>3, Zenon DEF TrimStoreDone, FetchMove, Went, ThreadBut, AllFields
    <3>2. ASSUME NEW h \in Handles PROVE HandleGrows(h)
      <4>1. /\ handle'[h].exists = handle[h].exists /\ handle'[h].confirm = handle[h].confirm
            /\ handle'[h].status = handle[h].status /\ (h # H(t) => handle'[h].start = handle[h].start)
        BY <2>3, Zenon DEF HandleBut
      <4>2. handle'[h].start >= handle[h].start
        <5>1. CASE h = H(t)  BY <2>3, <5>1, Zenon
        <5>2. CASE h # H(t)  BY <1>1, <4>1, <5>2
        <5>. QED  BY <5>1, <5>2, Zenon
      <4>. QED  BY <1>1, <4>1, <4>2 DEF HandleGrows
    <3>. QED  BY <2>1, <3>1, <3>2, <1>OneMoves, <1>SameMeta, Zenon DEF FetchEffect
  <2>. QED  BY <1>8, <2>2, <2>3, Zenon DEF TrimStoreDone
<1>9. ASSUME NEW t \in Threads, TrimStreamDone(t) PROVE FetchEffect
  <2>1. Returned(t) /\ thread[t].pc = "trim stream"  BY <1>9, Zenon DEF TrimStreamDone
  <2>2. \A h \in Handles : /\ handle'[h].exists = handle[h].exists /\ handle'[h].confirm = handle[h].confirm
                           /\ handle'[h].start = handle[h].start /\ handle'[h].status = handle[h].status
    BY <1>9, Zenon DEF TrimStreamDone, HandleBut
  <2>3. ASSUME NEW s \in StreamIds PROVE MetaGrows(s)
    <3>1. CASE meta' = meta  BY <1>2, <3>1 DEF MetaGrows
    <3>2. CASE /\ Holds(H(t)) /\ MetaBut(StreamOf(H(t)), {"start"})
               /\ meta'[StreamOf(H(t))].start
                    = IF meta[StreamOf(H(t))].start >= Call(t).to THEN meta[StreamOf(H(t))].start ELSE Call(t).to
      <4>1. meta'[s].epoch = meta[s].epoch /\ meta'[s].state = meta[s].state
            /\ (s # StreamOf(H(t)) => meta'[s].start = meta[s].start)
        BY <3>2, Zenon DEF MetaBut
      <4>2. meta'[s].epoch >= meta[s].epoch  BY <1>2, <4>1
      <4>3. CASE s = StreamOf(H(t))  BY <2>1, <3>2, <4>1, <4>2, <4>3, Zenon DEF MetaGrows
      <4>4. CASE s # StreamOf(H(t))  BY <4>1, <4>2, <4>4, Zenon DEF MetaGrows
      <4>. QED  BY <4>3, <4>4, Zenon
    <3>. QED  BY <1>9, <3>1, <3>2, Zenon DEF TrimStreamDone
  <2>. QED  BY <2>1, <2>2, <2>3, <1>ReturnMoves, <1>SameHandles, Zenon DEF FetchEffect
<1>10. ASSUME NEW t \in Threads, CloseMarkDone(t) PROVE FetchEffect
  <2>1. meta' = meta  BY <1>10, Zenon DEF CloseMarkDone
  <2>2. ThreadBut(t, AllFields) /\ thread'[t].pc \notin Watched
    BY <1>10, Zenon DEF CloseMarkDone, Went, Returned, ThreadBut, AllFields, Watched
  <2>3. ASSUME NEW h \in Handles PROVE HandleGrows(h)
    <3>1. /\ handle'[h].exists = handle[h].exists /\ handle'[h].confirm = handle[h].confirm
          /\ handle'[h].start = handle[h].start
          /\ handle'[h].status = handle[h].status \/ handle'[h].status = handle[h].status \union {"closed"}
      BY <1>10, Zenon DEF CloseMarkDone, HandleBut
    <3>2. /\ handle[h].status \subseteq handle'[h].status
          /\ "destroyed" \in handle'[h].status => "destroyed" \in handle[h].status
      BY <3>1, Zenon
    <3>. QED  BY <1>1, <3>1, <3>2 DEF HandleGrows
  <2>. QED  BY <2>1, <2>2, <2>3, <1>MovesAway, <1>SameMeta, Zenon DEF FetchEffect
<1>11. ASSUME NEW t \in Threads, CloseUploadDone(t) \/ CloseStreamDone(t) PROVE FetchEffect
  <2>1. ASSUME NEW s, ClosesWent(t, s) PROVE ThreadBut(t, AllFields) /\ thread'[t].pc \notin Watched
    BY <2>1, Zenon DEF ClosesWent, Went, Returned, ThreadBut, AllFields, Watched
  <2>2. ThreadBut(t, AllFields) /\ thread'[t].pc \notin Watched
    BY <1>11, <2>1, Zenon DEF CloseUploadDone, CloseStreamDone, ResultSet, Closed, Went, ThreadBut, AllFields, Watched
  <2>3. \A h \in Handles : /\ handle'[h].exists = handle[h].exists /\ handle'[h].confirm = handle[h].confirm
                           /\ handle'[h].start = handle[h].start /\ handle'[h].status = handle[h].status
    BY <1>11, Zenon DEF CloseUploadDone, CloseStreamDone, ResultSet, HandleBut
  <2>4. ASSUME NEW s \in StreamIds PROVE MetaGrows(s)
    <3>1. meta'[s].epoch = meta[s].epoch /\ meta'[s].start = meta[s].start
      BY <1>11, Zenon DEF CloseUploadDone, CloseStreamDone, CommittedAll, MetaBut
    <3>2. meta'[s].state # "deleted" => meta[s].state # "deleted"
      BY <1>11, Zenon DEF CloseUploadDone, CloseStreamDone, CommittedAll, MetaBut, Holds, Exists
    <3>. QED  BY <1>2, <3>1, <3>2 DEF MetaGrows
  <2>. QED  BY <2>2, <2>3, <2>4, <1>MovesAway, <1>SameHandles, Zenon DEF FetchEffect
<1>12. ASSUME NEW t \in Threads, DestroyMarkDone(t) PROVE FetchEffect
  <2>1. meta' = meta  BY <1>12, Zenon DEF DestroyMarkDone
  <2>2. ThreadBut(t, AllFields) /\ thread'[t].pc \notin Watched
    BY <1>12, Zenon DEF DestroyMarkDone, Went, ThreadBut, AllFields, Watched
  <2>3. ASSUME NEW h \in Handles PROVE HandleGrows(h)
    <3>1. handle'[h].exists = handle[h].exists /\ handle'[h].confirm = handle[h].confirm
      BY <1>12, Zenon DEF DestroyMarkDone, HandleBut
    <3>2. CASE h = H(t)
      <4>1. handle'[h].status = handle[h].status \union {"destroyed"} /\ handle'[h].start = handle[h].confirm
        BY <1>12, <3>2, Zenon DEF DestroyMarkDone
      <4>2. handle[h].status \subseteq handle'[h].status /\ "destroyed" \in handle'[h].status  BY <4>1, Zenon
      <4>. QED  BY <1>1, <3>1, <4>1, <4>2 DEF HandleGrows
    <3>3. CASE h # H(t)
      <4>1. handle'[h].status = handle[h].status /\ handle'[h].start = handle[h].start
        BY <1>12, <3>3, Zenon DEF DestroyMarkDone, HandleBut
      <4>. QED  BY <1>1, <3>1, <4>1 DEF HandleGrows
    <3>. QED  BY <3>2, <3>3, Zenon
  <2>. QED  BY <2>1, <2>2, <2>3, <1>MovesAway, <1>SameMeta DEF FetchEffect
<1>13. ASSUME NEW t \in Threads, DeleteStreamDone(t) PROVE FetchEffect
  <2>1. Returned(t) /\ handle' = handle  BY <1>13, Zenon DEF DeleteStreamDone
  <2>2. \A s \in StreamIds : MetaGrows(s)
    <3>1. \A s \in StreamIds :
            /\ meta'[s].epoch = meta[s].epoch /\ meta'[s].start = meta[s].start
            /\ meta'[s].state # "deleted" => meta[s].state # "deleted"
      BY <1>13, Zenon DEF DeleteStreamDone, MetaBut
    <3>2. \A s \in StreamIds : meta'[s].epoch >= meta[s].epoch  BY <1>2, <3>1
    <3>. QED  BY <3>1, <3>2, Zenon DEF MetaGrows
  <2>. QED  BY <2>1, <2>2, <1>ReturnMoves, <1>SameHandles, Zenon DEF FetchEffect
<1>14. ASSUME NEW t \in Threads, ThreadDone(t) PROVE FetchEffect
  BY <1>3, <1>4, <1>5, <1>6, <1>7, <1>8, <1>9, <1>10, <1>11, <1>12, <1>13, <1>14, <1>FetchQuiet, Zenon DEF ThreadDone
<1>15. ASSUME thread' = thread PROVE \A u \in Threads : FetchMove(u)
  BY <1>15, Zenon DEF FetchMove
<1>16. ASSUME AckDone \/ StoreFailsDone \/ UNCHANGED clientVars PROVE FetchEffect
  <2>1. thread' = thread /\ handle' = handle /\ meta' = meta  BY <1>16, Zenon DEF AckDone, StoreFailsDone, clientVars
  <2>. QED  BY <1>15, <2>1, <1>SameHandles, <1>SameMeta, Zenon DEF FetchEffect
<1>17. ASSUME NEW s \in StreamIds, UploadDone(s) \/ FenceDone(s) PROVE FetchEffect
  <2>1. thread' = thread /\ handle' = handle  BY <1>17, Zenon DEF UploadDone, FenceDone
  <2>2. ASSUME NEW r \in StreamIds PROVE MetaGrows(r)
    <3>1. meta'[r].start = meta[r].start /\ meta'[r].state = meta[r].state
      BY <1>17, Zenon DEF UploadDone, FenceDone, CommittedAll, MetaBut
    <3>2. meta'[r].epoch = meta[r].epoch \/ meta'[r].epoch >= meta[r].epoch
      BY <1>17, Zenon DEF UploadDone, FenceDone, CommittedAll, MetaBut
    <3>. QED  BY <1>2, <3>1, <3>2 DEF MetaGrows
  <2>. QED  BY <1>15, <2>1, <2>2, <1>SameHandles, Zenon DEF FetchEffect
<1>18. ASSUME NEW n \in updates, NoticeDone(n) PROVE FetchEffect
  <2>1. thread' = thread /\ meta' = meta  BY <1>18, Zenon DEF NoticeDone
  <2>2. SnapshotRead(n.handle)  BY Zenon DEF CallInv, ListenInv
  <2>3. ASSUME NEW h \in Handles PROVE HandleGrows(h)
    <3>1. handle'[h].exists = handle[h].exists  BY <1>18, Zenon DEF NoticeDone, HandleBut
    <3>2. CASE h = n.handle  BY <2>2, <3>1, <3>2, Zenon DEF HandleGrows
    <3>3. CASE h # n.handle
      <4>1. /\ handle'[h].confirm = handle[h].confirm /\ handle'[h].start = handle[h].start
            /\ handle'[h].status = handle[h].status
        BY <1>18, <3>3, Zenon DEF NoticeDone, HandleBut
      <4>. QED  BY <1>1, <3>1, <4>1 DEF HandleGrows
    <3>. QED  BY <3>2, <3>3, Zenon
  <2>. QED  BY <1>15, <2>1, <2>3, <1>SameMeta, Zenon DEF FetchEffect
<1>. QED  BY <1>14, <1>16, <1>17, <1>18, Zenon DEF ClientDone

-----------------------------------------------------------------------------
(* No fetch below the start offset of the metadata plane *)

\* A counter that is zero has no calls under way to count.
Idles ==
  \A h \in Handles : /\ handle[h].appends = 0 => AppendersOf(h) = {}
                     /\ handle[h].fetches = 0 => FetchersOf(h) = {}

\* A handle that is sole after a step was so before it.
LEMMA SoleBefore ==
  ASSUME ClientTypeOK, ClientTypeOK', plan' = plan, FetchEffect, NEW h \in Handles,
         meta[StreamOf(h)].epoch >= EpochOf(h), Sole(h)'
  PROVE  Sole(h)
<1>1. StreamOf(h) \in StreamIds /\ EpochOf(h) \in Nat /\ meta[StreamOf(h)].epoch \in Nat
  BY StreamFacts, Zenon
<1>2. PICK s \in StreamIds : s = StreamOf(h)  BY <1>1, Zenon
<1>3. /\ StreamOf(h)' = s /\ EpochOf(h)' = EpochOf(h)  BY <1>2, Zenon DEF StreamOf, EpochOf
<1>4. meta'[s].state # "deleted" /\ meta'[s].epoch = EpochOf(h)
  BY <1>3, Zenon DEF Sole, Holds, Exists
<1>5. meta'[s].epoch >= meta[s].epoch /\ meta[s].state # "deleted"
  BY <1>4, Zenon DEF FetchEffect, MetaGrows
<1>6. meta[s].epoch = EpochOf(h)  BY <1>1, <1>2, <1>4, <1>5
<1>7. ASSUME NEW g \in Others(h) PROVE EpochOf(g) # EpochOf(h)
  <2>1. g \in Handles \ {h} /\ handle[g].exists /\ ~SnapshotRead(g) /\ StreamOf(g) = StreamOf(h)
    BY <1>7, Zenon DEF Others
  <2>2. handle'[g].exists  BY <2>1, Zenon DEF FetchEffect, HandleGrows
  <2>3. g \in Others(h)'
    BY <2>1, <2>2, Zenon DEF Others, Handles, SnapshotRead, StreamOf
  <2>4. EpochOf(g)' # EpochOf(h)'  BY <2>3, Zenon DEF Sole
  <2>. QED  BY <2>4, Zenon DEF EpochOf
<1>. QED  BY <1>2, <1>5, <1>6, <1>7, Zenon DEF Sole, Holds, Exists

\* A trim of the stream of a sole handle is a trim of the handle.
LEMMA SoleTrims ==
  ASSUME ClientTypeOK, CallInv, NEW h \in Handles, Sole(h), NEW t \in Threads,
         thread[t].pc = "trim stream", Holds(H(t)), StreamOf(H(t)) = StreamOf(h)
  PROVE  H(t) = h
<1>1. Owned(H(t))  BY ThreadFacts, Zenon DEF CallFits, TrimPcs
<1>2. H(t) # h => H(t) \in Others(h)  BY <1>1, Zenon DEF Owned, Others
<1>. QED  BY <1>2, Zenon DEF Sole, Holds

LEMMA FetchKept ==
  ASSUME ClientTypeOK, ClientTypeOK', CallInv, CallInv', Idles, FetchInv, plan' = plan, ClientDone
  PROVE  FetchInv'
<1>1. FetchEffect  BY FetchEffects, Zenon
<1>2. /\ Handles' = Handles
      /\ \A h \in Handles : /\ StreamOf(h)' = StreamOf(h) /\ EpochOf(h)' = EpochOf(h)
                            /\ SnapshotRead(h)' = SnapshotRead(h)
  BY Zenon DEF Handles, StreamOf, EpochOf, SnapshotRead
<1>3. /\ \A h \in Handles : /\ StreamOf(h) \in StreamIds /\ EpochOf(h) \in Nat
                            /\ handle[h].confirm \in Int /\ handle[h].start \in Int
      /\ \A s \in StreamIds : meta[s].epoch \in Nat /\ meta[s].start \in Nat
  BY StreamFacts, Zenon
<1>4. /\ \A h \in Handles : handle'[h].confirm \in Int /\ handle'[h].start \in Int
      /\ \A s \in StreamIds : meta'[s].epoch \in Nat /\ meta'[s].start \in Nat
  BY <1>2, Zenon DEF ClientTypeOK, HandleType, MetaType
<1>5. \A s \in StreamIds : meta'[s].epoch >= meta[s].epoch  BY <1>1, Zenon DEF FetchEffect, MetaGrows

\* A thread that stays where it is has the same call and the same handle.
<1>6. ASSUME NEW t \in Threads, thread'[t].k = thread[t].k, thread'[t].h = thread[t].h
      PROVE  Call(t)' = Call(t) /\ H(t)' = H(t)
  BY <1>6, Zenon DEF Call, H
<1>7. \A t \in Threads :
        /\ (thread[t].pc \in OpenPcs \union AppendPcs \union FetchPcs \union TrimPcs => H(t) \in Handles)
        /\ (thread[t].pc \in OpenPcs => ~handle[H(t)].exists)
        /\ (thread[t].pc \in TrimPcs => Owned(H(t)))
        /\ (thread[t].pc \in FetchPcs \union TrimPcs => Call(t).from \in Nat /\ Call(t).to \in Nat)
        /\ thread[t].lo \in Int /\ thread[t].hi \in Int
  <2>1. SUFFICES ASSUME NEW t \in Threads
                 PROVE  /\ (thread[t].pc \in OpenPcs \union AppendPcs \union FetchPcs \union TrimPcs
                              => H(t) \in Handles)
                        /\ (thread[t].pc \in OpenPcs => ~handle[H(t)].exists)
                        /\ (thread[t].pc \in TrimPcs => Owned(H(t)))
                        /\ (thread[t].pc \in FetchPcs \union TrimPcs => Call(t).from \in Nat /\ Call(t).to \in Nat)
                        /\ thread[t].lo \in Int /\ thread[t].hi \in Int
    BY Zenon
  <2>2. thread[t].lo \in Int /\ thread[t].hi \in Int  BY Zenon DEF ClientTypeOK, ThreadType
  <2>3. thread[t].pc # "idle" => Call(t).from \in Nat /\ Call(t).to \in Nat /\ Call(t).h \in Handles
    BY ThreadFacts, CallOf, Zenon
  <2>4. CallFits(t)  BY ThreadFacts, Zenon
  <2>. QED  BY <2>2, <2>3, <2>4, Zenon DEF CallFits, OpenPcs, AppendPcs, FetchPcs, TrimPcs, Owned
\* The handles that are there, or that a thread is about to insert, were opened in
\* an epoch of the past.
<1>8. \A h \in Handles : Owned(h)' => meta'[StreamOf(h)].epoch >= EpochOf(h)
  <2>1. SUFFICES ASSUME NEW h \in Handles, Owned(h)' PROVE meta'[StreamOf(h)].epoch >= EpochOf(h)
    BY Zenon
  <2>2. StreamOf(h) \in StreamIds /\ ~SnapshotRead(h) /\ handle'[h].exists
    BY <1>2, <1>3, <2>1, Zenon DEF Owned
  <2>3. meta[StreamOf(h)].epoch >= EpochOf(h)
    <3>1. CASE handle[h].exists  BY <2>2, <3>1, Zenon DEF FetchInv, Owned
    <3>2. CASE ~handle[h].exists
      <4>1. PICK t \in Threads : thread[t].pc = "insert" /\ H(t) = h
        BY <1>1, <2>2, <3>2, Zenon DEF FetchEffect, HandleGrows
      <4>. QED  BY <2>2, <4>1, Zenon DEF FetchInv
    <3>. QED  BY <3>1, <3>2, Zenon
  <2>. QED  BY <1>3, <1>4, <1>5, <2>2, <2>3

<1>9. \A t \in Threads : (thread'[t].pc = "insert" /\ ~SnapshotRead(H(t))') =>
        /\ (meta[StreamOf(H(t))].epoch >= EpochOf(H(t)))'
        /\ (Sole(H(t)) => meta[StreamOf(H(t))].start <= thread[t].lo)'
  <2>1. SUFFICES ASSUME NEW t \in Threads, thread'[t].pc = "insert", NEW h, h = thread'[t].h, ~SnapshotRead(h)'
                 PROVE  /\ (meta[StreamOf(h)].epoch >= EpochOf(h))'
                        /\ (Sole(h))' => (meta[StreamOf(h)].start)' <= thread'[t].lo
    BY Zenon DEF H
  <2>2. h \in Handles
    <3>1. CallFits(t)' /\ ClientTypeOK'  BY Zenon DEF CallInv
    <3>2. thread'[t].pc \in OpenPcs  BY <2>1, Zenon DEF OpenPcs
    <3>3. (thread[t].k \in Nat /\ thread[t].k >= 1 /\ HasCall(t) /\ plan \in ClientPlans)'
      BY <2>1, <3>1, Zenon DEF CallFits, ClientTypeOK, ThreadType
    <3>4. h = Call(t)'.h  BY <2>1, <3>1, <3>2, Zenon DEF CallFits, H
    <3>5. (thread[t].k)' \in DOMAIN plan.programs[t]  BY <3>3, ProgramOf DEF HasCall
    <3>. QED  BY <3>4, <3>5, <3>3, ProgramOf, Zenon DEF Call
  <2>3. PICK s \in StreamIds : s = StreamOf(h)  BY <1>3, <2>2, Zenon
  <2>4. StreamOf(h)' = s /\ EpochOf(h)' = EpochOf(h) /\ ~SnapshotRead(h)  BY <1>2, <2>1, <2>2, <2>3, Zenon
  <2>5. CASE \A f \in AllFields : thread'[t][f] = thread[t][f]
    <3>1. thread[t].pc = "insert" /\ H(t) = h /\ thread'[t].lo = thread[t].lo  BY <2>1, <2>5, Zenon DEF AllFields, H
    <3>2. meta[s].epoch >= EpochOf(h) /\ (Sole(h) => meta[s].start <= thread[t].lo)
      BY <2>3, <2>4, <3>1, Zenon DEF FetchInv
    <3>3. meta'[s].epoch >= EpochOf(h)  BY <1>3, <1>4, <1>5, <2>2, <3>2
    <3>4. ASSUME Sole(h)' PROVE meta'[s].start <= thread'[t].lo
      <4>1. Sole(h)  BY <1>1, <2>2, <2>3, <3>2, <3>4, SoleBefore, Zenon
      <4>2. meta'[s].start = meta[s].start
        <5>1. ASSUME NEW u \in Threads, thread[u].pc = "trim stream", StreamOf(H(u)) = s, Holds(H(u)) PROVE FALSE
          <6>1. H(u) = h  BY <2>2, <2>3, <4>1, <5>1, SoleTrims, Zenon
          <6>2. handle[h].exists  BY <1>7, <5>1, <6>1, Zenon DEF TrimPcs, Owned
          <6>3. ~handle[h].exists  BY <1>7, <3>1, Zenon DEF OpenPcs
          <6>. QED  BY <6>2, <6>3, Zenon
        <5>. QED  BY <1>1, <5>1, Zenon DEF FetchEffect, MetaGrows
      <4>. QED  BY <3>1, <3>2, <4>1, <4>2, Zenon
    <3>. QED  BY <2>4, <3>3, <3>4, Zenon
  <2>6. CASE /\ thread'[t].h = thread[t].h
             /\ thread'[t].lo = meta[StreamOf(H(t))].start /\ meta'[StreamOf(H(t))].epoch = EpochOf(H(t))
             /\ meta'[StreamOf(H(t))].start = meta[StreamOf(H(t))].start
    BY <1>3, <2>1, <2>2, <2>3, <2>4, <2>6 DEF H
  <2>7. "insert" \in Watched  BY Zenon DEF Watched
  <2>8. FetchMove(t)  BY <1>1, Zenon DEF FetchEffect
  <2>9. CASE thread'[t].pc = "insert" /\ SnapshotRead(thread'[t].h)  BY <2>1, <2>4, <2>9, Zenon
  <2>. QED  BY <2>1, <2>5, <2>6, <2>7, <2>8, <2>9, Zenon DEF FetchMove
\* A trim that has not come to its end has raised the start offset of its handle.
<1>10. \A t \in Threads : (thread'[t].pc \in {"trim wait", "trim stream"} /\ ~Destroyed(H(t))')
         => (Call(t).to <= handle[H(t)].start)'
  <2>1. SUFFICES ASSUME NEW t \in Threads, thread'[t].pc \in {"trim wait", "trim stream"}, ~Destroyed(H(t))'
                 PROVE  (Call(t).to <= handle[H(t)].start)'
    BY Zenon
  <2>2. FetchMove(t)  BY <1>1, Zenon DEF FetchEffect
  <2>3. thread'[t].pc \in Watched /\ thread'[t].pc \notin {"insert", "start", "read"}  BY <2>1, Zenon DEF Watched
  <2>4. /\ thread'[t].k = thread[t].k /\ thread'[t].h = thread[t].h /\ thread[t].pc \in TrimPcs
        /\ \/ thread[t].pc \in {"trim wait", "trim stream"}
           \/ handle'[H(t)].start = Call(t).to
    BY <2>1, <2>2, <2>3, Zenon DEF FetchMove, AllFields, TrimPcs
  <2>5. Call(t)' = Call(t) /\ H(t)' = H(t)  BY <1>6, <2>4, Zenon
  <2>6. PICK h \in Handles : h = H(t)  BY <1>7, <2>4, Zenon
  <2>7. Owned(h) /\ Call(t).to \in Nat  BY <1>7, <2>4, <2>6, Zenon
  <2>8. "destroyed" \notin handle'[h].status  BY <2>1, <2>5, <2>6, Zenon DEF Destroyed
  <2>9. /\ handle'[h].start >= handle[h].start /\ handle[h].status \subseteq handle'[h].status
    <3>1. ASSUME NEW u \in Threads, thread[u].pc = "insert", H(u) = h PROVE FALSE
      BY <1>7, <2>7, <3>1, Zenon DEF OpenPcs, Owned
    <3>. QED  BY <1>1, <2>7, <2>8, <3>1, Zenon DEF FetchEffect, HandleGrows, Owned
  <2>10. CASE thread[t].pc \in {"trim wait", "trim stream"}
    <3>1. ~Destroyed(h)  BY <2>8, <2>9, Zenon DEF Destroyed
    <3>2. Call(t).to <= handle[h].start  BY <2>6, <2>10, <3>1, Zenon DEF FetchInv
    <3>3. Call(t).to <= handle'[h].start  BY <1>3, <1>4, <2>7, <2>9, <3>2
    <3>. QED  BY <2>5, <2>6, <3>3, Zenon
  <2>11. CASE handle'[H(t)].start = Call(t).to
    <3>1. Call(t).to <= handle'[h].start  BY <2>6, <2>7, <2>11
    <3>. QED  BY <2>5, <2>6, <3>1
  <2>. QED  BY <2>4, <2>10, <2>11, Zenon

\* A fetch that has read the confirm offset of its handle.
<1>11. \A t \in Threads : (thread'[t].pc = "start" /\ ~SnapshotRead(H(t))') =>
         /\ (thread[t].hi <= handle[H(t)].confirm)'
         /\ (Destroyed(H(t)) => thread[t].hi <= handle[H(t)].start)'
  <2>1. SUFFICES ASSUME NEW t \in Threads, thread'[t].pc = "start", ~SnapshotRead(H(t))'
                 PROVE  /\ (thread[t].hi <= handle[H(t)].confirm)'
                        /\ (Destroyed(H(t)) => thread[t].hi <= handle[H(t)].start)'
    BY Zenon
  <2>2. FetchMove(t)  BY <1>1 DEF FetchEffect
  <2>3. thread'[t].pc \in Watched  BY <2>1, Zenon DEF Watched
  <2>4. /\ thread'[t].k = thread[t].k /\ thread'[t].h = thread[t].h /\ thread[t].pc \in FetchPcs
        /\ \/ thread[t].pc = "start" /\ thread'[t].hi = thread[t].hi
           \/ thread'[t].hi = handle[H(t)].confirm /\ handle[H(t)].status = {} /\ handle' = handle
    BY <2>1, <2>2, <2>3, Zenon DEF FetchMove, AllFields, FetchPcs
  <2>5. H(t)' = H(t)  BY <2>4, Zenon DEF H
  <2>6. PICK h \in Handles : h = H(t)  BY <1>7, <2>4, Zenon
  <2>7. ~SnapshotRead(h)  BY <1>2, <2>1, <2>5, <2>6, Zenon
  <2>8. handle[h].exists  BY <2>4, <2>6, ThreadFacts, Zenon DEF CallFits
  <2>9. SUFFICES /\ thread'[t].hi <= handle'[h].confirm
                 /\ "destroyed" \in handle'[h].status => thread'[t].hi <= handle'[h].start
    BY <2>5, <2>6, Zenon DEF Destroyed
  <2>10. CASE thread[t].pc = "start" /\ thread'[t].hi = thread[t].hi
    <3>1. /\ thread[t].hi <= handle[h].confirm /\ thread[t].hi \in Int
          /\ "destroyed" \in handle[h].status => thread[t].hi <= handle[h].start
      BY <1>7, <2>6, <2>7, <2>10, Zenon DEF FetchInv, Destroyed
    <3>2. ASSUME NEW u \in Threads, thread[u].pc = "insert", H(u) = h PROVE FALSE
      BY <1>7, <2>8, <3>2, Zenon DEF OpenPcs
    <3>3. /\ handle'[h].confirm >= handle[h].confirm
          /\ \/ /\ handle'[h].start >= handle[h].start
                /\ "destroyed" \in handle'[h].status => "destroyed" \in handle[h].status
             \/ handle'[h].start = handle'[h].confirm
      BY <1>1, <2>7, <3>2, Zenon DEF FetchEffect, HandleGrows
    <3>4. thread'[t].hi <= handle'[h].confirm  BY <1>3, <1>4, <2>10, <3>1, <3>3
    <3>5. CASE handle'[h].start = handle'[h].confirm  BY <3>4, <3>5, Zenon
    <3>6. CASE /\ handle'[h].start >= handle[h].start
               /\ "destroyed" \in handle'[h].status => "destroyed" \in handle[h].status
      <4>1. ASSUME "destroyed" \in handle'[h].status PROVE thread'[t].hi <= handle'[h].start
        <5>1. thread[t].hi <= handle[h].start  BY <3>1, <3>6, <4>1, Zenon
        <5>. QED  BY <1>3, <1>4, <2>10, <3>1, <3>6, <5>1
      <4>. QED  BY <3>4, <4>1, Zenon
    <3>. QED  BY <3>3, <3>5, <3>6, Zenon
  <2>11. CASE thread'[t].hi = handle[H(t)].confirm /\ handle[H(t)].status = {} /\ handle' = handle
    BY <1>3, <2>6, <2>11
  <2>. QED  BY <2>4, <2>10, <2>11, Zenon

\* What a fetch that starts to read may rely on.
<1>12. ASSUME NEW t \in Threads, thread[t].pc = "start", thread'[t].pc = "read", NEW h, h = H(t), ~SnapshotRead(h),
              Call(t).from >= handle[h].start, Call(t).to <= thread[t].hi, Call(t).from < Call(t).to
       PROVE  ~Destroyed(h)
  <2>1. Call(t).from \in Nat /\ Call(t).to \in Nat /\ thread[t].hi \in Int /\ h \in Handles
    BY <1>7, <1>12, Zenon DEF FetchPcs
  <2>2. Destroyed(h) => thread[t].hi <= handle[h].start  BY <1>12, Zenon DEF FetchInv
  <2>3. handle[h].start \in Int  BY <1>3, <2>1, Zenon
  <2>4. ~(thread[t].hi <= handle[h].start)  BY <1>12, <2>1, <2>3
  <2>. QED  BY <2>2, <2>4, Zenon
\* A fetch that reads, and how it came to read.
<1>13. ASSUME NEW t \in Threads, thread'[t].pc = "read", NEW h, h = H(t)', ~SnapshotRead(h)
       PROVE  /\ h \in Handles /\ H(t) = h /\ Call(t)' = Call(t) /\ Call(t).from \in Nat /\ Owned(h)
              /\ \/ thread[t].pc = "read"
                 \/ /\ handle' = handle /\ meta' = meta /\ Call(t).from >= handle[h].start /\ ~Destroyed(h)
                    /\ thread[t].pc = "start"
  <2>1. FetchMove(t)  BY <1>1 DEF FetchEffect
  <2>2. thread'[t].pc \in Watched  BY <1>13, Zenon DEF Watched
  <2>3. /\ thread'[t].k = thread[t].k /\ thread'[t].h = thread[t].h /\ thread[t].pc \in FetchPcs
        /\ \/ thread[t].pc = "read"
           \/ /\ thread[t].pc = "start" /\ handle' = handle /\ meta' = meta
              /\ Call(t).from >= handle[H(t)].start /\ Call(t).to <= thread[t].hi /\ Call(t).from < Call(t).to
    BY <1>13, <2>1, <2>2, Zenon DEF FetchMove, AllFields, FetchPcs
  <2>4. H(t) = h /\ Call(t)' = Call(t)  BY <1>6, <1>13, <2>3, Zenon
  <2>5. h \in Handles /\ Call(t).from \in Nat  BY <1>7, <2>3, <2>4, Zenon
  <2>6. Owned(h)  BY <1>13, <2>3, <2>4, <2>5, ThreadFacts, Zenon DEF CallFits, Owned
  <2>. QED  BY <1>12, <1>13, <2>3, <2>4, <2>5, <2>6, Zenon
\* No trim that waits for the metadata plane is above a fetch that reads.
<1>14. \A t \in Threads : (thread'[t].pc = "read" /\ ~SnapshotRead(H(t))') =>
         \A u \in Threads : (thread'[u].pc = "trim stream" /\ H(u)' = H(t)') => (Call(t).from >= Call(u).to)'
  <2>1. SUFFICES ASSUME NEW t \in Threads, thread'[t].pc = "read", ~SnapshotRead(H(t))',
                        NEW u \in Threads, thread'[u].pc = "trim stream", H(u)' = H(t)'
                 PROVE  (Call(t).from >= Call(u).to)'
    BY Zenon
  <2>2. PICK h : h = H(t)'  BY Zenon
  <2>3. ~SnapshotRead(h)  BY <2>1, <2>2, Zenon DEF SnapshotRead
  <2>4. /\ h \in Handles /\ H(t) = h /\ Call(t)' = Call(t) /\ Call(t).from \in Nat
        /\ \/ thread[t].pc = "read"
           \/ Call(t).from >= handle[h].start /\ ~Destroyed(h) /\ thread[t].pc = "start"
    BY <1>13, <2>1, <2>2, <2>3, Zenon
  <2>5. FetchMove(u)  BY <1>1, Zenon DEF FetchEffect
  <2>6. thread'[u].pc \in Watched  BY <2>1, Zenon DEF Watched
  <2>7. /\ thread'[u].k = thread[u].k /\ thread'[u].h = thread[u].h /\ thread[u].pc \in TrimPcs
        /\ \/ thread[u].pc = "trim stream"
           \/ thread[u].pc = "trim wait" /\ handle[H(u)].fetches = 0
    BY <2>1, <2>5, <2>6, Zenon DEF FetchMove, AllFields, TrimPcs
  <2>8. H(u) = h /\ Call(u)' = Call(u) /\ Call(u).to \in Nat  BY <1>6, <1>7, <2>1, <2>2, <2>7, Zenon
  <2>9. SUFFICES Call(t).from >= Call(u).to  BY <2>4, <2>8, Zenon
  <2>10. CASE thread[t].pc = "read" /\ thread[u].pc = "trim stream"
    BY <2>3, <2>4, <2>8, <2>10, Zenon DEF FetchInv
  <2>11. CASE thread[t].pc = "read" /\ handle[H(u)].fetches = 0
    <3>1. t \in FetchersOf(h)  BY <2>4, <2>11, Zenon DEF FetchersOf, FetchPcs, H
    <3>. QED  BY <2>4, <2>8, <2>11, <3>1, Zenon DEF Idles
  <2>12. CASE Call(t).from >= handle[h].start /\ ~Destroyed(h)
    <3>1. Call(u).to <= handle[h].start  BY <2>7, <2>8, <2>12, Zenon DEF FetchInv
    <3>. QED  BY <1>3, <2>4, <2>8, <2>12, <3>1
  <2>. QED  BY <2>4, <2>7, <2>10, <2>11, <2>12, Zenon

\* The start offset of the metadata plane, while the handle is the sole one.
<1>15. \A h \in Handles : (Owned(h) /\ Sole(h) /\ ~Destroyed(h))' => (meta[StreamOf(h)].start <= handle[h].start)'
  <2>1. SUFFICES ASSUME NEW h \in Handles, Owned(h)', Sole(h)', ~Destroyed(h)'
                 PROVE  (meta[StreamOf(h)].start <= handle[h].start)'
    BY Zenon
  <2>2. PICK s \in StreamIds : s = StreamOf(h)  BY <1>3, Zenon
  <2>3. /\ StreamOf(h)' = s /\ ~SnapshotRead(h) /\ "destroyed" \notin handle'[h].status /\ handle'[h].exists
    BY <1>2, <2>1, <2>2, Zenon DEF Owned, Destroyed
  <2>4. CASE handle[h].exists
    <3>1. Owned(h) /\ meta[s].epoch >= EpochOf(h)  BY <2>2, <2>3, <2>4, Zenon DEF Owned, FetchInv
    <3>2. Sole(h)  BY <1>1, <2>1, <2>2, <3>1, SoleBefore, Zenon
    <3>3. ASSUME NEW u \in Threads, thread[u].pc = "insert", H(u) = h PROVE FALSE
      BY <1>7, <2>4, <3>3, Zenon DEF OpenPcs
    <3>4. handle'[h].start >= handle[h].start /\ handle[h].status \subseteq handle'[h].status
      BY <1>1, <2>3, <3>3, Zenon DEF FetchEffect, HandleGrows
    <3>5. ~Destroyed(h)  BY <2>3, <3>4, Zenon DEF Destroyed
    <3>6. meta[s].start <= handle[h].start  BY <2>2, <3>1, <3>2, <3>5, Zenon DEF FetchInv
    <3>7. meta'[s].start <= handle[h].start
      <4>1. CASE meta'[s].start = meta[s].start  BY <3>6, <4>1, Zenon
      <4>2. ASSUME NEW t \in Threads, thread[t].pc = "trim stream", StreamOf(H(t)) = s, Holds(H(t)),
                   meta'[s].start = IF meta[s].start >= Call(t).to THEN meta[s].start ELSE Call(t).to
            PROVE  meta'[s].start <= handle[h].start
        <5>1. H(t) = h  BY <2>2, <3>2, <4>2, SoleTrims, Zenon
        <5>2. Call(t).to <= handle[h].start  BY <3>5, <4>2, <5>1, Zenon DEF FetchInv
        <5>. QED  BY <3>6, <4>2, <5>2, Zenon
      <4>. QED  BY <1>1, <4>1, <4>2, Zenon DEF FetchEffect, MetaGrows
    <3>8. meta'[s].start <= handle'[h].start
      <4> DEFINE a == meta'[s].start  b == handle[h].start  c == handle'[h].start
      <4>1. a \in Nat /\ b \in Int /\ c \in Int  BY <1>3, <1>4, Zenon
      <4>2. a <= b /\ c >= b  BY <3>4, <3>7, Zenon
      <4> HIDE DEF a, b, c
      <4>3. a <= c  BY <4>1, <4>2
      <4>. QED  BY <4>3, Zenon DEF a, c
    <3>. QED  BY <2>3, <3>8, Zenon
  <2>5. CASE ~handle[h].exists
    <3>1. PICK t \in Threads : /\ thread[t].pc = "insert" /\ H(t) = h
                               /\ handle'[h].start = thread[t].lo /\ meta' = meta
      BY <1>1, <2>3, <2>5, Zenon DEF FetchEffect, HandleGrows
    <3>2. meta[s].epoch >= EpochOf(h) /\ (Sole(h) => meta[s].start <= thread[t].lo)
      BY <2>2, <2>3, <3>1, Zenon DEF FetchInv
    <3>3. Sole(h)  BY <1>1, <2>1, <2>2, <3>2, SoleBefore, Zenon
    <3>. QED  BY <2>3, <3>1, <3>2, <3>3, Zenon
  <2>. QED  BY <2>4, <2>5, Zenon
<1>16. FetchesAreNotTrimmed'
  <2>1. SUFFICES ASSUME NEW t \in Threads, thread'[t].pc = "read", Holds(H(t))', ~SnapshotRead(H(t))',
                        (\A g \in Others(H(t)) : EpochOf(g) # EpochOf(H(t)))'
                 PROVE  (Call(t).from >= meta[StreamOf(H(t))].start)'
    BY Zenon DEF FetchesAreNotTrimmed
  <2>2. PICK h : h = H(t)'  BY Zenon
  <2>3. ~SnapshotRead(h)  BY <2>1, <2>2, Zenon DEF SnapshotRead
  <2>4. Sole(h)'  BY <2>1, <2>2, Zenon DEF Sole
  <2>5. /\ h \in Handles /\ H(t) = h /\ Call(t)' = Call(t) /\ Call(t).from \in Nat /\ Owned(h)
        /\ \/ thread[t].pc = "read"
           \/ meta' = meta /\ Call(t).from >= handle[h].start /\ ~Destroyed(h) /\ thread[t].pc = "start"
    BY <1>13, <2>1, <2>2, <2>3, Zenon
  <2>6. PICK s \in StreamIds : s = StreamOf(h)  BY <1>3, <2>5, Zenon
  <2>7. StreamOf(h)' = s  BY <1>2, <2>5, <2>6, Zenon
  <2>8. meta[s].epoch >= EpochOf(h)  BY <2>5, <2>6, Zenon DEF FetchInv
  <2>9. Sole(h)  BY <1>1, <2>4, <2>5, <2>6, <2>8, SoleBefore, Zenon
  <2>10. SUFFICES Call(t).from >= meta'[s].start  BY <2>2, <2>5, <2>7, Zenon
  <2>11. CASE thread[t].pc = "read"
    <3>1. Call(t).from >= meta[s].start
      BY <2>3, <2>5, <2>6, <2>9, <2>11, Zenon DEF FetchInv, FetchesAreNotTrimmed, Sole
    <3>2. CASE meta'[s].start = meta[s].start  BY <3>1, <3>2, Zenon
    <3>3. ASSUME NEW u \in Threads, thread[u].pc = "trim stream", StreamOf(H(u)) = s, Holds(H(u)),
                 meta'[s].start = IF meta[s].start >= Call(u).to THEN meta[s].start ELSE Call(u).to
          PROVE  Call(t).from >= meta'[s].start
      <4>1. H(u) = h  BY <2>5, <2>6, <2>9, <3>3, SoleTrims, Zenon
      <4>2. Call(t).from >= Call(u).to  BY <2>3, <2>5, <2>11, <3>3, <4>1, Zenon DEF FetchInv
      <4>. QED  BY <3>1, <3>3, <4>2, Zenon
    <3>. QED  BY <1>1, <3>2, <3>3, Zenon DEF FetchEffect, MetaGrows
  <2>12. CASE meta' = meta /\ Call(t).from >= handle[h].start /\ ~Destroyed(h)
    <3>1. meta[s].start <= handle[h].start  BY <2>5, <2>6, <2>9, <2>12, Zenon DEF FetchInv
    <3> DEFINE a == Call(t).from  b == handle[h].start  c == meta[s].start
    <3>2. a \in Nat /\ b \in Int /\ c \in Nat /\ a >= b /\ c <= b  BY <1>3, <2>5, <2>12, <3>1, Zenon
    <3> HIDE DEF a, b, c
    <3>3. a >= c  BY <3>2
    <3>4. Call(t).from >= meta[s].start  BY <3>3, Zenon DEF a, c
    <3>. QED  BY <2>12, <3>4, Zenon
  <2>. QED  BY <2>5, <2>11, <2>12, Zenon
<1>17. \A h \in Handles' : (Owned(h) => meta[StreamOf(h)].epoch >= EpochOf(h))'
  BY <1>2, <1>8, Zenon
<1>. QED  BY <1>2, <1>9, <1>10, <1>11, <1>14, <1>15, <1>16, <1>17, Zenon DEF FetchInv

-----------------------------------------------------------------------------
(* A close commits what was answered *)

\* No step takes back what the metadata plane has committed.
LEMMA EndsGrow ==
  ASSUME ClientTypeOK, ClientTypeOK', CallInv, plan' = plan, ClientDone
  PROVE  \A s \in StreamIds : meta'[s].end >= meta[s].end
<1>1. \A s \in StreamIds : meta[s].end \in Nat  BY StreamFacts, Zenon
<1>2. ASSUME EndsKept PROVE \A s \in StreamIds : meta'[s].end >= meta[s].end
  <2>1. CASE \A s \in StreamIds : meta'[s].end = meta[s].end  BY <1>1, <2>1
  <2>2. ASSUME NEW s \in StreamIds, CommittedAll(s) PROVE \A r \in StreamIds : meta'[r].end >= meta[r].end
    <3>1. \A r \in StreamIds : r # s => meta'[r].end = meta[r].end  BY <2>2, Zenon DEF CommittedAll, MetaBut
    <3>2. meta'[s].end >= meta[s].end  BY <2>2, Zenon DEF CommittedAll
    <3>. QED  BY <1>1, <3>1, <3>2
  <2>. QED  BY <1>2, <2>1, <2>2, Zenon DEF EndsKept
<1>3. ASSUME NEW t \in Threads, ThreadDone(t) PROVE EndsKept
  <2>1. CASE Calm  BY <2>1, Zenon DEF Calm
  <2>2. CASE OpenInsertDone(t) \/ AdmitAppendDone(t) \/ CompleteAppendDone(t)
    BY <2>2, Zenon DEF OpenInsertDone, AdmitAppendDone, CompleteAppendDone, EndsKept
  <2>. QED  BY <1>3, <2>1, <2>2, CalmThread, Zenon
<1>4. ASSUME AckDone \/ StoreFailsDone \/ UNCHANGED clientVars PROVE EndsKept
  BY <1>4, Zenon DEF AckDone, StoreFailsDone, clientVars, EndsKept
<1>5. ASSUME NEW s \in StreamIds, UploadDone(s) \/ FenceDone(s) PROVE EndsKept
  BY <1>5, CalmOther, Zenon DEF Calm
<1>6. ASSUME NEW n \in updates, NoticeDone(n) PROVE EndsKept
  BY <1>6, Zenon DEF NoticeDone, EndsKept
<1>. QED  BY <1>2, <1>3, <1>4, <1>5, <1>6, Zenon DEF ClientDone

\* The states of a call that CloseInv speaks of.
CloseWatched == MarkedPcs \union {"reserve", "durable"}

CloseMove(t) ==
  \/ \A f \in AllFields : thread'[t][f] = thread[t][f]
  \/ thread'[t].pc \notin CloseWatched
  \/ /\ thread'[t].k = thread[t].k /\ thread'[t].h = thread[t].h
     /\ \/ thread[t].pc = "check" /\ thread'[t].pc = "reserve" /\ handle[H(t)].status = {}
        \/ thread[t].pc = "reserve" /\ thread'[t].pc = "durable"
        \/ /\ thread[t].pc = "close" /\ thread'[t].pc \in MarkedPcs /\ "closed" \in handle'[H(t)].status
           /\ H(t) \in client'.forced \/ (thread'[t].pc = "close appends" /\ ~Forces(t))
        \/ /\ thread[t].pc \in MarkedPcs /\ thread'[t].pc \in MarkedPcs \ {"close appends"}
           /\ thread[t].pc = "close appends" => handle[H(t)].appends = 0
           /\ thread'[t].pc = "close stream" => CommittedAll(StreamOf(H(t))) /\ answered' = answered

ResultGrows(h) ==
  \/ ~handle[h].exists /\ handle'[h].result # "ok"
  \/ /\ handle[h].status \subseteq handle'[h].status
     /\ \/ handle'[h].result \in {handle[h].result, "error"}
        \/ \E t \in Threads : thread[t].pc = "close stream" /\ H(t) = h /\ Holds(h)

AnsweredGrows ==
  /\ store.acked \subseteq store'.acked /\ client.forced \subseteq client'.forced
  /\ \A r \in answered' : \/ r \in answered
                          \/ r \in store.acked /\ \E t \in Threads : thread[t].pc = "durable" /\ H(t) = r[1]

CloseEffect ==
  /\ \A t \in Threads : CloseMove(t)
  /\ \A h \in Handles : ResultGrows(h)
  /\ AnsweredGrows

\* Every step.
LEMMA CloseEffects ==
  ClientTypeOK /\ CallInv /\ ClientDone => CloseEffect
<1>OneCloses. ASSUME NEW t \in Threads, ThreadBut(t, AllFields), CloseMove(t)
      PROVE  \A u \in Threads : CloseMove(u)
  <2> USE <1>OneCloses
  <2>1. \A u \in Threads : u # t => \A f \in AllFields : thread'[u][f] = thread[u][f]
    BY DEF ThreadBut, AllFields
  <2>2. \A u \in Threads : u # t => CloseMove(u)  BY <2>1, Zenon DEF CloseMove
  <2>. QED  BY <2>2
<1>ClosesAway. ASSUME NEW t \in Threads, ThreadBut(t, AllFields), thread'[t].pc \notin CloseWatched
      PROVE  \A u \in Threads : CloseMove(u)
  <2> USE <1>ClosesAway
  <2>1. CloseMove(t)  BY Zenon DEF CloseMove
  <2>. QED  BY <2>1, <1>OneCloses
<1>ReturnCloses. ASSUME NEW t \in Threads, Returned(t)
      PROVE  \A u \in Threads : CloseMove(u)
  <2> USE <1>ReturnCloses
  <2>1. ThreadBut(t, AllFields) /\ thread'[t].pc \notin CloseWatched
    BY Zenon DEF Returned, AllFields, CloseWatched, MarkedPcs
  <2>. QED  BY <2>1, <1>ClosesAway
<1>ClosesNext. ASSUME NEW t \in Threads, NEW s, ClosesWent(t, s)
      PROVE  \A u \in Threads : CloseMove(u)
  <2> USE <1>ClosesNext
  <2>1. ThreadBut(t, AllFields) /\ thread'[t].pc \notin CloseWatched
    BY Zenon DEF ClosesWent, Went, Returned, ThreadBut, AllFields, CloseWatched, MarkedPcs
  <2>. QED  BY <2>1, <1>ClosesAway, Zenon
\* A close goes on, without its status or its commit at stake.
<1>CloseGoes. ASSUME NEW t \in Threads, NEW pc, Went(t, pc, {}), thread[t].pc \in MarkedPcs,
             pc \in MarkedPcs \ {"close appends", "close stream"},
             thread[t].pc = "close appends" => handle[H(t)].appends = 0
      PROVE  \A u \in Threads : CloseMove(u)
  <2> USE <1>CloseGoes
  <2>1. ThreadBut(t, AllFields) /\ thread'[t].k = thread[t].k /\ thread'[t].h = thread[t].h /\ thread'[t].pc = pc
    BY Zenon DEF Went, ThreadBut, AllFields
  <2>2. CloseMove(t)  BY <2>1, Zenon DEF CloseMove
  <2>. QED  BY <2>1, <2>2, <1>OneCloses, Zenon
<1>SameAnswered. ASSUME answered' = answered, store'.acked = store.acked, client'.forced = client.forced
      PROVE  AnsweredGrows
  BY <1>SameAnswered, Zenon DEF AnsweredGrows
<1>SameStatus. ASSUME \A h \in Handles : handle'[h].status = handle[h].status /\ handle'[h].result = handle[h].result
      PROVE  \A h \in Handles : ResultGrows(h)
  BY <1>SameStatus, Zenon DEF ResultGrows
<1>CloseQuiet. ASSUME NEW t \in Threads,
             \/ OpenDone(t) \/ OpenManagerDone(t)
             \/ AppendBeginDone(t) \/ AppendCheckDone(t) \/ AdmitAppendDone(t) \/ CancelAppendDone(t)
             \/ FetchBeginDone(t) \/ FetchConfirmDone(t) \/ FetchStartDone(t) \/ FetchReadDone(t)
             \/ TrimBeginDone(t) \/ TrimStoreDone(t) \/ TrimWaitDone(t) \/ TrimStreamDone(t)
             \/ CloseBeginDone(t) \/ CloseAppendsDone(t) \/ CloseFetchesDone(t) \/ DeleteStreamDone(t)
             \/ ShutdownBeginDone(t) \/ CollectDone(t) \/ HaltDone(t)
      PROVE  CloseEffect
  <2> USE <1>CloseQuiet
  <2>1. \A h \in Handles : handle'[h].status = handle[h].status /\ handle'[h].result = handle[h].result
    BY Zenon DEF OpenDone, OpenManagerDone, AppendBeginDone, AppendCheckDone, AdmitAppendDone, CancelAppendDone,
           FetchBeginDone, FetchConfirmDone, FetchStartDone, FetchReadDone, TrimBeginDone, TrimStoreDone,
           TrimWaitDone, TrimStreamDone, CloseBeginDone, CloseAppendsDone, CloseFetchesDone, DeleteStreamDone,
           ShutdownBeginDone, CollectDone, HaltDone, Dropped, Fetched, HandleBut
  <2>2. answered' = answered /\ store'.acked = store.acked /\ client'.forced = client.forced
    BY Zenon DEF OpenDone, OpenManagerDone, AppendBeginDone, AppendCheckDone, AdmitAppendDone, CancelAppendDone,
           FetchBeginDone, FetchConfirmDone, FetchStartDone, FetchReadDone, TrimBeginDone, TrimStoreDone,
           TrimWaitDone, TrimStreamDone, CloseBeginDone, CloseAppendsDone, CloseFetchesDone, DeleteStreamDone,
           ShutdownBeginDone, CollectDone, HaltDone, ClientBut
  <2>3. \A u \in Threads : CloseMove(u)
    <3>1. ASSUME NEW pc, NEW F \in SUBSET {"h", "lo", "hi"}, Went(t, pc, F), pc \notin CloseWatched
          PROVE  \A u \in Threads : CloseMove(u)
      <4>1. ThreadBut(t, AllFields) /\ thread'[t].pc \notin CloseWatched  BY <3>1, Zenon DEF Went, ThreadBut, AllFields
      <4>. QED  BY <4>1, <1>ClosesAway, Zenon
    <3>2. \A pc : Took(t, pc) => Went(t, pc, {"h"})  BY Zenon DEF Took
    <3>3. /\ {"h"} \in SUBSET {"h", "lo", "hi"} /\ {} \in SUBSET {"h", "lo", "hi"}
          /\ {"lo", "hi"} \in SUBSET {"h", "lo", "hi"}
      BY Zenon
    <3>4. \A pc \in {"open", "insert", "check", "confirm", "start", "read", "trim lock", "trim wait",
                     "trim stream", "close", "collect", "halt"} : pc \notin CloseWatched
      BY Zenon DEF CloseWatched, MarkedPcs
    <3>5. CASE OpenDone(t)
      <4>1. PICK pc : pc = IF SnapshotRead(Call(t).h) THEN "insert" ELSE "open"  BY Zenon
      <4>2. pc \notin CloseWatched  BY <3>4, <4>1, Zenon
      <4>. QED  BY <3>1, <3>2, <3>3, <3>5, <4>1, <4>2, <1>ReturnCloses, Zenon DEF OpenDone
    <3>6. CASE OpenManagerDone(t) \/ TrimStreamDone(t) \/ DeleteStreamDone(t) \/ HaltDone(t)
      BY <3>1, <3>3, <3>4, <3>6, <1>ReturnCloses, Zenon DEF OpenManagerDone, TrimStreamDone, DeleteStreamDone, HaltDone
    <3>7. CASE AppendBeginDone(t) \/ CancelAppendDone(t)
      BY <3>1, <3>2, <3>3, <3>4, <3>7, <1>ReturnCloses, Zenon DEF AppendBeginDone, CancelAppendDone, Dropped
    <3>8. CASE AppendCheckDone(t)
      <4>1. CASE handle[H(t)].status = {} /\ Went(t, "reserve", {})
        <5>1. ThreadBut(t, AllFields) /\ CloseMove(t)
          BY <3>8, <4>1, Zenon DEF AppendCheckDone, CloseMove, Went, ThreadBut, AllFields
        <5>. QED  BY <5>1, <1>OneCloses, Zenon
      <4>. QED  BY <3>8, <4>1, <1>ReturnCloses, Zenon DEF AppendCheckDone, Dropped
    <3>9. CASE AdmitAppendDone(t)
      <4>1. ThreadBut(t, AllFields) /\ CloseMove(t)
        BY <3>9, Zenon DEF AdmitAppendDone, CloseMove, Went, ThreadBut, AllFields
      <4>. QED  BY <4>1, <1>OneCloses
    <3>10. CASE FetchBeginDone(t) \/ FetchConfirmDone(t) \/ FetchStartDone(t) \/ FetchReadDone(t)
      BY <3>1, <3>2, <3>3, <3>4, <3>10, <1>ReturnCloses, Zenon
      DEF FetchBeginDone, FetchConfirmDone, FetchStartDone, FetchReadDone, Fetched
    <3>11. CASE TrimBeginDone(t) \/ TrimStoreDone(t) \/ TrimWaitDone(t) \/ CloseBeginDone(t)
      BY <3>1, <3>2, <3>3, <3>4, <3>11, <1>ReturnCloses, Zenon DEF TrimBeginDone, TrimStoreDone, TrimWaitDone, CloseBeginDone
    <3>12. CASE CloseAppendsDone(t) \/ CloseFetchesDone(t)
      <4>1. \E pc \in {"close fetches", "close lock"} :
              /\ Went(t, pc, {}) /\ thread[t].pc \in MarkedPcs
              /\ pc \in MarkedPcs \ {"close appends", "close stream"}
              /\ thread[t].pc = "close appends" => handle[H(t)].appends = 0
        BY <3>12, Zenon DEF CloseAppendsDone, CloseFetchesDone, MarkedPcs
      <4>. QED  BY <4>1, <1>CloseGoes, Zenon
    <3>13. CASE ShutdownBeginDone(t) \/ CollectDone(t)
      BY <3>1, <3>3, <3>4, <3>13, <1>ClosesNext, Zenon DEF ShutdownBeginDone, CollectDone
    <3>. QED  BY <3>5, <3>6, <3>7, <3>8, <3>9, <3>10, <3>11, <3>12, <3>13, Zenon
  <2>. QED  BY <2>1, <2>2, <2>3, <1>SameAnswered, <1>SameStatus, Zenon DEF CloseEffect
<1> SUFFICES ASSUME ClientTypeOK, CallInv, ClientDone PROVE CloseEffect
  BY Zenon
<1>1. ASSUME NEW t \in Threads, OpenInsertDone(t) PROVE CloseEffect
  <2>1. PICK g : g = H(t)  BY Zenon
  <2>2. ~handle[g].exists  BY <1>1, <2>1, ThreadFacts, Zenon DEF OpenInsertDone, CallFits, OpenPcs
  <2>3. handle'[g].result # "ok"
    <3>1. PICK a, b, c : handle'[g] = NewHandle(a, b, c)  BY <1>1, <2>1, Zenon DEF OpenInsertDone
    <3>2. NewHandle(a, b, c).result = "none"  BY Zenon DEF NewHandle
    <3>3. handle'[g].result = "none"  BY <3>1, <3>2, Zenon
    <3>. QED  BY <3>3, Zenon
  <2>4. \A h \in Handles : h # g => handle'[h].status = handle[h].status /\ handle'[h].result = handle[h].result
    BY <1>1, <2>1, Zenon DEF OpenInsertDone, HandleBut
  <2>5. \A h \in Handles : ResultGrows(h)  BY <2>2, <2>3, <2>4, Zenon DEF ResultGrows
  <2>6. answered' = answered /\ store' = store /\ client'.forced = client.forced
    BY <1>1, Zenon DEF OpenInsertDone, ClientBut
  <2>. QED  BY <1>1, <2>5, <2>6, <1>ReturnCloses, <1>SameAnswered, Zenon DEF CloseEffect, OpenInsertDone
<1>2. ASSUME NEW t \in Threads, CompleteAppendDone(t) PROVE CloseEffect
  <2>1. \A h \in Handles : ResultGrows(h)
    <3>1. \A h \in Handles : handle'[h].result = handle[h].result
      BY <1>2, Zenon DEF CompleteAppendDone, HandleBut
    <3>2. \A h \in Handles : handle[h].status \subseteq handle'[h].status
      BY <1>2, Zenon DEF CompleteAppendDone, HandleBut
    <3>. QED  BY <3>1, <3>2, Zenon DEF ResultGrows
  <2>2. AnsweredGrows
    <3>1. PICK r : r = <<H(t), thread[t].lo>>  BY Zenon
    <3>2. /\ thread[t].pc = "durable" /\ store' = store /\ client' = client /\ H(t) = r[1]
          /\ answered' = answered \/ (answered' = answered \union {r} /\ r \in store.acked)
      BY <1>2, <3>1, Zenon DEF CompleteAppendDone
    <3>. QED  BY <3>2, Zenon DEF AnsweredGrows
  <2>. QED  BY <1>2, <2>1, <2>2, <1>ReturnCloses, Zenon DEF CloseEffect, CompleteAppendDone
<1>3. ASSUME NEW t \in Threads, CloseMarkDone(t) PROVE CloseEffect
  <2>1. AnsweredGrows  BY <1>3, Zenon DEF CloseMarkDone, AnsweredGrows
  <2>2. \A h \in Handles : ResultGrows(h)  BY <1>3, Zenon DEF CloseMarkDone, HandleBut, ResultGrows
  <2>3. CASE Returned(t)  BY <2>1, <2>2, <2>3, <1>ReturnCloses, Zenon DEF CloseEffect
  <2>4. CASE /\ ~SnapshotRead(H(t)) /\ Went(t, IF Forces(t) THEN "close lock" ELSE "close appends", {})
             /\ handle'[H(t)].status = handle[H(t)].status \union {"closed"}
    <3>1. /\ ThreadBut(t, AllFields) /\ thread'[t].k = thread[t].k /\ thread'[t].h = thread[t].h
          /\ thread[t].pc = "close" /\ "closed" \in handle'[H(t)].status
      BY <1>3, <2>4, Zenon DEF CloseMarkDone, Went, ThreadBut, AllFields
    <3>2. CASE Forces(t)
      <4>1. thread'[t].pc = "close lock" /\ H(t) \in client'.forced
        BY <1>3, <2>4, <3>2, Zenon DEF CloseMarkDone, Went
      <4>2. CloseMove(t)  BY <3>1, <4>1, Zenon DEF CloseMove, MarkedPcs
      <4>. QED  BY <2>1, <2>2, <3>1, <4>2, <1>OneCloses, Zenon DEF CloseEffect
    <3>3. CASE ~Forces(t)
      <4>1. thread'[t].pc = "close appends"  BY <2>4, <3>3, Zenon DEF Went
      <4>2. CloseMove(t)  BY <3>1, <3>3, <4>1, Zenon DEF CloseMove, MarkedPcs
      <4>. QED  BY <2>1, <2>2, <3>1, <4>2, <1>OneCloses DEF CloseEffect
    <3>. QED  BY <3>2, <3>3, Zenon
  <2>. QED  BY <1>3, <2>3, <2>4, Zenon DEF CloseMarkDone
<1>4. ASSUME NEW t \in Threads, NEW r, Closed(t, r), thread[t].pc \in MarkedPcs \ {"close appends"},
             store' = store, answered' = answered
      PROVE  AnsweredGrows /\ \A u \in Threads : CloseMove(u)
  <2>1. AnsweredGrows  BY <1>4, <1>SameAnswered, Zenon DEF Closed, ClientBut
  <2>2. CASE Went(t, "destroy", {})
    <3>1. "destroy" \in MarkedPcs \ {"close appends", "close stream"}  BY Zenon DEF MarkedPcs
    <3>2. thread[t].pc \in MarkedPcs /\ thread[t].pc # "close appends"  BY <1>4, Zenon
    <3>. QED  BY <2>1, <2>2, <3>1, <3>2, <1>CloseGoes, Zenon
  <2>3. CASE ClosesWent(t, thread[t].todo)  BY <2>1, <2>3, <1>ClosesNext, Zenon
  <2>. QED  BY <1>4, <2>2, <2>3, Zenon DEF Closed
<1>5. ASSUME NEW t \in Threads, CloseLockDone(t) PROVE CloseEffect
  <2>1. thread[t].pc \in MarkedPcs \ {"close appends"} /\ store' = store /\ answered' = answered
    BY <1>5, Zenon DEF CloseLockDone, MarkedPcs
  <2>2. \A h \in Handles : handle'[h].status = handle[h].status /\ handle'[h].result = handle[h].result
    BY <1>5, Zenon DEF CloseLockDone, HandleBut
  <2>3. CASE Went(t, "upload", {}) /\ client' = client
    <3>1. "upload" \in MarkedPcs \ {"close appends", "close stream"}  BY Zenon DEF MarkedPcs
    <3>2. thread[t].pc \in MarkedPcs /\ thread[t].pc # "close appends"  BY <2>1, Zenon
    <3>3. \A u \in Threads : CloseMove(u)  BY <2>3, <3>1, <3>2, <1>CloseGoes, Zenon
    <3>. QED  BY <2>1, <2>2, <2>3, <3>3, <1>SameAnswered, <1>SameStatus, Zenon DEF CloseEffect
  <2>. QED  BY <1>4, <1>5, <2>1, <2>2, <2>3, <1>SameStatus, Zenon DEF CloseLockDone, CloseEffect
<1>6. ASSUME NEW t \in Threads, CloseUploadDone(t) PROVE CloseEffect
  <2>1. thread[t].pc \in MarkedPcs \ {"close appends"} /\ store' = store /\ answered' = answered
    BY <1>6, Zenon DEF CloseUploadDone, MarkedPcs
  <2>2. CASE CommittedAll(StreamOf(H(t))) /\ Went(t, "close stream", {}) /\ client' = client /\ handle' = handle
    <3>1. /\ ThreadBut(t, AllFields) /\ thread'[t].k = thread[t].k /\ thread'[t].h = thread[t].h
          /\ thread'[t].pc = "close stream"
      BY <2>2, Zenon DEF Went, ThreadBut, AllFields
    <3>2. thread[t].pc # "close appends" /\ thread[t].pc \in MarkedPcs
          /\ "close stream" \in MarkedPcs \ {"close appends"}
      BY <2>1, Zenon DEF MarkedPcs
    <3>3. CloseMove(t)  BY <2>1, <2>2, <3>1, <3>2, Zenon DEF CloseMove
    <3>. QED  BY <2>1, <2>2, <3>1, <3>3, <1>OneCloses, <1>SameAnswered, <1>SameStatus, Zenon DEF CloseEffect
  <2>3. CASE ResultSet(t, "error")
    <3>1. \A h \in Handles : ResultGrows(h)  BY <2>3, Zenon DEF ResultSet, HandleBut, ResultGrows
    <3>. QED  BY <1>4, <2>1, <2>3, <3>1, Zenon DEF ResultSet, CloseEffect
  <2>. QED  BY <1>6, <2>2, <2>3, Zenon DEF CloseUploadDone
<1>7. ASSUME NEW t \in Threads, CloseStreamDone(t) PROVE CloseEffect
  <2>1. thread[t].pc \in MarkedPcs \ {"close appends"} /\ store' = store /\ answered' = answered
    BY <1>7, Zenon DEF CloseStreamDone, MarkedPcs
  <2>2. PICK r : ResultSet(t, r) /\ (r = "error" \/ Holds(H(t)))  BY <1>7, Zenon DEF CloseStreamDone
  <2>3. \A h \in Handles : ResultGrows(h)
    BY <1>7, <2>2, Zenon DEF CloseStreamDone, ResultSet, HandleBut, ResultGrows
  <2>. QED  BY <1>4, <2>1, <2>2, <2>3, Zenon DEF ResultSet, CloseEffect
<1>8. ASSUME NEW t \in Threads, DestroyMarkDone(t) PROVE CloseEffect
  <2>1. thread[t].pc \in MarkedPcs /\ thread[t].pc # "close appends"
        /\ "delete" \in MarkedPcs \ {"close appends", "close stream"} /\ Went(t, "delete", {})
    BY <1>8, Zenon DEF DestroyMarkDone, MarkedPcs
  <2>2. \A u \in Threads : CloseMove(u)  BY <2>1, <1>CloseGoes, Zenon
  <2>3. \A h \in Handles : ResultGrows(h)  BY <1>8, Zenon DEF DestroyMarkDone, HandleBut, ResultGrows
  <2>. QED  BY <1>8, <2>2, <2>3, <1>SameAnswered, Zenon DEF DestroyMarkDone, CloseEffect
<1>9. ASSUME NEW t \in Threads, ThreadDone(t) PROVE CloseEffect
  BY <1>1, <1>2, <1>3, <1>5, <1>6, <1>7, <1>8, <1>9, <1>CloseQuiet, Zenon DEF ThreadDone
<1>10. ASSUME thread' = thread, client' = client, answered' = answered, store.acked \subseteq store'.acked,
              \A h \in Handles : handle'[h].status = handle[h].status /\ handle'[h].result = handle[h].result
       PROVE  CloseEffect
  <2>1. \A t \in Threads : CloseMove(t)  BY <1>10, Zenon DEF CloseMove
  <2>2. AnsweredGrows  BY <1>10, Zenon DEF AnsweredGrows
  <2>. QED  BY <1>10, <2>1, <2>2, <1>SameStatus, Zenon DEF CloseEffect
<1>11. ASSUME AckDone \/ StoreFailsDone \/ UNCHANGED clientVars PROVE CloseEffect
  BY <1>10, <1>11, Zenon DEF AckDone, StoreFailsDone, clientVars
<1>12. ASSUME NEW s \in StreamIds, UploadDone(s) \/ FenceDone(s) PROVE CloseEffect
  BY <1>10, <1>12, Zenon DEF UploadDone, FenceDone
<1>13. ASSUME NEW n \in updates, NoticeDone(n) PROVE CloseEffect
  <2>1. \A h \in Handles : handle'[h].status = handle[h].status /\ handle'[h].result = handle[h].result
    BY <1>13, Zenon DEF NoticeDone, HandleBut
  <2>. QED  BY <1>10, <1>13, <2>1, Zenon DEF NoticeDone
<1>. QED  BY <1>9, <1>11, <1>12, <1>13, Zenon DEF ClientDone

\* A handle that is sealed stays so.
LEMMA SealedKept ==
  ASSUME CloseEffect, NEW h, Sealed(h), handle[h].status \subseteq handle'[h].status
  PROVE  Sealed(h)'
<1>1. "closed" \in handle'[h].status  BY Zenon DEF Sealed
<1>2. ASSUME NEW t \in Threads, thread'[t].h = h PROVE thread'[t].pc \notin {"reserve", "durable"}
  <2>1. CloseMove(t)  BY Zenon DEF CloseEffect
  <2>2. thread[t].h = h => thread[t].pc \notin {"reserve", "durable"}  BY Zenon DEF Sealed, H
  <2>3. thread[t].h = h => handle[H(t)].status # {}  BY Zenon DEF Sealed, H
  <2>. QED  BY <1>2, <2>1, <2>2, <2>3, Zenon DEF CloseMove, CloseWatched, MarkedPcs, AllFields
<1>. QED  BY <1>1, <1>2, Zenon DEF Sealed, H

\* The conjuncts of CloseInv about a thread that has marked its handle closed.
MarkedFits(t) ==
  /\ "closed" \in handle[H(t)].status
  /\ Forces(t) => H(t) \in client.forced
  /\ (thread[t].pc # "close appends" /\ H(t) \notin client.forced) => Sealed(H(t))
  /\ (thread[t].pc = "close stream" /\ H(t) \notin client.forced /\ Exists(StreamOf(H(t)))) =>
       \A r \in answered : r[1] = H(t) => r[2] < meta[StreamOf(H(t))].end

LEMMA MarkedKept ==
  ASSUME ClientTypeOK, ClientTypeOK', CallInv, Idles, CloseInv, plan' = plan, CloseEffect,
         \A s \in StreamIds : meta'[s].end >= meta[s].end /\ (Exists(s)' => Exists(s)),
         NEW t \in Threads, thread'[t].pc \in MarkedPcs
  PROVE  MarkedFits(t)'
<1>1. CloseMove(t) /\ AnsweredGrows  BY Zenon DEF CloseEffect
<1>2. PICK h : h = thread'[t].h  BY Zenon
<1>3. /\ thread[t].pc \in ClosePcs /\ thread'[t].h = thread[t].h /\ thread'[t].k = thread[t].k
  BY <1>1, Zenon DEF CloseMove, CloseWatched, MarkedPcs, ClosePcs, AllFields
<1>4. h \in Handles /\ h = H(t) /\ handle[h].exists  BY <1>2, <1>3, ThreadFacts, Zenon DEF CallFits, ClosePcs, Owned, H
<1>5. PICK s \in StreamIds : s = StreamOf(h) /\ s = StreamOf(h)'  BY <1>4, StreamFacts, Zenon DEF StreamOf
<1>6. handle[h].status \subseteq handle'[h].status  BY <1>4, Zenon DEF CloseEffect, ResultGrows
<1>7. Forces(t)' = Forces(t)
  <2>1. Kind(t)' = Kind(t)  BY <1>3, KindKept, Zenon
  <2>. QED  BY <2>1, Zenon DEF Forces
<1>8. client.forced \subseteq client'.forced  BY <1>1, Zenon DEF AnsweredGrows
<1>9. SUFFICES
        /\ "closed" \in handle'[h].status
        /\ Forces(t) => h \in client'.forced
        /\ (thread'[t].pc # "close appends" /\ h \notin client'.forced) => Sealed(h)'
        /\ (thread'[t].pc = "close stream" /\ h \notin client'.forced /\ Exists(s)') =>
             \A r \in answered' : r[1] = h => r[2] < meta'[s].end
  BY <1>2, <1>5, <1>7, Zenon DEF MarkedFits, H, Exists
<1>10. ASSUME thread[t].pc \in MarkedPcs
       PROVE  /\ "closed" \in handle[h].status
              /\ Forces(t) => h \in client.forced
              /\ (thread[t].pc # "close appends" /\ h \notin client.forced) => Sealed(h)
              /\ (thread[t].pc = "close stream" /\ h \notin client.forced /\ Exists(s)) =>
                   \A r \in answered : r[1] = h => r[2] < meta[s].end
  BY <1>4, <1>5, <1>10, Zenon DEF CloseInv
<1>11. ASSUME NEW r \in answered', r[1] = h, Sealed(h) PROVE r \in answered
  BY <1>1, <1>11, Zenon DEF AnsweredGrows, Sealed
<1>12. /\ \A r \in answered : r[2] \in Int
       /\ meta[s].end \in Int /\ meta'[s].end \in Int /\ meta'[s].end >= meta[s].end /\ (Exists(s)' => Exists(s))
  <2>1. \A r \in answered : r[2] \in Int  BY Zenon DEF ClientTypeOK
  <2>2. meta[s].end \in Int /\ meta'[s].end \in Int  BY DEF ClientTypeOK, MetaType
  <2>. QED  BY <2>1, <2>2, Zenon
<1>13. ASSUME NEW a \in Int, NEW b \in Int, NEW c \in Int, a < b, c >= b PROVE a < c  BY <1>13
<1>14. CASE \A f \in AllFields : thread'[t][f] = thread[t][f]
  <2>1. thread'[t].pc = thread[t].pc  BY <1>14, Zenon DEF AllFields
  <2>2. thread[t].pc \in MarkedPcs  BY <2>1, Zenon
  <2>3. (thread'[t].pc # "close appends" /\ h \notin client'.forced) => Sealed(h)'
    BY <1>6, <1>8, <1>10, <2>1, <2>2, SealedKept, Zenon
  <2>4. ASSUME thread'[t].pc = "close stream", h \notin client'.forced, Exists(s)',
               NEW r \in answered', r[1] = h
        PROVE  r[2] < meta'[s].end
    <3>1. Sealed(h)  BY <1>8, <1>10, <2>1, <2>2, <2>4, Zenon
    <3>2. r \in answered  BY <1>11, <2>4, <3>1, Zenon
    <3>3. r[2] < meta[s].end  BY <1>8, <1>10, <1>12, <2>1, <2>2, <2>4, <3>2, Zenon
    <3>. QED  BY <1>12, <1>13, <3>2, <3>3, Zenon
  <2>. QED  BY <1>6, <1>8, <1>10, <2>2, <2>3, <2>4, Zenon
<1>15. CASE /\ thread[t].pc = "close" /\ "closed" \in handle'[H(t)].status
            /\ H(t) \in client'.forced \/ (thread'[t].pc = "close appends" /\ ~Forces(t))
  BY <1>4, <1>15, Zenon
<1>16. CASE /\ thread[t].pc \in MarkedPcs /\ thread'[t].pc \in MarkedPcs \ {"close appends"}
            /\ thread[t].pc = "close appends" => handle[H(t)].appends = 0
            /\ thread'[t].pc = "close stream" => CommittedAll(StreamOf(H(t))) /\ answered' = answered
  <2>1. h \notin client'.forced => Sealed(h)
    <3>1. CASE thread[t].pc = "close appends"
      <4>1. AppendersOf(h) = {}  BY <1>4, <1>16, <3>1, Zenon DEF Idles
      <4>2. \A u \in Threads : H(u) = h => thread[u].pc \notin {"reserve", "durable"}
        BY <4>1, Zenon DEF AppendersOf, AppendPcs, H
      <4>. QED  BY <1>10, <1>16, <4>2, Zenon DEF Sealed
    <3>2. CASE thread[t].pc # "close appends"  BY <1>8, <1>10, <1>16, <3>2, Zenon
    <3>. QED  BY <3>1, <3>2, Zenon
  <2>2. h \notin client'.forced => Sealed(h)'  BY <1>6, <2>1, SealedKept, Zenon
  <2>3. ASSUME thread'[t].pc = "close stream", h \notin client'.forced, Exists(s)',
               NEW r \in answered', r[1] = h
        PROVE  r[2] < meta'[s].end
    <3>1. CommittedAll(s) /\ r \in answered /\ Exists(s)  BY <1>4, <1>5, <1>12, <1>16, <2>3, Zenon
    <3>2. r \in store.acked /\ r[2] \in Int  BY <1>12, <3>1, Zenon DEF CloseInv
    <3>3. r[2] + 1 \in EndsOf(s)  BY <1>5, <2>3, <3>2, Zenon DEF EndsOf
    <3>4. meta'[s].end >= r[2] + 1  BY <3>1, <3>3, Zenon DEF CommittedAll
    <3>. QED  BY <1>12, <3>2, <3>4
  <2>. QED  BY <1>6, <1>8, <1>10, <1>16, <2>2, <2>3, Zenon
<1>. QED  BY <1>1, <1>14, <1>15, <1>16, Zenon DEF CloseMove, CloseWatched, MarkedPcs

LEMMA CloseKept ==
  ASSUME ClientTypeOK, ClientTypeOK', CallInv, Idles, CloseInv, plan' = plan, ClientDone
  PROVE  CloseInv'
<1>1. CloseEffect  BY CloseEffects, Zenon
<1>2. \A s \in StreamIds : meta'[s].end >= meta[s].end /\ (Exists(s)' => Exists(s))
  <2>1. \A s \in StreamIds : Exists(s)' => Exists(s)  BY FetchEffects, Zenon DEF FetchEffect, MetaGrows, Exists
  <2>. QED  BY <2>1, EndsGrow, Zenon
<1>3. AnsweredGrows  BY <1>1, Zenon DEF CloseEffect
<1>4. answered' \subseteq store'.acked  BY <1>3, Zenon DEF CloseInv, AnsweredGrows
<1>5. \A t \in Threads : thread'[t].pc \in MarkedPcs => MarkedFits(t)'  BY <1>1, <1>2, MarkedKept, Zenon
<1>6. ASSUME NEW h \in Handles, handle'[h].result = "ok", h \notin client'.forced
      PROVE  /\ Sealed(h) /\ Sealed(h)'
             /\ \/ handle[h].result = "ok"
                \/ \E t \in Threads : thread[t].pc = "close stream" /\ H(t) = h /\ Holds(h)
  <2>1. ResultGrows(h) /\ h \notin client.forced  BY <1>1, <1>3, <1>6, Zenon DEF CloseEffect, AnsweredGrows
  <2>2. handle[h].status \subseteq handle'[h].status  BY <1>6, <2>1, Zenon DEF ResultGrows
  <2>3. \/ handle[h].result = "ok"
        \/ \E t \in Threads : thread[t].pc = "close stream" /\ H(t) = h /\ Holds(h)
    BY <1>6, <2>1, Zenon DEF ResultGrows
  <2>4. Sealed(h)
    <3>1. CASE handle[h].result = "ok"  BY <2>1, <3>1, Zenon DEF CloseInv
    <3>2. ASSUME NEW t \in Threads, thread[t].pc = "close stream", H(t) = h PROVE Sealed(h)
      BY <2>1, <3>2, Zenon DEF CloseInv, MarkedPcs
    <3>. QED  BY <2>3, <3>1, <3>2, Zenon
  <2>. QED  BY <1>1, <2>2, <2>3, <2>4, SealedKept, Zenon
<1>7. ASSUME NEW r \in answered', handle'[r[1]].result = "ok", r[1] \notin client'.forced
      PROVE  r[2] < meta'[StreamOf(r[1])].end
  <2>1. PICK h \in Handles : h = r[1]  BY Zenon DEF ClientTypeOK, Handles
  <2>2. PICK s \in StreamIds : s = StreamOf(h)  BY StreamFacts, Zenon
  <2>3. /\ Sealed(h)
        /\ \/ handle[h].result = "ok"
           \/ \E t \in Threads : thread[t].pc = "close stream" /\ H(t) = h /\ Holds(h)
    BY <1>6, <1>7, <2>1, Zenon
  <2>4. r \in answered  BY <1>3, <2>1, <2>3, Zenon DEF AnsweredGrows, Sealed
  <2>5. h \notin client.forced  BY <1>3, <1>7, <2>1, Zenon DEF AnsweredGrows
  <2>6. r[2] < meta[s].end
    <3>1. CASE handle[h].result = "ok"
      BY <2>1, <2>2, <2>4, <2>5, <3>1, Zenon DEF CloseInv, ClosedKeepsAnswered
    <3>2. ASSUME NEW t \in Threads, thread[t].pc = "close stream", H(t) = h, Holds(h) PROVE r[2] < meta[s].end
      <4>1. Exists(s)  BY <2>2, <3>2, Zenon DEF Holds
      <4>. QED  BY <2>1, <2>2, <2>4, <2>5, <3>2, <4>1, Zenon DEF CloseInv, MarkedPcs
    <3>. QED  BY <2>3, <3>1, <3>2, Zenon
  <2>7. meta'[s].end >= meta[s].end  BY <1>2, Zenon
  <2>8. r[2] \in Int /\ meta[s].end \in Int /\ meta'[s].end \in Int
    <3>1. r[2] \in Int  BY <2>4, Zenon DEF ClientTypeOK
    <3>. QED  BY <3>1 DEF ClientTypeOK, MetaType
  <2>9. r[2] < meta'[s].end  BY <2>6, <2>7, <2>8
  <2>. QED  BY <2>1, <2>2, <2>9, Zenon
<1>8. Handles' = Handles /\ \A h : StreamOf(h)' = StreamOf(h)  BY Zenon DEF Handles, StreamOf
<1>9. ClosedKeepsAnswered'  BY <1>7, <1>8, Zenon DEF ClosedKeepsAnswered
<1>10. \A h \in Handles' : (handle'[h].result = "ok" /\ h \notin client'.forced) => Sealed(h)'  BY <1>6, <1>8, Zenon
<1>. QED  BY <1>4, <1>5, <1>9, <1>10, Zenon DEF CloseInv, MarkedFits

=============================================================================

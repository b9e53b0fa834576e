-------------------------- MODULE ObjectWalContract --------------------------
(***************************************************************************)
(* ObjectWal keeps the contract of Wal: what its writers have sealed,      *)
(* answered, confirmed and trimmed, read as the state of a Wal.            *)
(***************************************************************************)
EXTENDS ObjectWal

\* The sealed bulks bs and the accumulating one, a, are the batches of a log.
BatchCount(bs, a) == Len(bs) + (IF a.size > 0 THEN 1 ELSE 0)
LogOf(bs, a) ==
  (UNION {{i} \X bs[i].recs : i \in DOMAIN bs}) \cup ({Len(bs) + 1} \X a.recs)
HasFailed(bs) == \E i \in DOMAIN bs : bs[i].st = "failed"

Contract == INSTANCE Wal WITH
  Writers  <- Epochs,
  Record   <- Rec,
  log      <- [e \in Epochs |-> LogOf(bulks[e], active[e])],
  batches  <- [e \in Epochs |-> BatchCount(bulks[e], active[e])],
  answered <- completed,
  failed   <- [e \in Epochs |-> HasFailed(bulks[e])],
  confirm  <- flushed,
  trimmed  <- completedTrim

\* The object WAL implements the WriteAheadLog contract: whatever order uploads
\* end in and whatever fails, appends are answered in the order they were placed,
\* the confirm offset moves only with an answer, nothing is confirmed after a
\* failure, and no trim that returns reached the confirm offset.
ImplementsWal == Contract!Spec
=============================================================================

------------------------ MODULE ObjectWalBucketProofs ------------------------
(***************************************************************************)
(* What ObjectWal keeps in the bucket: a confirmed bulk is there until a   *)
(* trim covers it, if the host hands out the epochs in order.  On top of   *)
(* the invariant of ObjectWalProofs this needs what may be deleted, and    *)
(* where a successor writes.                                               *)
(***************************************************************************)
EXTENDS ObjectWalProofs

-----------------------------------------------------------------------------
(* The invariant.                                                          *)

\* The states of a bulk that was PUT, and of one that was not.
Written == {"put", "ok", "err", "acked", "failed"}
Queued == {"waiting", "spawned"}

\* Of the bulks bs the callback loop has taken p and answered k.  It answers what it has
\* taken before it takes more, and confirms only what has landed.
Loop(bs, p, k, c, fd) ==
  /\ c = "idle" => k = p
  /\ \A i \in DOMAIN bs :
       /\ i <= p => bs[i].st \in {"ok", "err", "acked", "failed"}
       /\ bs[i].st = "err" => fd
       /\ (c = "ack" /\ i <= p) => bs[i].st \in {"ok", "acked"}

LoopInv(e) == Loop(bulks[e], popped[e], completed[e], cb[e], fenced[e])

\* A writer that has not recovered has nothing to write and trims nothing, and a trim
\* that has begun has raised the trim offset.
InUse(e) == status[e] \in {"recovered", "ready", "closed"}

UseInv(e) ==
  /\ ~InUse(e) => /\ bulks[e] = <<>> /\ active[e] = NoBulk
                  /\ \A c \in AllCallers : calls[e][c].pc = "idle"
  /\ \A c \in AllCallers : calls[e][c].pc # "idle" => calls[e][c].t <= trim[e]

\* Bulk i of epoch e is confirmed, or the callback loop is about to confirm it.
SureIn(bs, p, c, i) == bs[i].st = "acked" \/ (c = "ack" /\ i <= p)
Sure(e, i) == SureIn(bulks[e], popped[e], cb[e], i)

\* The objects are bulks that were PUT, and every listing is made of them.
SentInv ==
  /\ \A o \in sent : \E i \in DOMAIN bulks[o.ep] :
       bulks[o.ep][i].st \in Written /\ o = WalObjectOf(o.ep, bulks[o.ep][i])
  /\ store \subseteq sent /\ reaper \subseteq sent
  /\ \A e \in Epochs : /\ own[e] \subseteq sent /\ \A o \in own[e] : o.ep = e
                       /\ prev[e] \subseteq sent /\ \A o \in prev[e] : o.ep <= e

\* A PUT that was answered has landed.
LandedInv ==
  \A e \in Epochs : \A i \in DOMAIN bulks[e] :
    bulks[e][i].st \in {"ok", "acked"} => WalObjectOf(e, bulks[e][i]) \in store \cup reaper

\* The reservation is held by the newest epoch that has acquired it.
HeldInv == OrderedAcquire /\ NewerEpochWins

\* A trim of the writer or of a successor covers the object.
Trimmed(o) == \E f \in Epochs : f >= o.ep /\ o.last <= trim[f]

\* The writer has a successor, and will not confirm the object any more.
Lost(o) ==
  /\ \E g \in Epochs : g > o.ep /\ status[g] # "down"
  /\ \A i \in DOMAIN bulks[o.ep] : o = WalObjectOf(o.ep, bulks[o.ep][i]) => ~Sure(o.ep, i)

\* What is deleted is trimmed, or overlaps with what a successor wrote.
ReaperInv == \A o \in reaper : Trimmed(o) \/ Lost(o)

Opened(e) == HasListed(e) /\ status[e] # "failed"

\* Epoch g writes behind the offset x.
Behind(g, x) ==
  /\ \A j \in DOMAIN bulks[g] : bulks[g][j].base >= x
  /\ Opened(g) => next[g] >= x

\* A successor writes behind what is confirmed and not trimmed.
BehindInv ==
  \A e \in Epochs : \A i \in DOMAIN bulks[e] : \A g \in Epochs :
    (Sure(e, i) /\ g > e) =>
      Trimmed(WalObjectOf(e, bulks[e][i])) \/ Behind(g, EndOffset(bulks[e][i]))

BucketInv ==
  /\ \A e \in Epochs : LoopInv(e) /\ UseInv(e)
  /\ SentInv /\ LandedInv /\ HeldInv /\ ReaperInv /\ BehindInv

-----------------------------------------------------------------------------
(* Queues of bulks that grow.                                              *)

\* The bulks in bs may be taken to be uploaded; the ones behind them are new and
\* start at nx or past it.
Queues(bs, new, nx) ==
  /\ Len(new) >= Len(bs)
  /\ \A i \in DOMAIN bs :
       /\ new[i].base = bs[i].base /\ new[i].size = bs[i].size /\ new[i].recs = bs[i].recs
       /\ \/ new[i].st = bs[i].st /\ new[i].trim = bs[i].trim
          \/ bs[i].st \in Queued /\ new[i].st \in Queued
  /\ \A i \in DOMAIN new : i \notin DOMAIN bs => new[i].base >= nx /\ new[i].st \in Queued

-----------------------------------------------------------------------------
(* What a step may do to a writer.                                         *)

\* The bulks bs stay where they are, the ones that were PUT stay what they are, and
\* new ones start at nx or past it.
Onward(bs, new, nx) ==
  /\ DOMAIN bs \subseteq DOMAIN new
  /\ \A i \in DOMAIN bs :
       /\ new[i].base = bs[i].base /\ new[i].size = bs[i].size /\ new[i].recs = bs[i].recs
       /\ bs[i].st \in Written => new[i].st \in Written /\ new[i].trim = bs[i].trim
  /\ \A i \in DOMAIN new : i \notin DOMAIN bs => new[i].base >= nx /\ new[i].st \in Queued

\* The steps of a writer as its peers see them.
Sures(e) ==
  \A i \in DOMAIN bulks'[e] :
    Sure(e, i)' => i \in DOMAIN bulks[e] /\ (Sure(e, i) \/ reservation = e)

Forward(e) ==
  /\ trim'[e] >= trim[e]
  /\ status[e] # "down" => status'[e] # "down"
  /\ Opened(e) => next'[e] >= next[e]

Landed == {"ok", "acked"}

Lands(e) ==
  \A i \in DOMAIN bulks'[e] : bulks'[e][i].st \in Landed =>
    /\ i \in DOMAIN bulks[e]
    /\ \/ bulks[e][i].st \in Landed
       \/ bulks[e][i].st = "put" /\ WalObjectOf(e, bulks[e][i]) \in store \cup reaper

Advances(e) == Onward(bulks[e], bulks'[e], next[e]) /\ Sures(e) /\ Lands(e) /\ Forward(e)

Local(e) == LoopInv(e)' /\ UseInv(e)' /\ Advances(e)

\* What the lemmas below know of the types.
LEMMA BucketTypes ==
  ASSUME IInv, NEW e \in Epochs
  PROVE  /\ bulks[e] \in Seq(Bulk) /\ next[e] \in Nat /\ popped[e] \in Nat /\ completed[e] \in Nat
         /\ trim[e] \in Int /\ popped[e] <= Len(bulks[e])
BY Zenon DEF IInv, TypeOK, WriterInv

Same(e) ==
  /\ bulks'[e] = bulks[e] /\ active'[e] = active[e] /\ next'[e] = next[e]
  /\ popped'[e] = popped[e] /\ completed'[e] = completed[e] /\ cb'[e] = cb[e]
  /\ status'[e] = status[e] /\ calls'[e] = calls[e] /\ trim'[e] = trim[e]
  /\ fenced'[e] = fenced[e]

\* The writer that takes the step, if it is the step of a writer.
Steps(e) ==
  \/ Acquire(e) \/ StartVerify(e) \/ StartList(e) \/ Recover(e) \/ Ready(e)
  \/ SealActive(e) \/ Close(e) \/ \E s \in Streams : AppendRecord(e, s)
  \/ \E i \in DOMAIN bulks[e] : UploadBulk(e, i) \/ UploadOk(e, i) \/ UploadErr(e, i)
  \/ CallbackPop(e) \/ CallbackVerify(e) \/ CompleteBulk(e)
  \/ \E c \in AllCallers : TrimStart(e, c) \/ TrimStep(e, c)

\* A step is a step of one writer or of the bucket.
LEMMA StepKinds ==
  ASSUME [Next]_vars
  PROVE  \/ \E e \in Epochs : Steps(e)
         \/ \E o \in sent : PutLands(o)
         \/ \E o \in reaper : Reap(o)
         \/ UNCHANGED vars
BY Zenon DEF Next, WriterStep, Steps

\* A writer's step leaves the other writers alone.
LEMMA PeersSame ==
  ASSUME IInv, NEW e \in Epochs, Steps(e), NEW f \in Epochs, f # e
  PROVE  Same(f) /\ own'[f] = own[f] /\ prev'[f] = prev[f]
<1>0. /\ status \in [Epochs -> Statuses] /\ fenced \in [Epochs -> BOOLEAN]
      /\ bulks \in [Epochs -> Seq(Bulk)] /\ active \in [Epochs -> [recs : SUBSET Rec, size : Nat]]
      /\ next \in [Epochs -> Nat] /\ popped \in [Epochs -> Nat] /\ completed \in [Epochs -> Nat]
      /\ cb \in [Epochs -> {"idle", "verify", "ack", "fail"}] /\ trim \in [Epochs -> Int]
      /\ calls \in [Epochs -> [AllCallers -> [pc : CallStates, t : Int]]]
      /\ own \in [Epochs -> SUBSET WalObject] /\ prev \in [Epochs -> SUBSET WalObject]
  BY Zenon DEF IInv, TypeOK
<1> USE DEF Same, bucketVars, openVars, offsetVars, loopVars, trimVars
<1>1. CASE Acquire(e) \/ StartVerify(e) BY <1>0, <1>1, Zenon DEF Acquire, StartVerify
<1>2. CASE StartList(e)
  <2>1. \/ prev' = prev /\ next' = next
        \/ \E x, y : prev' = [prev EXCEPT ![e] = x] /\ next' = [next EXCEPT ![e] = y]
    BY <1>2, Zenon DEF StartList
  <2>2. prev'[f] = prev[f] /\ next'[f] = next[f] BY <1>0, <2>1, Zenon
  <2>3. status'[f] = status[f] /\ fenced'[f] = fenced[f]
    <3>1. status' = [status EXCEPT ![e] = "open"] \/ status' = [status EXCEPT ![e] = "failed"]
      BY <1>2, Zenon DEF StartList
    <3>2. fenced' = fenced \/ fenced' = [fenced EXCEPT ![e] = TRUE] BY <1>2, Zenon DEF StartList
    <3>. QED BY <1>0, <3>1, <3>2, Zenon
  <2>. QED BY <1>2, <2>2, <2>3, Zenon DEF StartList
<1>3. CASE Recover(e) \/ Ready(e)
  <2>1. \E x : status' = [status EXCEPT ![e] = x] BY <1>3, Zenon DEF Recover, Ready
  <2>2. status'[f] = status[f] BY <1>0, <2>1, Zenon
  <2>. QED BY <1>3, <2>2, Zenon DEF Recover, Ready
<1>4. ASSUME seal_active(e) PROVE next'[f] = next[f] /\ bulks'[f] = bulks[f] /\ active'[f] = active[f]
  BY <1>0, <1>4, Zenon DEF seal_active
<1>5. CASE SealActive(e) BY <1>4, <1>5, Zenon DEF SealActive
<1>6. CASE Close(e) BY <1>0, <1>4, <1>6, Zenon DEF Close
<1>7. ASSUME NEW r, Submit(e, r)
      PROVE  next'[f] = next[f] /\ bulks'[f] = bulks[f] /\ active'[f] = active[f]
  <2>1. \E x : next' = [next EXCEPT ![e] = x] BY <1>7, Zenon DEF Submit
  <2>2. \E x : bulks' = [bulks EXCEPT ![e] = x] BY <1>7, Zenon DEF Submit
  <2>3. \E x : active' = [active EXCEPT ![e] = x] BY <1>7, Zenon DEF Submit
  <2>. QED BY <1>0, <2>1, <2>2, <2>3, Zenon
<1>8. CASE \E s \in Streams : AppendRecord(e, s) BY <1>7, <1>8, Zenon DEF AppendRecord
<1>9. ASSUME NEW i \in DOMAIN bulks[e], UploadBulk(e, i) \/ UploadOk(e, i) \/ UploadErr(e, i)
      PROVE  Same(f) /\ own'[f] = own[f] /\ prev'[f] = prev[f]
  <2>1. CASE UploadBulk(e, i) BY <1>0, <2>1, Zenon DEF UploadBulk
  <2>2. CASE UploadOk(e, i) BY <1>0, <2>2, Zenon DEF UploadOk
  <2>3. CASE UploadErr(e, i) BY <1>0, <2>3, Zenon DEF UploadErr
  <2>. QED BY <1>9, <2>1, <2>2, <2>3, Zenon
<1>10. CASE CallbackPop(e) BY <1>0, <1>10, Zenon DEF CallbackPop
<1>11. CASE CallbackVerify(e) BY <1>0, <1>11, Zenon DEF CallbackVerify
<1>12. CASE CompleteBulk(e) BY <1>0, <1>12, Zenon DEF CompleteBulk
<1>13. ASSUME NEW c \in AllCallers, TrimStart(e, c) \/ TrimStep(e, c)
       PROVE  Same(f) /\ own'[f] = own[f] /\ prev'[f] = prev[f]
  <2>1. \E pc, t : calls' = [calls EXCEPT ![e][c] = [pc |-> pc, t |-> t]]
    BY <1>13, Zenon DEF TrimStart, TrimStep, TrimSubmit, TrimDelete, TrimFails, TrimDone,
                        TrimWaited, SetCall
  <2>2. calls'[f] = calls[f] BY <1>0, <2>1, Zenon
  <2>3. CASE TrimStart(e, c) BY <1>0, <2>2, <2>3, Zenon DEF TrimStart
  <2>4. CASE TrimSubmit(e, c)
    <3>1. next'[f] = next[f] /\ bulks'[f] = bulks[f] /\ active'[f] = active[f]
      BY <1>7, <2>4, Zenon DEF TrimSubmit
    <3>. QED BY <2>2, <2>4, <3>1, Zenon DEF TrimSubmit
  <2>5. CASE TrimDelete(e, c) BY <1>0, <2>2, <2>5, Zenon DEF TrimDelete
  <2>6. CASE TrimFails(e, c) \/ TrimDone(e, c) \/ TrimWaited(e, c)
    BY <2>2, <2>6, Zenon DEF TrimFails, TrimDone, TrimWaited
  <2>. QED BY <1>13, <2>3, <2>4, <2>5, <2>6, Zenon DEF TrimStep
<1>. QED
  BY <1>1, <1>2, <1>3, <1>5, <1>6, <1>8, <1>9, <1>10, <1>11, <1>12, <1>13, Zenon DEF Steps

\* Every step, as every writer sees it.
LEMMA LocalStep ==
  /\ IInv /\ IInv' /\ [Next]_vars
  /\ \A e \in Epochs : LoopInv(e) /\ UseInv(e)
  => \A f \in Epochs : Local(f)
\* A queue continues itself.
<1>QueuesSelf. ASSUME NEW bs \in Seq(Bulk), NEW nx \in Nat
      PROVE  Queues(bs, bs, nx)
  BY <1>QueuesSelf DEF Queues
\* Growing twice, the second time from an offset no lower.
<1>QueuesTwice. ASSUME NEW a \in Seq(Bulk), NEW b \in Seq(Bulk), NEW c \in Seq(Bulk),
             NEW x \in Nat, NEW y \in Nat, x <= y, Queues(a, b, x), Queues(b, c, y)
      PROVE  Queues(a, c, x)
  <2> USE <1>QueuesTwice
  <2>1. /\ Len(a) \in Nat /\ Len(b) \in Nat /\ Len(c) \in Nat
        /\ DOMAIN a = 1 .. Len(a) /\ DOMAIN b = 1 .. Len(b) /\ DOMAIN c = 1 .. Len(c)
    OBVIOUS
  <2>2. Len(b) >= Len(a) /\ Len(c) >= Len(b) BY Zenon DEF Queues
  <2>3. Len(c) >= Len(a) BY <2>1, <2>2
  <2>4. ASSUME NEW i \in DOMAIN a
        PROVE  /\ c[i].base = a[i].base /\ c[i].size = a[i].size /\ c[i].recs = a[i].recs
               /\ \/ c[i].st = a[i].st /\ c[i].trim = a[i].trim
                  \/ a[i].st \in Queued /\ c[i].st \in Queued
    <3>1. i \in DOMAIN b BY <2>1, <2>2
    <3>. QED BY <3>1, Zenon DEF Queues
  <2>5. ASSUME NEW i \in DOMAIN c, i \notin DOMAIN a PROVE c[i].base >= x /\ c[i].st \in Queued
    <3>1. CASE i \in DOMAIN b
      <4>1. b[i].base >= x /\ b[i].st \in Queued BY <2>5, <3>1, Zenon DEF Queues
      <4>2. c[i].base = b[i].base /\ (c[i].st = b[i].st \/ c[i].st \in Queued)
        BY <3>1, Zenon DEF Queues
      <4>. QED BY <4>1, <4>2, Zenon
    <3>2. CASE i \notin DOMAIN b
      <4>1. c[i].base >= y /\ c[i].st \in Queued BY <3>2, Zenon DEF Queues
      <4>2. c[i].base \in Nat
        <5>1. c[i] \in Bulk BY ElementType, Zenon
        <5>. QED BY <5>1, Zenon DEF Bulk
      <4>. QED BY <4>1, <4>2
    <3>. QED BY <3>1, <3>2, Zenon
  <2>. QED BY <2>3, <2>4, <2>5, Zenon DEF Queues
\* A sealed bulk goes behind the others (seal_active).
<1>QueuesAppend. ASSUME NEW bs \in Seq(Bulk), NEW base \in Nat,
             NEW b \in [recs : SUBSET Rec, size : Nat], b.size > 0
      PROVE  /\ Append(bs, Sealed(base, b)) \in Seq(Bulk)
             /\ Queues(bs, Append(bs, Sealed(base, b)), base)
  <2> USE <1>QueuesAppend
  <2> DEFINE s == Sealed(base, b)
             new == Append(bs, s)
  <2>1. s \in Bulk BY SealedType, Zenon
  <2>2. s.base = base /\ s.st \in Queued BY Zenon DEF Sealed, Queued
  <2> HIDE DEF s
  <2>3. /\ Len(bs) \in Nat /\ DOMAIN bs = 1 .. Len(bs)
        /\ Len(new) = Len(bs) + 1 /\ DOMAIN new = 1 .. (Len(bs) + 1)
        /\ new[Len(bs) + 1] = s /\ \A i \in 1 .. Len(bs) : new[i] = bs[i]
        /\ new \in Seq(Bulk)
    BY <2>1
  <2> HIDE DEF new
  <2>4. \A i \in DOMAIN new : i \notin DOMAIN bs => new[i] = s BY <2>3
  <2>5. Queues(bs, new, base)
    <3>1. Len(new) >= Len(bs) BY <2>3
    <3>2. \A i \in DOMAIN new : i \notin DOMAIN bs => new[i].base >= base /\ new[i].st \in Queued
      BY <2>2, <2>4
    <3>. QED BY <2>3, <3>1, <3>2, Zenon DEF Queues
  <2>. QED BY <2>3, <2>5, Zenon DEF new, s
\* Bulks are taken to be uploaded (try_upload_waiting).
<1>QueuesUpload. ASSUME NEW bs \in Seq(Bulk), NEW taken \in Nat, NEW nx \in Nat
      PROVE  /\ try_upload_waiting(bs, taken) \in Seq(Bulk)
             /\ Queues(bs, try_upload_waiting(bs, taken), nx)
  <2> USE <1>QueuesUpload
  <2> DEFINE new == try_upload_waiting(bs, taken)
  <2>1. /\ new \in Seq(Bulk) /\ Len(new) = Len(bs) /\ DOMAIN new = DOMAIN bs
        /\ \A i \in DOMAIN bs :
             /\ new[i].base = bs[i].base /\ new[i].size = bs[i].size /\ new[i].recs = bs[i].recs
             /\ \/ new[i].st = bs[i].st
                \/ bs[i].st = "waiting" /\ new[i].st = "spawned"
    BY UploadWaiting
  <2>2. ASSUME NEW i \in DOMAIN bs
        PROVE  \/ new[i].st = bs[i].st /\ new[i].trim = bs[i].trim
               \/ bs[i].st \in Queued /\ new[i].st \in Queued
    <3>1. CASE bs[i].st = "waiting" BY <2>1, <3>1, Zenon DEF Queued
    <3>2. CASE bs[i].st # "waiting"
      <4>1. new[i] = bs[i] BY <3>2, Zenon DEF try_upload_waiting
      <4>. QED BY <4>1, Zenon
    <3>. QED BY <3>1, <3>2, Zenon
  <2> HIDE DEF new
  <2>3. Len(bs) \in Nat OBVIOUS
  <2>4. Len(new) >= Len(bs) BY <2>1, <2>3
  <2>5. Queues(bs, new, nx) BY <2>1, <2>2, <2>4, Zenon DEF Queues
  <2>. QED BY <2>1, <2>5, Zenon DEF new
\* A bulk is sealed, and bulks are taken to be uploaded.
<1>QueuesSealed. ASSUME NEW bs \in Seq(Bulk), NEW base \in Nat, NEW taken \in Nat,
             NEW b \in [recs : SUBSET Rec, size : Nat], b.size > 0
      PROVE  Queues(bs, try_upload_waiting(Append(bs, Sealed(base, b)), taken), base)
  <2> USE <1>QueuesSealed
  <2> DEFINE q == Append(bs, Sealed(base, b))
             new == try_upload_waiting(q, taken)
  <2>1. q \in Seq(Bulk) /\ Queues(bs, q, base) BY <1>QueuesAppend, Zenon
  <2> HIDE DEF q
  <2>2. new \in Seq(Bulk) /\ Queues(q, new, base) BY <2>1, <1>QueuesUpload, Zenon
  <2> HIDE DEF new
  <2>3. Queues(bs, new, base) BY <2>1, <2>2, <1>QueuesTwice
  <2>. QED BY <2>3, Zenon DEF new, q
\* seal_active as a whole.
<1>SealQueues. ASSUME TypeOK, NEW e \in Epochs, active[e].size > 0, seal_active(e)
      PROVE  Queues(bulks[e], bulks'[e], next[e]) /\ next'[e] >= next[e]
  <2> USE <1>SealQueues
  <2>1. /\ bulks[e] \in Seq(Bulk) /\ next[e] \in Nat /\ popped[e] \in Nat
        /\ active[e] \in [recs : SUBSET Rec, size : Nat] /\ active[e].size \in Nat
        /\ bulks \in [Epochs -> Seq(Bulk)] /\ next \in [Epochs -> Nat]
    BY Zenon DEF TypeOK
  <2>2. /\ bulks'[e] = try_upload_waiting(Append(bulks[e], Sealed(next[e], active[e])), popped[e])
        /\ next'[e] = ceil_align_offset(next[e] + active[e].size)
    BY <2>1, Zenon DEF seal_active, SealedTo
  <2>3. next'[e] >= next[e]
    <3> DEFINE x == next[e]  s == active[e].size  y == ceil_align_offset(x + s)
    <3>1. x \in Nat /\ s \in Nat BY <2>1, Zenon
    <3> HIDE DEF x, s
    <3>2. x + s \in Nat BY <3>1
    <3>3. y \in Nat /\ y >= x + s BY <3>2, CeilAlign, Zenon
    <3> HIDE DEF y
    <3>4. y >= x BY <3>1, <3>3
    <3>. QED BY <2>2, <3>4, Zenon DEF y, x, s
  <2>. QED BY <2>1, <2>2, <2>3, <1>QueuesSealed, Zenon
\* Where submit puts a record.
<1>BaseGrows. ASSUME TypeOK, NEW e \in Epochs, NEW r \in Rec
      PROVE  /\ BaseFor(e) >= next[e]
             /\ ceil_align_offset(BaseFor(e) + BulkWith(e, r).size) >= next[e]
             /\ Queues(bulks[e], QueueFor(e), next[e])
  <2> USE <1>BaseGrows
  <2>1. /\ bulks[e] \in Seq(Bulk) /\ next[e] \in Nat
        /\ active[e] \in [recs : SUBSET Rec, size : Nat] /\ active[e].size \in Nat
    BY Zenon DEF TypeOK
  <2>2. BaseFor(e) \in Nat /\ BulkWith(e, r).size \in Nat BY PlaceTyped, Zenon
  <2>3. BaseFor(e) >= next[e] /\ Queues(bulks[e], QueueFor(e), next[e])
    <3>1. CASE Fits(e)
      <4>1. BaseFor(e) = next[e] /\ QueueFor(e) = bulks[e] BY <3>1, Zenon DEF BaseFor, QueueFor
      <4>. QED BY <2>1, <4>1, <1>QueuesSelf
    <3>2. CASE ~Fits(e)
      <4>1. /\ BaseFor(e) = ceil_align_offset(next[e] + active[e].size)
            /\ QueueFor(e) = Append(bulks[e], Sealed(next[e], active[e]))
        BY <3>2, Zenon DEF BaseFor, QueueFor, SealedTo
      <4>2. active[e].size > 0 BY <2>1, <3>2, ConstantsAssumption DEF Fits
      <4>3. Queues(bulks[e], QueueFor(e), next[e]) BY <2>1, <4>1, <4>2, <1>QueuesAppend, Zenon
      <4> DEFINE x == next[e]  s == active[e].size  y == ceil_align_offset(x + s)
      <4>4. x \in Nat /\ s \in Nat BY <2>1, Zenon
      <4> HIDE DEF x, s
      <4>5. x + s \in Nat BY <4>4
      <4>6. y \in Nat /\ y >= x + s BY <4>5, CeilAlign, Zenon
      <4> HIDE DEF y
      <4>7. y >= x BY <4>4, <4>6
      <4>. QED BY <4>1, <4>3, <4>7, Zenon DEF y, x, s
    <3>. QED BY <3>1, <3>2, Zenon
  <2> DEFINE x == next[e]  b == BaseFor(e)  s == BulkWith(e, r).size  y == ceil_align_offset(b + s)
  <2>4. x \in Nat /\ b \in Nat /\ s \in Nat /\ b >= x BY <2>1, <2>2, <2>3, Zenon
  <2> HIDE DEF x, b, s
  <2>5. b + s \in Nat BY <2>4
  <2>6. y \in Nat /\ y >= b + s BY <2>5, CeilAlign
  <2> HIDE DEF y
  <2>7. y >= x BY <2>4, <2>6
  <2>. QED BY <2>3, <2>7, Zenon DEF y, b, s, x
\* The locked section of submit as a whole.
<1>SubmitQueues. ASSUME TypeOK, NEW e \in Epochs, NEW r \in Rec, Submit(e, r)
      PROVE  Queues(bulks[e], bulks'[e], next[e]) /\ next'[e] >= next[e]
  <2> USE <1>SubmitQueues
  <2>1. /\ bulks[e] \in Seq(Bulk) /\ next[e] \in Nat /\ popped[e] \in Nat
        /\ bulks \in [Epochs -> Seq(Bulk)] /\ next \in [Epochs -> Nat]
    BY Zenon DEF TypeOK
  <2>2. /\ BaseFor(e) \in Nat /\ QueueFor(e) \in Seq(Bulk)
        /\ BulkWith(e, r) \in [recs : SUBSET Rec, size : Nat] /\ BulkWith(e, r).size > 0
    BY PlaceTyped, Zenon
  <2>3. /\ BaseFor(e) >= next[e]
        /\ ceil_align_offset(BaseFor(e) + BulkWith(e, r).size) >= next[e]
        /\ Queues(bulks[e], QueueFor(e), next[e])
    BY <1>BaseGrows, Zenon
  <2>4. CASE SealsAtOnce(e, r)
    <3> DEFINE q == QueueFor(e)  b == BulkWith(e, r)
               new == try_upload_waiting(Append(q, Sealed(BaseFor(e), b)), popped[e])
    <3>1. bulks'[e] = new /\ next'[e] = ceil_align_offset(BaseFor(e) + b.size)
      BY <2>1, <2>4, Zenon DEF Submit
    <3>2. Queues(q, new, BaseFor(e)) BY <2>1, <2>2, <1>QueuesSealed, Zenon
    <3>3. new \in Seq(Bulk)
      <4>1. Append(q, Sealed(BaseFor(e), b)) \in Seq(Bulk) BY <2>2, <1>QueuesAppend, Zenon
      <4>. QED BY <2>1, <4>1, <1>QueuesUpload, Zenon
    <3>4. next[e] <= BaseFor(e) BY <2>1, <2>2, <2>3, Zenon
    <3> HIDE DEF new, q, b
    <3>5. q \in Seq(Bulk) /\ Queues(bulks[e], q, next[e]) BY <2>2, <2>3, Zenon DEF q
    <3>6. Queues(bulks[e], new, next[e]) BY <2>1, <2>2, <3>2, <3>3, <3>4, <3>5, <1>QueuesTwice, Zenon
    <3>7. next'[e] >= next[e] BY <2>3, <3>1, Zenon DEF b
    <3>. QED BY <3>1, <3>6, <3>7, Zenon
  <2>5. CASE ~SealsAtOnce(e, r)
    <3>1. bulks'[e] = QueueFor(e) /\ next'[e] = BaseFor(e) BY <2>1, <2>5, Zenon DEF Submit
    <3>. QED BY <2>3, <3>1, Zenon
  <2>. QED BY <2>4, <2>5, Zenon
\* A queue that grows leaves the loop alone (seal_active, submit).
<1>LoopQueues. ASSUME NEW bs \in Seq(Bulk), NEW new \in Seq(Bulk), NEW nx, NEW p \in Nat, NEW k, NEW c, NEW fd,
             p <= Len(bs), Queues(bs, new, nx), Loop(bs, p, k, c, fd)
      PROVE  Loop(new, p, k, c, fd)
  <2> USE <1>LoopQueues
  <2>1. c = "idle" => k = p BY Zenon DEF Loop
  <2>2. ASSUME NEW i \in DOMAIN new
        PROVE  /\ i <= p => new[i].st \in {"ok", "err", "acked", "failed"}
               /\ new[i].st = "err" => fd
               /\ (c = "ack" /\ i <= p) => new[i].st \in {"ok", "acked"}
    <3>1. CASE i \in DOMAIN bs
      <4>1. new[i].st = bs[i].st \/ (bs[i].st \in Queued /\ new[i].st \in Queued)
        BY <3>1, Zenon DEF Queues
      <4>2. /\ i <= p => bs[i].st \in {"ok", "err", "acked", "failed"}
            /\ bs[i].st = "err" => fd
            /\ (c = "ack" /\ i <= p) => bs[i].st \in {"ok", "acked"}
        BY <3>1, Zenon DEF Loop
      <4>. QED BY <4>1, <4>2, Zenon DEF Queued
    <3>2. CASE i \notin DOMAIN bs
      <4>1. new[i].st \in Queued BY <3>2, Zenon DEF Queues
      <4>2. Len(bs) \in Nat /\ DOMAIN bs = 1 .. Len(bs) /\ DOMAIN new = 1 .. Len(new) /\ Len(new) \in Nat
        OBVIOUS
      <4>3. ~(i <= p) BY <3>2, <4>2
      <4>. QED BY <4>1, <4>3, Zenon DEF Queued
    <3>. QED BY <3>1, <3>2, Zenon
  <2>. QED BY <2>1, <2>2, Zenon DEF Loop
\* The finished bulks are taken (callback_loop).
<1>LoopPop. ASSUME NEW bs \in Seq(Bulk), NEW new \in Seq(Bulk), NEW nx, NEW p \in Nat, NEW k, NEW fd,
             NEW n \in p + 1 .. Len(bs), \A i \in p + 1 .. n : Finished(bs[i]),
             Queues(bs, new, nx), Loop(bs, p, k, "idle", fd)
      PROVE  Loop(new, n, k, "verify", fd)
  <2> USE <1>LoopPop
  <2>1. Len(bs) \in Nat /\ DOMAIN bs = 1 .. Len(bs) OBVIOUS
  <2>2. n \in Nat /\ n <= Len(bs) BY <2>1
  <2>3. Loop(bs, n, k, "verify", fd)
    <3> SUFFICES ASSUME NEW i \in DOMAIN bs
                 PROVE  /\ i <= n => bs[i].st \in {"ok", "err", "acked", "failed"}
                        /\ bs[i].st = "err" => fd
      BY Zenon DEF Loop
    <3>1. bs[i].st = "err" => fd BY Zenon DEF Loop
    <3>2. ASSUME i <= n PROVE bs[i].st \in {"ok", "err", "acked", "failed"}
      <4>1. CASE i <= p BY <4>1, Zenon DEF Loop
      <4>2. CASE ~(i <= p)
        <5>1. i \in p + 1 .. n BY <2>1, <2>2, <3>2, <4>2
        <5>. QED BY <5>1, Zenon DEF Finished
      <4>. QED BY <4>1, <4>2, Zenon
    <3>. QED BY <3>1, <3>2, Zenon
  <2>. QED BY <2>2, <2>3, <1>LoopQueues, Zenon
\* The reservation was checked (callback_loop, verify).
<1>LoopVerify. ASSUME NEW bs \in Seq(Bulk), NEW p, NEW k, NEW fd, Loop(bs, p, k, "verify", fd)
      PROVE  /\ (~fd /\ NoneFailed(bs)) => Loop(bs, p, k, "ack", fd)
             /\ Loop(bs, p, k, "fail", TRUE)
  <2> USE <1>LoopVerify
  <2>1. ASSUME ~fd, NoneFailed(bs), NEW i \in DOMAIN bs, i <= p PROVE bs[i].st \in {"ok", "acked"}
    <3>1. bs[i].st \in {"ok", "err", "acked", "failed"} /\ bs[i].st # "err" BY <2>1, Zenon DEF Loop
    <3>2. bs[i].st # "failed" BY <2>1, Zenon DEF NoneFailed
    <3>. QED BY <3>1, <3>2, Zenon
  <2>. QED BY <2>1, Zenon DEF Loop
\* One bulk of the ones taken is answered (complete_bulk).
<1>LoopAnswers. ASSUME NEW bs \in Seq(Bulk), NEW new, NEW p \in Nat, NEW k \in Nat, NEW fd, NEW c, NEW b, NEW d,
             k + 1 \in DOMAIN bs, new = [bs EXCEPT ![k + 1] = b],
             \/ c = "ack" /\ b.st = "acked"
             \/ c = "fail" /\ b.st = "failed",
             d = IF k + 1 = p THEN "idle" ELSE c,
             Loop(bs, p, k, c, fd)
      PROVE  Loop(new, p, k + 1, d, fd)
  <2> USE <1>LoopAnswers
  <2>1. DOMAIN new = DOMAIN bs /\ \A j \in DOMAIN bs : new[j] = IF j = k + 1 THEN b ELSE bs[j]
    BY Zenon
  <2>2. d = "idle" => k + 1 = p BY Zenon
  <2>3. ASSUME NEW i \in DOMAIN new
        PROVE  /\ i <= p => new[i].st \in {"ok", "err", "acked", "failed"}
               /\ new[i].st = "err" => fd
               /\ (d = "ack" /\ i <= p) => new[i].st \in {"ok", "acked"}
    <3>1. CASE i = k + 1
      <4>1. new[i] = b BY <2>1, <3>1, Zenon
      <4>2. d = "ack" => c = "ack" BY Zenon
      <4>. QED BY <4>1, <4>2, Zenon
    <3>2. CASE i # k + 1
      <4>1. new[i] = bs[i] BY <2>1, <3>2, Zenon
      <4>2. d = "ack" => c = "ack" OBVIOUS
      <4>. QED BY <2>1, <4>1, <4>2, Zenon DEF Loop
    <3>. QED BY <3>1, <3>2, Zenon
  <2>. QED BY <2>2, <2>3, Zenon DEF Loop
\* A bulk that was not taken moves on (upload_bulk).
<1>LoopMoves. ASSUME NEW bs \in Seq(Bulk), NEW new, NEW p \in Nat, NEW k, NEW fd, NEW gd, NEW c, NEW b,
             NEW i \in DOMAIN bs, new = [bs EXCEPT ![i] = b],
             bs[i].st \in {"spawned", "put"}, b.st \in {"put", "ok", "err"},
             fd => gd, b.st = "err" => gd, Loop(bs, p, k, c, fd)
      PROVE  Loop(new, p, k, c, gd)
  <2> USE <1>LoopMoves
  <2>1. DOMAIN new = DOMAIN bs /\ \A j \in DOMAIN bs : new[j] = IF j = i THEN b ELSE bs[j]
    BY Zenon
  <2>2. ~(i <= p) BY Zenon DEF Loop
  <2>3. ASSUME NEW j \in DOMAIN new
        PROVE  /\ j <= p => new[j].st \in {"ok", "err", "acked", "failed"}
               /\ new[j].st = "err" => gd
               /\ (c = "ack" /\ j <= p) => new[j].st \in {"ok", "acked"}
    <3>1. CASE j = i
      <4>1. new[j] = b BY <2>1, <3>1, Zenon
      <4>. QED BY <2>2, <3>1, <4>1, Zenon
    <3>2. CASE j # i
      <4>1. new[j] = bs[j] BY <2>1, <3>2, Zenon
      <4>. QED BY <2>1, <4>1, Zenon DEF Loop
    <3>. QED BY <3>1, <3>2, Zenon
  <2>. QED BY <2>3, Zenon DEF Loop
\* A queue that grows moves on.
<1>QueuesOnward. ASSUME NEW bs \in Seq(Bulk), NEW new \in Seq(Bulk), NEW nx, Queues(bs, new, nx)
      PROVE  Onward(bs, new, nx)
  <2> USE <1>QueuesOnward
  <2>1. DOMAIN bs = 1 .. Len(bs) /\ DOMAIN new = 1 .. Len(new) /\ Len(bs) \in Nat /\ Len(new) \in Nat
    OBVIOUS
  <2>2. DOMAIN bs \subseteq DOMAIN new BY <2>1 DEF Queues
  <2>3. \A i \in DOMAIN bs : bs[i].st \in Written => new[i].st \in Written /\ new[i].trim = bs[i].trim
    BY Zenon DEF Queues, Queued, Written
  <2>. QED BY <2>2, <2>3, Zenon DEF Onward, Queues
\* One bulk moves on.
<1>MovesOnward. ASSUME NEW bs \in Seq(Bulk), NEW new, NEW nx, NEW i \in DOMAIN bs, NEW b,
             new = [bs EXCEPT ![i] = b],
             b.base = bs[i].base, b.size = bs[i].size, b.recs = bs[i].recs,
             bs[i].st \in Written => b.st \in Written /\ b.trim = bs[i].trim
      PROVE  Onward(bs, new, nx)
  <2> USE <1>MovesOnward
  <2>1. DOMAIN new = DOMAIN bs /\ \A j \in DOMAIN bs : new[j] = IF j = i THEN b ELSE bs[j]
    BY Zenon
  <2>2. ASSUME NEW j \in DOMAIN bs
        PROVE  /\ new[j].base = bs[j].base /\ new[j].size = bs[j].size /\ new[j].recs = bs[j].recs
               /\ bs[j].st \in Written => new[j].st \in Written /\ new[j].trim = bs[j].trim
    <3>1. CASE j = i
      <4>1. new[j] = b BY <2>1, <3>1, Zenon
      <4>. QED BY <3>1, <4>1, Zenon
    <3>2. CASE j # i
      <4>1. new[j] = bs[j] BY <2>1, <3>2, Zenon
      <4>. QED BY <4>1, Zenon
    <3>. QED BY <3>1, <3>2, Zenon
  <2>. QED BY <2>1, <2>2, Zenon DEF Onward
\* What is sure in a queue that grew was sure before.
<1>SureQueues. ASSUME NEW bs \in Seq(Bulk), NEW new \in Seq(Bulk), NEW nx, NEW p \in Nat, NEW c,
             p <= Len(bs), Queues(bs, new, nx), NEW i \in DOMAIN new, SureIn(new, p, c, i)
      PROVE  i \in DOMAIN bs /\ SureIn(bs, p, c, i)
  <2> USE <1>SureQueues
  <2>1. DOMAIN bs = 1 .. Len(bs) /\ DOMAIN new = 1 .. Len(new) /\ Len(bs) \in Nat /\ Len(new) \in Nat
    OBVIOUS
  <2>2. i <= p => i \in DOMAIN bs BY <2>1
  <2>3. i \notin DOMAIN bs => new[i].st \in Queued BY Zenon DEF Queues
  <2>4. i \in DOMAIN bs => new[i].st = bs[i].st \/ (bs[i].st \in Queued /\ new[i].st \in Queued)
    BY Zenon DEF Queues
  <2>. QED BY <2>2, <2>3, <2>4, Zenon DEF SureIn, Queued
\* ... and what has landed had landed before.
<1>LandedQueues. ASSUME NEW bs \in Seq(Bulk), NEW new \in Seq(Bulk), NEW nx, Queues(bs, new, nx),
             NEW i \in DOMAIN new, new[i].st \in {"ok", "acked"}
      PROVE  i \in DOMAIN bs /\ bs[i].st = new[i].st
  <2> USE <1>LandedQueues
  <2>1. i \notin DOMAIN bs => new[i].st \in Queued BY Zenon DEF Queues
  <2>2. i \in DOMAIN bs => new[i].st = bs[i].st \/ (bs[i].st \in Queued /\ new[i].st \in Queued)
    BY Zenon DEF Queues
  <2>. QED BY <2>1, <2>2, Zenon DEF Queued
\* The same when one bulk moves on without being answered, or is confirmed in its turn.
<1>SureMoves. ASSUME NEW bs \in Seq(Bulk), NEW new, NEW p, NEW c, NEW d, NEW i \in DOMAIN bs, NEW b,
             new = [bs EXCEPT ![i] = b], d = "ack" => c = "ack",
             b.st = "acked" => SureIn(bs, p, c, i),
             NEW j \in DOMAIN new, SureIn(new, p, d, j)
      PROVE  j \in DOMAIN bs /\ SureIn(bs, p, c, j)
  <2> USE <1>SureMoves
  <2>1. DOMAIN new = DOMAIN bs /\ new[j] = IF j = i THEN b ELSE bs[j] BY Zenon
  <2>2. CASE j = i
    <3>1. new[j] = b BY <2>1, <2>2, Zenon
    <3>. QED BY <2>1, <2>2, <3>1, Zenon DEF SureIn
  <2>3. CASE j # i
    <3>1. new[j] = bs[j] BY <2>1, <2>3, Zenon
    <3>. QED BY <2>1, <3>1, Zenon DEF SureIn
  <2>. QED BY <2>2, <2>3, Zenon
<1>StaysForward. ASSUME NEW e, trim[e] \in Int, next[e] \in Nat, trim'[e] = trim[e],
             status[e] # "down" => status'[e] # "down", Opened(e) => next'[e] = next[e]
      PROVE  Forward(e)
  <2> USE <1>StaysForward
  <2>1. trim'[e] >= trim[e] OBVIOUS
  <2>2. next[e] >= next[e] OBVIOUS
  <2>. QED BY <2>1, <2>2, Zenon DEF Forward
\* A writer whose status, calls and trim offset stay is used as before.
<1>UseStays. ASSUME NEW e \in Epochs, UseInv(e), calls'[e] = calls[e], trim'[e] = trim[e],
             \/ InUse(e)'
             \/ bulks'[e] = bulks[e] /\ active'[e] = active[e] /\ ~InUse(e)
      PROVE  UseInv(e)'
  BY <1>UseStays DEF UseInv
\* A writer in use that moves a trim call on.
<1>UseCalls. ASSUME NEW e \in Epochs, InUse(e)',
             \A c \in AllCallers : calls'[e][c].pc # "idle" => calls'[e][c].t <= trim'[e]
      PROVE  UseInv(e)'
  BY <1>UseCalls, Zenon DEF UseInv
\* A step that does not touch a writer.
<1>LocalSame. ASSUME IInv, NEW e \in Epochs, LoopInv(e), UseInv(e), Same(e)
      PROVE  Local(e)
  <2> USE <1>LocalSame
  <2>1. bulks[e] \in Seq(Bulk) /\ next[e] \in Nat /\ trim[e] \in Int BY BucketTypes, Zenon
  <2>2. LoopInv(e)' BY Zenon DEF Same, LoopInv
  <2>3. UseInv(e)' BY DEF Same, UseInv, InUse
  <2>4. Onward(bulks[e], bulks'[e], next[e])
    <3>1. Queues(bulks[e], bulks[e], next[e]) BY <2>1, <1>QueuesSelf, Zenon
    <3>2. Onward(bulks[e], bulks[e], next[e]) BY <2>1, <3>1, <1>QueuesOnward, Zenon
    <3>. QED BY <3>2, Zenon DEF Same
  <2>5. Sures(e) BY Zenon DEF Same, Sures, Sure
  <2>6. Forward(e) BY <2>1 DEF Same, Forward
  <2>7. Lands(e) BY Zenon DEF Same, Lands
  <2>. QED BY <2>2, <2>3, <2>4, <2>5, <2>6, <2>7, Zenon DEF Local, Advances
\* A step that adds bulks to a writer in use.
<1>LocalQueues. ASSUME IInv, IInv', NEW e \in Epochs, LoopInv(e), UseInv(e)', status[e] # "down", InUse(e)',
             Queues(bulks[e], bulks'[e], next[e]), next'[e] >= next[e],
             popped'[e] = popped[e], completed'[e] = completed[e], cb'[e] = cb[e],
             fenced'[e] = fenced[e], trim'[e] = trim[e]
      PROVE  Local(e)
  <2> USE <1>LocalQueues
  <2>1. /\ bulks[e] \in Seq(Bulk) /\ popped[e] \in Nat /\ popped[e] <= Len(bulks[e])
        /\ trim[e] \in Int
    BY BucketTypes, Zenon
  <2>2. bulks'[e] \in Seq(Bulk) BY Zenon DEF IInv, TypeOK
  <2>3. LoopInv(e)'
    <3>1. Loop(bulks[e], popped[e], completed[e], cb[e], fenced[e]) BY Zenon DEF LoopInv
    <3>2. Loop(bulks'[e], popped[e], completed[e], cb[e], fenced[e]) BY <2>1, <2>2, <3>1, <1>LoopQueues, Zenon
    <3>. QED BY <3>2, Zenon DEF LoopInv
  <2>4. Onward(bulks[e], bulks'[e], next[e]) BY <2>1, <2>2, <1>QueuesOnward, Zenon
  <2>5. Sures(e)
    <3> SUFFICES ASSUME NEW i \in DOMAIN bulks'[e], Sure(e, i)'
                 PROVE  i \in DOMAIN bulks[e] /\ Sure(e, i)
      BY Zenon DEF Sures
    <3>1. SureIn(bulks'[e], popped[e], cb[e], i) BY Zenon DEF Sure
    <3>. QED BY <2>1, <2>2, <3>1, <1>SureQueues DEF Sure
  <2>6. Forward(e)
    <3>1. status'[e] # "down" BY Zenon DEF InUse
    <3>2. trim'[e] >= trim[e] BY <2>1
    <3>. QED BY <3>1, <3>2, Zenon DEF Forward
  <2>7. Lands(e)
    <3> SUFFICES ASSUME NEW i \in DOMAIN bulks'[e], bulks'[e][i].st \in Landed
                 PROVE  i \in DOMAIN bulks[e] /\ bulks[e][i].st \in Landed
      BY Zenon DEF Lands
    <3>. QED BY <2>1, <2>2, <1>LandedQueues, Zenon DEF Landed
  <2>. QED BY <2>3, <2>4, <2>5, <2>6, <2>7, Zenon DEF Local, Advances
\* A step that moves one bulk on that was not taken by the callback loop.
<1>LocalMoves. ASSUME IInv, NEW e \in Epochs, LoopInv(e), UseInv(e), NEW i \in DOMAIN bulks[e], NEW b,
             bulks'[e] = [bulks[e] EXCEPT ![i] = b],
             b.base = bulks[e][i].base, b.size = bulks[e][i].size, b.recs = bulks[e][i].recs,
             \/ bulks[e][i].st = "spawned"
             \/ bulks[e][i].st = "put" /\ b.trim = bulks[e][i].trim,
             b.st \in {"put", "ok", "err"}, b.st = "err" => fenced'[e], fenced[e] => fenced'[e],
             b.st = "ok" => /\ bulks[e][i].st = "put"
                            /\ WalObjectOf(e, bulks[e][i]) \in store \cup reaper,
             status'[e] = status[e], calls'[e] = calls[e], trim'[e] = trim[e], next'[e] = next[e],
             popped'[e] = popped[e], completed'[e] = completed[e], cb'[e] = cb[e]
      PROVE  Local(e)
  <2> USE <1>LocalMoves
  <2>1. bulks[e] \in Seq(Bulk) /\ popped[e] \in Nat /\ trim[e] \in Int /\ next[e] \in Nat
    BY BucketTypes, Zenon
  <2>2. LoopInv(e)'
    <3>1. Loop(bulks[e], popped[e], completed[e], cb[e], fenced[e]) BY Zenon DEF LoopInv
    <3>2. bulks[e][i].st \in {"spawned", "put"} BY Zenon
    <3>3. Loop(bulks'[e], popped[e], completed[e], cb[e], fenced'[e])
      BY <2>1, <3>1, <3>2, <1>LoopMoves
    <3>. QED BY <3>3, Zenon DEF LoopInv
  <2>3. UseInv(e)'
    <3>1. bulks[e] # <<>> BY <2>1, NotEmpty, Zenon
    <3>2. InUse(e) BY <3>1, Zenon DEF UseInv
    <3>3. InUse(e)' BY <3>2, Zenon DEF InUse
    <3>. QED BY <3>3, <1>UseStays, Zenon
  <2>4. Onward(bulks[e], bulks'[e], next[e])
    <3>1. bulks[e][i].st \in Written => b.st \in Written /\ b.trim = bulks[e][i].trim
      BY Zenon DEF Written
    <3>. QED BY <2>1, <3>1, <1>MovesOnward, Zenon
  <2>5. Sures(e)
    <3> SUFFICES ASSUME NEW j \in DOMAIN bulks'[e], Sure(e, j)'
                 PROVE  j \in DOMAIN bulks[e] /\ Sure(e, j)
      BY Zenon DEF Sures
    <3>1. SureIn(bulks'[e], popped[e], cb[e], j) BY Zenon DEF Sure
    <3>2. b.st # "acked" BY Zenon
    <3> DEFINE bs == bulks[e]  new == bulks'[e]  p == popped[e]  c == cb[e]
    <3>3. /\ bs \in Seq(Bulk) /\ i \in DOMAIN bs /\ new = [bs EXCEPT ![i] = b]
          /\ j \in DOMAIN new /\ SureIn(new, p, c, j)
      BY <2>1, <3>1, Zenon
    <3> HIDE DEF bs, new, p, c
    <3>4. j \in DOMAIN bs /\ SureIn(bs, p, c, j) BY <3>2, <3>3, <1>SureMoves, Zenon
    <3>. QED BY <3>4, Zenon DEF Sure, bs, p, c
  <2>6. Forward(e) BY <2>1, <1>StaysForward, Zenon
  <2>7. Lands(e)
    <3> SUFFICES ASSUME NEW j \in DOMAIN bulks'[e], bulks'[e][j].st \in Landed
                 PROVE  /\ j \in DOMAIN bulks[e]
                        /\ \/ bulks[e][j].st \in Landed
                           \/ /\ bulks[e][j].st = "put"
                              /\ WalObjectOf(e, bulks[e][j]) \in store \cup reaper
      BY Zenon DEF Lands
    <3>1. /\ DOMAIN bulks'[e] = DOMAIN bulks[e]
          /\ bulks'[e][j] = IF j = i THEN b ELSE bulks[e][j]
      BY Zenon
    <3>2. CASE j = i
      <4>1. bulks'[e][j] = b BY <3>1, <3>2, Zenon
      <4>2. b.st = "ok" BY <4>1, Zenon DEF Landed
      <4>. QED BY <3>2, <4>2, Zenon
    <3>3. CASE j # i
      <4>1. bulks'[e][j] = bulks[e][j] BY <3>1, <3>3, Zenon
      <4>. QED BY <3>1, <4>1, Zenon
    <3>. QED BY <3>2, <3>3, Zenon
  <2>. QED BY <2>2, <2>3, <2>4, <2>5, <2>6, <2>7, Zenon DEF Local, Advances
\* A step that changes only the status, from one that has not opened or to one in use.
<1>LocalStatus. ASSUME IInv, NEW e \in Epochs, LoopInv(e), UseInv(e),
             bulks'[e] = bulks[e], active'[e] = active[e], next'[e] = next[e] \/ ~Opened(e),
             popped'[e] = popped[e], completed'[e] = completed[e], cb'[e] = cb[e],
             calls'[e] = calls[e], trim'[e] = trim[e], fenced[e] => fenced'[e],
             status'[e] # "down", ~InUse(e) \/ InUse(e)'
      PROVE  Local(e)
  <2> USE <1>LocalStatus
  <2>1. bulks[e] \in Seq(Bulk) /\ next[e] \in Nat /\ trim[e] \in Int BY BucketTypes, Zenon
  <2>2. LoopInv(e)'
    <3> DEFINE bs == bulks[e]  p == popped[e]  k == completed[e]  c == cb[e]  fd == fenced[e]
               gd == fenced'[e]
    <3>1. Loop(bs, p, k, c, fd) /\ (fd => gd) BY Zenon DEF LoopInv
    <3>2. LoopInv(e)' <=> Loop(bs, p, k, c, gd) BY Zenon DEF LoopInv
    <3> HIDE DEF bs, p, k, c, fd, gd
    <3>3. Loop(bs, p, k, c, gd) BY <3>1, Zenon DEF Loop
    <3>. QED BY <3>2, <3>3, Zenon
  <2>3. UseInv(e)' BY <1>UseStays, Zenon
  <2>4. Onward(bulks[e], bulks'[e], next[e])
    <3>1. Queues(bulks[e], bulks[e], next[e]) BY <2>1, <1>QueuesSelf, Zenon
    <3>2. Onward(bulks[e], bulks[e], next[e]) BY <2>1, <3>1, <1>QueuesOnward, Zenon
    <3>. QED BY <3>2, Zenon
  <2>5. Sures(e) BY Zenon DEF Sures, Sure
  <2>6. Forward(e) BY <2>1, <1>StaysForward, Zenon
  <2>7. Lands(e) BY Zenon DEF Lands
  <2>. QED BY <2>2, <2>3, <2>4, <2>5, <2>6, <2>7, Zenon DEF Local, Advances
\* A step that moves one trim call on.
<1>LocalCalls. ASSUME IInv, NEW e \in Epochs, LoopInv(e), UseInv(e)',
             bulks'[e] = bulks[e], next'[e] = next[e],
             popped'[e] = popped[e], completed'[e] = completed[e], cb'[e] = cb[e],
             trim'[e] >= trim[e], fenced'[e] = fenced[e], status'[e] = status[e]
      PROVE  Local(e)
  <2> USE <1>LocalCalls
  <2>1. bulks[e] \in Seq(Bulk) /\ next[e] \in Nat BY BucketTypes, Zenon
  <2>2. LoopInv(e)' BY Zenon DEF LoopInv
  <2>3. Onward(bulks[e], bulks'[e], next[e])
    <3>1. Queues(bulks[e], bulks[e], next[e]) BY <2>1, <1>QueuesSelf, Zenon
    <3>2. Onward(bulks[e], bulks[e], next[e]) BY <2>1, <3>1, <1>QueuesOnward, Zenon
    <3>. QED BY <3>2, Zenon
  <2>4. Sures(e) BY Zenon DEF Sures, Sure
  <2>5. Forward(e) BY <2>1 DEF Forward
  <2>6. Lands(e) BY Zenon DEF Lands
  <2>. QED BY <2>2, <2>3, <2>4, <2>5, <2>6, Zenon DEF Local, Advances
\* The callback loop takes bulks (callback_loop).
<1>LocalPop. ASSUME IInv, IInv', NEW e \in Epochs, LoopInv(e), UseInv(e), CallbackPop(e)
      PROVE  Local(e)
  <2> USE <1>LocalPop
  <2>1. /\ bulks[e] \in Seq(Bulk) /\ popped[e] \in Nat /\ trim[e] \in Int /\ next[e] \in Nat
        /\ Len(bulks[e]) \in Nat
    BY BucketTypes, LenNat, Zenon
  <2>2. bulks \in [Epochs -> Seq(Bulk)] /\ popped \in [Epochs -> Nat] /\ cb \in [Epochs -> {"idle", "verify", "ack", "fail"}]
    BY Zenon DEF IInv, TypeOK
  <2>3. PICK n \in popped[e] + 1 .. Len(bulks[e]) :
          /\ \A i \in popped[e] + 1 .. n : Finished(bulks[e][i])
          /\ popped' = [popped EXCEPT ![e] = n]
          /\ bulks' = [bulks EXCEPT ![e] = try_upload_waiting(bulks[e], n)]
    BY Zenon DEF CallbackPop
  <2>4. n \in Nat BY <2>1
  <2>5. /\ popped'[e] = n /\ bulks'[e] = try_upload_waiting(bulks[e], n)
    BY <2>2, <2>3, Zenon
  <2>6. cb'[e] = "verify" /\ cb[e] = "idle" BY <2>2, Zenon DEF CallbackPop
  <2>7. /\ completed' = completed /\ fenced' = fenced /\ status' = status /\ calls' = calls
        /\ trim' = trim /\ next' = next /\ active' = active
    BY Zenon DEF CallbackPop, openVars, trimVars
  <2>8. bulks'[e] \in Seq(Bulk) /\ Queues(bulks[e], bulks'[e], next[e])
    BY <2>1, <2>4, <2>5, <1>QueuesUpload, Zenon
  <2>9. LoopInv(e)'
    <3>1. Loop(bulks[e], popped[e], completed[e], "idle", fenced[e]) BY <2>6, Zenon DEF LoopInv
    <3>2. Loop(bulks'[e], n, completed[e], "verify", fenced[e])
      BY <2>1, <2>3, <2>8, <3>1, <1>LoopPop, Zenon
    <3>. QED BY <2>5, <2>6, <2>7, <3>2, Zenon DEF LoopInv
  <2>10. UseInv(e)'
    <3>1. bulks[e] # <<>> BY <2>1, <2>3, <2>4
    <3>2. InUse(e) BY <3>1, Zenon DEF UseInv
    <3>3. InUse(e)' BY <2>7, <3>2, Zenon DEF InUse
    <3>. QED BY <2>7, <3>3, <1>UseStays, Zenon
  <2>11. Onward(bulks[e], bulks'[e], next[e]) BY <2>1, <2>8, <1>QueuesOnward, Zenon
  <2>12. Sures(e)
    <3> SUFFICES ASSUME NEW i \in DOMAIN bulks'[e], Sure(e, i)'
                 PROVE  i \in DOMAIN bulks[e] /\ Sure(e, i)
      BY Zenon DEF Sures
    <3>1. bulks'[e][i].st = "acked" BY <2>6, Zenon DEF Sure, SureIn
    <3>2. SureIn(bulks'[e], 0, "verify", i) BY <3>1, Zenon DEF SureIn
    <3>3. 0 <= Len(bulks[e]) BY <2>1
    <3>4. i \in DOMAIN bulks[e] /\ SureIn(bulks[e], 0, "verify", i)
      BY <2>1, <2>8, <3>2, <3>3, <1>SureQueues, Zenon
    <3>. QED BY <3>4, Zenon DEF Sure, SureIn
  <2>13. Forward(e) BY <2>1, <2>7, <1>StaysForward, Zenon
  <2>14. Lands(e)
    <3> SUFFICES ASSUME NEW i \in DOMAIN bulks'[e], bulks'[e][i].st \in Landed
                 PROVE  i \in DOMAIN bulks[e] /\ bulks[e][i].st \in Landed
      BY Zenon DEF Lands
    <3>. QED BY <2>1, <2>8, <1>LandedQueues, Zenon DEF Landed
  <2>. QED BY <2>9, <2>10, <2>11, <2>12, <2>13, <2>14, Zenon DEF Local, Advances
\* The reservation is read (callback_loop, verify).
<1>LocalVerify. ASSUME IInv, NEW e \in Epochs, LoopInv(e), UseInv(e), CallbackVerify(e)
      PROVE  Local(e)
  <2> USE <1>LocalVerify
  <2>1. bulks[e] \in Seq(Bulk) /\ trim[e] \in Int /\ next[e] \in Nat BY BucketTypes, Zenon
  <2>2. fenced \in [Epochs -> BOOLEAN] /\ cb \in [Epochs -> {"idle", "verify", "ack", "fail"}]
    BY Zenon DEF IInv, TypeOK
  <2>3. /\ cb[e] = "verify"
        /\ \/ reservation = e /\ ~fenced[e] /\ cb'[e] = "ack" /\ fenced'[e] = fenced[e]
           \/ fenced'[e] = TRUE /\ cb'[e] = "fail"
    BY <2>2, Zenon DEF CallbackVerify, HoldsReservation
  <2>4. /\ bulks' = bulks /\ popped' = popped /\ completed' = completed /\ status' = status
        /\ calls' = calls /\ trim' = trim /\ next' = next /\ active' = active
    BY Zenon DEF CallbackVerify, openVars, trimVars, offsetVars
  <2>5. ~fenced[e] => NoneFailed(bulks[e]) BY Zenon DEF IInv, WriterInv
  <2>6. LoopInv(e)'
    <3> DEFINE bs == bulks[e]  p == popped[e]  k == completed[e]  fd == fenced[e]
               c == cb'[e]  gd == fenced'[e]
    <3>1. /\ bs \in Seq(Bulk) /\ Loop(bs, p, k, "verify", fd) /\ (~fd => NoneFailed(bs))
          /\ \/ ~fd /\ c = "ack" /\ gd = fd
             \/ gd = TRUE /\ c = "fail"
      BY <2>1, <2>3, <2>5, Zenon DEF LoopInv
    <3>2. LoopInv(e)' <=> Loop(bs, p, k, c, gd) BY <2>4, Zenon DEF LoopInv
    <3> HIDE DEF bs, p, k, fd, c, gd
    <3>3. ((~fd /\ NoneFailed(bs)) => Loop(bs, p, k, "ack", fd)) /\ Loop(bs, p, k, "fail", TRUE)
      BY <3>1, <1>LoopVerify, Zenon
    <3>4. Loop(bs, p, k, c, gd) BY <3>1, <3>3, Zenon
    <3>. QED BY <3>2, <3>4, Zenon
  <2>7. UseInv(e)' BY <2>4, Zenon DEF UseInv, InUse
  <2>8. Onward(bulks[e], bulks'[e], next[e])
    <3>1. Queues(bulks[e], bulks[e], next[e]) BY <2>1, <1>QueuesSelf, Zenon
    <3>2. Onward(bulks[e], bulks[e], next[e]) BY <2>1, <3>1, <1>QueuesOnward, Zenon
    <3>. QED BY <2>4, <3>2, Zenon
  <2>9. Sures(e)
    <3> SUFFICES ASSUME NEW i \in DOMAIN bulks'[e], Sure(e, i)'
                 PROVE  i \in DOMAIN bulks[e] /\ (Sure(e, i) \/ reservation = e)
      BY Zenon DEF Sures
    <3>1. bulks[e][i].st = "acked" \/ cb'[e] = "ack" BY <2>4, Zenon DEF Sure, SureIn
    <3>. QED BY <2>3, <2>4, <3>1, Zenon DEF Sure, SureIn
  <2>10. Forward(e) BY <2>1, <2>4, <1>StaysForward, Zenon
  <2>11. Lands(e) BY <2>4, Zenon DEF Lands
  <2>. QED BY <2>6, <2>7, <2>8, <2>9, <2>10, <2>11, Zenon DEF Local, Advances
\* A bulk is answered (complete_bulk).
<1>LocalComplete. ASSUME IInv, NEW e \in Epochs, LoopInv(e), UseInv(e), CompleteBulk(e)
      PROVE  Local(e)
  <2> USE <1>LocalComplete
  <2> DEFINE k == completed[e]  p == popped[e]  i == k + 1  bs == bulks[e]  new == bulks'[e]
             fd == fenced[e]  c == cb[e]  d == cb'[e]
  <2>1. /\ bs \in Seq(Bulk) /\ trim[e] \in Int /\ next[e] \in Nat /\ k \in Nat /\ p \in Nat
        /\ p <= Len(bs) /\ Len(bs) \in Nat /\ DOMAIN bs = 1 .. Len(bs)
    BY BucketTypes, LenNat, Zenon
  <2>2. /\ bulks \in [Epochs -> Seq(Bulk)] /\ cb \in [Epochs -> {"idle", "verify", "ack", "fail"}]
        /\ completed \in [Epochs -> Nat]
    BY Zenon DEF IInv, TypeOK
  <2>3. i <= p /\ c \in {"ack", "fail"} /\ completed'[e] = i /\ d = (IF i = p THEN "idle" ELSE c)
    BY <2>2, Zenon DEF CompleteBulk
  <2>4. i \in DOMAIN bs BY <2>1, <2>3
  <2>5. PICK b : /\ new = [bs EXCEPT ![i] = b]
                 /\ b.base = bs[i].base /\ b.size = bs[i].size /\ b.recs = bs[i].recs
                 /\ b.trim = bs[i].trim
                 /\ \/ c = "ack" /\ b.st = "acked"
                    \/ c = "fail" /\ b.st = "failed"
    <3>0. bs[i] \in Bulk BY <2>1, <2>4, ElementType, Zenon
    <3>1. CASE c = "ack"
      <4>1. bulks' = [bulks EXCEPT ![e][i].st = "acked"] BY <3>1, Zenon DEF CompleteBulk
      <4> DEFINE b == [bs[i] EXCEPT !.st = "acked"]
      <4>2. new = [bs EXCEPT ![i] = b] BY <2>2, <4>1, Zenon
      <4> HIDE DEF bs, new, i, c
      <4>3. /\ b.base = bs[i].base /\ b.size = bs[i].size /\ b.recs = bs[i].recs
            /\ b.trim = bs[i].trim /\ b.st = "acked"
        BY <3>0, Zenon DEF Bulk
      <4> HIDE DEF b
      <4>. QED BY <3>1, <4>2, <4>3, Zenon
    <3>2. CASE c = "fail"
      <4>1. bulks' = [bulks EXCEPT ![e][i].st = "failed"] BY <3>2, Zenon DEF CompleteBulk
      <4> DEFINE b == [bs[i] EXCEPT !.st = "failed"]
      <4>2. new = [bs EXCEPT ![i] = b] BY <2>2, <4>1, Zenon
      <4> HIDE DEF bs, new, i, c
      <4>3. /\ b.base = bs[i].base /\ b.size = bs[i].size /\ b.recs = bs[i].recs
            /\ b.trim = bs[i].trim /\ b.st = "failed"
        BY <3>0, Zenon DEF Bulk
      <4> HIDE DEF b
      <4>. QED BY <3>2, <4>2, <4>3, Zenon
    <3>. QED BY <2>3, <3>1, <3>2, Zenon
  <2>6. /\ popped' = popped /\ status' = status /\ fenced' = fenced
        /\ calls' = calls /\ trim' = trim /\ next' = next /\ active' = active
    BY Zenon DEF CompleteBulk, openVars, trimVars
  <2>7. Loop(bs, p, k, c, fd) BY Zenon DEF LoopInv
  <2>8. bs[i].st \in {"ok", "err", "acked", "failed"}
    <3> HIDE DEF bs, p, k, c, fd, i
    <3>. QED BY <2>3, <2>4, <2>7, Zenon DEF Loop
  <2>9. LoopInv(e)'
    <3>1. LoopInv(e)' <=> Loop(new, p, k + 1, d, fd) BY <2>3, <2>6, Zenon DEF LoopInv
    <3>2. i = k + 1 BY Zenon
    <3> HIDE DEF bs, new, p, k, c, d, fd, i
    <3>3. Loop(new, p, k + 1, d, fd) BY <2>1, <2>3, <2>4, <2>5, <2>7, <3>2, <1>LoopAnswers, Zenon
    <3>. QED BY <3>1, <3>3, Zenon
  <2>10. UseInv(e)'
    <3>1. bulks[e] # <<>> BY <2>1, <2>4
    <3>2. InUse(e) BY <3>1, Zenon DEF UseInv
    <3>3. InUse(e)' BY <2>6, <3>2, Zenon DEF InUse
    <3>. QED BY <2>6, <3>3, <1>UseStays, Zenon
  <2>11. Onward(bs, new, next[e])
    <3> HIDE DEF bs, new, p, k, c, d, fd, i
    <3>1. b.st \in Written BY <2>5, Zenon DEF Written
    <3>. QED BY <2>1, <2>4, <2>5, <3>1, <1>MovesOnward, Zenon
  <2>12. Sures(e)
    <3> SUFFICES ASSUME NEW j \in DOMAIN new, SureIn(new, p, d, j)
                 PROVE  j \in DOMAIN bs /\ SureIn(bs, p, c, j)
      BY <2>6, Zenon DEF Sures, Sure
    <3> HIDE DEF bs, new, p, k, c, d, fd, i
    <3>1. d = "ack" => c = "ack" BY <2>3, Zenon
    <3>2. b.st = "acked" => SureIn(bs, p, c, i) BY <2>3, <2>5, Zenon DEF SureIn
    <3>. QED BY <2>1, <2>4, <2>5, <3>1, <3>2, <1>SureMoves, Zenon
  <2>13. Forward(e) BY <2>1, <2>6, <1>StaysForward, Zenon
  <2>14. Lands(e)
    <3> SUFFICES ASSUME NEW j \in DOMAIN new, new[j].st \in Landed
                 PROVE  j \in DOMAIN bs /\ bs[j].st \in Landed
      BY Zenon DEF Lands
    <3> HIDE DEF bs, new, p, k, c, d, fd, i
    <3>1. DOMAIN new = DOMAIN bs /\ new[j] = IF j = i THEN b ELSE bs[j] BY <2>5, Zenon
    <3>2. CASE j = i
      <4>1. new[j] = b BY <3>1, <3>2, Zenon
      <4>2. c = "ack" BY <2>5, <4>1, Zenon DEF Landed
      <4>. QED BY <2>3, <2>4, <2>7, <3>2, <4>2, Zenon DEF Loop, Landed
    <3>3. CASE j # i BY <3>1, <3>3, Zenon
    <3>. QED BY <3>2, <3>3, Zenon
  <2>. QED BY <2>9, <2>10, <2>11, <2>12, <2>13, <2>14, Zenon DEF Local, Advances
\* A bulk is PUT, or its PUT is answered (upload_bulk).
<1>LocalUpload. ASSUME IInv, NEW e \in Epochs, LoopInv(e), UseInv(e), NEW i \in DOMAIN bulks[e],
             UploadBulk(e, i) \/ UploadOk(e, i) \/ UploadErr(e, i)
      PROVE  Local(e)
  <2> USE <1>LocalUpload
  <2> DEFINE bs == bulks[e]  new == bulks'[e]
  <2>1. bs \in Seq(Bulk) BY BucketTypes, Zenon
  <2>2. bs[i] \in Bulk BY <2>1, ElementType, Zenon
  <2>3. /\ bulks \in [Epochs -> Seq(Bulk)] /\ fenced \in [Epochs -> BOOLEAN] BY Zenon DEF IInv, TypeOK
  <2>4. /\ status' = status /\ calls' = calls /\ trim' = trim /\ next' = next
        /\ popped' = popped /\ completed' = completed /\ cb' = cb
    BY Zenon DEF UploadBulk, UploadOk, UploadErr, openVars, trimVars, loopVars
  <2>5. PICK b : /\ new = [bs EXCEPT ![i] = b]
                 /\ b.base = bs[i].base /\ b.size = bs[i].size /\ b.recs = bs[i].recs
                 /\ \/ bs[i].st = "spawned"
                    \/ bs[i].st = "put" /\ b.trim = bs[i].trim
                 /\ b.st \in {"put", "ok", "err"}
                 /\ b.st = "err" => fenced'[e]
                 /\ b.st = "ok" => bs[i].st = "put" /\ WalObjectOf(e, bs[i]) \in store \cup reaper
    <3>1. CASE UploadBulk(e, i)
      <4> DEFINE b == [bs[i] EXCEPT !.st = "put", !.trim = HeaderTrim(e)]
      <4>1. bs[i].st = "spawned" /\ bulks' = [bulks EXCEPT ![e][i] = b] BY <3>1, Zenon DEF UploadBulk
      <4> HIDE DEF b
      <4>2. new = [bs EXCEPT ![i] = b] BY <2>3, <4>1, Zenon
      <4> HIDE DEF bs, new
      <4>3. /\ b.base = bs[i].base /\ b.size = bs[i].size /\ b.recs = bs[i].recs /\ b.st = "put"
        BY <2>2, Zenon DEF Bulk, b
      <4>4. b.st \in {"put", "ok", "err"} /\ b.st # "err" /\ b.st # "ok" BY <4>3, Zenon
      <4>. QED BY <4>1, <4>2, <4>3, <4>4, Zenon
    <3>2. CASE UploadOk(e, i)
      <4> DEFINE b == [bs[i] EXCEPT !.st = "ok"]
      <4>1. /\ bs[i].st = "put" /\ bulks' = [bulks EXCEPT ![e][i].st = "ok"]
            /\ WalObjectOf(e, bs[i]) \in store \cup reaper
        BY <3>2, Zenon DEF UploadOk
      <4>2. new = [bs EXCEPT ![i] = b] BY <2>3, <4>1, Zenon
      <4> HIDE DEF bs, new
      <4>3. /\ b.base = bs[i].base /\ b.size = bs[i].size /\ b.recs = bs[i].recs /\ b.st = "ok"
            /\ b.trim = bs[i].trim
        BY <2>2, Zenon DEF Bulk
      <4> HIDE DEF b
      <4>4. b.st \in {"put", "ok", "err"} /\ b.st # "err" BY <4>3, Zenon
      <4>. QED BY <4>1, <4>2, <4>3, <4>4, Zenon
    <3>3. CASE UploadErr(e, i)
      <4> DEFINE b == [bs[i] EXCEPT !.st = "err"]
      <4>1. /\ bs[i].st = "put" /\ bulks' = [bulks EXCEPT ![e][i].st = "err"]
            /\ fenced'[e]
        BY <2>3, <3>3, Zenon DEF UploadErr
      <4>2. new = [bs EXCEPT ![i] = b] BY <2>3, <4>1, Zenon
      <4> HIDE DEF bs, new
      <4>3. /\ b.base = bs[i].base /\ b.size = bs[i].size /\ b.recs = bs[i].recs /\ b.st = "err"
            /\ b.trim = bs[i].trim
        BY <2>2, Zenon DEF Bulk
      <4> HIDE DEF b
      <4>4. b.st \in {"put", "ok", "err"} /\ b.st # "ok" BY <4>3, Zenon
      <4>. QED BY <4>1, <4>2, <4>3, <4>4, Zenon
    <3>. QED BY <3>1, <3>2, <3>3, Zenon
  <2>6. fenced[e] => fenced'[e]
    <3>1. CASE fenced' = fenced BY <3>1, Zenon
    <3>2. CASE UploadErr(e, i) BY <2>3, <3>2, Zenon DEF UploadErr
    <3>. QED BY <3>1, <3>2, Zenon DEF UploadBulk, UploadOk
  <2>7. /\ status'[e] = status[e] /\ calls'[e] = calls[e] /\ trim'[e] = trim[e] /\ next'[e] = next[e]
        /\ popped'[e] = popped[e] /\ completed'[e] = completed[e] /\ cb'[e] = cb[e]
    BY <2>4, Zenon
  <2>. QED BY <2>5, <2>6, <2>7, <1>LocalMoves, Zenon
\* Bulks are sealed, by a timer or by an append, or at the close (seal_active, submit, close).
<1>LocalSeal. ASSUME IInv, IInv', NEW e \in Epochs, LoopInv(e), UseInv(e),
             SealActive(e) \/ Close(e) \/ \E s \in Streams : AppendRecord(e, s)
      PROVE  Local(e)
  <2> USE <1>LocalSeal
  <2>0. TypeOK /\ bulks[e] \in Seq(Bulk) /\ next[e] \in Nat BY BucketTypes, Zenon DEF IInv
  <2>1. /\ popped' = popped /\ completed' = completed /\ cb' = cb /\ fenced' = fenced
        /\ trim' = trim /\ calls' = calls
    BY Zenon DEF SealActive, Close, AppendRecord, openVars, trimVars, loopVars
  <2>2. InUse(e) /\ InUse(e)'
    <3>1. CASE SealActive(e)
      <4>1. active[e] # NoBulk /\ status' = status BY <3>1 DEF SealActive, NoBulk, openVars
      <4>. QED BY <4>1, Zenon DEF UseInv, InUse
    <3>2. CASE Close(e)
      <4>1. status \in [Epochs -> Statuses] BY <2>0, Zenon DEF TypeOK
      <4>. QED BY <3>2, <4>1, Zenon DEF Close, InUse
    <3>3. CASE \E s \in Streams : AppendRecord(e, s)
      BY <3>3, Zenon DEF AppendRecord, InUse, openVars
    <3>. QED BY <3>1, <3>2, <3>3, Zenon
  <2>3. UseInv(e)' BY <2>1, <2>2, <1>UseStays, Zenon
  <2>4. Queues(bulks[e], bulks'[e], next[e]) /\ next'[e] >= next[e]
    <3>1. CASE SealActive(e) BY <2>0, <3>1, <1>SealQueues, Zenon DEF SealActive
    <3>2. CASE Close(e)
      <4>1. CASE active[e].size > 0 BY <2>0, <3>2, <4>1, <1>SealQueues, Zenon DEF Close
      <4>2. CASE ~(active[e].size > 0)
        <5>1. bulks' = bulks /\ next' = next BY <3>2, <4>2, Zenon DEF Close
        <5>. QED BY <2>0, <5>1, <1>QueuesSelf
      <4>. QED BY <4>1, <4>2, Zenon
    <3>3. ASSUME NEW s \in Streams, AppendRecord(e, s)
          PROVE  Queues(bulks[e], bulks'[e], next[e]) /\ next'[e] >= next[e]
      <4>1. <<e, s, appended[e]>> \in Rec BY <2>0, Zenon DEF Rec, TypeOK
      <4>2. Submit(e, <<e, s, appended[e]>>) BY <3>3, Zenon DEF AppendRecord
      <4>. QED BY <2>0, <4>1, <4>2, <1>SubmitQueues, Zenon
    <3>. QED BY <3>1, <3>2, <3>3, Zenon
  <2>5. status[e] # "down" BY <2>2, Zenon DEF InUse
  <2>. QED BY <2>1, <2>2, <2>3, <2>4, <2>5, <1>LocalQueues, Zenon
\* A trim call moves on (trim0, reset).
<1>LocalTrim. ASSUME IInv, IInv', NEW e \in Epochs, LoopInv(e), UseInv(e), NEW c \in AllCallers,
             TrimStart(e, c) \/ TrimStep(e, c)
      PROVE  Local(e)
  <2> USE <1>LocalTrim
  <2>0. TypeOK /\ bulks[e] \in Seq(Bulk) /\ next[e] \in Nat /\ trim[e] \in Int
    BY BucketTypes, Zenon DEF IInv
  <2>1. /\ popped' = popped /\ completed' = completed /\ cb' = cb /\ fenced' = fenced
        /\ status' = status
    BY Zenon DEF TrimStart, TrimStep, TrimSubmit, TrimDelete, TrimFails, TrimDone, TrimWaited,
           openVars, loopVars
  <2>2. InUse(e)
    <3>1. CASE TrimStart(e, c) BY <3>1, Zenon DEF TrimStart, TrimTargets, InUse
    <3>2. CASE TrimStep(e, c)
      <4>1. calls[e][c].pc # "idle"
        BY <3>2, Zenon DEF TrimStep, TrimSubmit, TrimDelete, TrimFails, TrimDone, TrimWaited
      <4>. QED BY <4>1, Zenon DEF UseInv
    <3>. QED BY <3>1, <3>2, Zenon
  <2>3. InUse(e)' BY <2>1, <2>2, Zenon DEF InUse
  <2>4. calls \in [Epochs -> [AllCallers -> [pc : CallStates, t : Int]]]
    /\ trim \in [Epochs -> Int]
    BY <2>0, Zenon DEF TypeOK
  <2>5. trim'[e] >= trim[e] /\ trim'[e] \in Int
    <3>1. CASE TrimStart(e, c)
      <4>1. PICK t \in TrimTargets(e, c) : trim' = trim \/ (trim[e] < t /\ trim' = [trim EXCEPT ![e] = t])
        BY <3>1, Zenon DEF TrimStart
      <4>2. t \in Int BY <2>0, TrimTargetsTyped, Zenon
      <4> DEFINE a == trim[e]  n == trim'[e]
      <4>3. a \in Int /\ (n = a \/ (a < t /\ n = t)) BY <2>0, <2>4, <4>1, Zenon
      <4> HIDE DEF a, n
      <4>4. n >= a /\ n \in Int BY <4>2, <4>3
      <4>. QED BY <4>4, Zenon DEF a, n
    <3>2. CASE TrimStep(e, c)
      <4>1. trim' = trim
        BY <3>2, Zenon DEF TrimStep, TrimSubmit, TrimDelete, TrimFails, TrimDone, TrimWaited, trimVars
      <4> DEFINE a == trim[e]  n == trim'[e]
      <4>2. a \in Int /\ n = a BY <2>0, <4>1, Zenon
      <4> HIDE DEF a, n
      <4>3. n >= a /\ n \in Int BY <4>2
      <4>. QED BY <4>3, Zenon DEF a, n
    <3>. QED BY <3>1, <3>2, Zenon
  <2>6. PICK pc, t : /\ calls' = [calls EXCEPT ![e][c] = [pc |-> pc, t |-> t]]
                     /\ t \in Int /\ t <= trim'[e]
    <3>1. CASE TrimStart(e, c)
      <4>1. PICK t \in TrimTargets(e, c) :
              \/ trim[e] >= t /\ SetCall(e, c, "wait", t) /\ trim' = trim
              \/ trim[e] < t /\ SetCall(e, c, "submit", t) /\ trim' = [trim EXCEPT ![e] = t]
        BY <3>1, Zenon DEF TrimStart
      <4>2. t \in Int BY <2>0, TrimTargetsTyped
      <4>3. CASE trim[e] >= t /\ SetCall(e, c, "wait", t) /\ trim' = trim
        <5>1. t <= trim'[e] BY <2>0, <4>2, <4>3, Zenon
        <5>. QED BY <4>2, <4>3, <5>1, Zenon DEF SetCall
      <4>4. CASE trim[e] < t /\ SetCall(e, c, "submit", t) /\ trim' = [trim EXCEPT ![e] = t]
        <5>1. t <= trim'[e] BY <2>4, <4>2, <4>4
        <5>. QED BY <4>2, <4>4, <5>1, Zenon DEF SetCall
      <4>. QED BY <4>1, <4>3, <4>4, Zenon
    <3>2. CASE TrimStep(e, c)
      <4>1. calls[e][c].pc # "idle" /\ trim' = trim
        BY <3>2, Zenon DEF TrimStep, TrimSubmit, TrimDelete, TrimFails, TrimDone, TrimWaited, trimVars
      <4>2. calls[e][c].t <= trim'[e] BY <4>1, Zenon DEF UseInv
      <4>3. calls[e][c].t \in Int BY <2>4, Zenon
      <4>4. \E pc : SetCall(e, c, pc, calls[e][c].t)
        BY <3>2, Zenon DEF TrimStep, TrimSubmit, TrimDelete, TrimFails, TrimDone, TrimWaited
      <4>. QED BY <4>2, <4>3, <4>4, Zenon DEF SetCall
    <3>. QED BY <3>1, <3>2, Zenon
  <2>7. ASSUME NEW g \in AllCallers, calls'[e][g].pc # "idle" PROVE calls'[e][g].t <= trim'[e]
    <3>1. CASE g = c
      <4>1. calls'[e][g] = [pc |-> pc, t |-> t] BY <2>4, <2>6, <3>1, Zenon
      <4>2. [pc |-> pc, t |-> t].t = t BY Zenon
      <4>3. calls'[e][g].t = t BY <4>1, <4>2, Zenon
      <4>. QED BY <2>6, <4>3, Zenon
    <3>2. CASE g # c
      <4>1. calls'[e][g] = calls[e][g] BY <2>4, <2>6, <3>2, Zenon
      <4>2. calls[e][g].t <= trim[e] BY <2>7, <4>1 DEF UseInv
      <4>3. calls[e][g].t \in Int BY <2>4, Zenon
      <4> DEFINE x == calls[e][g].t  y == trim[e]  z == trim'[e]
      <4>4. x \in Int /\ y \in Int /\ z \in Int /\ x <= y /\ z >= y BY <2>0, <2>5, <4>2, <4>3, Zenon
      <4> HIDE DEF x, y, z
      <4>5. x <= z BY <4>4
      <4>. QED BY <4>1, <4>5, Zenon DEF x, z
    <3>. QED BY <3>1, <3>2, Zenon
  <2>8. UseInv(e)' BY <2>3, <2>7, <1>UseCalls, Zenon
  <2>9. CASE \E r \in Rec : Submit(e, r) /\ trim' = trim
    <3>1. Queues(bulks[e], bulks'[e], next[e]) /\ next'[e] >= next[e]
      BY <2>0, <2>9, <1>SubmitQueues, Zenon
    <3>2. status[e] # "down" BY <2>2, Zenon DEF InUse
    <3>. QED BY <2>1, <2>3, <2>8, <2>9, <3>1, <3>2, <1>LocalQueues, Zenon
  <2>10. CASE bulks' = bulks /\ next' = next
    BY <2>1, <2>5, <2>8, <2>10, <1>LocalCalls, Zenon
  <2>11. FakeRecord(e, c) \in Rec
    <3>1. c \in Nat BY ConstantsAssumption DEF AllCallers, ResetCaller
    <3>. QED BY <3>1, Zenon DEF FakeRecord, Rec
  <2>12. \/ \E r \in Rec : Submit(e, r) /\ trim' = trim
         \/ bulks' = bulks /\ next' = next
    <3>1. CASE TrimSubmit(e, c) BY <2>11, <3>1, Zenon DEF TrimSubmit, offsetVars
    <3>2. CASE ~TrimSubmit(e, c)
      BY <3>2, Zenon DEF TrimStart, TrimStep, TrimDelete, TrimFails, TrimDone, TrimWaited, offsetVars
    <3>. QED BY <3>1, <3>2, Zenon
  <2>. QED BY <2>9, <2>10, <2>12, Zenon
\* Opening: from acquire to the end of the recovery (start, recover, reset).
<1>LocalOpen. ASSUME IInv, NEW e \in Epochs, LoopInv(e), UseInv(e),
             Acquire(e) \/ StartVerify(e) \/ StartList(e) \/ Recover(e) \/ Ready(e)
      PROVE  Local(e)
  <2> USE <1>LocalOpen
  <2>0. status \in [Epochs -> Statuses] /\ fenced \in [Epochs -> BOOLEAN] BY Zenon DEF IInv, TypeOK
  <2>1. /\ bulks' = bulks /\ active' = active /\ popped' = popped /\ completed' = completed
        /\ cb' = cb /\ calls' = calls /\ trim' = trim
    BY Zenon DEF Acquire, StartVerify, StartList, Recover, Ready, trimVars, loopVars, offsetVars
  <2>2. next'[e] = next[e] \/ ~Opened(e)
    BY Zenon DEF Acquire, StartVerify, StartList, Recover, Ready, offsetVars, Opened, HasListed
  <2>3. fenced[e] => fenced'[e]
    <3>1. CASE Acquire(e) BY <3>1, Zenon DEF Acquire
    <3>2. CASE StartVerify(e) BY <2>0, <3>2, Zenon DEF StartVerify
    <3>3. CASE StartList(e) BY <2>0, <3>3, Zenon DEF StartList
    <3>4. CASE Recover(e) BY <3>4, Zenon DEF Recover
    <3>5. CASE Ready(e) BY <3>5, Zenon DEF Ready
    <3>. QED BY <3>1, <3>2, <3>3, <3>4, <3>5, Zenon
  <2>4. status'[e] # "down"
    <3>1. CASE Acquire(e) BY <2>0, <3>1, Zenon DEF Acquire
    <3>2. CASE StartVerify(e) BY <2>0, <3>2, Zenon DEF StartVerify
    <3>3. CASE StartList(e) BY <2>0, <3>3, Zenon DEF StartList
    <3>4. CASE Recover(e) BY <2>0, <3>4, Zenon DEF Recover
    <3>5. CASE Ready(e) BY <2>0, <3>5, Zenon DEF Ready
    <3>. QED BY <3>1, <3>2, <3>3, <3>4, <3>5, Zenon
  <2>5. ~InUse(e) \/ InUse(e)'
    <3>1. CASE Ready(e) BY <2>0, <3>1, Zenon DEF Ready, InUse
    <3>2. CASE ~Ready(e) BY <3>2, Zenon DEF Acquire, StartVerify, StartList, Recover, InUse
    <3>. QED BY <3>1, <3>2, Zenon
  <2>. QED BY <2>1, <2>2, <2>3, <2>4, <2>5, <1>LocalStatus, Zenon
<1> SUFFICES ASSUME IInv, IInv', \A e \in Epochs : LoopInv(e) /\ UseInv(e), [Next]_vars, NEW f \in Epochs
             PROVE  Local(f)
  BY Zenon
<1>1. ASSUME NEW e \in Epochs, Steps(e) PROVE Local(f)
  <2>1. CASE f # e
    <3>1. Same(f) BY <1>1, <2>1, PeersSame, Zenon
    <3>. QED BY <3>1, <1>LocalSame, Zenon
  <2>2. CASE f = e
    <3>0. LoopInv(e) /\ UseInv(e) BY Zenon
    <3>1. CASE Acquire(e) \/ StartVerify(e) \/ StartList(e) \/ Recover(e) \/ Ready(e)
      BY <2>2, <3>0, <3>1, <1>LocalOpen, Zenon
    <3>2. CASE SealActive(e) \/ Close(e) \/ \E s \in Streams : AppendRecord(e, s)
      BY <2>2, <3>0, <3>2, <1>LocalSeal, Zenon
    <3>3. CASE \E i \in DOMAIN bulks[e] : UploadBulk(e, i) \/ UploadOk(e, i) \/ UploadErr(e, i)
      BY <2>2, <3>0, <3>3, <1>LocalUpload, Zenon
    <3>4. CASE CallbackPop(e) BY <2>2, <3>0, <3>4, <1>LocalPop, Zenon
    <3>5. CASE CallbackVerify(e) BY <2>2, <3>0, <3>5, <1>LocalVerify, Zenon
    <3>6. CASE CompleteBulk(e) BY <2>2, <3>0, <3>6, <1>LocalComplete, Zenon
    <3>7. CASE \E c \in AllCallers : TrimStart(e, c) \/ TrimStep(e, c)
      BY <2>2, <3>0, <3>7, <1>LocalTrim, Zenon
    <3>. QED BY <1>1, <3>1, <3>2, <3>3, <3>4, <3>5, <3>6, <3>7, Zenon DEF Steps
  <2>. QED BY <2>1, <2>2, Zenon
<1>2. CASE (\E o \in sent : PutLands(o)) \/ (\E o \in reaper : Reap(o)) \/ UNCHANGED vars
  <2>1. Same(f)
    BY <1>2, Zenon DEF Same, PutLands, Reap, vars, bucketVars, openVars, offsetVars, loopVars, trimVars
  <2>. QED BY <2>1, <1>LocalSame, Zenon
<1>. QED BY <1>1, <1>2, StepKinds, Zenon

-----------------------------------------------------------------------------
(* The objects.                                                            *)

\* A bulk that was PUT stays the same object.
LEMMA ObjectKept ==
  ASSUME NEW e, NEW bs, NEW new, NEW nx, Onward(bs, new, nx), NEW i \in DOMAIN bs,
         bs[i].st \in Written
  PROVE  i \in DOMAIN new /\ new[i].st \in Written /\ WalObjectOf(e, new[i]) = WalObjectOf(e, bs[i])
<1>1. /\ i \in DOMAIN new /\ new[i].st \in Written /\ new[i].trim = bs[i].trim
      /\ new[i].base = bs[i].base /\ new[i].size = bs[i].size /\ new[i].recs = bs[i].recs
  BY Zenon DEF Onward
<1>2. EndOffset(new[i]) = EndOffset(bs[i]) /\ LastOffset(new[i]) = LastOffset(bs[i])
  BY <1>1, Zenon DEF EndOffset, LastOffset
<1>. QED BY <1>1, <1>2, Zenon DEF WalObjectOf

LEMMA ObjectStays ==
  ASSUME NEW e, NEW i \in DOMAIN bulks[e], Onward(bulks[e], bulks'[e], next[e]),
         bulks[e][i].st \in Written
  PROVE  WalObjectOf(e, bulks'[e][i]) = WalObjectOf(e, bulks[e][i])
<1> DEFINE bs == bulks[e]  new == bulks'[e]  nx == next[e]
<1>1. i \in DOMAIN bs /\ Onward(bs, new, nx) /\ bs[i].st \in Written BY Zenon
<1> HIDE DEF bs, new, nx
<1>2. WalObjectOf(e, new[i]) = WalObjectOf(e, bs[i]) BY <1>1, ObjectKept
<1>. QED BY <1>2, Zenon DEF bs, new

\* The fields of an object.
LEMMA ObjectFields ==
  ASSUME NEW e, NEW b
  PROVE  /\ WalObjectOf(e, b).ep = e /\ WalObjectOf(e, b).base = b.base
         /\ WalObjectOf(e, b).end = EndOffset(b) /\ WalObjectOf(e, b).last = LastOffset(b)
BY Zenon DEF WalObjectOf

LEMMA BulkFields ==
  ASSUME NEW o, NEW b, o = WalObjectOf(o.ep, b)
  PROVE  o.base = b.base /\ o.end = EndOffset(b) /\ o.last = LastOffset(b)
<1> DEFINE e == o.ep
<1>1. o = WalObjectOf(e, b) BY Zenon
<1> HIDE DEF e
<1>2. /\ WalObjectOf(e, b).base = b.base /\ WalObjectOf(e, b).end = EndOffset(b)
      /\ WalObjectOf(e, b).last = LastOffset(b)
  BY ObjectFields, Zenon
<1>. QED BY <1>1, <1>2, Zenon

\* The steps that touch the bucket or the books about it.
BooksSame == sent' = sent /\ store' = store /\ reaper' = reaper /\ own' = own /\ prev' = prev

LEMMA BooksKinds ==
  ASSUME [Next]_vars
  PROVE  \/ BooksSame
         \/ \E e \in Epochs : \E i \in DOMAIN bulks[e] : UploadBulk(e, i) \/ UploadOk(e, i)
         \/ \E e \in Epochs : StartList(e)
         \/ \E e \in Epochs : \E c \in AllCallers : TrimDelete(e, c)
         \/ \E o \in sent : PutLands(o)
         \/ \E o \in reaper : Reap(o)
<1> USE DEF BooksSame, bucketVars, openVars, offsetVars, loopVars, trimVars
<1>1. CASE UNCHANGED vars BY <1>1, Zenon DEF vars
<1>2. ASSUME NEW e \in Epochs,
             \/ Acquire(e) \/ StartVerify(e) \/ Recover(e) \/ Ready(e)
             \/ SealActive(e) \/ Close(e) \/ \E s \in Streams : AppendRecord(e, s)
             \/ \E i \in DOMAIN bulks[e] : UploadErr(e, i)
             \/ CallbackPop(e) \/ CallbackVerify(e) \/ CompleteBulk(e)
      PROVE  BooksSame
  BY <1>2, Zenon DEF Acquire, StartVerify, Recover, Ready, SealActive, Close, AppendRecord,
       UploadErr, CallbackPop, CallbackVerify, CompleteBulk
<1>3. ASSUME NEW e \in Epochs, NEW c \in AllCallers,
             \/ TrimStart(e, c) \/ TrimSubmit(e, c) \/ TrimFails(e, c) \/ TrimDone(e, c)
             \/ TrimWaited(e, c)
      PROVE  BooksSame
  BY <1>3, Zenon DEF TrimStart, TrimSubmit, TrimFails, TrimDone, TrimWaited
<1>. QED BY <1>1, <1>2, <1>3, StepKinds, Zenon DEF Steps, TrimStep

\* What was PUT stays known, and what has landed stays in the bucket or is deleted.
LEMMA BucketGrows ==
  ASSUME [Next]_vars
  PROVE  sent \subseteq sent' /\ reaper \subseteq reaper' /\ store \cup reaper \subseteq store' \cup reaper'
<1>1. CASE BooksSame BY <1>1, Zenon DEF BooksSame
<1>2. CASE \E e \in Epochs : \E i \in DOMAIN bulks[e] : UploadBulk(e, i) \/ UploadOk(e, i)
  BY <1>2, Zenon DEF UploadBulk, UploadOk, bucketVars
<1>3. CASE \E e \in Epochs : StartList(e) BY <1>3, Zenon DEF StartList
<1>4. CASE \E e \in Epochs : \E c \in AllCallers : TrimDelete(e, c) BY <1>4, Zenon DEF TrimDelete
<1>5. CASE \E o \in sent : PutLands(o) BY <1>5, Zenon DEF PutLands
<1>6. CASE \E o \in reaper : Reap(o) BY <1>6, Zenon DEF Reap
<1>. QED BY <1>1, <1>2, <1>3, <1>4, <1>5, <1>6, BooksKinds, Zenon

\* An object that was PUT, as a bulk of its writer.
IsBulk(o) == \E i \in DOMAIN bulks[o.ep] :
               bulks[o.ep][i].st \in Written /\ o = WalObjectOf(o.ep, bulks[o.ep][i])

\* The objects a listing keeps are of epochs up to the lister's (start).
LEMMA ListedUpTo ==
  ASSUME NEW S, S \subseteq WalObject, NEW e \in Nat, NEW last \in S, IsLastObject(last, S),
         last.ep <= e, NEW o \in S
  PROVE  o.ep <= e
<1>1. o.ep \in Nat /\ last.ep \in Nat BY ConstantsAssumption, Zenon DEF WalObject
<1>2. o = last \/ ObjectBefore(o, last) BY Zenon DEF IsLastObject
<1>3. o.ep <= last.ep BY <1>1, <1>2 DEF ObjectBefore
<1> DEFINE x == o.ep  y == last.ep
<1>4. x \in Nat /\ y \in Nat /\ x <= y /\ y <= e BY <1>1, <1>3, Zenon
<1> HIDE DEF x, y
<1>5. x <= e BY <1>4
<1>. QED BY <1>5, Zenon DEF x

\* The objects stay bulks of their writers, and the books are made of them.
LEMMA SentKept ==
  ASSUME IInv, SentInv, \A e \in Epochs : Local(e), [Next]_vars
  PROVE  SentInv'
<1>0. /\ sent \subseteq WalObject /\ store \subseteq WalObject
      /\ own \in [Epochs -> SUBSET WalObject] /\ prev \in [Epochs -> SUBSET WalObject]
      /\ bulks \in [Epochs -> Seq(Bulk)]
  BY Zenon DEF IInv, TypeOK
<1>1. \A o \in sent : o.ep \in Epochs BY <1>0, Zenon DEF WalObject
<1>2. ASSUME NEW o \in sent PROVE IsBulk(o)'
  <2>1. PICK i \in DOMAIN bulks[o.ep] :
          bulks[o.ep][i].st \in Written /\ o = WalObjectOf(o.ep, bulks[o.ep][i])
    BY Zenon DEF SentInv
  <2>2. Onward(bulks[o.ep], bulks'[o.ep], next[o.ep]) BY <1>1, Zenon DEF Local, Advances
  <2>3. /\ i \in DOMAIN bulks'[o.ep] /\ bulks'[o.ep][i].st \in Written
        /\ WalObjectOf(o.ep, bulks'[o.ep][i]) = WalObjectOf(o.ep, bulks[o.ep][i])
    BY <2>1, <2>2, ObjectKept
  <2>. QED BY <2>1, <2>3, Zenon DEF IsBulk
<1>3. /\ store \subseteq sent /\ reaper \subseteq sent /\ sent \subseteq sent'
      /\ \A e \in Epochs : /\ own[e] \subseteq sent /\ \A o \in own[e] : o.ep = e
                           /\ prev[e] \subseteq sent /\ \A o \in prev[e] : o.ep <= e
  BY BucketGrows, Zenon DEF SentInv
<1>4. ASSUME NEW o \in sent' PROVE IsBulk(o)'
  <2>1. CASE o \in sent BY <1>2, <2>1, Zenon
  <2>2. CASE o \notin sent
    <3>0. PICK e \in Epochs : \E i \in DOMAIN bulks[e] : UploadBulk(e, i)
      <4>1. sent' # sent BY <2>2, Zenon
      <4>. QED BY <4>1, BooksKinds, Zenon DEF BooksSame, UploadOk, StartList, TrimDelete, PutLands,
                                   Reap, bucketVars
    <3>1. PICK i \in DOMAIN bulks[e] : UploadBulk(e, i) BY <3>0, Zenon
    <3> DEFINE b == [bulks[e][i] EXCEPT !.st = "put", !.trim = HeaderTrim(e)]
    <3>2. bulks' = [bulks EXCEPT ![e][i] = b] /\ o = WalObjectOf(e, b)
      BY <2>2, <3>1, Zenon DEF UploadBulk
    <3>3. bulks'[e][i] = b /\ i \in DOMAIN bulks'[e]
      <4> HIDE DEF b
      <4>. QED BY <1>0, <3>2, Zenon
    <3>4. b.st \in Written
      <4>1. bulks[e][i] \in Bulk BY <1>0, ElementType, Zenon
      <4>2. b.st = "put" BY <4>1, Zenon DEF Bulk
      <4>. QED BY <4>2, Zenon DEF Written
    <3> HIDE DEF b
    <3>5. o.ep = e BY <3>2, ObjectFields, Zenon
    <3>. QED BY <3>2, <3>3, <3>4, <3>5, Zenon DEF IsBulk
  <2>. QED BY <2>1, <2>2, Zenon
<1>5. store' \subseteq sent' /\ reaper' \subseteq sent'
  <2>1. CASE BooksSame BY <1>3, <2>1, Zenon DEF BooksSame
  <2>2. CASE \E e \in Epochs : \E i \in DOMAIN bulks[e] : UploadBulk(e, i) \/ UploadOk(e, i)
    BY <1>3, <2>2, Zenon DEF UploadBulk, UploadOk, bucketVars
  <2>3. CASE \E e \in Epochs : StartList(e) BY <1>3, <2>3, Zenon DEF StartList, OverlapObjects
  <2>4. ASSUME NEW e \in Epochs, NEW c \in AllCallers, TrimDelete(e, c)
        PROVE  store' \subseteq sent' /\ reaper' \subseteq sent'
    <3>1. \A t : CoveredOwn(e, t) \subseteq own[e] /\ CoveredPrevious(e, t) \subseteq prev[e]
      BY Zenon DEF CoveredOwn, CoveredPrevious
    <3>2. \E t : reaper' = reaper \cup CoveredOwn(e, t) \cup CoveredPrevious(e, t)
      BY <2>4, Zenon DEF TrimDelete
    <3>3. store' = store BY <2>4, Zenon DEF TrimDelete
    <3>4. own[e] \subseteq sent /\ prev[e] \subseteq sent BY <1>3, Zenon
    <3>. QED BY <1>3, <3>1, <3>2, <3>3, <3>4, Zenon
  <2>5. CASE \E o \in sent : PutLands(o) BY <1>3, <2>5, Zenon DEF PutLands
  <2>6. CASE \E o \in reaper : Reap(o) BY <1>3, <2>6, Zenon DEF Reap
  <2>. QED BY <2>1, <2>2, <2>3, <2>4, <2>5, <2>6, BooksKinds, Zenon
<1>6. ASSUME NEW e \in Epochs
      PROVE  /\ own'[e] \subseteq sent' /\ \A o \in own'[e] : o.ep = e
             /\ prev'[e] \subseteq sent' /\ \A o \in prev'[e] : o.ep <= e
  <2>0. /\ own[e] \subseteq sent' /\ \A o \in own[e] : o.ep = e
        /\ prev[e] \subseteq sent' /\ \A o \in prev[e] : o.ep <= e
    BY <1>3, Zenon
  <2>1. CASE own' = own /\ prev' = prev BY <2>0, <2>1, Zenon
  <2>2. ASSUME NEW f \in Epochs, NEW i \in DOMAIN bulks[f], UploadOk(f, i)
        PROVE  /\ own'[e] \subseteq sent' /\ \A o \in own'[e] : o.ep = e
               /\ prev'[e] \subseteq sent' /\ \A o \in prev'[e] : o.ep <= e
    <3> DEFINE x == WalObjectOf(f, bulks[f][i])
    <3>1. /\ own' = [own EXCEPT ![f] = own[f] \cup {x}] /\ prev' = prev /\ x \in store \cup reaper
      BY <2>2, Zenon DEF UploadOk, openVars
    <3>2. x.ep = f BY ObjectFields, Zenon
    <3> HIDE DEF x
    <3>3. x \in sent' BY <1>3, <3>1, Zenon
    <3>4. own'[e] = IF e = f THEN own[e] \cup {x} ELSE own[e] BY <1>0, <3>1, Zenon
    <3>. QED BY <2>0, <3>1, <3>2, <3>3, <3>4
  <2>3. ASSUME NEW f \in Epochs, StartList(f)
        PROVE  /\ own'[e] \subseteq sent' /\ \A o \in own'[e] : o.ep = e
               /\ prev'[e] \subseteq sent' /\ \A o \in prev'[e] : o.ep <= e
    <3> DEFINE S == skip_overlap_objects(store)
    <3>1. S \subseteq store BY Zenon DEF skip_overlap_objects
    <3>2. own' = own BY <2>3, Zenon DEF StartList, trimVars
    <3>3. \/ prev' = prev
          \/ prev' = [prev EXCEPT ![f] = S] /\ S = {}
          \/ \E last \in S : prev' = [prev EXCEPT ![f] = S] /\ IsLastObject(last, S) /\ last.ep <= f
      BY <2>3, Zenon DEF StartList
    <3> HIDE DEF S
    <3>4. CASE prev' = prev BY <2>0, <3>2, <3>4, Zenon
    <3>5. CASE prev' = [prev EXCEPT ![f] = S] /\ S = {}
      <4>1. prev'[e] = IF e = f THEN S ELSE prev[e] BY <1>0, <3>5, Zenon
      <4>. QED BY <2>0, <3>2, <3>5, <4>1
    <3>6. ASSUME NEW last \in S, prev' = [prev EXCEPT ![f] = S], IsLastObject(last, S), last.ep <= f
          PROVE  prev'[e] \subseteq sent' /\ \A o \in prev'[e] : o.ep <= e
      <4>1. prev'[e] = IF e = f THEN S ELSE prev[e] BY <1>0, <3>6, Zenon
      <4>2. S \subseteq sent' BY <1>3, <3>1, Zenon
      <4>3. S \subseteq WalObject /\ f \in Nat BY <1>0, <3>1, ConstantsAssumption, Zenon
      <4>4. \A o \in S : o.ep <= f BY <3>6, <4>3, ListedUpTo, Zenon
      <4>. QED BY <2>0, <4>1, <4>2, <4>4, Zenon
    <3>. QED BY <2>0, <3>2, <3>3, <3>4, <3>5, <3>6, Zenon
  <2>4. ASSUME NEW f \in Epochs, NEW c \in AllCallers, TrimDelete(f, c)
        PROVE  own'[e] \subseteq own[e] /\ prev'[e] \subseteq prev[e]
    <3>1. \E x : own' = [own EXCEPT ![f] = own[f] \ x] BY <2>4, Zenon DEF TrimDelete
    <3>2. \E x : prev' = [prev EXCEPT ![f] = prev[f] \ x] BY <2>4, Zenon DEF TrimDelete
    <3>. QED BY <1>0, <3>1, <3>2, Zenon
  <2>5. CASE \E f \in Epochs : \E c \in AllCallers : TrimDelete(f, c) BY <2>0, <2>4, <2>5, Zenon
  <2>6. \/ own' = own /\ prev' = prev
        \/ \E f \in Epochs : \E i \in DOMAIN bulks[f] : UploadOk(f, i)
        \/ \E f \in Epochs : StartList(f)
        \/ \E f \in Epochs : \E c \in AllCallers : TrimDelete(f, c)
    BY BooksKinds, Zenon DEF BooksSame, UploadBulk, PutLands, Reap, openVars, trimVars
  <2>. QED BY <2>1, <2>2, <2>3, <2>5, <2>6, Zenon
<1>. QED BY <1>4, <1>5, <1>6, Zenon DEF SentInv, IsBulk

\* What was answered stays landed.
LEMMA LandedKept ==
  ASSUME IInv, LandedInv, \A e \in Epochs : Local(e), [Next]_vars
  PROVE  LandedInv'
<1> SUFFICES ASSUME NEW e \in Epochs, NEW i \in DOMAIN bulks'[e], bulks'[e][i].st \in Landed
             PROVE  WalObjectOf(e, bulks'[e][i]) \in store' \cup reaper'
  BY Zenon DEF LandedInv, Landed
<1>1. Onward(bulks[e], bulks'[e], next[e]) /\ Lands(e) BY Zenon DEF Local, Advances
<1>2. /\ i \in DOMAIN bulks[e]
      /\ \/ bulks[e][i].st \in Landed
         \/ bulks[e][i].st = "put" /\ WalObjectOf(e, bulks[e][i]) \in store \cup reaper
  BY <1>1, Zenon DEF Lands
<1>3. bulks[e][i].st \in Written BY <1>2, Zenon DEF Landed, Written
<1>4. WalObjectOf(e, bulks'[e][i]) = WalObjectOf(e, bulks[e][i])
  BY <1>1, <1>2, <1>3, ObjectStays, Zenon
<1>5. WalObjectOf(e, bulks[e][i]) \in store \cup reaper BY <1>2, Zenon DEF LandedInv, Landed
<1>. QED BY <1>4, <1>5, BucketGrows, Zenon

\* The reservation stays with the newest epoch (acquire).
LEMMA HeldKept ==
  ASSUME IInv, HeldInv, \A e \in Epochs : Local(e), [Next]_vars
  PROVE  HeldInv' /\ reservation' >= reservation
<1>0. reservation \in Nat /\ Epochs \subseteq Nat BY ConstantsAssumption DEF IInv, TypeOK
<1>1. OrderedAcquire /\ NewerEpochWins BY Zenon DEF HeldInv
<1>2. CASE reservation' = reservation /\ \A e \in Epochs : status'[e] # "down" => status[e] # "down"
  BY <1>0, <1>1, <1>2 DEF HeldInv, NewerEpochWins
<1>3. ASSUME NEW e \in Epochs, Acquire(e) PROVE HeldInv' /\ reservation' >= reservation
  <2>1. status \in [Epochs -> Statuses] BY Zenon DEF IInv, TypeOK
  <2>2. reservation < e /\ reservation' = e /\ \A f \in Epochs : f # e => status'[f] = status[f]
    BY <1>1, <1>3, <2>1, Zenon DEF Acquire
  <2>3. ASSUME NEW f \in Epochs, status'[f] # "down" PROVE reservation' >= f
    <3>1. CASE f = e BY <1>0, <2>2, <3>1
    <3>2. CASE f # e
      <4>1. reservation >= f BY <1>1, <2>2, <2>3, <3>2, Zenon DEF NewerEpochWins
      <4>2. f \in Nat /\ e \in Nat BY <1>0, Zenon
      <4>. QED BY <1>0, <2>2, <4>1, <4>2
    <3>. QED BY <3>1, <3>2, Zenon
  <2>4. e \in Nat BY <1>0, Zenon
  <2>. QED BY <1>0, <1>1, <2>2, <2>3, <2>4 DEF HeldInv, NewerEpochWins
<1>4. ASSUME NEW e \in Epochs, Steps(e), ~Acquire(e)
      PROVE  reservation' = reservation /\ \A f \in Epochs : status'[f] # "down" => status[f] # "down"
  <2>1. reservation' = reservation
    BY <1>4, Zenon DEF Steps, StartVerify, StartList, Recover, Ready, SealActive, Close, AppendRecord,
       UploadBulk, UploadOk, UploadErr, CallbackPop, CallbackVerify, CompleteBulk,
       TrimStart, TrimStep, TrimSubmit, TrimDelete, TrimFails, TrimDone, TrimWaited, bucketVars
  <2>2. status' = status \/ status[e] # "down"
    BY <1>4, Zenon DEF Steps, StartVerify, StartList, Recover, Ready, SealActive, Close, AppendRecord,
       UploadBulk, UploadOk, UploadErr, CallbackPop, CallbackVerify, CompleteBulk,
       TrimStart, TrimStep, TrimSubmit, TrimDelete, TrimFails, TrimDone, TrimWaited, openVars
  <2>3. \A f \in Epochs : f # e => status'[f] = status[f] BY <1>4, PeersSame, Zenon DEF Same
  <2>. QED BY <2>1, <2>2, <2>3, Zenon
<1>5. CASE (\E o \in sent : PutLands(o)) \/ (\E o \in reaper : Reap(o)) \/ UNCHANGED vars
  <2>1. reservation' = reservation /\ status' = status
    BY <1>5, Zenon DEF PutLands, Reap, vars, bucketVars, openVars
  <2>. QED BY <1>2, <2>1, Zenon
<1>. QED BY <1>2, <1>3, <1>4, <1>5, StepKinds, Zenon

-----------------------------------------------------------------------------
(* What may be deleted, and where a successor writes.                      *)

\* A step changes the status of a writer that is down only when the writer acquires.
LEMMA FromDown ==
  ASSUME IInv, \A e \in Epochs : Local(e), [Next]_vars, NEW g \in Epochs, status[g] = "down"
  PROVE  ~Opened(g)' /\ bulks'[g] = <<>>
<1>0. status \in [Epochs -> Statuses] BY Zenon DEF IInv, TypeOK
<1>1. ASSUME NEW e \in Epochs, Steps(e) PROVE status'[g] \in {"down", "acquired"}
  <2>1. CASE e # g BY <1>1, <2>1, PeersSame, Zenon DEF Same
  <2>2. CASE e = g
    <3>1. status' = status \/ status[e] # "down" \/ Acquire(e)
      BY <1>1, Zenon DEF Steps, StartVerify, StartList, Recover, Ready, SealActive, Close, AppendRecord,
         UploadBulk, UploadOk, UploadErr, CallbackPop, CallbackVerify, CompleteBulk,
         TrimStart, TrimStep, TrimSubmit, TrimDelete, TrimFails, TrimDone, TrimWaited, openVars
    <3>2. Acquire(e) => status'[g] = "acquired" BY <1>0, <2>2, Zenon DEF Acquire
    <3>. QED BY <2>2, <3>1, <3>2, Zenon
  <2>. QED BY <2>1, <2>2, Zenon
<1>2. ASSUME (\E o \in sent : PutLands(o)) \/ (\E o \in reaper : Reap(o)) \/ UNCHANGED vars
      PROVE  status'[g] \in {"down", "acquired"}
  <2>1. status' = status BY <1>2, Zenon DEF PutLands, Reap, vars, openVars
  <2>. QED BY <2>1, Zenon
<1>3. status'[g] \in {"down", "acquired"} BY <1>1, <1>2, StepKinds, Zenon
<1>4. UseInv(g)' BY Zenon DEF Local
<1>. QED BY <1>3, <1>4, Zenon DEF UseInv, InUse, Opened, HasListed

\* Only a listing opens a writer.
LEMMA Openings ==
  ASSUME IInv, [Next]_vars, NEW g \in Epochs, Opened(g)'
  PROVE  Opened(g) \/ StartList(g)
<1>0. status \in [Epochs -> Statuses] BY Zenon DEF IInv, TypeOK
<1>1. CASE status'[g] = status[g] BY <1>1, Zenon DEF Opened, HasListed
<1>2. ASSUME NEW e \in Epochs, Steps(e) PROVE Opened(g) \/ StartList(g)
  <2>1. CASE e # g
    <3>1. status'[g] = status[g] BY <1>2, <2>1, PeersSame, Zenon DEF Same
    <3>. QED BY <1>1, <3>1, Zenon
  <2>2. CASE e = g
    <3>1. \/ status' = status \/ StartList(e)
          \/ status[e] \in {"open", "recovered", "ready"}
          \/ status' = [status EXCEPT ![e] = "acquired"]
          \/ status' = [status EXCEPT ![e] = "verified"]
          \/ status' = [status EXCEPT ![e] = "failed"]
      BY <1>2, Zenon DEF Steps, Acquire, StartVerify, Recover, Ready, SealActive, Close, AppendRecord,
         UploadBulk, UploadOk, UploadErr, CallbackPop, CallbackVerify, CompleteBulk,
         TrimStart, TrimStep, TrimSubmit, TrimDelete, TrimFails, TrimDone, TrimWaited, openVars
    <3>. QED BY <1>0, <1>1, <2>2, <3>1, Zenon DEF Opened, HasListed
  <2>. QED BY <2>1, <2>2, Zenon
<1>3. CASE (\E o \in sent : PutLands(o)) \/ (\E o \in reaper : Reap(o)) \/ UNCHANGED vars
  <2>1. status' = status BY <1>3, Zenon DEF PutLands, Reap, vars, openVars
  <2>. QED BY <1>1, <2>1, Zenon
<1>. QED BY <1>2, <1>3, StepKinds, Zenon

\* What is sure has landed (callback_loop).
LEMMA SureLanded ==
  ASSUME NEW e \in Epochs, LoopInv(e), NEW i \in DOMAIN bulks[e], Sure(e, i)
  PROVE  bulks[e][i].st \in Landed
BY Zenon DEF LoopInv, Loop, Sure, SureIn, Landed

\* Without the reservation nothing becomes sure.
LEMMA SureBefore ==
  ASSUME NEW e \in Epochs, LoopInv(e), Local(e), reservation # e,
         NEW i \in DOMAIN bulks'[e], Sure(e, i)'
  PROVE  /\ i \in DOMAIN bulks[e] /\ Sure(e, i)
         /\ WalObjectOf(e, bulks'[e][i]) = WalObjectOf(e, bulks[e][i])
<1>1. Onward(bulks[e], bulks'[e], next[e]) /\ Sures(e) BY Zenon DEF Local, Advances
<1>2. i \in DOMAIN bulks[e] /\ Sure(e, i) BY <1>1, Zenon DEF Sures
<1>3. bulks[e][i].st \in Landed BY <1>2, SureLanded, Zenon
<1>4. bulks[e][i].st \in Written BY <1>3, Zenon DEF Landed, Written
<1>. QED BY <1>1, <1>2, <1>4, ObjectStays, Zenon

\* Trim offsets only grow.
LEMMA TrimmedKept ==
  ASSUME IInv, IInv', \A e \in Epochs : Local(e), NEW o, o.last \in Int, Trimmed(o)
  PROVE  Trimmed(o)'
<1>1. PICK f \in Epochs : f >= o.ep /\ o.last <= trim[f] BY Zenon DEF Trimmed
<1>2. trim'[f] >= trim[f] BY Zenon DEF Local, Advances, Forward
<1>3. trim[f] \in Int /\ trim'[f] \in Int BY Zenon DEF IInv, TypeOK
<1> DEFINE x == o.last  y == trim[f]  z == trim'[f]
<1>4. x \in Int /\ y \in Int /\ z \in Int /\ x <= y /\ z >= y BY <1>1, <1>2, <1>3, Zenon
<1> HIDE DEF x, y, z
<1>5. x <= z BY <1>4
<1>6. o.last <= trim'[f] BY <1>5, Zenon DEF x, z
<1>. QED BY <1>1, <1>6, Zenon DEF Trimmed

\* A successor that has acquired keeps the writer from confirming more.
LEMMA LostKept ==
  ASSUME IInv, HeldInv, \A e \in Epochs : LoopInv(e) /\ Local(e), NEW o, o.ep \in Epochs, Lost(o)
  PROVE  Lost(o)'
<1>1. PICK g \in Epochs : g > o.ep /\ status[g] # "down" BY Zenon DEF Lost
<1>2. status'[g] # "down" BY <1>1, Zenon DEF Local, Advances, Forward
<1>3. reservation # o.ep
  <2>1. reservation >= g BY <1>1, Zenon DEF HeldInv, NewerEpochWins
  <2>2. reservation \in Epochs \cup {0} BY Zenon DEF IInv, TypeOK
  <2> DEFINE x == o.ep
  <2>6. x \in Epochs /\ g > x BY <1>1, Zenon
  <2> HIDE DEF x
  <2>3. reservation \in Nat /\ g \in Nat BY <2>2, ConstantsAssumption
  <2>4. x \in Nat /\ g > x BY <2>6, ConstantsAssumption, Zenon
  <2>5. reservation # x BY <2>1, <2>3, <2>4
  <2>. QED BY <2>5, Zenon DEF x
<1>4. ASSUME NEW i \in DOMAIN bulks'[o.ep], o = WalObjectOf(o.ep, bulks'[o.ep][i]), Sure(o.ep, i)'
      PROVE  FALSE
  <2>1. /\ i \in DOMAIN bulks[o.ep] /\ Sure(o.ep, i)
        /\ WalObjectOf(o.ep, bulks'[o.ep][i]) = WalObjectOf(o.ep, bulks[o.ep][i])
    BY <1>3, <1>4, SureBefore, Zenon
  <2>. QED BY <1>4, <2>1, Zenon DEF Lost
<1>. QED BY <1>1, <1>2, <1>4, Zenon DEF Lost

\* An object that was PUT.
LEMMA SentObject ==
  ASSUME IInv, SentInv, NEW o \in sent
  PROVE  /\ o.ep \in Epochs /\ o.base \in Nat /\ o.end \in Nat /\ o.last \in Nat /\ o.last <= o.end
         /\ o.base <= o.end
         /\ \E i \in DOMAIN bulks[o.ep] :
              bulks[o.ep][i].st \in Written /\ o = WalObjectOf(o.ep, bulks[o.ep][i])
<1>1. o \in WalObject BY Zenon DEF IInv, TypeOK
<1>2. o.ep \in Epochs /\ o.base \in Nat /\ o.end \in Nat /\ o.last \in Nat BY <1>1, Zenon DEF WalObject
<1>3. PICK i \in DOMAIN bulks[o.ep] :
        bulks[o.ep][i].st \in Written /\ o = WalObjectOf(o.ep, bulks[o.ep][i])
  BY Zenon DEF SentInv
<1> DEFINE b == bulks[o.ep][i]
<1>4. b \in Bulk
  <2>1. bulks[o.ep] \in Seq(Bulk) BY <1>2, BucketTypes, Zenon
  <2>. QED BY <2>1, ElementType, Zenon
<1>5. o.base = b.base /\ o.end = EndOffset(b) /\ o.last = LastOffset(b)
  BY <1>3, BulkFields, Zenon
<1> HIDE DEF b
<1>6. b.base \in Nat /\ b.size \in Nat BY <1>4, Zenon DEF Bulk
<1>7. EndOffset(b) \in Nat /\ EndOffset(b) >= b.base + b.size /\ LastOffset(b) = b.base + b.size - 1
  BY <1>4, BulkOffsets, Zenon DEF LastOffset
<1>8. o.last <= o.end /\ o.base <= o.end
  <2> DEFINE x == b.base  y == b.size  z == EndOffset(b)
  <2>1. x \in Nat /\ y \in Nat /\ z \in Nat /\ z >= x + y BY <1>6, <1>7, Zenon
  <2> HIDE DEF x, y, z
  <2>2. x + y - 1 <= z /\ x <= z BY <2>1
  <2>. QED BY <1>5, <1>7, <2>2, Zenon DEF x, y, z
<1>. QED BY <1>2, <1>3, <1>8, Zenon

\* An object that overlaps with a successor's will not be confirmed, or is trimmed
\* (skip_overlap_objects).
LEMMA OverlapLost ==
  ASSUME IInv, BucketInv, NEW o \in OverlapObjects(store)
  PROVE  Trimmed(o) \/ Lost(o)
<1>0. SentInv /\ BehindInv /\ store \subseteq sent BY Zenon DEF BucketInv, SentInv
<1>1. o \in store /\ IsFirstObject(o, store) /\ \E p \in store : p.ep # o.ep /\ o.end > p.base
  BY Zenon DEF OverlapObjects
<1>2. PICK p \in store : p.ep # o.ep /\ o.end > p.base BY <1>1, Zenon
<1>3. o \in sent /\ p \in sent BY <1>0, <1>1, Zenon
<1>4. /\ o.ep \in Epochs /\ p.ep \in Epochs /\ o.ep \in Nat /\ p.ep \in Nat
      /\ o.end \in Nat /\ p.base \in Nat
  BY <1>0, <1>3, SentObject, ConstantsAssumption, Zenon
<1>5. p.ep > o.ep
  <2>1. p = o \/ ObjectBefore(o, p) BY <1>1, Zenon DEF IsFirstObject
  <2>. QED BY <1>2, <1>4, <2>1, Zenon DEF ObjectBefore
<1>6. PICK j \in DOMAIN bulks[p.ep] : p = WalObjectOf(p.ep, bulks[p.ep][j])
  BY <1>0, <1>3, SentObject, Zenon
<1>7. status[p.ep] # "down"
  <2>1. bulks[p.ep] # <<>> BY <1>6
  <2>2. UseInv(p.ep) BY <1>4, Zenon DEF BucketInv
  <2>. QED BY <2>1, <2>2, Zenon DEF UseInv, InUse
<1>8. ASSUME NEW i \in DOMAIN bulks[o.ep], o = WalObjectOf(o.ep, bulks[o.ep][i]), Sure(o.ep, i)
      PROVE  Trimmed(o)
  <2>1. \/ Trimmed(WalObjectOf(o.ep, bulks[o.ep][i]))
        \/ Behind(p.ep, EndOffset(bulks[o.ep][i]))
    BY <1>0, <1>4, <1>5, <1>8, Zenon DEF BehindInv
  <2>2. CASE Trimmed(WalObjectOf(o.ep, bulks[o.ep][i])) BY <1>8, <2>2, Zenon
  <2>3. CASE Behind(p.ep, EndOffset(bulks[o.ep][i]))
    <3>1. bulks[p.ep][j].base >= EndOffset(bulks[o.ep][i]) BY <2>3, Zenon DEF Behind
    <3>2. p.base = bulks[p.ep][j].base BY <1>6, BulkFields, Zenon
    <3>3. o.end = EndOffset(bulks[o.ep][i]) BY <1>8, BulkFields, Zenon
    <3>. QED BY <1>2, <1>4, <3>1, <3>2, <3>3
  <2>. QED BY <2>1, <2>2, <2>3, Zenon
<1>. QED BY <1>4, <1>5, <1>7, <1>8, Zenon DEF Lost

\* What a trim deletes is trimmed (trim0).
LEMMA DeletedTrimmed ==
  ASSUME IInv, BucketInv, NEW e \in Epochs, NEW c \in AllCallers, calls[e][c].pc = "await",
         NEW o \in CoveredOwn(e, calls[e][c].t) \cup CoveredPrevious(e, calls[e][c].t)
  PROVE  Trimmed(o)
<1> DEFINE t == calls[e][c].t
<1>1. t <= trim[e] /\ t \in Int /\ trim[e] \in Int /\ e \in Nat
  <2>1. UseInv(e) BY Zenon DEF BucketInv
  <2>2. t <= trim[e] BY <2>1, Zenon DEF UseInv
  <2>3. t \in Int /\ trim[e] \in Int BY Zenon DEF IInv, TypeOK
  <2>. QED BY <2>2, <2>3, ConstantsAssumption, Zenon
<1> HIDE DEF t
<1>2. SentInv BY Zenon DEF BucketInv
<1>3. CASE o \in CoveredOwn(e, t)
  <2>1. o \in own[e] /\ o.last <= t BY <1>3, Zenon DEF CoveredOwn
  <2>2. o.ep = e /\ o \in sent BY <1>2, <2>1, Zenon DEF SentInv
  <2>3. o.last \in Nat BY <1>2, <2>2, SentObject, Zenon
  <2>4. o.last <= trim[e] BY <1>1, <2>1, <2>3
  <2>5. e >= o.ep BY <1>1, <2>2
  <2>. QED BY <2>4, <2>5, Zenon DEF Trimmed
<1>4. CASE o \in CoveredPrevious(e, t)
  <2>1. o \in prev[e] /\ o.end <= t BY <1>4, Zenon DEF CoveredPrevious
  <2>2. o.ep <= e /\ o \in sent BY <1>2, <2>1, Zenon DEF SentInv
  <2>3. o.last \in Nat /\ o.end \in Nat /\ o.last <= o.end /\ o.ep \in Epochs BY <1>2, <2>2, SentObject, Zenon
  <2>4. o.last <= trim[e] BY <1>1, <2>1, <2>3
  <2>5. e >= o.ep BY <1>1, <2>2, <2>3, ConstantsAssumption, Zenon
  <2>. QED BY <2>4, <2>5 DEF Trimmed
<1>. QED BY <1>3, <1>4, Zenon DEF t

\* What is deleted stays trimmed or lost.
LEMMA ReaperKept ==
  ASSUME IInv, IInv', BucketInv, \A e \in Epochs : Local(e), [Next]_vars
  PROVE  ReaperInv'
<1>0. /\ SentInv /\ HeldInv /\ ReaperInv /\ \A e \in Epochs : LoopInv(e) /\ Local(e)
  BY Zenon DEF BucketInv
<1>1. ASSUME NEW o \in sent, Trimmed(o) \/ Lost(o) PROVE (Trimmed(o) \/ Lost(o))'
  <2>1. o.ep \in Epochs /\ o.last \in Int BY <1>0, SentObject
  <2>2. CASE Trimmed(o)
    <3>1. Trimmed(o)' BY <2>1, <2>2, TrimmedKept, Zenon
    <3>. QED BY <3>1, Zenon
  <2>3. CASE Lost(o)
    <3>1. Lost(o)' BY <1>0, <2>1, <2>3, LostKept, Zenon
    <3>. QED BY <3>1, Zenon
  <2>. QED BY <1>1, <2>2, <2>3, Zenon
<1>2. store \subseteq sent /\ reaper \subseteq sent
      /\ \A e \in Epochs : own[e] \subseteq sent /\ prev[e] \subseteq sent
  BY <1>0, Zenon DEF SentInv
<1>3. ASSUME NEW o \in reaper', o \notin reaper PROVE o \in sent /\ (Trimmed(o) \/ Lost(o))
  <2>1. ASSUME NEW e \in Epochs, StartList(e) PROVE o \in sent /\ (Trimmed(o) \/ Lost(o))
    <3>1. o \in OverlapObjects(store) BY <1>3, <2>1, Zenon DEF StartList
    <3>2. o \in store BY <3>1, Zenon DEF OverlapObjects
    <3>. QED BY <1>2, <3>1, <3>2, OverlapLost, Zenon
  <2>2. ASSUME NEW e \in Epochs, NEW c \in AllCallers, TrimDelete(e, c)
        PROVE  o \in sent /\ (Trimmed(o) \/ Lost(o))
    <3>1. /\ calls[e][c].pc = "await"
          /\ o \in CoveredOwn(e, calls[e][c].t) \cup CoveredPrevious(e, calls[e][c].t)
      BY <1>3, <2>2, Zenon DEF TrimDelete
    <3>2. o \in own[e] \cup prev[e] BY <3>1, Zenon DEF CoveredOwn, CoveredPrevious
    <3>3. Trimmed(o) BY <3>1, DeletedTrimmed, Zenon
    <3>. QED BY <1>2, <3>2, <3>3, Zenon
  <2>3. reaper' # reaper BY <1>3, Zenon
  <2>4. \/ \E e \in Epochs : StartList(e)
        \/ \E e \in Epochs : \E c \in AllCallers : TrimDelete(e, c)
    BY <2>3, BooksKinds, Zenon DEF BooksSame, UploadBulk, UploadOk, PutLands, Reap, bucketVars
  <2>. QED BY <2>1, <2>2, <2>4, Zenon
<1>4. ASSUME NEW o \in reaper' PROVE (Trimmed(o) \/ Lost(o))'
  <2>1. o \in sent /\ (Trimmed(o) \/ Lost(o)) BY <1>0, <1>2, <1>3, Zenon DEF ReaperInv
  <2>. QED BY <1>1, <2>1, Zenon
<1>. QED BY <1>4, Zenon DEF ReaperInv

\* Two objects of one writer, in the order of the listing.
LEMMA TilesBefore ==
  ASSUME IInv, NEW e \in Epochs, NEW i \in DOMAIN bulks[e], NEW j \in DOMAIN bulks[e],
         bulks[e][i].base < bulks[e][j].base
  PROVE  EndOffset(bulks[e][i]) <= bulks[e][j].base
<1> DEFINE bs == bulks[e]
<1>1. bs \in Seq(Bulk) /\ Tiles(bs, next[e]) BY BucketTypes, Zenon DEF IInv, WriterInv, BatchInv
<1>2. /\ i \in DOMAIN bs /\ j \in DOMAIN bs /\ bs[i].base < bs[j].base BY Zenon
<1> SUFFICES EndOffset(bs[i]) <= bs[j].base BY Zenon
<1> HIDE DEF bs
<1>3. bs[i] \in Bulk /\ bs[j] \in Bulk BY <1>1, <1>2, ElementType, Zenon
<1>4. i \in Nat /\ j \in Nat BY <1>1, <1>2
<1>5. CASE i < j BY <1>1, <1>2, <1>5, Zenon DEF Tiles
<1>6. CASE i = j
  <2>1. bs[i].base \in Nat BY <1>3, Zenon DEF Bulk
  <2>. QED BY <1>2, <1>6, <2>1
<1>7. CASE j < i
  <2>1. EndOffset(bs[j]) <= bs[i].base BY <1>1, <1>2, <1>7, Zenon DEF Tiles
  <2>2. EndOffset(bs[j]) \in Nat /\ EndOffset(bs[j]) >= bs[j].base + bs[j].size BY <1>3, BulkOffsets, Zenon
  <2>3. bs[i].base \in Nat /\ bs[j].base \in Nat /\ bs[j].size \in Nat BY <1>3, Zenon DEF Bulk
  <2> DEFINE x == bs[i].base  y == bs[j].base  s == bs[j].size  z == EndOffset(bs[j])
  <2>4. x \in Nat /\ y \in Nat /\ s \in Nat /\ z \in Nat /\ x < y /\ z <= x /\ z >= y + s
    BY <1>2, <2>1, <2>2, <2>3, Zenon
  <2> HIDE DEF x, y, s, z
  <2>5. FALSE BY <2>4
  <2>. QED BY <2>5, Zenon
<1>. QED BY <1>4, <1>5, <1>6, <1>7

\* A confirmed bulk that is listed ends at or before the end of the last one listed.
LEMMA LastBehind ==
  ASSUME IInv, BucketInv, NEW e \in Epochs, NEW i \in DOMAIN bulks[e], Sure(e, i),
         NEW S, S \subseteq sent, WalObjectOf(e, bulks[e][i]) \in S,
         NEW last \in S, IsLastObject(last, S)
  PROVE  Trimmed(WalObjectOf(e, bulks[e][i])) \/ last.end >= EndOffset(bulks[e][i])
<1> DEFINE o == WalObjectOf(e, bulks[e][i])  x == EndOffset(bulks[e][i])
<1>0. SentInv /\ BehindInv BY Zenon DEF BucketInv
<1>1. last \in sent /\ o \in sent /\ o \in S BY Zenon
<1>2. o.ep = e /\ o.base = bulks[e][i].base /\ o.end = x BY ObjectFields, Zenon
<1>3. o = last \/ ObjectBefore(o, last) BY <1>1, Zenon DEF IsLastObject
<1>4. /\ last.ep \in Epochs /\ last.base \in Nat /\ last.end \in Nat /\ last.base <= last.end
      /\ o.end \in Nat
  BY <1>0, <1>1, SentObject, Zenon
<1> HIDE DEF o
<1>5. PICK j \in DOMAIN bulks[last.ep] : last = WalObjectOf(last.ep, bulks[last.ep][j])
  BY <1>0, <1>1, SentObject, Zenon
<1>6. last.base = bulks[last.ep][j].base BY <1>5, BulkFields, Zenon
<1>7. x \in Nat BY <1>2, <1>4, Zenon
<1>8. CASE o = last
  <2>1. last.end = x BY <1>2, <1>8, Zenon
  <2>2. x >= x
    <3> HIDE DEF x
    <3>. QED BY <1>7
  <2>. QED BY <2>1, <2>2, Zenon
<1>9. CASE last.ep > e
  <2>1. Trimmed(o) \/ Behind(last.ep, x) BY <1>0, <1>4, <1>9, Zenon DEF BehindInv, o
  <2>2. Behind(last.ep, x) => bulks[last.ep][j].base >= x BY Zenon DEF Behind
  <2>3. Behind(last.ep, x) => last.end >= x
    <3> DEFINE lb == last.base  le == last.end
    <3>1. /\ lb \in Nat /\ le \in Nat /\ lb <= le /\ x \in Nat
          /\ (Behind(last.ep, x) => lb >= x)
      BY <1>4, <1>6, <1>7, <2>2, Zenon
    <3> HIDE DEF x, lb, le
    <3>2. Behind(last.ep, x) => le >= x BY <3>1
    <3>. QED BY <3>2, Zenon DEF le
  <2>. QED BY <2>1, <2>3, Zenon DEF o
<1>10. CASE last.ep = e /\ o.base < last.base
  <2>1. bulks[e][i].base < bulks[e][j].base BY <1>2, <1>6, <1>10, Zenon
  <2>2. j \in DOMAIN bulks[e] BY <1>10, Zenon
  <2>3. x <= bulks[e][j].base BY <2>1, <2>2, TilesBefore, Zenon
  <2>4. x <= last.base BY <1>6, <1>10, <2>3, Zenon
  <2>5. last.end >= x
    <3> DEFINE lb == last.base  le == last.end
    <3>1. lb \in Nat /\ le \in Nat /\ lb <= le /\ x \in Nat /\ x <= lb
      BY <1>4, <1>7, <2>4, Zenon
    <3> HIDE DEF x, lb, le
    <3>2. le >= x BY <3>1
    <3>. QED BY <3>2, Zenon DEF le
  <2>. QED BY <2>5, Zenon
<1>11. e \in Nat /\ last.ep \in Nat BY <1>4, ConstantsAssumption, Zenon
<1>12. o = last \/ last.ep > e \/ (last.ep = e /\ o.base < last.base)
  BY <1>2, <1>3, <1>11, Zenon DEF ObjectBefore
<1>. QED BY <1>8, <1>9, <1>10, <1>12, Zenon

\* A successor that lists the bucket starts behind what is confirmed (start).
LEMMA ListedBehind ==
  ASSUME IInv, BucketInv, NEW g \in Epochs, StartList(g), NEW e \in Epochs, g > e,
         NEW i \in DOMAIN bulks[e], Sure(e, i), Opened(g)'
  PROVE  Trimmed(WalObjectOf(e, bulks[e][i])) \/ next'[g] >= EndOffset(bulks[e][i])
<1> DEFINE o == WalObjectOf(e, bulks[e][i])  S == skip_overlap_objects(store)
<1>0. /\ SentInv /\ LandedInv /\ ReaperInv /\ LoopInv(e) /\ store \subseteq sent
  BY Zenon DEF BucketInv, SentInv
<1>1. bulks[e][i].st \in Landed BY <1>0, SureLanded, Zenon
<1>2. o \in store \cup reaper BY <1>0, <1>1, Zenon DEF LandedInv, Landed
<1>3. o.ep = e BY ObjectFields, Zenon
<1>4. Lost(o) => FALSE
  <2>1. o = WalObjectOf(o.ep, bulks[o.ep][i]) /\ i \in DOMAIN bulks[o.ep] /\ Sure(o.ep, i)
    BY <1>3, Zenon
  <2> HIDE DEF o
  <2>. QED BY <2>1, Zenon DEF Lost
<1>5. status \in [Epochs -> Statuses] /\ next \in [Epochs -> Nat] BY Zenon DEF IInv, TypeOK
<1>6. \/ S = {} \/ \E last \in S : IsLastObject(last, S) /\ next' = [next EXCEPT ![g] = last.end]
  <2>1. status'[g] # "failed" BY Zenon DEF Opened
  <2>2. status' # [status EXCEPT ![g] = "failed"] BY <1>5, <2>1, Zenon
  <2>. QED BY <2>2, Zenon DEF StartList
<1>7. CASE o \notin store
  <2>1. o \in reaper BY <1>2, <1>7, Zenon
  <2>2. Trimmed(o) BY <1>0, <1>4, <2>1, Zenon DEF ReaperInv
  <2>. QED BY <2>2, Zenon
<1>8. CASE o \in OverlapObjects(store)
  <2>1. Trimmed(o) BY <1>4, <1>8, OverlapLost, Zenon
  <2>. QED BY <2>1
<1>9. CASE o \in S
  <2>1. PICK last \in S : IsLastObject(last, S) /\ next' = [next EXCEPT ![g] = last.end]
    BY <1>6, <1>9, Zenon
  <2>2. next'[g] = last.end BY <1>5, <2>1, Zenon
  <2>3. S \subseteq sent BY <1>0, Zenon DEF skip_overlap_objects
  <2> HIDE DEF S
  <2>4. Trimmed(o) \/ last.end >= EndOffset(bulks[e][i]) BY <1>9, <2>1, <2>3, LastBehind, Zenon
  <2>. QED BY <2>2, <2>4, Zenon
<1>. QED BY <1>7, <1>8, <1>9, Zenon DEF skip_overlap_objects

\* Successors stay behind what is confirmed.
LEMMA BehindKept ==
  ASSUME IInv, IInv', BucketInv, \A e \in Epochs : Local(e), [Next]_vars
  PROVE  BehindInv'
<1> SUFFICES ASSUME NEW e \in Epochs, NEW i \in DOMAIN bulks'[e], NEW g \in Epochs,
                    Sure(e, i)', g > e
             PROVE  (Trimmed(WalObjectOf(e, bulks[e][i])) \/ Behind(g, EndOffset(bulks[e][i])))'
  BY Zenon DEF BehindInv
<1>0. LoopInv(e) /\ HeldInv /\ BehindInv /\ UseInv(g) BY Zenon DEF BucketInv
<1>1. CASE status[g] = "down"
  <2>1. ~Opened(g)' /\ bulks'[g] = <<>> BY <1>1, FromDown, Zenon
  <2>2. DOMAIN bulks'[g] = {} BY <2>1
  <2>. QED BY <2>1, <2>2, Zenon DEF Behind
<1>2. CASE status[g] # "down"
  <2>1. reservation # e
    <3>1. reservation >= g BY <1>0, <1>2, Zenon DEF HeldInv, NewerEpochWins
    <3>2. reservation \in Epochs \cup {0} BY Zenon DEF IInv, TypeOK
    <3>3. reservation \in Nat /\ g \in Nat /\ e \in Nat BY <3>2, ConstantsAssumption
    <3>. QED BY <3>1, <3>3
  <2>2. /\ i \in DOMAIN bulks[e] /\ Sure(e, i)
        /\ WalObjectOf(e, bulks'[e][i]) = WalObjectOf(e, bulks[e][i])
    BY <1>0, <2>1, SureBefore, Zenon
  <2>3. EndOffset(bulks'[e][i]) = EndOffset(bulks[e][i])
    <3>1. /\ WalObjectOf(e, bulks'[e][i]).end = EndOffset(bulks'[e][i])
          /\ WalObjectOf(e, bulks[e][i]).end = EndOffset(bulks[e][i])
      BY ObjectFields, Zenon
    <3>. QED BY <2>2, <3>1, Zenon
  <2>10. PICK o : o = WalObjectOf(e, bulks[e][i]) BY Zenon
  <2>11. PICK x : x = EndOffset(bulks[e][i]) BY Zenon
  <2>4. bulks[e] \in Seq(Bulk) /\ next[g] \in Nat /\ bulks[g] \in Seq(Bulk) BY BucketTypes, Zenon
  <2>5. bulks[e][i] \in Bulk BY <2>2, <2>4, ElementType, Zenon
  <2>6. x \in Nat /\ o.last \in Int
    <3>1. EndOffset(bulks[e][i]) \in Nat /\ LastOffset(bulks[e][i]) \in Nat
      BY <2>5, BulkOffsets, Zenon
    <3>2. WalObjectOf(e, bulks[e][i]).last = LastOffset(bulks[e][i]) BY ObjectFields, Zenon
    <3>. QED BY <2>10, <2>11, <3>1, <3>2
  <2>8. CASE Trimmed(o)
    <3>1. Trimmed(o)' BY <2>6, <2>8, TrimmedKept, Zenon
    <3>2. \E f \in Epochs : f >= o.ep /\ o.last <= trim'[f] BY <3>1, Zenon DEF Trimmed
    <3>3. o = WalObjectOf(e, bulks'[e][i]) BY <2>2, <2>10, Zenon
    <3>4. Trimmed(WalObjectOf(e, bulks[e][i]))' BY <3>2, <3>3, Zenon DEF Trimmed
    <3>. QED BY <3>4, Zenon
  <2>9. CASE ~Trimmed(o)
    <3>1. Behind(g, x) BY <1>0, <2>2, <2>9, <2>10, <2>11, Zenon DEF BehindInv
    <3>2. Onward(bulks[g], bulks'[g], next[g]) /\ Forward(g) /\ UseInv(g)' BY Zenon DEF Local, Advances
    <3>3. ASSUME NEW j \in DOMAIN bulks'[g] PROVE bulks'[g][j].base >= x
      <4>1. CASE j \in DOMAIN bulks[g]
        <5>1. bulks'[g][j].base = bulks[g][j].base BY <3>2, <4>1, Zenon DEF Onward
        <5>. QED BY <3>1, <4>1, <5>1, Zenon DEF Behind
      <4>2. CASE j \notin DOMAIN bulks[g]
        <5>1. bulks'[g][j].base >= next[g] BY <3>2, <4>2, Zenon DEF Onward
        <5>2. bulks'[g] # <<>> OBVIOUS
        <5>3. InUse(g)' BY <3>2, <5>2, Zenon DEF UseInv
        <5>4. Opened(g)' BY <5>3, Zenon DEF InUse, Opened, HasListed
        <5>5. ~StartList(g)
          <6>1. status \in [Epochs -> Statuses] BY Zenon DEF IInv, TypeOK
          <6>2. StartList(g) => status'[g] \in {"open", "failed"} BY <6>1, Zenon DEF StartList
          <6>. QED BY <5>3, <6>2, Zenon DEF InUse
        <5>6. next[g] >= x BY <3>1, <5>4, <5>5, Openings, Zenon DEF Behind
        <5>7. bulks'[g][j].base \in Nat
          <6>1. bulks'[g] \in Seq(Bulk) BY Zenon DEF IInv, TypeOK
          <6>2. bulks'[g][j] \in Bulk BY <6>1, ElementType, Zenon
          <6>. QED BY <6>2, Zenon DEF Bulk
        <5> DEFINE b == bulks'[g][j].base  n == next[g]
        <5>8. b \in Nat /\ n \in Nat /\ b >= n /\ n >= x BY <2>4, <5>1, <5>6, <5>7, Zenon
        <5> HIDE DEF b, n
        <5>9. b >= x BY <2>6, <5>8
        <5>. QED BY <5>9, Zenon DEF b
      <4>. QED BY <4>1, <4>2, Zenon
    <3>4. ASSUME Opened(g)' PROVE next'[g] >= x
      <4>1. CASE StartList(g)
        <5>1. Trimmed(o) \/ next'[g] >= x BY <2>2, <2>10, <2>11, <3>4, <4>1, ListedBehind, Zenon
        <5>. QED BY <2>9, <5>1, Zenon
      <4>2. CASE ~StartList(g)
        <5>1. Opened(g) BY <3>4, <4>2, Openings, Zenon
        <5>2. next[g] >= x /\ next'[g] >= next[g] BY <3>1, <3>2, <5>1, Zenon DEF Behind, Forward
        <5>3. next'[g] \in Nat BY Zenon DEF IInv, TypeOK
        <5>. QED BY <2>4, <2>6, <5>2, <5>3
      <4>. QED BY <4>1, <4>2, Zenon
    <3>5. Behind(g, x)' BY <3>3, <3>4, Zenon DEF Behind
    <3>6. EndOffset(bulks'[e][i]) = x BY <2>3, <2>11, Zenon
    <3>7. Behind(g, EndOffset(bulks[e][i]))' BY <3>5, <3>6, Zenon DEF Behind
    <3>. QED BY <3>7, Zenon
  <2>. QED BY <2>8, <2>9, Zenon
<1>. QED BY <1>1, <1>2, Zenon

-----------------------------------------------------------------------------
(* The invariant and the theorem.                                          *)

LEMMA BucketStep == IInv /\ BucketInv /\ [Next]_vars => BucketInv'
<1> SUFFICES ASSUME IInv, BucketInv, [Next]_vars PROVE BucketInv'
  BY Zenon
<1>1. IInv' BY InvStep, Zenon
<1>2. /\ \A e \in Epochs : LoopInv(e) /\ UseInv(e)
      /\ SentInv /\ LandedInv /\ HeldInv
  BY Zenon DEF BucketInv
<1>3. \A e \in Epochs : Local(e) BY <1>1, <1>2, LocalStep, Zenon
<1>4. \A e \in Epochs : LoopInv(e)' /\ UseInv(e)' BY <1>3, Zenon DEF Local
<1>5. SentInv' BY <1>2, <1>3, SentKept, Zenon
<1>6. LandedInv' BY <1>2, <1>3, LandedKept, Zenon
<1>7. HeldInv' BY <1>2, <1>3, HeldKept, Zenon
<1>8. ReaperInv' BY <1>1, <1>3, ReaperKept, Zenon
<1>9. BehindInv' BY <1>1, <1>3, BehindKept, Zenon
<1>. QED BY <1>4, <1>5, <1>6, <1>7, <1>8, <1>9, Zenon DEF BucketInv

LEMMA BucketInit == OrderedAcquire /\ Init => BucketInv
<1> SUFFICES ASSUME OrderedAcquire, Init PROVE BucketInv
  BY Zenon
<1>1. \A e \in Epochs : bulks[e] = <<>> /\ DOMAIN bulks[e] = {} BY DEF Init
<1>2. ASSUME NEW e \in Epochs PROVE LoopInv(e) /\ UseInv(e)
  <2>1. completed[e] = popped[e] BY Zenon DEF Init
  <2>2. LoopInv(e) BY <1>1, <2>1, Zenon DEF LoopInv, Loop
  <2>3. active[e] = NoBulk /\ \A c \in AllCallers : calls[e][c].pc = "idle" BY Zenon DEF Init
  <2>. QED BY <1>1, <2>2, <2>3, Zenon DEF UseInv
<1>3. SentInv BY Zenon DEF Init, SentInv
<1>4. LandedInv BY <1>1, Zenon DEF LandedInv
<1>5. HeldInv BY Zenon DEF HeldInv, NewerEpochWins, Init
<1>6. ReaperInv BY Zenon DEF ReaperInv, Init
<1>7. BehindInv BY <1>1, Zenon DEF BehindInv
<1>. QED BY <1>2, <1>3, <1>4, <1>5, <1>6, <1>7, Zenon DEF BucketInv

LEMMA BucketDurable == IInv /\ BucketInv => AckedIsDurable
<1> SUFFICES ASSUME IInv, BucketInv, NEW e \in Epochs, NEW i \in DOMAIN bulks[e],
                    bulks[e][i].st = "acked", WalObjectOf(e, bulks[e][i]) \notin store
             PROVE  \E f \in Epochs : f >= e /\ LastOffset(bulks[e][i]) <= trim[f]
  BY Zenon DEF AckedIsDurable
<1> DEFINE o == WalObjectOf(e, bulks[e][i])
<1>1. o.ep = e /\ o.last = LastOffset(bulks[e][i]) BY ObjectFields, Zenon
<1>2. o \in reaper BY Zenon DEF BucketInv, LandedInv
<1>3. Sure(e, i) BY Zenon DEF Sure, SureIn
<1>4. ~Lost(o)
  <2>1. o = WalObjectOf(o.ep, bulks[o.ep][i]) /\ i \in DOMAIN bulks[o.ep] /\ Sure(o.ep, i)
    BY <1>1, <1>3, Zenon
  <2> HIDE DEF o
  <2>. QED BY <2>1, Zenon DEF Lost
<1>5. Trimmed(o) BY <1>2, <1>4, Zenon DEF BucketInv, ReaperInv
<1> HIDE DEF o
<1>. QED BY <1>1, <1>5, Zenon DEF Trimmed

\* The newest epoch that has acquired the reservation holds it, if no epoch acquires
\* after a newer one (acquire overwrites the reservation whatever it holds).
THEOREM NewestHolds == OrderedAcquire /\ Spec => []NewerEpochWins
<1>1. OrderedAcquire /\ Init => IInv /\ BucketInv BY InvInit, BucketInit, Zenon
<1>2. IInv /\ BucketInv /\ [Next]_vars => IInv' /\ BucketInv' BY InvStep, BucketStep, Zenon
<1>3. BucketInv => NewerEpochWins BY Zenon DEF BucketInv, HeldInv
<1>. QED BY <1>1, <1>2, <1>3, PTL DEF Spec

\* A confirmed bulk stays in the bucket until a trim of its own writer or of a successor
\* covers its last record, if no epoch acquires after a newer one: for any number of
\* epochs, trims, late PUTs and late deletes (callback_loop, trim0, skip_overlap_objects).
THEOREM AckedStaysDurable == OrderedAcquire /\ Spec => []AckedIsDurable
<1>1. OrderedAcquire /\ Init => IInv /\ BucketInv BY InvInit, BucketInit
<1>2. IInv /\ BucketInv /\ [Next]_vars => IInv' /\ BucketInv' BY InvStep, BucketStep
<1>3. IInv /\ BucketInv => AckedIsDurable BY BucketDurable, Zenon
<1>. QED BY <1>1, <1>2, <1>3, PTL DEF Spec

=============================================================================

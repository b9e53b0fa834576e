---------------------------- MODULE ObjectAccess ----------------------------
(***************************************************************************)
(* How the node reaches object storage: RetryingObjectStorage (retry.rs),   *)
(* which owns the retries and the inflight limits, around                   *)
(* ThrottledObjectStorage (throttle.rs), which pays for every attempt out   *)
(* of a token bucket, around the adapter (storage.rs).                      *)
(*                                                                         *)
(* A task has a program of storage calls; those of a multipart upload are   *)
(* the calls of one ObjectWriter, which gives up after an error.  Each task *)
(* has one key.  The store is external: it answers, it fails before or      *)
(* after it did what it was asked to, or it refuses for good.               *)
(***************************************************************************)
EXTENDS Integers, Sequences, FiniteSets, SequencesExt, FiniteSetsExt

CONSTANTS
  Tasks,
  AccessPlans,          \* [mode, bandwidth, refillMs, programs, trouble, shutdown]
  MAX_TOKEN_PART_SIZE,
  MaxReads, MaxWrites   \* max_inflight_reads, max_inflight_writes

VARIABLES
  access,     \* the plan, chosen at the start
  limiter,    \* the token buckets: [tokens, queue, running]
  pool,       \* the inflight permits: [free, waiters] of reads and of writes
  task,       \* the tasks: [at, todo]
  bucket,     \* the objects in the store, and the multipart uploads under way
  trouble     \* how many failures, refusals and cancelled calls are still to come

accessVars == <<access, limiter, pool, task, bucket, trouble>>

-----------------------------------------------------------------------------
(* Calls *)

ReadOps == {"read", "read to end", "list"}
WriteOps == {"write", "create", "part", "finish", "delete"}
UploadOps == {"create", "part", "finish"}

\* readiness_check and abort go to the store as they are.
Bare == {"probe", "abort"}

\* The calls that are not repeated.
Once == Bare \union {"part"}

Bypass == 0
NoTask == 0

PoolOf(call) == IF call.op \in ReadOps THEN "reads" ELSE "writes"

Unthrottled == "none"

Direction(call) ==
  IF call.op \in {"read", "read to end"} THEN "inbound"
  ELSE IF call.op \in {"write", "part"} THEN "outbound" ELSE Unthrottled

\* An empty range is read without paying.
LimiterOf(call) ==
  IF access.mode = "off" \/ (call.op = "read" /\ call.size = 0) THEN Unthrottled
  ELSE IF access.mode = "shared" /\ Direction(call) # Unthrottled THEN "shared"
  ELSE Direction(call)

\* What an attempt pays at its start; the size of a read to the end is not known yet.
Price(call) == IF call.op = "read to end" THEN 1 ELSE call.size

-----------------------------------------------------------------------------
(* The limiters of build_network_limiters *)

LimiterNames == {"inbound", "outbound", "shared"}

Limiters ==
  CASE access.mode = "off" -> {} [] access.mode = "shared" -> {"shared"}
    [] access.mode = "separate" -> {"inbound", "outbound"}

TokenSize == (access.bandwidth * access.refillMs) \div 1000

MaxTokens(l) ==
  access.bandwidth * (CASE l = "inbound" -> 1 [] l = "outbound" -> 5 [] l = "shared" -> 2)

NoUpload == [open |-> FALSE, next |-> 1, parts |-> {}]

AccessInit ==
  /\ access \in AccessPlans
  /\ limiter = [l \in Limiters |-> [tokens |-> TokenSize, queue |-> <<>>, running |-> TRUE]]
  /\ pool = [reads |-> [free |-> MaxReads, waiters |-> <<>>],
             writes |-> [free |-> MaxWrites, waiters |-> <<>>]]
  /\ task = [t \in Tasks |-> [at |-> "idle", todo |-> access.programs[t]]]
  /\ bucket = [objects |-> [t \in Tasks |-> {}], upload |-> [t \in Tasks |-> NoUpload]]
  /\ trouble = access.trouble

\* reduce_token: the balance may become a debt, down to the floor.
Reduced(l, name, size) == [l EXCEPT !.tokens = Max({@ - size, -MaxTokens(name)})]

\* Mutant of Enqueued: the tier of a request is ignored.
Enqueued_Fifo(queue, item) == Append(queue, item)

\* The heap in the order in which it is popped.
Enqueued(queue, item) ==
  SelectSeq(queue, LAMBDA i : i.priority <= item.priority) \o <<item>>
    \o SelectSeq(queue, LAMBDA i : i.priority > item.priority)

RECURSIVE Drained(_, _)

\* The loop of refill_and_drain: chunks of the head, while there are tokens.
Drained(l, name) ==
  IF l.tokens <= 0 \/ l.queue = <<>> THEN l
  ELSE LET head  == Head(l.queue)
           chunk == Min({head.remaining, MAX_TOKEN_PART_SIZE})
           paid  == Reduced(l, name, chunk)
       IN  Drained(IF head.remaining = chunk THEN [paid EXCEPT !.queue = Tail(@)]
                   ELSE [paid EXCEPT !.queue[1].remaining = @ - chunk], name)

\* Mutant of Refilled: a tick serves one chunk.
Refilled_OneChunk(l, name) ==
  LET full == [l EXCEPT !.tokens = Min({@ + TokenSize, MaxTokens(name)})]
  IN  IF full.queue = <<>> \/ full.tokens <= 0 THEN full
      ELSE [Reduced(full, name, Min({Head(full.queue).remaining, MAX_TOKEN_PART_SIZE}))
              EXCEPT !.queue = Tail(@)]

Refilled(l, name) ==
  Drained([l EXCEPT !.tokens = Min({@ + TokenSize, MaxTokens(name)})], name)

-----------------------------------------------------------------------------
(* The steps of a task *)

CallOf(t) == Head(task[t].todo)
IsAt(t, at) == task[t].at = at

Moves(t, at) == task' = [task EXCEPT ![t].at = at]

\* The semaphore is fair: a permit that comes back goes to the longest waiter.
Begin(t) ==
  LET p == PoolOf(CallOf(t))
  IN  /\ IsAt(t, "idle") /\ task[t].todo # <<>>
      /\ IF CallOf(t).op \in Bare THEN Moves(t, "request") /\ UNCHANGED pool
         ELSE IF pool[p].free > 0
         THEN Moves(t, "attempt") /\ pool' = [pool EXCEPT ![p].free = @ - 1]
         ELSE Moves(t, "permit") /\ pool' = [pool EXCEPT ![p].waiters = Append(@, t)]
      /\ UNCHANGED <<access, limiter, bucket, trouble>>

\* BandwidthLimiter::acquire, then the request goes out.
Attempt(t) ==
  LET call == CallOf(t)
      name == LimiterOf(call)
      waits == /\ call.strategy # Bypass
               /\ limiter[name].tokens <= 0 \/ limiter[name].queue # <<>>
  IN  /\ IsAt(t, "attempt")
      /\ IF name = Unthrottled THEN Moves(t, "request") /\ UNCHANGED limiter
         ELSE IF waits
         THEN /\ Moves(t, "queued")
              /\ limiter' = [limiter EXCEPT ![name].queue = Enqueued(@,
                   [task |-> t, priority |-> call.strategy, remaining |-> Price(call)])]
         ELSE /\ Moves(t, "request")
              /\ limiter' = [limiter EXCEPT ![name] = Reduced(@, name, Price(call))]
      /\ UNCHANGED <<access, pool, bucket, trouble>>

Waiting(l) == {l.queue[i].task : i \in DOMAIN l.queue} \ {NoTask}

\* The waiters that limiter l no longer has go on.
Grants(name, l) ==
  /\ limiter' = [limiter EXCEPT ![name] = l]
  /\ task' = [t \in Tasks |-> IF t \in Waiting(limiter[name]) \ Waiting(l)
                              THEN [task[t] EXCEPT !.at = "request"] ELSE task[t]]

Refill(name) ==
  /\ name \in Limiters /\ limiter[name].running
  /\ Grants(name, Refilled(limiter[name], name))
  /\ UNCHANGED <<access, pool, bucket, trouble>>

\* Mutant of StopLimiter: the waiters are forgotten.
StopLimiter_Forgets(name) ==
  /\ access.shutdown /\ limiter[name].running
  /\ limiter' = [limiter EXCEPT ![name].running = FALSE]
  /\ UNCHANGED <<access, task, pool, bucket, trouble>>

\* BandwidthLimiter::shutdown
StopLimiter(name) ==
  /\ access.shutdown /\ limiter[name].running
  /\ Grants(name, [limiter[name] EXCEPT !.running = FALSE, !.queue = <<>>])
  /\ UNCHANGED <<access, pool, bucket, trouble>>

-----------------------------------------------------------------------------
(* The answer of the store *)

\* What the store is after it did the call; a part has the next number, whatever
\* becomes of it.
Done(t) ==
  LET op == CallOf(t).op
  IN  CASE op = "write"  -> [bucket EXCEPT !.objects[t] = {1}]
        [] op = "create" -> [bucket EXCEPT !.upload[t] = [NoUpload EXCEPT !.open = TRUE]]
        [] op = "part"   -> [bucket EXCEPT !.upload[t].next = @ + 1,
                                           !.upload[t].parts = @ \union {bucket.upload[t].next}]
        [] op = "finish" -> [bucket EXCEPT !.objects[t] = bucket.upload[t].parts]
        [] op = "abort"  -> [bucket EXCEPT !.upload[t] = NoUpload]
        [] op = "delete" -> [bucket EXCEPT !.objects[t] = {}]
        [] OTHER         -> bucket

NotDone(t) ==
  IF CallOf(t).op = "part" THEN [bucket EXCEPT !.upload[t].next = @ + 1] ELSE bucket

\* The rest of a read to the end is paid when it is there.
PaysRest(t) ==
  LET call == CallOf(t)
      name == LimiterOf(call)
  IN  IF call.op = "read to end" /\ call.size > 1 /\ name # Unthrottled
      THEN limiter' = [limiter EXCEPT ![name] = Reduced(@, name, call.size - 1)]
      ELSE UNCHANGED limiter

GivesPermitBack(t, tasks) ==
  LET p == PoolOf(CallOf(t))
  IN  IF CallOf(t).op \in Bare
      THEN task' = tasks /\ UNCHANGED pool
      ELSE IF pool[p].waiters = <<>>
      THEN task' = tasks /\ pool' = [pool EXCEPT ![p].free = @ + 1]
      ELSE /\ task' = [tasks EXCEPT ![Head(pool[p].waiters)].at = "attempt"]
           /\ pool' = [pool EXCEPT ![p].waiters = Tail(@)]

\* An ObjectWriter stops at its first error.
ReturnsWith(t, result) ==
  GivesPermitBack(t, [task EXCEPT ![t] =
    [at |-> "idle",
     todo |-> IF result = "ok" \/ CallOf(t).op \notin UploadOps THEN Tail(@.todo) ELSE <<>>]])

Answer(t) ==
  /\ IsAt(t, "request")
  /\ bucket' = Done(t) /\ PaysRest(t) /\ ReturnsWith(t, "ok")
  /\ UNCHANGED <<access, trouble>>

\* An error that no retry changes.
Refuse(t) ==
  /\ IsAt(t, "request") /\ trouble.refusals > 0
  /\ bucket' = NotDone(t) /\ ReturnsWith(t, "refused")
  /\ trouble' = [trouble EXCEPT !.refusals = @ - 1]
  /\ UNCHANGED <<access, limiter>>

\* Mutant of AfterFailure: a failed part is uploaded again.
AfterFailure_RepeatsParts(t) ==
  IF CallOf(t).op \in Bare THEN ReturnsWith(t, "failed")
  ELSE Moves(t, "backoff") /\ UNCHANGED pool

\* Mutant of AfterFailure: the permit is given back for the time of the backoff.
AfterFailure_FreesPermit(t) ==
  LET p == PoolOf(CallOf(t))
  IN  IF CallOf(t).op \in Once THEN ReturnsWith(t, "failed")
      ELSE Moves(t, "backoff") /\ pool' = [pool EXCEPT ![p].free = @ + 1]

\* retry_until_definitive, and the loop of finish: only a write has a deadline.
AfterFailure(t) ==
  \/ CallOf(t).op \in Once /\ ReturnsWith(t, "failed")
  \/ CallOf(t).op \notin Once /\ Moves(t, "backoff") /\ UNCHANGED pool
  \/ CallOf(t).op = "write" /\ CallOf(t).deadline /\ ReturnsWith(t, "timeout")

\* The attempt fails before or after the store did what it was asked to.
Fail(t) ==
  /\ IsAt(t, "request") /\ trouble.failures > 0
  /\ bucket' \in {Done(t), NotDone(t)}
  /\ AfterFailure(t)
  /\ trouble' = [trouble EXCEPT !.failures = @ - 1]
  /\ UNCHANGED <<access, limiter>>

Retry(t) ==
  /\ IsAt(t, "backoff") /\ Moves(t, "attempt")
  /\ UNCHANGED <<access, limiter, pool, bucket, trouble>>

\* The future is dropped: its place in the queue of the semaphore goes, its item
\* in the heap of the limiter stays and will be paid, its request may still count.
Cancel(t) ==
  LET gone == [task EXCEPT ![t] =
                 [at |-> "idle", todo |-> <<>>]]
      unnamed(queue) == [i \in DOMAIN queue |->
        IF queue[i].task = t THEN [queue[i] EXCEPT !.task = NoTask] ELSE queue[i]]
  IN  /\ ~IsAt(t, "idle") /\ trouble.cancels > 0
      /\ IF IsAt(t, "permit")
         THEN /\ task' = gone
              /\ pool' = [pool EXCEPT ![PoolOf(CallOf(t))].waiters = SelectSeq(@, LAMBDA w : w # t)]
         ELSE GivesPermitBack(t, gone)
      /\ limiter' = [name \in Limiters |-> [limiter[name] EXCEPT !.queue = unnamed(@)]]
      /\ bucket' \in IF IsAt(t, "request") THEN {Done(t), NotDone(t)} ELSE {bucket}
      /\ trouble' = [trouble EXCEPT !.cancels = @ - 1]
      /\ UNCHANGED access

-----------------------------------------------------------------------------
TaskStep(t) == Begin(t) \/ Attempt(t) \/ Answer(t) \/ Refuse(t) \/ Fail(t) \/ Retry(t)

AccessNext ==
  \/ \E t \in Tasks : TaskStep(t) \/ Cancel(t)
  \/ \E name \in Limiters : Refill(name) \/ StopLimiter(name)

\* Tasks run, the store answers, and the refill task ticks until it is stopped.
AccessFairness ==
  /\ \A t \in Tasks : WF_accessVars(TaskStep(t))
  /\ \A name \in LimiterNames : WF_accessVars(Refill(name))

AccessSpec == AccessInit /\ [][AccessNext]_accessVars /\ AccessFairness

-----------------------------------------------------------------------------
(* Properties *)

\* Whoever waits for bandwidth waits for a refill: the bucket is never positive
\* while acquire has left somebody in the queue of refill_and_drain.
NoIdleTokens ==
  \A name \in Limiters : limiter[name].queue # <<>> => limiter[name].tokens <= 0

\* A tick of the refill task grants nothing to a lower tier while a request of a
\* higher one, however late it came, still waits for a part of its bytes.
HigherTierFirst ==
  [][\A name \in Limiters :
       \A t, d \in Waiting(limiter[name]) :
         task'[t].at = "request" /\ CallOf(d).strategy < CallOf(t).strategy
           => task'[d].at = "request"]_accessVars

\* The calls between their permit and their answer, those that back off or wait
\* for bandwidth included, are never more than the inflight limit: this is how
\* RetryingObjectStorage turns a slow store into backpressure.
SlowStoreIsBackpressure ==
  \A p \in {"reads", "writes"} :
    Cardinality({t \in Tasks : /\ task[t].at \in {"attempt", "queued", "request", "backoff"}
                               /\ CallOf(t).op \notin Bare /\ PoolOf(CallOf(t)) = p})
      <= (IF p = "reads" THEN MaxReads ELSE MaxWrites)

\* The parts of an object that came out of a multipart upload are all that its
\* ObjectWriter wrote, without a hole, whatever attempts failed or were repeated.
ObjectsAreWhole ==
  \A t \in Tasks :
    LET parts == {i \in DOMAIN access.programs[t] : access.programs[t][i].op = "part"}
    IN  parts # {} /\ bucket.objects[t] # {} => bucket.objects[t] = 1..Cardinality(parts)

\* Every storage call returns, although its permit, its bandwidth and its answer
\* may each be late; a limiter that shuts down lets go those that wait for it.
AccessesReturn ==
  \A t \in Tasks :
    (~IsAt(t, "idle") /\ \A name \in Limiters : limiter[name].running)
      ~> (IsAt(t, "idle") \/ (~IsAt(t, "queued") /\ \E name \in Limiters : ~limiter[name].running))
=============================================================================

--------------------------------- MODULE Wal ---------------------------------
(***************************************************************************)
(* What a write-ahead log promises the storage engine (WriteAheadLog in    *)
(* s3stream-wal/src/lib.rs), as seen by the callers of one writer: records *)
(* get their place in the order of the calls, batches of them are answered *)
(* in that order, nothing is confirmed after a failure, and a trim never   *)
(* reaches the confirm offset.                                             *)
(***************************************************************************)
EXTENDS Integers

CONSTANTS Writers, Record

VARIABLES
  log,        \* pairs <<i, r>>: record r is in the i-th batch of the writer's log
  batches,    \* how many batches the log has, the accumulating one included
  answered,   \* how many of them have been answered, the first ones
  failed,     \* whether one of the answers was an error
  confirm,    \* confirm_offset
  trimmed     \* the highest offset a trim that has returned released

walVars == <<log, batches, answered, failed, confirm, trimmed>>

Init ==
  /\ log = [w \in Writers |-> {}]
  /\ batches = [w \in Writers |-> 0]
  /\ answered = [w \in Writers |-> 0]
  /\ failed = [w \in Writers |-> FALSE]
  /\ confirm = [w \in Writers |-> 0]
  /\ trimmed = [w \in Writers |-> -1]

\* start: the log goes on where the recovered one ends.
Start(w) ==
  /\ batches[w] = 0
  /\ confirm'[w] \in Nat
  /\ confirm' = [confirm EXCEPT ![w] = confirm'[w]]
  /\ UNCHANGED <<log, batches, answered, failed, trimmed>>

\* submit: the record joins the last batch, if that has not been answered, or
\* begins the next one.
Submit(w) ==
  \E n \in {batches[w], batches[w] + 1} : \E p \in log'[w] :
    /\ answered[w] < n /\ p \in {n} \X Record
    /\ batches' = [batches EXCEPT ![w] = n]
    /\ log' = [log EXCEPT ![w] = log[w] \cup {p}]
    /\ UNCHANGED <<answered, failed, confirm, trimmed>>

\* The first batch without an answer is confirmed: its appends return Ok.
Confirm(w) ==
  /\ answered[w] < batches[w] /\ ~failed[w]
  /\ answered' = [answered EXCEPT ![w] = answered[w] + 1]
  /\ confirm'[w] \in Nat /\ confirm'[w] > confirm[w]
  /\ confirm' = [confirm EXCEPT ![w] = confirm'[w]]
  /\ UNCHANGED <<log, batches, failed, trimmed>>

\* Or it fails, and so does everything after it.
Fail(w) ==
  /\ answered[w] < batches[w]
  /\ answered' = [answered EXCEPT ![w] = answered[w] + 1]
  /\ failed' = [failed EXCEPT ![w] = TRUE]
  /\ UNCHANGED <<log, batches, confirm, trimmed>>

\* A trim returns.
Trim(w) ==
  /\ trimmed'[w] \in trimmed[w] + 1 .. confirm[w] - 1
  /\ trimmed' = [trimmed EXCEPT ![w] = trimmed'[w]]
  /\ UNCHANGED <<log, batches, answered, failed, confirm>>

Next ==
  \E w \in Writers :
    Start(w) \/ Submit(w) \/ Confirm(w) \/ Fail(w) \/ Trim(w)

Spec == Init /\ [][Next]_walVars
=============================================================================

------------------------------ MODULE MCAnswers ------------------------------
(* What must be answered, for model checking: appends to the WAL (ObjectWal), *)
(* and the calls to object storage (ObjectAccess).  A behaviour has one of    *)
(* the two at work, and the other at rest.                                    *)
EXTENDS MCObjectWal, ObjectAccess

VARIABLE part

Op(op, tier, size) == [op |-> op, strategy |-> tier, size |-> size, deadline |-> FALSE]
Timed(op, tier, size) == [Op(op, tier, size) EXCEPT !.deadline = TRUE]

\* Reads and writes of four tiers on one bucket.
Tiers ==
  [mode |-> "shared", bandwidth |-> 1, refillMs |-> 1000, shutdown |-> FALSE,
   programs |-> << <<Op("read", 3, 3), Op("read", 1, 1)>>,
                   <<Op("read to end", 2, 3), Op("read", 2, 0)>>,
                   <<Op("write", 0, 2), Op("write", 1, 1)>> >>,
   trouble |-> [failures |-> 1, refusals |-> 0, cancels |-> 1]]

\* A multipart upload and a write with a deadline share one write permit.
Uploads ==
  [mode |-> "separate", bandwidth |-> 1, refillMs |-> 1000, shutdown |-> FALSE,
   programs |-> << <<Op("create", 1, 0), Op("part", 1, 3), Op("part", 1, 1), Op("finish", 1, 0)>>,
                   <<Timed("write", 0, 4), Op("delete", 0, 0)>>, <<>> >>,
   trouble |-> [failures |-> 2, refusals |-> 0, cancels |-> 0]]

\* Without limiters, on a store that refuses a call.
Refusing ==
  [mode |-> "off", bandwidth |-> 0, refillMs |-> 1000, shutdown |-> FALSE,
   programs |-> << <<Op("probe", 0, 0), Op("create", 0, 0), Op("part", 0, 2), Op("finish", 0, 0), Op("abort", 0, 0)>>,
                   <<Op("list", 0, 0), Op("read to end", 3, 2)>>,
                   <<Op("write", 0, 2), Op("delete", 0, 0)>> >>,
   trouble |-> [failures |-> 1, refusals |-> 1, cancels |-> 0]]

\* The limiter is shut down; a tick brings enough for two of the waiters.
Stopping ==
  [mode |-> "shared", bandwidth |-> 2, refillMs |-> 1000, shutdown |-> TRUE,
   programs |-> << <<Op("write", 4, 2)>>, <<Op("read", 1, 1)>>, <<Op("read", 2, 2)>> >>,
   trouble |-> [failures |-> 0, refusals |-> 0, cancels |-> 1]]

\* What the storage has to do while the WAL is at work.
NoAccess ==
  [mode |-> "off", bandwidth |-> 0, refillMs |-> 1000, shutdown |-> FALSE,
   programs |-> [t \in Tasks |-> <<>>],
   trouble |-> [failures |-> 0, refusals |-> 0, cancels |-> 0]]

MCAccessPlans == {NoAccess, Tiers, Uploads, Refusing, Stopping}

-----------------------------------------------------------------------------
AnswersInit ==
  /\ part \in {"wal", "access"}
  /\ Init /\ AccessInit
  /\ (part = "wal") <=> (access = NoAccess)

WalPart == part = "wal" /\ Next /\ UNCHANGED <<part, accessVars>>
AccessPart == part = "access" /\ AccessNext /\ UNCHANGED <<part, vars>>

\* The fairness of ObjectWal and of ObjectAccess.
AnswersSpec ==
  /\ AnswersInit /\ [][WalPart \/ AccessPart]_<<part, vars, accessVars>>
  /\ \A e \in Epochs : WriterFairness(e)
  /\ AccessFairness
=============================================================================

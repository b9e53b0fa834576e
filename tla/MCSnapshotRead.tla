--------------------------- MODULE MCSnapshotRead ---------------------------
(* Plans of the host's calls for model checking SnapshotRead. *)
EXTENDS SnapshotRead

Wal(data) == [kind |-> "wal", await |-> FALSE, data |-> data]
WalAfter(data) == [kind |-> "wal", await |-> TRUE, data |-> data]
Objs(await, data) == [kind |-> "objects", await |-> await, data |-> data]
Direct(await, data) == [kind |-> "put", await |-> await, data |-> data]
Fetch(s, start, end, max) == [kind |-> "get", await |-> FALSE, data |-> <<s, start, end, max>>]

\* A pipeline of WAL ranges of two streams, with lost loads and overload.
Pipelined ==
  [calls |-> << Wal(<< <<1, 0, 2>>, <<2, 0, 1>> >>), Wal(<< <<1, 2, 3>> >>),
                Wal(<< <<2, 1, 2>>, <<1, 3, 5>> >>), Wal(<< <<1, 5, 6>>, <<2, 2, 3>> >>) >>,
   faults |-> {"wal", "slow"}]

\* Objects of one block each, loaded side by side, some of whose blocks fail;
\* the WAL follows.
ObjectsFirst ==
  [calls |-> << Objs(FALSE, << << << <<1, 0, 2>> >> >>, << << <<1, 2, 3>>, <<2, 0, 1>> >> >>, << << <<2, 1, 2>> >> >> >>),
                WalAfter(<< <<1, 3, 4>>, <<2, 2, 3>> >>), Wal(<< <<1, 4, 5>> >>) >>,
   faults |-> {"block"}]

\* An object of several blocks, then one of a single block.
Large ==
  [calls |-> << Objs(TRUE, << << << <<1, 0, 1>>, <<1, 1, 2>> >>, << <<2, 0, 1>> >>, << <<2, 1, 3>> >> >> >>),
                Objs(TRUE, << << << <<1, 2, 3>>, <<2, 3, 4>> >> >> >>),
                WalAfter(<< <<1, 3, 4>>, <<2, 4, 5>> >>) >>,
   faults |-> {"block"}]

\* Direct puts with idle streams, between WAL ranges.
IdleStreams ==
  [calls |-> << Direct(FALSE, << <<1, 0, 1>>, <<2, 0, 1>> >>), Fetch(1, 0, 1, 1),
                Wal(<< <<1, 1, 2>>, <<1, 2, 4>> >>), Fetch(1, 0, 2, 2),
                Direct(TRUE, << <<1, 2, 4>>, <<2, 1, 2>> >>), Fetch(1, 2, 4, 1), Fetch(1, 1, 2, 1),
                Direct(TRUE, << <<2, 2, 3>>, <<1, 4, 5>> >>), Fetch(1, 2, 5, 1), Wal(<< <<1, 5, 6>>, <<2, 3, 4>> >>) >>,
   faults |-> {"idle"}]

MCCallPlans == {Pipelined, ObjectsFirst, Large, IdleStreams}

\* Two objects of two blocks, the second replayed after the first has returned.
OneByOne ==
  [calls |-> << Objs(TRUE, << << << <<1, 0, 1>> >>, << <<2, 0, 1>> >> >> >>),
                Objs(TRUE, << << << <<1, 1, 2>> >>, << <<2, 1, 2>> >> >> >>),
                WalAfter(<< <<1, 2, 3>> >>) >>,
   faults |-> {}]

MCOneByOne == {OneByOne}
=============================================================================

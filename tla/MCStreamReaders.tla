--------------------------- MODULE MCStreamReaders ---------------------------
(***************************************************************************)
(* One stream: objects 1, 2 and 4 hold a record each; compaction replaces  *)
(* the first two by object 3, whose one block holds both, and then by 5.   *)
(***************************************************************************)
EXTENDS StreamReaders

MCIndex == << << <<0, 1>> >>, << <<1, 2>> >>, << <<0, 2>> >>, << <<2, 3>> >>, << <<0, 2>> >> >>

Ask(start, end, bytes) == [start |-> start, end |-> end, bytes |-> bytes]
Compaction == << [from |-> {1, 2}, to |-> 3] >>

Base == [objects |-> {1, 2}, requests |-> << <<>>, <<>> >>, compactions |-> <<>>, size |-> 3, 
         spare |-> 0, faults |-> {}]
InTurn == << << Ask(0, 1, 2), Ask(1, 2, 1) >>, <<>> >>

\* One consumer that reads on behind its own readahead, under a compaction.
Moving == [Base EXCEPT !.requests = InTurn, !.compactions = Compaction]
\* One read that needs both its retries.
MovingTwice == [Base EXCEPT !.requests = << << Ask(0, 2, 2) >>, <<>> >>,
                            !.compactions = Compaction \o << [from |-> {3}, to |-> 5] >>]
\* The first consumer again while entries, readers and cool-downs expire.
Aging == [Base EXCEPT !.requests = InTurn, !.faults = {"expire"}]
\* Two consumers share blocks, with room for less than one, and no readahead.
Sharing == [Base EXCEPT !.requests = << << Ask(0, 2, 2) >>, << Ask(1, 2, 1) >> >>,
                        !.size = 1, !.spare = 9]
\* They converge on one reader, under a compaction.
Meeting == [Sharing EXCEPT !.requests = << << Ask(0, 2, 1) >>, << Ask(0, 2, 1) >> >>,
                           !.compactions = Compaction]
\* Three blocks at once where there is room for less than one.
Crowding == [Base EXCEPT !.objects = {1, 2, 4}, !.size = 1, !.spare = 9,
                         !.requests = << << Ask(0, 3, 9) >>, <<>> >>]
\* Blocks that do not decode.
Corrupt == [Base EXCEPT !.requests = << << Ask(0, 2, 3) >>, <<>> >>, !.faults = {"corrupt"}]

MCPlans == {Moving, MovingTwice, Aging, Sharing, Meeting, Crowding, Corrupt}
=============================================================================

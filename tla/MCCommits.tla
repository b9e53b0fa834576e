------------------------------ MODULE MCCommits ------------------------------
(* Commits of stream set objects, for model checking: the compaction that     *)
(* makes them (Compaction), and the index that follows them (RangeIndex).  A  *)
(* behaviour has one of the two at work, and the other at rest.               *)
EXTENDS MCCompaction, RangeIndex

VARIABLE part

Bounds(objects, compactions, starts, closes) ==
  [objects |-> objects, compactions |-> compactions, starts |-> starts, closes |-> closes]

\* Hooks of many commits in any order; and commits, crashes and late writes of the
\* index across two lives of the node.
AtRest == Bounds(0, 0, 0, 0)
MCIndexPlans == {AtRest, Bounds(4, 1, 1, 0), Bounds(3, 1, 2, 1)}

CommitsInit ==
  /\ part \in {"compaction", "index"}
  /\ Init /\ IndexInit
  /\ (part = "compaction") <=> (left = AtRest)

CompactionPart == part = "compaction" /\ Next /\ UNCHANGED <<part, indexVars>>
IndexPart == part = "index" /\ IndexNext /\ UNCHANGED <<part, vars>>

\* The index rests when its bounds are used up; the compaction never stops.
IndexRests == part = "index" /\ UNCHANGED <<part, vars, indexVars>>

CommitsNext == CompactionPart \/ IndexPart \/ IndexRests

CommitsSpec == CommitsInit /\ [][CommitsNext]_<<part, vars, indexVars>>
=============================================================================

---------------------------- MODULE MCCompaction ----------------------------
(***************************************************************************)
(* The instances of Compaction that TLC explores.                          *)
(***************************************************************************)
EXTENDS Compaction

MaxEndTwo == [s \in Streams |-> 2]
MaxEndThree == [s \in Streams |-> 3]
=============================================================================

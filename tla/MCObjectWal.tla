---------------------------- MODULE MCObjectWal ----------------------------
(* Instances of ObjectWal small enough for TLC: how many user records each *)
(* epoch appends.  The remaining constants are in the .cfg files.          *)
EXTENDS ObjectWalContract

ThreeEach == [e \in Epochs |-> 3]
TwoThenOne == [e \in Epochs |-> IF e = 1 THEN 2 ELSE 1]
OneEach == [e \in Epochs |-> 1]
=============================================================================

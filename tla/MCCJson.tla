-------------------------------- MODULE MCCJson --------------------------------
(* Four items; two names that differ in case only. *)
EXTENDS CJson, TLC

CONSTANTS x1, x2, x3, x4

FourCells == {x1, x2, x3, x4}
TwoKeys == {"a", "A"}
Lowered == [k \in TwoKeys |-> "a"]
OneScalar == {"number"}
Interchangeable == Permutations(FourCells)
==============================================================================

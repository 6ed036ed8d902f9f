------------------------------ MODULE MCValues ------------------------------
(* Values with two value objects, two blob objects and two texts.           *)
EXTENDS Values, TLC

Symmetry == Permutations(Value) \cup Permutations(Blob) \cup Permutations(Id)
=============================================================================

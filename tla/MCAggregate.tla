---------------------------- MODULE MCAggregate ----------------------------
(* A small instance of Aggregate: one query uses the function twice.  In   *)
(* one run its first use is of distinct values, in the other none is.      *)
EXTENDS Aggregate, TLC

CONSTANTS q1, q2, q3, w1, w2, w3

MCUses == [s \in Query |-> IF s = q3 THEN 2 ELSE 1]
MCDistinct == [s \in Query |-> IF s = q3 THEN {1} ELSE {}]
MCNoDistinct == [s \in Query |-> {}]

symmetry == Permutations(Wrapper) \cup Permutations({q1, q2} \cap Query)
============================================================================

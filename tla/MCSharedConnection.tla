------------------------- MODULE MCSharedConnection -------------------------
(* Small instances of SharedConnection.                                    *)
EXTENDS SharedConnection, TLC

CONSTANTS t1, t2, t3

\* The threads of one kind are interchangeable.
GuardedSymmetry == Permutations({t1, t2})
============================================================================

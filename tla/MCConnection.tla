---------------------------- MODULE MCConnection ----------------------------
(* A small instance of Connection; objects of a kind are interchangeable.  *)
EXTENDS Connection, TLC

Symmetry == Permutations(Object) \cup Permutations(Transaction)
              \cup Permutations(Borrower) \cup Permutations(Connection)
=============================================================================

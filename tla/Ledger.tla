------------------------------- MODULE Ledger -------------------------------
(***************************************************************************)
(* What transactions promise to the threads that share a database: the     *)
(* rows of a thread appear in one step, all or none, and it is told of     *)
(* exactly those before any other row of its appears.                      *)
(***************************************************************************)
EXTENDS Naturals

CONSTANT Thread

VARIABLES
  rows,       \* rows[t]: rows of t in the database
  told        \* told[t]: rows that t knows to be there

Init == rows = [t \in Thread |-> 0] /\ told = [t \in Thread |-> 0]

Commit(t) ==
  /\ told[t] = rows[t]
  /\ rows'[t] \in Nat /\ rows'[t] > rows[t]
  /\ rows' = [rows EXCEPT ![t] = rows'[t]]
  /\ UNCHANGED told

Tell(t) ==
  /\ told' = [told EXCEPT ![t] = rows[t]]
  /\ UNCHANGED rows

Next == \E t \in Thread : Commit(t) \/ Tell(t)

Spec == Init /\ [][Next]_<<rows, told>>
=============================================================================

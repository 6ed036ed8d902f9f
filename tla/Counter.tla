------------------------------- MODULE Counter -------------------------------
(***************************************************************************)
(* What transactions promise to clients that increment a value in a shared *)
(* file: each transaction that a client has been told is committed has     *)
(* incremented it, in one step, and nothing else has.                      *)
(***************************************************************************)
EXTENDS Naturals

CONSTANT Client

VARIABLES
  value,      \* the value in the file
  done        \* done[c]: transactions that c knows to be committed

Init == value = 0 /\ done = [c \in Client |-> 0]

Increment(c) ==
  /\ value' = value + 1
  /\ done' = [done EXCEPT ![c] = @ + 1]

Next == \E c \in Client : Increment(c)

Spec == Init /\ [][Next]_<<value, done>>
=============================================================================

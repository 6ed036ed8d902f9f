------------------------------- MODULE Cursor -------------------------------
(***************************************************************************)
(* What a prepared statement promises: it hands its rows out one by one,   *)
(* says once all are given that there are no more, and begins again only   *)
(* when it is told to or an error has cut it short.                        *)
(***************************************************************************)
EXTENDS Naturals

CONSTANT Object

VARIABLES
  total,      \* total[s]: rows of the statement s
  given,      \* given[s]: rows handed out since it began
  ended       \* ended[s]: it has said that there are no more

Init ==
  /\ total = [s \in Object |-> 0]
  /\ given = [s \in Object |-> 0]
  /\ ended = [s \in Object |-> FALSE]

\* s becomes another statement.
Open(s) ==
  /\ total'[s] \in Nat /\ total' = [total EXCEPT ![s] = total'[s]]
  /\ given' = [given EXCEPT ![s] = 0]
  /\ ended' = [ended EXCEPT ![s] = FALSE]

Row(s) ==
  /\ ~ended[s] /\ given[s] < total[s]
  /\ given' = [given EXCEPT ![s] = @ + 1]
  /\ UNCHANGED <<total, ended>>

End(s) ==
  /\ ~ended[s] /\ given[s] = total[s]
  /\ ended' = [ended EXCEPT ![s] = TRUE]
  /\ UNCHANGED <<total, given>>

Restart(s) ==
  /\ given' = [given EXCEPT ![s] = 0]
  /\ ended' = [ended EXCEPT ![s] = FALSE]
  /\ UNCHANGED total

Next == \E s \in Object : Open(s) \/ Row(s) \/ End(s) \/ Restart(s)

Spec == Init /\ [][Next]_<<total, given, ended>>
=============================================================================

-------------------------------- MODULE Copy --------------------------------
(***************************************************************************)
(* What a backup promises: the destination changes only by becoming, in    *)
(* one step, the whole source as it is at that moment.                     *)
(***************************************************************************)
CONSTANT Database       \* the contents a database can have

VARIABLES source, destination

Init == source \in Database /\ destination \in Database

Write == source' \in Database /\ UNCHANGED destination

CopyAll == destination' = source /\ UNCHANGED source

Next == Write \/ CopyAll

Spec == Init /\ [][Next]_<<source, destination>>
=============================================================================

------------------------------ MODULE MCPlaySlots ------------------------------
(* Small instances of PlaySlots for TLC.                                   *)
EXTENDS PlaySlots

CONSTANTS p1, p2

\* The copies that merging kept of each slot's release.
TwoAndOne == <<2, 1>>

\* The one asks for the first slot again and again, the other for anything.
MCAsks == [r \in Requests |-> IF r = p1 THEN {1} ELSE {0} \cup Slots]
===============================================================================

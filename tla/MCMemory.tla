------------------------------ MODULE MCMemory ------------------------------
(* Values of the constants of Memory and Processes.                        *)
EXTENDS Memory

(* 511 is an argument of halt whose low byte counts.                       *)
MCHaltArgs    == {511}
MCbuffer_page == [t \in Terminals |-> FOUR_MB + 300 + t]
=============================================================================

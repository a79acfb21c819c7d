---------------------------- MODULE MCProcesses ----------------------------
(* Values of the constants of Processes.                                   *)
EXTENDS Processes

(* A user who never switches terminals.                                    *)
NoFKeys == {}
=============================================================================

-------------------------- MODULE MCCircularBuffer --------------------------
(* Values of the constants of CircularBuffer.                              *)
EXTENDS CircularBuffer

MCInputs == UNION {[1 .. n -> Bytes] : n \in {0, 2, 4}}
MCLens   == 0 .. MAX_LEN + 1
=============================================================================

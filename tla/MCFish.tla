------------------------------- MODULE MCFish -------------------------------
(* Values of the constants of Fish.                                        *)
EXTENDS Fish

(* Texts of at most two characters, and longer ones: a line longer than a  *)
(* row, lines of different lengths, with and without a newline at the end. *)
MCTexts ==
  UNION {[1 .. n -> {"x", NEWLINE}] : n \in 0 .. 2} \cup
  {<<"x", NEWLINE, "x">>, <<SPACE, "x", "x">>, <<"x", "x", NEWLINE, "x", NEWLINE>>}
=============================================================================

----------------------------- MODULE MCTerminal -----------------------------
(* Values of the constants of Terminal.                                    *)
EXTENDS Terminal

LineOutputs == {<<"a">>, <<"a", NEWLINE>>}
=============================================================================

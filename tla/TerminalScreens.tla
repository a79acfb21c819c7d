-------------------------- MODULE TerminalScreens --------------------------
(***************************************************************************)
(* What the user is promised: every terminal has a screen of its own, that *)
(* only output to that terminal changes, whichever terminal is shown.  The *)
(* promise ends when something is erased before the first cell of a        *)
(* screen.                                                                 *)
(***************************************************************************)
EXTENDS Cells

CONSTANT NUM_TERMINALS

Terminals == 0 .. NUM_TERMINALS - 1

VARIABLES
  screen,  \* what each terminal shows, or will show when it is selected
  shown,   \* the terminal on the display
  void     \* nothing is promised any more

vars == <<screen, shown, void>>

Init ==
  /\ screen = [t \in Terminals |-> Screen(BlankGrid, 0, 0)]
  /\ shown = 0
  /\ void = FALSE

Output(t, ch) ==
  /\ ~(ch = BACKSPACE /\ InTopLeftCorner(screen[t]))
  /\ screen' = [screen EXCEPT ![t] = PutChar(screen[t], ch)]
  /\ UNCHANGED <<shown, void>>

EraseTooFar(t) == InTopLeftCorner(screen[t]) /\ void'

Clear(t) ==
  /\ screen' = [screen EXCEPT ![t] = Screen(BlankGrid, 0, 0)]
  /\ UNCHANGED <<shown, void>>

Select(t) == shown' = t /\ UNCHANGED <<screen, void>>

Next ==
  \E t \in Terminals :
    \/ \E ch \in Char : Output(t, ch)
    \/ EraseTooFar(t)
    \/ Clear(t)
    \/ Select(t)

Spec == Init /\ [][Next]_vars
=============================================================================

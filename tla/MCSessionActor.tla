--------------------------- MODULE MCSessionActor ---------------------------
(***************************************************************************)
(* Small instances of SessionActor.                                        *)
(***************************************************************************)
EXTENDS ClientMirrors

CONSTANTS c1, c2, c3, p1, p2, p3

\* main.rs: one pane, which fills the window.
OnePane == <<p1>>
TwoPanes == <<p1, p2>>

\* A cell is written and the cursor follows it.
WriteOnce == {[cell |-> i, value |-> 1, cursor |-> After(i)] : i \in Cells}

ClientSymmetry == Permutations(Clients)
=============================================================================

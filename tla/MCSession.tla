------------------------------- MODULE MCSession -------------------------------
(* A small instance of Session: up to three windows sharing four panes.       *)
EXTENDS Session, TLC

CONSTANTS w1, w2, w3, p1, p2, p3, p4

OneSize == {<<25, 13>>}
TwoSizes == {<<25, 13>>, <<7, 3>>}
Half == {12}
IdSymmetry == Permutations(WindowIds) \cup Permutations(PaneIds)
=============================================================================

------------------------------ MODULE MCPaneTree ------------------------------
(* Small instances of PaneTree: a window that holds every tree of three      *)
(* panes, one in which most splits are refused, one too small to split.      *)
EXTENDS PaneTree, TLC

CONSTANTS p1, p2, p3

Sizes == {<<25, 13>>, <<13, 5>>, <<7, 3>>}
HalfAndThird == {12, 8}
ToTheLimit == {-24, 24}
IdSymmetry == Permutations(PaneIds)
=============================================================================

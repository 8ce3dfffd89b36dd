-------------------------------- MODULE MCInput --------------------------------
(* A small instance of Input: four keys, two of which may be the prefix, and  *)
(* a window with two panes or three, over which a pointer with two buttons    *)
(* moves.                                                                     *)
EXTENDS Input

FewKeys == {"ctrl-space", "r", "h", "escape"}
SomePrefixes == {"ctrl-space", "h"}

One == WithDimensions(1, 11, 5)
Two == SplitPane(One, 1, "vertical", 12, 2)
Three == SplitPane(Two, 2, "horizontal", 12, 3)
TwoLayouts == {Two, Three}

\* A pane, the border of two, the junction of both borders, the border of three.
SomePlaces == {<<1, 1>>, <<5, 1>>, <<5, 2>>, <<8, 2>>}
NoneOrCtrl == {{}, {4, 16}}
=============================================================================

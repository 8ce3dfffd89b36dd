------------------------------- MODULE PaneTree -------------------------------
(***************************************************************************)
(* One LayoutTree under every sequence of its operations (layout/tree.rs), *)
(* of changes of the window's size and of moves to a neighbour             *)
(* (Window::resize and Window::navigate, window.rs). An operation that     *)
(* returns an error changes nothing, so it has no action. The id of a new  *)
(* pane and the pane to zoom are the caller's to choose: a new id is       *)
(* fresh, a zoomed pane is in the tree, as in every caller there is.       *)
(***************************************************************************)
EXTENDS Pointer

CONSTANTS
  PaneIds,     \* identifiers of panes
  Windows,     \* sizes of the window, as <<columns, rows>>
  Ratios,      \* ratios a split may be made with
  Deltas       \* changes of a ratio a resize may ask for

ASSUME PaneTreeAssumption ==
  /\ NoPane \notin PaneIds
  /\ Windows \subseteq Nat \X Nat
  /\ Ratios \subseteq 0..Unit
  /\ Deltas \subseteq Int

\* The parts of a ratio express every ratio clamp_ratio_for_minimums returns.
ASSUME RatiosAreExact ==
  /\ Unit % 2 = 0
  /\ \A w \in Windows :
       /\ w[1] > 1 => (MinCols * Unit) % (w[1] - 1) = 0
       /\ w[2] > 1 => (MinRows * Unit) % (w[2] - 1) = 0

VARIABLES
  layout,      \* the LayoutTree
  panicked     \* whether the thread that called it has panicked

vars == <<layout, panicked>>

Tree == layout.root

Init ==
  /\ \E id \in PaneIds, w \in Windows : layout = WithDimensions(id, w[1], w[2])
  /\ panicked = FALSE

Split(id, dir, ratio, new) ==
  /\ ~panicked
  /\ new \notin Ids(Tree)
  /\ CanSplit(layout, id, dir, ratio)
  /\ id \in Ids(Tree)
  /\ layout' = SplitPane(layout, id, dir, ratio, new)
  /\ UNCHANGED panicked

Close(id) ==
  /\ ~panicked
  /\ CanClose(layout, id)
  /\ layout' = ClosePane(layout, id)
  /\ UNCHANGED panicked

Resize(id, dir, delta) ==
  /\ ~panicked
  /\ id \in Ids(Tree)
  /\ ResizeTargets(Tree, id, dir) # {}
  /\ IF ClampPanics(layout, dir)
     THEN /\ panicked' = TRUE
          /\ UNCHANGED layout
     ELSE /\ layout' = ResizePane(layout, id, dir, delta)
          /\ UNCHANGED panicked

Swap(a, b) ==
  /\ ~panicked
  /\ {a, b} \subseteq Ids(Tree)
  /\ layout' = [layout EXCEPT !.root = SwapPaneIds(@, a, b)]
  /\ UNCHANGED panicked

Rotate(id) ==
  /\ ~panicked
  /\ id \in Ids(Tree)
  /\ layout' = [layout EXCEPT !.root = RotateNearest(@, id)]
  /\ UNCHANGED panicked

Zoom(id) ==
  /\ ~panicked
  /\ id \in Ids(Tree)
  /\ layout' = [layout EXCEPT !.zoomed = id]
  /\ UNCHANGED panicked

Unzoom ==
  /\ ~panicked
  /\ layout' = [layout EXCEPT !.zoomed = NoPane]
  /\ UNCHANGED panicked

SetDimensions(w) ==
  /\ ~panicked
  /\ layout' = [layout EXCEPT !.width = w[1], !.height = w[2]]
  /\ UNCHANGED panicked

MoveTo(dir) ==
  /\ ~panicked
  /\ layout' = [layout EXCEPT !.active = Neighbour(layout, @, dir)]
  /\ UNCHANGED panicked

Next ==
  \/ \E id, new \in PaneIds, dir \in Directions, ratio \in Ratios : Split(id, dir, ratio, new)
  \/ \E id \in PaneIds : Close(id) \/ Rotate(id) \/ Zoom(id)
  \/ \E id \in PaneIds, dir \in Directions, delta \in Deltas : Resize(id, dir, delta)
  \/ \E a, b \in PaneIds : Swap(a, b)
  \/ \E w \in Windows : SetDimensions(w)
  \/ \E dir \in Directions : MoveTo(dir)
  \/ Unzoom

Spec == Init /\ [][Next]_vars

-----------------------------------------------------------------------------
(* Properties.                                                               *)

\* The tree is a strict binary tree in which every pane occurs once, and however
\* panes are split, closed, swapped and zoomed, the pane that gets the keys and
\* the pane that fills the window are panes of the tree.
TypeOK ==
  /\ IsTree(Tree)
  /\ Ids(Tree) \subseteq PaneIds
  /\ \A p \in Splits(Tree) : Tree[p] \in [kind : {"split"}, direction : Directions, ratio : 0..Unit]
  /\ <<layout.width, layout.height>> \in Windows
  /\ panicked \in BOOLEAN
  /\ layout.active \in Ids(Tree)
  /\ layout.zoomed \in Ids(Tree) \cup {NoPane}

\* What the tree has for a pane, before resolve raises it to the minimum.
Given(l, id) == Rect(l.root, LeafOf(l.root, id), l.width, l.height)

\* The tree has the minimum size for every pane.
HasRoom(l, id) == Given(l, id).width >= MinCols /\ Given(l, id).height >= MinRows
Fits(l) == \A id \in Ids(l.root) : HasRoom(l, id)

Area(r) == r.width * r.height
BorderLength(l, p) ==
  IF l.root[p].direction = "vertical" THEN Rect(l.root, p, l.width, l.height).height
  ELSE Rect(l.root, p, l.width, l.height).width

Disjoint(a, b) ==
  \/ a.x + a.width < b.x \/ b.x + b.width < a.x
  \/ a.y + a.height < b.y \/ b.y + b.height < a.y

\* The rectangles of all panes, whether or not one of them is zoomed.
Shown(l) == Resolve([l EXCEPT !.zoomed = NoPane])

\* While the tree fits its window, panes are inside the window and a border lies
\* between any two of them.
PanesAreApart ==
  Fits(layout) =>
    /\ \A id \in Ids(Tree) : /\ Shown(layout)[id].x + Shown(layout)[id].width <= layout.width
                             /\ Shown(layout)[id].y + Shown(layout)[id].height <= layout.height
    /\ \A a, b \in Ids(Tree) : a # b => Disjoint(Shown(layout)[a], Shown(layout)[b])

\* While the tree fits its window, resolve neither loses nor shares a cell:
\* panes are inside the window, a border lies between any two of them, and
\* panes and borders add up to the window.
PanesTileTheWindow ==
  /\ PanesAreApart
  /\ Fits(layout) =>
       MapThenSumSet(LAMBDA id : Area(Shown(layout)[id]), Ids(Tree))
       + MapThenSumSet(LAMBDA p : BorderLength(layout, p), Splits(Tree))
       = layout.width * layout.height

\* Closing a pane that was just split off undoes the split: validate_split
\* lets nothing through that close cannot take back, at any depth of the tree.
CloseUndoesSplit ==
  \A id \in Ids(Tree), new \in PaneIds \ Ids(Tree), dir \in Directions, ratio \in Ratios :
    CanSplit(layout, id, dir, ratio) =>
      ClosePane(SplitPane(layout, id, dir, ratio, new), new) = layout

\* In a tree that fits, navigation leads to a pane across one border: no pane
\* lies between the two, and none is jumped over.
NavigationIsAdjacent ==
  (Fits(layout) /\ layout.zoomed = NoPane) =>
    \A id \in Ids(Tree), dir \in Directions :
      LET to == Neighbour(layout, id, dir)
          a == Resolve(layout)[id]
          b == Resolve(layout)[to]
      IN  to = id \/ IF dir = "vertical"
                     THEN b.x = a.x + a.width + 1 \/ a.x = b.x + b.width + 1
                     ELSE b.y = a.y + a.height + 1 \/ a.y = b.y + b.height + 1

Same(l, m, ids) == \A id \in ids : Given(m, id) = Given(l, id)
Below(l, p) == {id \in Ids(l.root) : IsPrefix(p, LeafOf(l.root, id))}

\* Splitting a pane and closing one move no pane but those of the rectangle
\* concerned: the pane split, or the pane closed and its sibling's panes.
OthersStayPut ==
  [][/\ \A id \in PaneIds, new \in PaneIds, dir \in Directions, ratio \in Ratios :
          Split(id, dir, ratio, new) => Same(layout, layout', Ids(Tree) \ {id})
     /\ \A id \in PaneIds :
          Close(id) =>
            Same(layout, layout', Ids(Tree) \ Below(layout, Front(LeafOf(Tree, id))))]_vars

\* A tree that fits goes on fitting: no split of a pane shown in its place, no
\* close, swap, zoom or move leaves a pane without the minimum.
RoomIsKept ==
  [][(Fits(layout) /\ ~Fits(layout')) =>
        \/ \E id \in PaneIds : Rotate(id) \/ \E dir \in Directions, d \in Deltas : Resize(id, dir, d)
        \/ \E w \in Windows : SetDimensions(w)
        \/ layout.zoomed # NoPane /\ ~(Ids(layout'.root) \subseteq Ids(Tree))]_vars

\* What is drawn as a border can be grabbed, as the border it is drawn as: the
\* lines compute_borders finds by looking for empty cells are those hit_test
\* finds by looking for adjacent panes. A junction is drawn and cannot be grabbed.
BordersCanBeGrabbed ==
  Fits(layout) =>
    \A c \in Borders(layout) :
      HitTest(layout, c.x, c.y, layout.height + 1)
        = CASE c.char = {"up", "down"} -> OnBorder("vertical", c.x)
            [] c.char = {"left", "right"} -> OnBorder("horizontal", c.y)
            [] OTHER -> NoTarget

\* Resizing panics, as f32::clamp does when its bounds cross, only under a tree
\* that does not fit its window: as long as every pane has its minimum, the split
\* that is moved leaves room for both sides.
TreesThatFitDoNotPanic == panicked => ~Fits(layout)
=============================================================================

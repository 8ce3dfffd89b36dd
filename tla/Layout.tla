-------------------------------- MODULE Layout --------------------------------
(***************************************************************************)
(* The binary tree in which a window arranges its panes (layout/tree.rs),  *)
(* the rectangles it gives them (layout/resolve.rs) and the search for a   *)
(* neighbour (layout/navigate.rs), as operators on values.                 *)
(*                                                                         *)
(* A tree is a function from paths to nodes. A path is a sequence over     *)
(* 1..2, the turns taken from the root; <<>> is the root. A ratio is a     *)
(* number of parts out of Unit. The code computes with f32; the model's    *)
(* ratios are exact.                                                       *)
(***************************************************************************)
EXTENDS Integers, SequencesExt, FiniteSetsExt

CONSTANTS
  Unit,       \* the parts a ratio divides a rectangle into
  MinCols,    \* MIN_PANE_COLS, 5 in layout/mod.rs
  MinRows     \* MIN_PANE_ROWS, 2 in layout/mod.rs

ASSUME LayoutAssumption ==
  /\ Unit \in Nat /\ Unit > 0
  /\ MinCols \in Nat /\ MinCols > 0
  /\ MinRows \in Nat /\ MinRows > 0

Directions == {"horizontal", "vertical"}
Other(dir) == CHOOSE d \in Directions : d # dir

PaneNode(id) == [kind |-> "pane", id |-> id]
SplitNode(dir, ratio) == [kind |-> "split", direction |-> dir, ratio |-> ratio]

-----------------------------------------------------------------------------
(* The shape of a tree. *)

Leaves(t) == {p \in DOMAIN t : t[p].kind = "pane"}
Splits(t) == DOMAIN t \ Leaves(t)
Ids(t) == {t[p].id : p \in Leaves(t)}
LeafOf(t, id) == CHOOSE p \in Leaves(t) : t[p].id = id

\* Depth-first order, first child before second: the order of collect_ids and
\* of the geometries.
Before(p, q) ==
  \E i \in DOMAIN p \cap DOMAIN q :
    /\ p[i] < q[i]
    /\ \A j \in 1..(i - 1) : p[j] = q[j]

FirstLeaf(t) == CHOOSE p \in Leaves(t) : \A q \in Leaves(t) \ {p} : Before(p, q)

\* Every split has both children, no pane has any, nothing hangs in the air
\* and no pane occurs twice.
IsTree(t) ==
  /\ <<>> \in DOMAIN t
  /\ \A p \in DOMAIN t \ {<<>>} : Front(p) \in Splits(t)
  /\ \A p \in Splits(t) : {Append(p, 1), Append(p, 2)} \subseteq DOMAIN t
  /\ \A p, q \in Leaves(t) : t[p].id = t[q].id => p = q

-----------------------------------------------------------------------------
(* Edits of a tree. *)

\* replace_leaf_with_split: the pane becomes the first child of a new split.
ReplaceLeafWithSplit(t, id, dir, ratio, new) ==
  LET p == LeafOf(t, id)
  IN  [q \in DOMAIN t \cup {Append(p, 1), Append(p, 2)} |->
         CASE q = p -> SplitNode(dir, ratio)
           [] q = Append(p, 1) -> t[p]
           [] q = Append(p, 2) -> PaneNode(new)
           [] OTHER -> t[q]]

\* close_leaf: the sibling's whole subtree takes the place of the parent.
CloseLeaf(t, id) ==
  LET leaf == LeafOf(t, id)
      parent == Front(leaf)
      sibling == Append(parent, 3 - Last(leaf))
      kept == {p \in DOMAIN t : ~IsPrefix(parent, p)}
      From(p) == sibling \o SubSeq(p, Len(parent) + 1, Len(p))
      To(p) == parent \o SubSeq(p, Len(sibling) + 1, Len(p))
  IN  [p \in kept \cup {To(q) : q \in {r \in DOMAIN t : IsPrefix(sibling, r)}} |->
         IF p \in kept THEN t[p] ELSE t[From(p)]]

\* swap_pane_ids
SwapPaneIds(t, a, b) ==
  [p \in DOMAIN t |->
     CASE p \in Leaves(t) /\ t[p].id = a -> PaneNode(b)
       [] p \in Leaves(t) /\ t[p].id = b -> PaneNode(a)
       [] OTHER -> t[p]]

\* rotate_nearest: the split the pane hangs from turns. A lone pane has none.
RotateNearest(t, id) ==
  LET leaf == LeafOf(t, id)
  IN  IF leaf = <<>> THEN t
      ELSE [t EXCEPT ![Front(leaf)] = SplitNode(Other(@.direction), @.ratio)]

\* resize_nearest walks down from the root and stops at the first split of
\* that direction above the pane.
ResizeTargets(t, id, dir) ==
  {p \in Splits(t) : t[p].direction = dir /\ IsPrefix(p, LeafOf(t, id))}
ResizeTarget(t, id, dir) ==
  CHOOSE p \in ResizeTargets(t, id, dir) :
    \A q \in ResizeTargets(t, id, dir) : Len(p) <= Len(q)

-----------------------------------------------------------------------------
(* Rectangles. *)

Monus(a, b) == IF a > b THEN a - b ELSE 0
Larger(a, b) == IF a > b THEN a ELSE b
Smaller(a, b) == IF a < b THEN a ELSE b
Clamp(x, lo, hi) == Larger(lo, Smaller(x, hi))

Minimum(dir) == IF dir = "vertical" THEN MinCols ELSE MinRows
Extent(r, dir) == IF dir = "vertical" THEN r.width ELSE r.height

\* Mutant: the border is not taken off.
Usable_ForgetsBorder(extent) == extent

\* What is left for the two children beside the border of one cell.
Usable(extent) == Monus(extent, 1)

\* (f32::from(usable) * ratio) as u16
Share(usable, ratio) == (usable * ratio) \div Unit

FirstSize(usable, ratio, min) ==
  Smaller(Larger(Share(usable, ratio), min), Monus(usable, min))
SecondSize(usable, ratio, min) ==
  Larger(Monus(usable, FirstSize(usable, ratio, min)), min)

\* The rectangle resolve_node hands to one child of a split.
ChildRect(split, r, side) ==
  LET dir == split.direction
      usable == Usable(Extent(r, dir))
      first == FirstSize(usable, split.ratio, Minimum(dir))
      size == IF side = 1 THEN first ELSE SecondSize(usable, split.ratio, Minimum(dir))
      offset == IF side = 1 THEN 0 ELSE first + 1
  IN  IF dir = "vertical"
      THEN [r EXCEPT !.x = @ + offset, !.width = size]
      ELSE [r EXCEPT !.y = @ + offset, !.height = size]

\* The rectangle resolve_node works in when it reaches path p.
Rect(t, p, width, height) ==
  LET r[i \in 0..Len(p)] ==
        IF i = 0 THEN [x |-> 0, y |-> 0, width |-> width, height |-> height]
        ELSE ChildRect(t[SubSeq(p, 1, i - 1)], r[i - 1], p[i])
  IN  r[Len(p)]

\* A pane is never reported smaller than the minimum, whatever there is for it.
AtLeastMinimum(r) ==
  [r EXCEPT !.width = Larger(@, MinCols), !.height = Larger(@, MinRows)]

-----------------------------------------------------------------------------
(* A LayoutTree: the tree with the active and the zoomed pane and the size   *)
(* of the window.                                                            *)

NoPane == "none"    \* zoomed_pane = None

LayoutTree(root, active, zoomed, width, height) ==
  [root |-> root, active |-> active, zoomed |-> zoomed, width |-> width, height |-> height]

\* LayoutTree::with_dimensions
WithDimensions(id, width, height) ==
  LayoutTree([p \in {<<>>} |-> PaneNode(id)], id, NoPane, width, height)

\* resolve: the panes shown and their rectangles.
Resolve(l) ==
  IF l.zoomed # NoPane
  THEN [id \in {l.zoomed} |-> [x |-> 0, y |-> 0, width |-> l.width, height |-> l.height]]
  ELSE [id \in Ids(l.root) |->
          AtLeastMinimum(Rect(l.root, LeafOf(l.root, id), l.width, l.height))]

\* Mutant: the room for the border is not taken off.
CanSplit_ForgetsBorder(l, id, dir, ratio) ==
  /\ id \in DOMAIN Resolve(l)
  /\ LET extent == Extent(Resolve(l)[id], dir)
         first == Share(extent, ratio)
     IN  /\ extent >= 2 * Minimum(dir)
         /\ first >= Minimum(dir)
         /\ extent - first >= Minimum(dir)

\* validate_split: the pane is shown, and both halves of what it is shown in
\* have the minimum size.
CanSplit(l, id, dir, ratio) ==
  /\ id \in DOMAIN Resolve(l)
  /\ LET usable == Usable(Extent(Resolve(l)[id], dir))
         first == Share(usable, ratio)
     IN  /\ usable >= 2 * Minimum(dir)
         /\ first >= Minimum(dir)
         /\ usable - first >= Minimum(dir)

\* Mutant: the new pane becomes the active one.
SplitPane_Activates(l, id, dir, ratio, new) ==
  [l EXCEPT !.root = ReplaceLeafWithSplit(l.root, id, dir, ratio, new), !.active = new]

\* Mutant: the active pane is split, whichever was asked for.
SplitPane_ActiveOnly(l, id, dir, ratio, new) ==
  [l EXCEPT !.root = ReplaceLeafWithSplit(l.root, l.active, dir, ratio, new)]

\* LayoutTree::split
SplitPane(l, id, dir, ratio, new) ==
  [l EXCEPT !.root = ReplaceLeafWithSplit(l.root, id, dir, ratio, new)]

\* LayoutTree::close and fixup_active_pane, of a pane that is not alone.
CanClose(l, id) == id \in Ids(l.root) /\ LeafOf(l.root, id) # <<>>

\* Mutant: the zoom is kept.
ClosePane_KeepsZoom(l, id) ==
  LET root == CloseLeaf(l.root, id)
  IN  [l EXCEPT !.root = root,
                !.active = IF @ = id THEN root[FirstLeaf(root)].id ELSE @]

ClosePane(l, id) ==
  LET root == CloseLeaf(l.root, id)
  IN  [l EXCEPT !.root = root,
                !.zoomed = IF @ = id THEN NoPane ELSE @,
                !.active = IF @ = id THEN root[FirstLeaf(root)].id ELSE @]

\* clamp_ratio_for_minimums measures the window, wherever the split is, and
\* f32::clamp panics when its bounds cross. Mutant: the minimum of the columns
\* is taken in both directions.
LeastRatio(l, dir) == (Minimum(dir) * Unit) \div Usable(Extent(l, dir))
ClampPanics_Columns(l, dir) ==
  Usable(Extent(l, dir)) > 0 /\ 2 * MinCols > Usable(Extent(l, dir))
ClampPanics(l, dir) ==
  Usable(Extent(l, dir)) > 0 /\ 2 * Minimum(dir) > Usable(Extent(l, dir))
ClampRatio(l, dir, ratio) ==
  IF Usable(Extent(l, dir)) = 0 THEN Unit \div 2
  ELSE Clamp(ratio, LeastRatio(l, dir), Unit - LeastRatio(l, dir))

\* LayoutTree::resize of a pane below a split of that direction.
ResizePane(l, id, dir, delta) ==
  LET p == ResizeTarget(l.root, id, dir)
      ratio == Clamp(l.root[p].ratio + delta, 0, Unit)
  IN  [l EXCEPT !.root = [l.root EXCEPT ![p] = SplitNode(dir, ClampRatio(l, dir, ratio))]]

-----------------------------------------------------------------------------
(* Navigation. *)

OverlapsVertically(a, b) == a.y < b.y + b.height /\ b.y < a.y + a.height
OverlapsHorizontally(a, b) == a.x < b.x + b.width /\ b.x < a.x + a.width

\* Iterator::min_by_key takes the first of equals, max_by_key the last.
MinBy(t, ids, key) ==
  CHOOSE a \in ids : \A b \in ids \ {a} :
    \/ key[a] < key[b]
    \/ key[a] = key[b] /\ Before(LeafOf(t, a), LeafOf(t, b))

\* Mutant: the farthest of the panes to the left.
MaxBy_Farthest(t, ids, key) ==
  CHOOSE a \in ids : \A b \in ids \ {a} :
    \/ key[a] < key[b]
    \/ key[a] = key[b] /\ Before(LeafOf(t, b), LeafOf(t, a))

MaxBy(t, ids, key) ==
  CHOOSE a \in ids : \A b \in ids \ {a} :
    \/ key[a] > key[b]
    \/ key[a] = key[b] /\ Before(LeafOf(t, b), LeafOf(t, a))

\* navigate::navigate: the nearest pane to the right, or else to the left (below, or
\* else above); the pane itself when there is none.
Neighbour(l, from, dir) ==
  LET geoms == Resolve(l)
      others == DOMAIN geoms \ {from}
      Start(id) == IF dir = "vertical" THEN geoms[id].x ELSE geoms[id].y
      End(id) == Start(id) + Extent(geoms[id], dir)
      end == [id \in others |-> End(id)]
      gap == [id \in others |-> Monus(Start(id), End(from))]
      Beside(id) == IF dir = "vertical" THEN OverlapsVertically(geoms[from], geoms[id])
                    ELSE OverlapsHorizontally(geoms[from], geoms[id])
      after == {id \in others : Start(id) > Start(from) /\ Beside(id)}
      before == {id \in others : End(id) < End(from) /\ Start(id) < Start(from) /\ Beside(id)}
  IN  IF from \notin DOMAIN geoms THEN from
      ELSE IF after # {} THEN MinBy(l.root, after, gap)
      ELSE IF before # {} THEN MaxBy(l.root, before, end)
      ELSE from
=============================================================================

----------------------------- MODULE PaneTreeProofs -----------------------------
(***************************************************************************)
(* Proofs about PaneTree: every operation keeps the tree a tree with its   *)
(* selection in it and a minimum of room for every pane; panes and borders *)
(* fill the window, a border can be grabbed where it is drawn, navigation  *)
(* crosses one border, and a resize panics only under a tree that does not *)
(* fit; for any panes, windows and ratios.                                 *)
(***************************************************************************)
EXTENDS PaneTree, LayoutProofs

-----------------------------------------------------------------------------
(* Trees with the same shape. *)

\* Another direction or ratio for a split leaves the shape and the panes.
LEMMA SplitChanged ==
  ASSUME NEW t, Proper(t), NEW p \in Splits(t), NEW node \in SplitNodes
  PROVE  Proper([t EXCEPT ![p] = node]) /\ Ids([t EXCEPT ![p] = node]) = Ids(t)
<1> DEFINE u == [t EXCEPT ![p] = node]
<1>1. /\ DOMAIN u = DOMAIN t /\ u = [q \in DOMAIN u |-> u[q]]
      /\ p \in DOMAIN t /\ u[p] = node /\ \A q \in DOMAIN t \ {p} : u[q] = t[q]
  BY DEF Splits
<1>2. t[p].kind # "pane" /\ node.kind # "pane"
  BY DEF Splits, Leaves, SplitNodes
<1> HIDE DEF u
<1>3. Leaves(u) = Leaves(t) /\ Splits(u) = Splits(t)
  BY <1>1, <1>2 DEF Leaves, Splits
<1>4. \A q \in Leaves(t) : q \in DOMAIN t /\ u[q] = t[q]
  BY <1>1, <1>2 DEF Leaves
<1>5. Ids(u) = Ids(t)
  BY <1>3, <1>4 DEF Ids
<1>6. IsTree(u)
  BY <1>1, <1>3, <1>4 DEF IsTree, Proper
<1>7. \A q \in Splits(u) : u[q] \in SplitNodes
  BY <1>1, <1>3 DEF Proper, Splits
<1>8. Proper(u)
  BY <1>1, <1>5, <1>6, <1>7 DEF Proper
<1> QED
  BY <1>5, <1>8 DEF u

\* Two panes that change places leave the shape and the panes.
LEMMA PanesSwapped ==
  ASSUME NEW t, Proper(t), NEW a \in Ids(t), NEW b \in Ids(t)
  PROVE  Proper(SwapPaneIds(t, a, b)) /\ Ids(SwapPaneIds(t, a, b)) = Ids(t)
<1> DEFINE u == SwapPaneIds(t, a, b)
           To(id) == IF id = a THEN b ELSE IF id = b THEN a ELSE id
<1>1. DOMAIN u = DOMAIN t /\ u = [p \in DOMAIN u |-> u[p]]
  BY DEF SwapPaneIds
<1>2. ASSUME NEW p \in Leaves(t)
      PROVE  u[p].kind = "pane" /\ u[p].id = To(t[p].id)
  <2>1. p \in DOMAIN t /\ t[p].kind = "pane"
    BY <1>2 DEF Leaves
  <2>2. CASE t[p].id = a
    <3>1. u[p] = PaneNode(b)
      BY <1>2, <2>1, <2>2 DEF SwapPaneIds
    <3> QED
      BY <2>2, <3>1 DEF PaneNode
  <2>3. CASE t[p].id # a /\ t[p].id = b
    <3>1. u[p] = PaneNode(a)
      BY <1>2, <2>1, <2>3 DEF SwapPaneIds
    <3> QED
      BY <2>3, <3>1 DEF PaneNode
  <2>4. CASE t[p].id # a /\ t[p].id # b
    <3>1. u[p] = t[p]
      BY <1>2, <2>1, <2>4 DEF SwapPaneIds
    <3> QED
      BY <2>1, <2>4, <3>1
  <2> QED
    BY <2>2, <2>3, <2>4
<1>3. \A p \in Splits(t) : u[p] = t[p]
  BY DEF SwapPaneIds, Splits
<1> HIDE DEF u
<1>4. Leaves(u) = Leaves(t) /\ Splits(u) = Splits(t)
  <2>1. \A p \in DOMAIN t : u[p].kind = "pane" <=> t[p].kind = "pane"
    BY <1>2, <1>3 DEF Splits, Leaves
  <2> QED
    BY <1>1, <2>1 DEF Leaves, Splits
<1>5. \A p, q \in Leaves(u) : u[p].id = u[q].id => p = q
  <2>1. \A p, q \in Leaves(t) : t[p].id = t[q].id => p = q
    BY DEF Proper, IsTree
  <2> QED
    BY <1>2, <1>4, <2>1
<1>6. Ids(u) = Ids(t)
  <2>1. \A p \in Leaves(t) : t[p].id \in Ids(t) /\ u[p].id = To(t[p].id)
    BY <1>2 DEF Ids
  <2>2. \A id \in Ids(t) : To(id) \in Ids(t) /\ To(To(id)) = id
    OBVIOUS
  <2> HIDE DEF To
  <2>3. Ids(u) \subseteq Ids(t)
    BY <1>4, <2>1, <2>2 DEF Ids
  <2>4. ASSUME NEW id \in Ids(t)
        PROVE  id \in Ids(u)
    <3>1. PICK p \in Leaves(t) : t[p].id = To(id)
      BY <2>2, <2>4 DEF Ids
    <3>2. u[p].id = id
      BY <2>1, <2>2, <3>1
    <3> QED
      BY <1>4, <3>2 DEF Ids
  <2> QED
    BY <2>3, <2>4
<1>7. IsTree(u)
  BY <1>1, <1>4, <1>5 DEF IsTree, Proper
<1>8. \A p \in Splits(u) : u[p] \in SplitNodes
  BY <1>3, <1>4 DEF Proper
<1>9. Proper(u)
  BY <1>1, <1>6, <1>7, <1>8 DEF Proper
<1> QED
  BY <1>6, <1>9 DEF u

-----------------------------------------------------------------------------
(* Ratios. *)

\* Where clamp_ratio_for_minimums does not panic, it answers a ratio.
LEMMA ClampedRatio ==
  ASSUME NEW l, l.width \in Nat, l.height \in Nat, NEW dir, ~ClampPanics(l, dir), NEW r \in Int
  PROVE  ClampRatio(l, dir, r) \in 0..Unit
<1> DEFINE u == Usable(Extent(l, dir))
           m == Minimum(dir)
           n == m * Unit
           q == n \div u
<1>1. Unit \in Nat /\ Unit > 0 /\ m \in Nat /\ m > 0
  BY LayoutAssumption DEF Minimum
<1>2. u \in Nat
  BY DEF Usable, Monus, Extent
<1>3. ClampRatio(l, dir, r) = IF u = 0 THEN Unit \div 2 ELSE Clamp(r, q, Unit - q)
  BY DEF ClampRatio, LeastRatio
<1>4. u > 0 => 2 * m <= u
  <2>1. ~(u > 0 /\ 2 * m > u)
    BY DEF ClampPanics
  <2> HIDE DEF u, m
  <2> QED
    BY <1>1, <1>2, <2>1
<1> HIDE DEF u, m
<1>5. CASE u = 0
  BY <1>1, <1>3, <1>5
<1>6. CASE u > 0
  <2>1. n \in Nat /\ n <= u * Unit
    <3>1. m <= u
      BY <1>1, <1>2, <1>4, <1>6
    <3> QED
      BY <1>1, <1>2, <3>1
  <2> DEFINE top == u * Unit
  <2>2. top \in Nat
    BY <1>1, <1>2
  <2> HIDE DEF n
  <2>3. q \in Nat
    BY <1>2, <1>6, <2>1
  <2>4. u * q <= n
    BY <1>2, <1>6, <2>1
  <2> HIDE DEF q
  <2>5. q <= Unit
    <3> SUFFICES ASSUME q > Unit
                 PROVE  FALSE
      BY <1>1, <2>3
    <3>1. PICK k \in Nat : q = Unit + 1 + k
      <4>1. q - Unit - 1 \in Nat /\ q = Unit + 1 + (q - Unit - 1)
        BY <1>1, <2>3
      <4> QED
        BY <4>1
    <3>2. u * q = u * Unit + u + u * k /\ u * k \in Nat
      BY <1>1, <1>2, <3>1
    <3> QED
      BY <1>2, <1>6, <2>1, <2>2, <2>4, <3>2
  <2> HIDE DEF top
  <2>6. Clamp(r, q, Unit - q) \in 0..Unit
    BY <1>1, <2>3, <2>5 DEF Clamp, Larger, Smaller
  <2> QED
    BY <1>3, <1>6, <2>6
<1> QED
  BY <1>2, <1>5, <1>6

\* The split that resize_nearest moves: the first of its direction on the way to the
\* pane.
LEMMA TopmostSplit ==
  ASSUME NEW t, DOMAIN t \subseteq Paths, NEW id, NEW dir, ResizeTargets(t, id, dir) # {}
  PROVE  /\ ResizeTarget(t, id, dir) \in ResizeTargets(t, id, dir)
         /\ \A q \in ResizeTargets(t, id, dir) : Len(ResizeTarget(t, id, dir)) <= Len(q)
<1> DEFINE R == ResizeTargets(t, id, dir)
           L == {Len(p) : p \in R}
<1>1. R \subseteq Paths
  BY DEF ResizeTargets, Splits
<1>2. \A p \in R : Len(p) \in Nat
  BY <1>1, LenProperties DEF Paths
<1> HIDE DEF R
<1>3. L \in SUBSET Nat /\ L # {}
  BY <1>2 DEF R
<1> HIDE DEF L
<1>4. PICK n \in L : \A m \in L : n <= m
  BY <1>3, LeastNumber
<1> USE DEF L
<1>5. PICK p \in R : n = Len(p)
  OBVIOUS
<1>6. \A q \in R : Len(p) <= Len(q)
  BY <1>4, <1>5
<1>7. \E s \in R : \A q \in R : Len(s) <= Len(q)
  BY <1>6
<1> QED
  BY <1>7 DEF ResizeTarget, R

-----------------------------------------------------------------------------
(* Layouts. *)

\* A layout with another tree of the same panes.
LEMMA RootChanged ==
  ASSUME NEW l, ProperLayout(l), NEW t, Proper(t), Ids(t) = Ids(l.root)
  PROVE  /\ ProperLayout([l EXCEPT !.root = t])
         /\ [l EXCEPT !.root = t].root = t
         /\ [l EXCEPT !.root = t].width = l.width /\ [l EXCEPT !.root = t].height = l.height
<1>1. [l EXCEPT !.root = t] = LayoutTree(t, l.active, l.zoomed, l.width, l.height)
  BY Rebuilt
<1> QED
  BY <1>1 DEF ProperLayout, LayoutTree

\* A layout with another pane selected or none zoomed.
LEMMA SelectionChanged ==
  ASSUME NEW l, ProperLayout(l), NEW id \in Ids(l.root), NEW z \in Ids(l.root) \cup {NoPane}
  PROVE  /\ ProperLayout([l EXCEPT !.active = id]) /\ ProperLayout([l EXCEPT !.zoomed = z])
         /\ [l EXCEPT !.active = id].root = l.root /\ [l EXCEPT !.zoomed = z].root = l.root
         /\ [l EXCEPT !.active = id].width = l.width /\ [l EXCEPT !.active = id].height = l.height
         /\ [l EXCEPT !.zoomed = z].width = l.width /\ [l EXCEPT !.zoomed = z].height = l.height
<1>1. [l EXCEPT !.active = id] = LayoutTree(l.root, id, l.zoomed, l.width, l.height)
  BY Rebuilt
<1>2. [l EXCEPT !.zoomed = z] = LayoutTree(l.root, l.active, z, l.width, l.height)
  BY Rebuilt
<1> QED
  BY <1>1, <1>2 DEF ProperLayout, LayoutTree

\* Splits and closes leave the window's size.
LEMMA SizeIsKept ==
  ASSUME NEW l, ProperLayout(l), NEW id, NEW dir, NEW ratio, NEW new
  PROVE  /\ SplitPane(l, id, dir, ratio, new).width = l.width
         /\ SplitPane(l, id, dir, ratio, new).height = l.height
         /\ ClosePane(l, id).width = l.width
         /\ ClosePane(l, id).height = l.height
<1>1. "width" \in DOMAIN l /\ "height" \in DOMAIN l
  BY DEF ProperLayout, LayoutTree
<1> QED
  BY <1>1 DEF SplitPane, ClosePane

\* LayoutTree::set_dimensions
LEMMA SizeChanged ==
  ASSUME NEW l, ProperLayout(l), NEW w, NEW h
  PROVE  [l EXCEPT !.width = w, !.height = h] = LayoutTree(l.root, l.active, l.zoomed, w, h)
<1> DEFINE m == [l EXCEPT !.width = w, !.height = h]
<1>1. l \in [root : {l.root}, active : {l.active}, zoomed : {l.zoomed}, width : {l.width}, height : {l.height}]
  BY DEF ProperLayout, LayoutTree
<1>2. m \in [root : {l.root}, active : {l.active}, zoomed : {l.zoomed}, width : {w}, height : {h}]
  BY <1>1
<1> HIDE DEF m
<1>3. m = LayoutTree(l.root, l.active, l.zoomed, w, h)
  BY <1>2, Parts
<1> QED
  BY <1>3 DEF m

-----------------------------------------------------------------------------
(* The inductive invariant. *)

Sound ==
  /\ ProperLayout(layout)
  /\ Ids(Tree) \subseteq PaneIds
  /\ <<layout.width, layout.height>> \in Windows
  /\ panicked \in BOOLEAN

\* A layout that takes another's place, with panes it may have and a size of a window.
LEMMA Becomes ==
  ASSUME Sound, NEW l, layout' = l, panicked' \in BOOLEAN, ProperLayout(l), Ids(l.root) \subseteq PaneIds,
         l.width = layout.width, l.height = layout.height
  PROVE  Sound'
BY DEF Sound, Tree

\* A window starts with one pane.
LEMMA InitSound == Init => Sound
<1> SUFFICES ASSUME NEW id \in PaneIds, NEW w \in Windows, layout = WithDimensions(id, w[1], w[2]),
                    panicked = FALSE
             PROVE  Sound
  BY DEF Init
<1>1. w[1] \in Nat /\ w[2] \in Nat /\ w = <<w[1], w[2]>>
  BY PaneTreeAssumption
<1>2. ProperLayout(layout) /\ Ids(layout.root) = {id}
  BY <1>1, OnePane
<1>3. layout.width = w[1] /\ layout.height = w[2]
  BY DEF WithDimensions, LayoutTree
<1> QED
  BY <1>1, <1>2, <1>3 DEF Sound, Tree

\* A split brings in a pane that was not in the tree.
LEMMA SplitKeepsSound ==
  ASSUME Sound, NEW id \in PaneIds, NEW new \in PaneIds, NEW dir \in Directions, NEW ratio \in Ratios,
         Split(id, dir, ratio, new)
  PROVE  Sound'
<1> DEFINE m == SplitPane(layout, id, dir, ratio, new)
<1>1. /\ ProperLayout(layout) /\ id \in Ids(layout.root) /\ new \notin Ids(layout.root)
      /\ layout' = m /\ panicked' = panicked
  BY DEF Split, Sound, Tree
<1>2. ratio \in 0..Unit
  BY PaneTreeAssumption
<1>3. ProperLayout(m)
  BY <1>1, <1>2, SplitLayout
<1>4. \A x : x \in Ids(m.root) <=> x \in Ids(layout.root) \/ x = new
  <2> PICK l : l = layout
    OBVIOUS
  <2>1. ProperLayout(l) /\ id \in Ids(l.root) /\ new \notin Ids(l.root)
    BY <1>1
  <2>2. \A x : x \in Ids(SplitPane(l, id, dir, ratio, new).root) <=> x \in Ids(l.root) \/ x = new
    BY ONLY <1>2, <2>1, dir \in Directions, SplitPanes
  <2> QED
    BY <2>2
<1>5. m.width = layout.width /\ m.height = layout.height
  BY <1>1, SizeIsKept
<1> HIDE DEF m
<1>6. Ids(m.root) \subseteq PaneIds
  BY <1>4 DEF Sound, Tree
<1> QED
  BY <1>1, <1>3, <1>5, <1>6, Becomes DEF Sound

\* A close leaves the other panes and activates one of them.
LEMMA CloseKeepsSound ==
  ASSUME Sound, NEW id \in PaneIds, Close(id)
  PROVE  Sound'
<1> DEFINE m == ClosePane(layout, id)
<1>1. ProperLayout(layout) /\ CanClose(layout, id) /\ layout' = m /\ panicked' = panicked
  BY DEF Close, Sound
<1>2. ProperLayout(m) /\ Ids(m.root) = Ids(layout.root) \ {id}
  BY <1>1, CloseLayout
<1>3. m.width = layout.width /\ m.height = layout.height
  BY <1>1, SizeIsKept
<1> HIDE DEF m
<1> QED
  BY <1>1, <1>2, <1>3, Becomes DEF Sound, Tree

\* A root with the same panes, in its old layout.
LEMMA NewRootKeepsSound ==
  ASSUME Sound, NEW t, Proper(t), Ids(t) = Ids(Tree), layout' = [layout EXCEPT !.root = t],
         UNCHANGED panicked
  PROVE  Sound'
<1> DEFINE m == [layout EXCEPT !.root = t]
<1>1. ProperLayout(layout) /\ Ids(t) = Ids(layout.root) /\ layout' = m /\ panicked' \in BOOLEAN
  BY DEF Sound, Tree
<1>2. ProperLayout(m) /\ m.root = t /\ m.width = layout.width /\ m.height = layout.height
  BY <1>1, RootChanged
<1> HIDE DEF m
<1> QED
  BY <1>1, <1>2, Becomes DEF Sound, Tree

\* A resize changes a ratio within its bounds, or panics and changes nothing.
LEMMA ResizeKeepsSound ==
  ASSUME Sound, NEW id \in PaneIds, NEW dir \in Directions, NEW delta \in Deltas,
         Resize(id, dir, delta)
  PROVE  Sound'
<1>1. CASE ClampPanics(layout, dir)
  BY <1>1 DEF Resize, Sound, Tree
<1>2. CASE ~ClampPanics(layout, dir)
  <2> DEFINE p == ResizeTarget(Tree, id, dir)
             ratio == Clamp(Tree[p].ratio + delta, 0, Unit)
             node == SplitNode(dir, ClampRatio(layout, dir, ratio))
             t == [Tree EXCEPT ![p] = node]
  <2>1. /\ ProperLayout(layout) /\ Proper(Tree) /\ layout.width \in Nat /\ layout.height \in Nat
        /\ DOMAIN Tree \subseteq Paths
    BY DEF Sound, ProperLayout, Tree, Proper
  <2>2. /\ ResizeTargets(Tree, id, dir) # {} /\ layout' = [layout EXCEPT !.root = t] /\ UNCHANGED panicked
    BY <1>2 DEF Resize, ResizePane, Tree
  <2>3. p \in ResizeTargets(Tree, id, dir)
    BY <2>1, <2>2, TopmostSplit
  <2>4. p \in Splits(Tree)
    BY <2>3 DEF ResizeTargets
  <2>5. Tree[p] \in SplitNodes
    BY <2>1, <2>4 DEF Proper
  <2> HIDE DEF p
  <2>6. ratio \in Int
    <3>1. Tree[p].ratio \in 0..Unit
      BY <2>5 DEF SplitNodes
    <3>2. delta \in Int /\ Unit \in Nat
      BY PaneTreeAssumption, LayoutAssumption
    <3> QED
      BY <3>1, <3>2 DEF Clamp, Larger, Smaller
  <2> HIDE DEF ratio
  <2>7. ClampRatio(layout, dir, ratio) \in 0..Unit
    BY <1>2, <2>1, <2>6, ClampedRatio
  <2>8. node \in SplitNodes
    BY <2>7 DEF SplitNode, SplitNodes
  <2> HIDE DEF node
  <2>9. Proper(t) /\ Ids(t) = Ids(Tree)
    BY <2>1, <2>4, <2>8, SplitChanged
  <2> HIDE DEF t
  <2> QED
    BY <2>2, <2>9, NewRootKeepsSound
<1> QED
  BY <1>1, <1>2

\* Two panes that change places are still there once each.
LEMMA SwapKeepsSound ==
  ASSUME Sound, NEW a \in PaneIds, NEW b \in PaneIds, Swap(a, b)
  PROVE  Sound'
<1> DEFINE t == SwapPaneIds(Tree, a, b)
<1>1. Proper(Tree) /\ a \in Ids(Tree) /\ b \in Ids(Tree)
  BY DEF Sound, ProperLayout, Tree, Swap
<1>2. layout' = [layout EXCEPT !.root = t] /\ UNCHANGED panicked
  BY DEF Swap, Tree
<1>3. Proper(t) /\ Ids(t) = Ids(Tree)
  BY <1>1, PanesSwapped
<1> HIDE DEF t
<1> QED
  BY <1>2, <1>3, NewRootKeepsSound

\* A rotation changes a direction and nothing else of the tree.
LEMMA RotateKeepsSound ==
  ASSUME Sound, NEW id \in PaneIds, Rotate(id)
  PROVE  Sound'
<1> DEFINE t == RotateNearest(Tree, id)
           leaf == LeafOf(Tree, id)
           p == Front(leaf)
           node == SplitNode(Other(Tree[p].direction), Tree[p].ratio)
<1>1. Proper(Tree) /\ IsTree(Tree) /\ id \in Ids(Tree)
  BY DEF Sound, ProperLayout, Proper, Tree, Rotate
<1>2. layout' = [layout EXCEPT !.root = t] /\ UNCHANGED panicked
  BY DEF Rotate, Tree
<1>3. leaf \in DOMAIN Tree
  BY <1>1, Leaf DEF Leaves
<1>4. Proper(t) /\ Ids(t) = Ids(Tree)
  <2>1. CASE leaf = <<>>
    BY <1>1, <2>1 DEF RotateNearest
  <2>2. CASE leaf # <<>>
    <3>1. p \in Splits(Tree)
      BY <1>1, <1>3, <2>2 DEF IsTree
    <3>2. Tree[p] \in SplitNodes
      BY <1>1, <3>1 DEF Proper
    <3>3. Other(Tree[p].direction) \in Directions
      <4> DEFINE d == Tree[p].direction
      <4>1. \E e \in Directions : e # d
        BY DEF Directions
      <4> HIDE DEF d
      <4> QED
        BY <4>1 DEF Other, d
    <3>4. t = [Tree EXCEPT ![p] = node]
      BY <2>2 DEF RotateNearest
    <3> HIDE DEF p, leaf
    <3>5. node \in SplitNodes
      BY <3>2, <3>3 DEF SplitNode, SplitNodes
    <3> HIDE DEF node, t
    <3> QED
      BY <1>1, <3>1, <3>4, <3>5, SplitChanged
  <2> QED
    BY <2>1, <2>2
<1> HIDE DEF t
<1> QED
  BY <1>2, <1>4, NewRootKeepsSound

\* Only a pane of the tree is zoomed.
LEMMA ZoomKeepsSound ==
  ASSUME Sound, NEW id, Zoom(id) \/ Unzoom
  PROVE  Sound'
<1> PICK z : layout' = [layout EXCEPT !.zoomed = z] /\ z \in Ids(layout.root) \cup {NoPane}
             /\ UNCHANGED panicked
  BY DEF Zoom, Unzoom, Tree
<1> DEFINE m == [layout EXCEPT !.zoomed = z]
<1>1. ProperLayout(layout) /\ layout.active \in Ids(layout.root)
  BY DEF Sound, ProperLayout
<1>2. ProperLayout(m) /\ m.root = layout.root /\ m.width = layout.width /\ m.height = layout.height
  BY <1>1, SelectionChanged
<1> HIDE DEF m
<1>3. layout' = m
  BY DEF m
<1> QED
  BY <1>2, <1>3, Becomes DEF Sound, Tree

\* The window's size is no part of the tree.
LEMMA SetDimensionsKeepsSound ==
  ASSUME Sound, NEW w \in Windows, SetDimensions(w)
  PROVE  Sound'
<1> DEFINE m == [layout EXCEPT !.width = w[1], !.height = w[2]]
<1>1. w[1] \in Nat /\ w[2] \in Nat /\ w = <<w[1], w[2]>>
  BY PaneTreeAssumption
<1>2. ProperLayout(m) /\ m.root = layout.root /\ m.width = w[1] /\ m.height = w[2]
  <2>1. ProperLayout(layout)
    BY DEF Sound
  <2>2. m = LayoutTree(layout.root, layout.active, layout.zoomed, w[1], w[2])
    BY <2>1, SizeChanged
  <2> HIDE DEF m
  <2> QED
    BY <1>1, <2>1, <2>2 DEF ProperLayout, LayoutTree
<1>3. layout' = m /\ panicked' = panicked
  BY DEF SetDimensions
<1> HIDE DEF m
<1> QED
  BY <1>1, <1>2, <1>3 DEF Sound, Tree

\* Navigation ends at a pane of the tree.
LEMMA MoveToKeepsSound ==
  ASSUME Sound, NEW dir, MoveTo(dir)
  PROVE  Sound'
<1> DEFINE to == Neighbour(layout, layout.active, dir)
           m == [layout EXCEPT !.active = to]
<1>1. ProperLayout(layout) /\ layout.active \in Ids(layout.root)
  BY DEF Sound, ProperLayout
<1>2. to \in Ids(layout.root)
  <2> PICK a \in Ids(layout.root) : a = layout.active
    BY <1>1
  <2>1. Neighbour(layout, a, dir) \in Ids(layout.root)
    BY <1>1, NeighbourIsPane
  <2> QED
    BY <2>1
<1>3. layout' = m /\ panicked' = panicked
  BY DEF MoveTo
<1> HIDE DEF to
<1>4. ProperLayout(m) /\ m.root = layout.root /\ m.width = layout.width /\ m.height = layout.height
  BY <1>1, <1>2, SelectionChanged
<1> HIDE DEF m
<1> QED
  BY <1>3, <1>4, Becomes DEF Sound, Tree

\* Sound is inductive.
LEMMA StepKeepsSound == Sound /\ [Next]_vars => Sound'
<1> SUFFICES ASSUME Sound, [Next]_vars
             PROVE  Sound'
  OBVIOUS
<1>1. CASE UNCHANGED vars
  BY <1>1 DEF vars, Sound, Tree
<1>2. CASE \E id, new \in PaneIds, dir \in Directions, ratio \in Ratios : Split(id, dir, ratio, new)
  BY <1>2, SplitKeepsSound
<1>3. CASE \E id \in PaneIds : Close(id) \/ Rotate(id) \/ Zoom(id)
  BY <1>3, CloseKeepsSound, RotateKeepsSound, ZoomKeepsSound
<1>4. CASE \E id \in PaneIds, dir \in Directions, delta \in Deltas : Resize(id, dir, delta)
  BY <1>4, ResizeKeepsSound
<1>5. CASE \E a, b \in PaneIds : Swap(a, b)
  BY <1>5, SwapKeepsSound
<1>6. CASE \E w \in Windows : SetDimensions(w)
  BY <1>6, SetDimensionsKeepsSound
<1>7. CASE \E dir \in Directions : MoveTo(dir)
  BY <1>7, MoveToKeepsSound
<1>8. CASE Unzoom
  BY <1>8, ZoomKeepsSound
<1> QED
  BY <1>1, <1>2, <1>3, <1>4, <1>5, <1>6, <1>7, <1>8 DEF Next

\* What Sound says of layouts is what TypeOK says.
LEMMA SoundIsTypeOK == Sound => TypeOK
BY DEF Sound, TypeOK, ProperLayout, Proper, SplitNodes, Tree

\* However panes are split, closed, swapped, rotated, resized and zoomed, in any window:
\* the tree is a tree in which every pane occurs once, its ratios are ratios, and the
\* pane with the keys and the pane that is zoomed are panes of the tree.
THEOREM TreesAlwaysKeepTheirSelection == Spec => []TypeOK
BY InitSound, StepKeepsSound, SoundIsTypeOK, PTL DEF Spec

-----------------------------------------------------------------------------
(* Trees that do not fit.                                                    *)

\* Along the line of a split the children are as long as their parent.
LEMMA AcrossTheSplit ==
  ASSUME NEW split, NEW r \in Rects, NEW e, NEW dir \in Directions, split.direction \in Directions,
         split.direction # dir
  PROVE  Extent(ChildRect(split, r, e), dir) = Extent(r, dir)
<1>1. CASE dir = "vertical"
  <2>1. split.direction = "horizontal"
    BY <1>1 DEF Directions
  <2>2. \A a, b : [r EXCEPT !.y = a, !.height = b].width = r.width
    BY DEF Rects
  <2> QED
    BY <1>1, <2>1, <2>2 DEF Extent, ChildRect
<1>2. CASE dir # "vertical"
  <2>1. split.direction = "vertical"
    BY <1>2 DEF Directions
  <2>2. \A a, b : [r EXCEPT !.x = a, !.width = b].height = r.height
    BY DEF Rects
  <2> QED
    BY <1>2, <2>1, <2>2 DEF Extent, ChildRect
<1> QED
  BY <1>1, <1>2

\* Where there is no room for two, the first child gets less than the minimum.
LEMMA FirstChildIsShort ==
  ASSUME NEW split \in SplitNodes, NEW r \in Rects, NEW dir \in Directions, split.direction = dir,
         Usable(Extent(r, dir)) < 2 * Minimum(dir)
  PROVE  Extent(ChildRect(split, r, 1), dir) < Minimum(dir)
<1> DEFINE u == Usable(Extent(r, dir))
           m == Minimum(dir)
           share == Share(u, split.ratio)
           first == FirstSize(u, split.ratio, m)
<1>1. m \in Nat /\ m > 0
  BY LayoutAssumption DEF Minimum
<1>2. u \in Nat /\ u < 2 * m
  BY DEF Usable, Monus, Extent, Rects
<1>3. share \in Nat
  <2> DEFINE n == u * split.ratio
  <2>1. split.ratio \in Nat
    BY LayoutAssumption DEF SplitNodes
  <2> HIDE DEF u
  <2>2. n \in Nat
    BY <1>2, <2>1
  <2> HIDE DEF n
  <2>3. n \div Unit \in Nat
    BY <2>2, LayoutAssumption
  <2> QED
    BY <2>3 DEF Share, n
<1> HIDE DEF u, m, share
<1>4. first < m
  BY <1>1, <1>2, <1>3 DEF FirstSize, Smaller, Larger, Monus, share
<1> HIDE DEF first
<1>5. Extent(ChildRect(split, r, 1), dir) = first
  <2>1. CASE dir = "vertical"
    <3>1. ChildRect(split, r, 1) = [r EXCEPT !.x = r.x + 0, !.width = first]
      BY <2>1 DEF ChildRect, first, u, m
    <3> QED
      BY <2>1, <3>1 DEF Extent, Rects
  <2>2. CASE dir # "vertical"
    <3>1. ChildRect(split, r, 1) = [r EXCEPT !.y = r.y + 0, !.height = first]
      BY <2>2 DEF ChildRect, first, u, m
    <3> QED
      BY <2>2, <3>1 DEF Extent, Rects
  <2> QED
    BY <2>1, <2>2
<1> QED
  BY <1>4, <1>5 DEF m

\* A node that is too small has a pane that is too small below it: it is the first
\* child's, and the first child's of that, down to a pane.
LEMMA ShortPaneBelow ==
  ASSUME NEW t, Proper(t), NEW width \in Nat, NEW height \in Nat, NEW dir \in Directions,
         NEW a \in DOMAIN t, Extent(Rect(t, a, width, height), dir) < Minimum(dir)
  PROVE  \E p \in Leaves(t) : Extent(Rect(t, p, width, height), dir) < Minimum(dir)
<1> DEFINE B == {p \in DOMAIN t : Extent(Rect(t, p, width, height), dir) < Minimum(dir)}
<1>1. a \in B /\ B \in SUBSET DOMAIN t
  OBVIOUS
<1>2. ASSUME NEW p \in B \cap Splits(t)
      PROVE  Append(p, 1) \in B /\ 1 \in Turns
  <2> DEFINE q == Append(p, 1)
             r == Rect(t, p, width, height)
  <2>1. /\ p \in Splits(t) /\ t[p] \in SplitNodes /\ r \in Rects /\ Extent(r, dir) < Minimum(dir)
        /\ p \in Paths /\ 1 \in Turns /\ Branching(t)
    BY Branches, RectType DEF Proper, Turns
  <2>2. q \in DOMAIN t
    BY <2>1 DEF Branching
  <2>3. Rect(t, q, width, height) = ChildRect(t[p], r, 1)
    BY <2>1, RectStep
  <2> HIDE DEF r
  <2>4. Extent(ChildRect(t[p], r, 1), dir) < Minimum(dir)
    <3>1. CASE t[p].direction = dir
      <4> DEFINE m == Minimum(dir)
                 x == Extent(r, dir)
      <4>1. m \in Nat /\ x \in Nat /\ x < m
        BY <2>1, LayoutAssumption DEF Minimum, Extent, Rects
      <4> HIDE DEF m, x
      <4>2. Usable(x) < 2 * m
        BY <4>1 DEF Usable, Monus
      <4> QED
        BY <2>1, <3>1, <4>2, FirstChildIsShort DEF m, x
    <3>2. CASE t[p].direction # dir
      BY <2>1, <3>2, AcrossTheSplit DEF SplitNodes
    <3> QED
      BY <3>1, <3>2
  <2> QED
    BY <2>1, <2>2, <2>3, <2>4
<1> HIDE DEF B
<1>3. PICK p \in Leaves(t) : p \in B
  BY <1>1, <1>2, Descend
<1> QED
  BY <1>3 DEF B

\* A node below no split of a direction is as long in that direction as the window.
LEMMA BelowNoSplit ==
  ASSUME NEW t, Proper(t), NEW width \in Nat, NEW height \in Nat, NEW dir \in Directions,
         NEW p \in DOMAIN t,
         \A a \in Paths : IsPrefix(a, p) /\ a # p => t[a].direction # dir
  PROVE  Extent(Rect(t, p, width, height), dir) = IF dir = "vertical" THEN width ELSE height
<1> DEFINE S == {q \in Paths : IsPrefix(q, p) =>
                   Extent(Rect(t, q, width, height), dir) = IF dir = "vertical" THEN width ELSE height}
<1>1. Branching(t) /\ DOMAIN t \subseteq Paths /\ <<>> \in Paths /\ p \in Paths
  BY Branches, EmptySeq DEF Proper, Paths
<1>2. <<>> \in S
  <2>1. Rect(t, <<>>, width, height) = [x |-> 0, y |-> 0, width |-> width, height |-> height]
    BY RectRoot
  <2> QED
    BY <1>1, <2>1 DEF Extent
<1>3. ASSUME NEW s \in Paths, NEW e \in Turns, s \in S
      PROVE  Append(s, e) \in S
  <2>1. Append(s, e) \in Paths
    BY Step
  <2>2. ASSUME IsPrefix(Append(s, e), p)
        PROVE  Extent(Rect(t, Append(s, e), width, height), dir) = IF dir = "vertical" THEN width ELSE height
    <3>1. IsPrefix(s, p) /\ s # p
      BY <1>1, <2>2, AboveStep
    <3>2. s \in Splits(t) /\ s \in DOMAIN t
      BY <1>1, <3>1, AboveIsSplit DEF Proper, Splits
    <3> DEFINE r == Rect(t, s, width, height)
    <3>3. t[s] \in SplitNodes /\ r \in Rects
      BY <3>2, RectType DEF Proper
    <3>4. t[s].direction # dir /\ t[s].direction \in Directions
      BY <3>1, <3>3 DEF SplitNodes
    <3>5. Rect(t, Append(s, e), width, height) = ChildRect(t[s], r, e)
      BY RectStep
    <3>6. Extent(r, dir) = IF dir = "vertical" THEN width ELSE height
      BY <1>3, <3>1
    <3> HIDE DEF r
    <3>7. Extent(ChildRect(t[s], r, e), dir) = Extent(r, dir)
      BY <3>3, <3>4, AcrossTheSplit
    <3> QED
      BY <3>5, <3>6, <3>7
  <2> QED
    BY <2>1, <2>2
<1> HIDE DEF S
<1>4. p \in S
  BY <1>1, <1>2, <1>3, PathInduction
<1>5. IsPrefix(p, p)
  BY DEF IsPrefix
<1> QED
  BY <1>4, <1>5 DEF S

\* In a tree that fits, every split has room for two minimums and the border.
LEMMA RoomAtSplits ==
  ASSUME NEW l, ProperLayout(l), Fits(l), NEW p \in Splits(l.root)
  PROVE  Usable(Extent(Rect(l.root, p, l.width, l.height), l.root[p].direction))
           >= 2 * Minimum(l.root[p].direction)
<1> DEFINE t == l.root
           w == l.width
           h == l.height
           dir == t[p].direction
           q == Append(p, 1)
           r == Rect(t, p, w, h)
           u == Usable(Extent(r, dir))
           m == Minimum(dir)
<1>1. Proper(t) /\ IsTree(t) /\ DOMAIN t \subseteq Paths /\ Branching(t) /\ w \in Nat /\ h \in Nat
  BY Branches DEF ProperLayout, Proper
<1>2. p \in DOMAIN t /\ p \in Paths /\ t[p] \in SplitNodes /\ dir \in Directions /\ 1 \in Turns
  BY <1>1 DEF Splits, Proper, SplitNodes, Turns
<1>3. r \in Rects
  BY <1>1, <1>2, RectType
<1>4. m \in Nat /\ u \in Nat
  BY <1>3, LayoutAssumption DEF Minimum, Usable, Monus, Extent, Rects
<1> HIDE DEF u, m
<1> SUFFICES ASSUME u < 2 * m
             PROVE  FALSE
  BY <1>4 DEF u, m
<1>5. q \in DOMAIN t
  BY <1>1, <1>2 DEF Branching
<1>6. Rect(t, q, w, h) = ChildRect(t[p], r, 1)
  BY <1>2, RectStep
<1> HIDE DEF r
<1>7. Extent(ChildRect(t[p], r, 1), dir) < Minimum(dir)
  BY <1>2, <1>3, FirstChildIsShort DEF u, m
<1>8. Extent(Rect(t, q, w, h), dir) < Minimum(dir)
  BY <1>6, <1>7
<1> HIDE DEF q, dir, t, w, h
<1>9. PICK s \in Leaves(t) : Extent(Rect(t, s, w, h), dir) < Minimum(dir)
  BY <1>1, <1>2, <1>5, <1>8, ShortPaneBelow
<1>10. t[s].id \in Ids(t) /\ LeafOf(t, t[s].id) = s
  BY <1>1, Leaf
<1>11. Given(l, t[s].id) = Rect(t, s, w, h)
  BY <1>10 DEF Given, t, w, h
<1>12. ~HasRoom(l, t[s].id)
  <2>1. Rect(t, s, w, h) \in Rects
    BY <1>1, <1>9, RectType DEF Leaves
  <2> QED
    BY <1>9, <1>11, <2>1, LayoutAssumption DEF HasRoom, Extent, Minimum, Rects
<1> QED
  BY <1>10, <1>12 DEF Fits, t

\* clamp_ratio_for_minimums looks at the window, and the split that is moved is the first
\* of its direction, so as long as the window: where two minimums do not fit into the
\* window, one of its children is too small.
LEMMA NoRoomForTwo ==
  ASSUME Sound, NEW id \in Ids(Tree), NEW dir \in Directions, ResizeTargets(Tree, id, dir) # {},
         ClampPanics(layout, dir)
  PROVE  ~Fits(layout)
<1> PICK t : t = Tree
  OBVIOUS
<1> PICK w : w = layout.width
  OBVIOUS
<1> PICK h : h = layout.height
  OBVIOUS
<1> DEFINE leaf == LeafOf(t, id)
           p == ResizeTarget(t, id, dir)
           r == Rect(t, p, w, h)
<1>1. Proper(t) /\ IsTree(t) /\ DOMAIN t \subseteq Paths /\ w \in Nat /\ h \in Nat
  BY DEF Sound, ProperLayout, Proper, Tree
<1>2. /\ p \in ResizeTargets(t, id, dir)
      /\ \A a \in ResizeTargets(t, id, dir) : Len(p) <= Len(a)
  BY <1>1, TopmostSplit
<1>3. p \in Splits(t) /\ p \in DOMAIN t /\ t[p].direction = dir /\ IsPrefix(p, leaf) /\ t[p] \in SplitNodes
  BY <1>1, <1>2 DEF ResizeTargets, Splits, Proper
<1>4. leaf \in DOMAIN t
  BY <1>1, Leaf DEF Leaves
<1> HIDE DEF p, leaf
<1>5. ASSUME NEW a \in Paths, IsPrefix(a, p), a # p
      PROVE  t[a].direction # dir
  <2>1. PICK v \in Paths : p = a \o v /\ Len(p) = Len(a) + Len(v)
    BY <1>1, <1>3, <1>5, WayBelow
  <2>2. v # <<>>
    BY <1>5, <2>1, ConcatEmptySeq DEF Paths
  <2>3. Len(v) \in Nat /\ Len(v) > 0 /\ Len(a) \in Nat
    BY <2>2, EmptySeq, LenProperties DEF Paths
  <2>4. ~(Len(p) <= Len(a))
    BY <2>1, <2>3
  <2>5. IsPrefix(a, leaf)
    BY <1>1, <1>3, <1>4, <1>5, AboveAbove
  <2>6. a \in Splits(t)
    BY <1>1, <1>3, <1>5, AboveIsSplit
  <2>7. t[a].direction = dir => a \in ResizeTargets(t, id, dir)
    BY <2>5, <2>6 DEF ResizeTargets, leaf
  <2> QED
    BY <1>2, <2>4, <2>7
<1>6. Extent(r, dir) = Extent(layout, dir)
  BY <1>1, <1>3, <1>5, BelowNoSplit DEF Extent
<1>7. r \in Rects
  BY <1>1, <1>3, RectType
<1> SUFFICES ASSUME Fits(layout)
             PROVE  FALSE
  OBVIOUS
<1>8. Usable(Extent(r, dir)) >= 2 * Minimum(dir)
  BY <1>3, RoomAtSplits DEF Sound, Tree
<1> DEFINE u == Usable(Extent(r, dir))
           m == Minimum(dir)
<1>9. 2 * m > u
  BY <1>6 DEF ClampPanics
<1>10. m \in Nat /\ u \in Nat
  BY <1>7, LayoutAssumption DEF Minimum, Usable, Monus, Extent, Rects
<1>11. u >= 2 * m
  BY <1>8
<1> HIDE DEF u, m
<1> QED
  BY <1>9, <1>10, <1>11

\* A panic finds a tree without room, and the operation that panicked leaves it as it is.
LEMMA StepKeepsCalm == Sound /\ TreesThatFitDoNotPanic /\ [Next]_vars => TreesThatFitDoNotPanic'
<1> SUFFICES ASSUME Sound, TreesThatFitDoNotPanic, [Next]_vars, panicked'
             PROVE  ~Fits(layout')
  BY DEF TreesThatFitDoNotPanic
<1>1. CASE UNCHANGED vars
  BY <1>1 DEF vars, TreesThatFitDoNotPanic
<1>2. CASE Next
  <2>1. PICK id \in PaneIds, dir \in Directions, delta \in Deltas : Resize(id, dir, delta) /\ ClampPanics(layout, dir)
    BY <1>2 DEF Next, Split, Close, Resize, Swap, Rotate, Zoom, Unzoom, SetDimensions, MoveTo
  <2>2. id \in Ids(Tree) /\ ResizeTargets(Tree, id, dir) # {} /\ layout' = layout
    BY <2>1 DEF Resize
  <2> QED
    BY <2>1, <2>2, NoRoomForTwo
<1> QED
  BY <1>1, <1>2

\* A resize panics only in a window in which some pane is below the minimum: as long as
\* every pane has its minimum, f32::clamp gets bounds that do not cross.
THEOREM ResizingIsSafeInTreesThatFit == Spec => []TreesThatFitDoNotPanic
<1>1. Init => TreesThatFitDoNotPanic
  BY DEF Init, TreesThatFitDoNotPanic
<1> QED
  BY <1>1, InitSound, StepKeepsSound, StepKeepsCalm, PTL DEF Spec

-----------------------------------------------------------------------------
(* A close takes a split back.                                               *)

\* The split's leaf comes back where the split was, and with it the selection.
LEMMA SoundIsCloseUndoesSplit == Sound => CloseUndoesSplit
<1> SUFFICES ASSUME Sound, NEW id \in Ids(Tree), NEW new \in PaneIds \ Ids(Tree), NEW dir \in Directions,
                    NEW ratio \in Ratios
             PROVE  ClosePane(SplitPane(layout, id, dir, ratio, new), new) = layout
  BY DEF CloseUndoesSplit
<1> PICK l : l = layout
  OBVIOUS
<1> DEFINE t == l.root
           u == ReplaceLeafWithSplit(t, id, dir, ratio, new)
           m == SplitPane(l, id, dir, ratio, new)
           n == ClosePane(m, new)
           a == l.active
           z == l.zoomed
           w == l.width
           h == l.height
<1>1. /\ ProperLayout(l) /\ Proper(t) /\ id \in Ids(t) /\ new \notin Ids(t) /\ a \in Ids(t)
      /\ z \in Ids(t) \cup {NoPane} /\ l = LayoutTree(t, a, z, w, h)
  BY DEF Sound, ProperLayout, Tree
<1>2. ratio \in 0..Unit /\ new # NoPane
  BY PaneTreeAssumption
<1>3. a # new /\ z # new
  BY <1>1, <1>2
<1>4. m = LayoutTree(u, a, z, w, h)
  <2>1. m = [l EXCEPT !.root = u]
    BY DEF SplitPane
  <2> HIDE DEF m, u, t
  <2>2. [l EXCEPT !.root = u] = LayoutTree(u, l.active, l.zoomed, l.width, l.height)
    BY ONLY <1>1, Rebuilt
  <2> QED
    BY <2>1, <2>2
<1>5. CloseLeaf(u, new) = t
  BY <1>1, <1>2, CloseAfterSplit
<1> HIDE DEF m, n, u, t, a, z, w, h
<1>6. m.root = u /\ m.active = a /\ m.zoomed = z
  BY <1>4 DEF LayoutTree
<1>7. n = [m EXCEPT !.root = t, !.zoomed = z, !.active = a]
  BY <1>3, <1>5, <1>6 DEF ClosePane, n
<1>8. m \in [root : {u}, active : {a}, zoomed : {z}, width : {w}, height : {h}]
  BY <1>4 DEF LayoutTree
<1>9. n \in [root : {t}, active : {a}, zoomed : {z}, width : {w}, height : {h}]
  BY <1>7, <1>8
<1>10. n = LayoutTree(t, a, z, w, h)
  BY <1>9, Parts
<1> QED
  BY <1>1, <1>10 DEF n, m

\* In every tree, closing the pane that a split has just made gives back the tree, the
\* selection and the zoom there were before, at any depth.
THEOREM ClosesAlwaysUndoSplits == Spec => []CloseUndoesSplit
BY InitSound, StepKeepsSound, SoundIsCloseUndoesSplit, PTL DEF Spec

-----------------------------------------------------------------------------
(* The panes beside an edit.                                                 *)

\* A rectangle depends on the splits above it alone.
LEMMA RectAgrees ==
  ASSUME NEW t, NEW u, NEW p \in Paths, NEW w, NEW h,
         \A s \in Paths : IsPrefix(s, p) /\ s # p => u[s] = t[s]
  PROVE  Rect(u, p, w, h) = Rect(t, p, w, h)
<1> DEFINE S == {q \in Paths : IsPrefix(q, p) => Rect(u, q, w, h) = Rect(t, q, w, h)}
<1>1. <<>> \in S
  <2>1. <<>> \in Paths
    BY EmptySeq DEF Paths
  <2>2. Rect(u, <<>>, w, h) = [x |-> 0, y |-> 0, width |-> w, height |-> h]
    BY RectRoot
  <2>3. Rect(t, <<>>, w, h) = [x |-> 0, y |-> 0, width |-> w, height |-> h]
    BY RectRoot
  <2> QED
    BY <2>1, <2>2, <2>3
<1>2. ASSUME NEW s \in Paths, NEW e \in Turns, s \in S
      PROVE  Append(s, e) \in S
  <2>1. ASSUME IsPrefix(Append(s, e), p)
        PROVE  Rect(u, Append(s, e), w, h) = Rect(t, Append(s, e), w, h)
    <3>1. IsPrefix(s, p) /\ s # p
      BY <2>1, AboveStep
    <3>2. u[s] = t[s] /\ Rect(u, s, w, h) = Rect(t, s, w, h)
      BY <1>2, <3>1
    <3>3. Rect(u, Append(s, e), w, h) = ChildRect(u[s], Rect(u, s, w, h), e)
      BY RectStep
    <3>4. Rect(t, Append(s, e), w, h) = ChildRect(t[s], Rect(t, s, w, h), e)
      BY RectStep
    <3> QED
      BY <3>2, <3>3, <3>4
  <2>2. Append(s, e) \in Paths
    BY Step
  <2> QED
    BY <2>1, <2>2
<1> HIDE DEF S
<1>3. p \in S
  BY <1>1, <1>2, PathInduction
<1>4. IsPrefix(p, p)
  BY DEF IsPrefix
<1> QED
  BY <1>3, <1>4 DEF S

\* A pane that is a pane of both trees, at the same place under the same splits, is given
\* the same rectangle.
LEMMA GivenTheSame ==
  ASSUME NEW l, NEW m, Proper(l.root), Proper(m.root), m.width = l.width, m.height = l.height,
         NEW p \in Leaves(l.root), p \in Leaves(m.root), m.root[p] = l.root[p],
         \A s \in Splits(l.root) : IsPrefix(s, p) => m.root[s] = l.root[s]
  PROVE  Given(m, l.root[p].id) = Given(l, l.root[p].id)
<1> DEFINE t == l.root
           u == m.root
           id == l.root[p].id
<1>1. /\ DOMAIN t \subseteq Paths /\ IsTree(t) /\ IsTree(u) /\ p \in Paths /\ p \in DOMAIN t
      /\ u[p].id = id
  BY DEF Proper, Leaves
<1>2. LeafOf(t, id) = p
  BY <1>1, Leaf
<1>3. LeafOf(u, id) = p
  BY <1>1, Leaf
<1>4. \A s \in Paths : IsPrefix(s, p) /\ s # p => u[s] = t[s]
  BY <1>1, AboveIsSplit
<1> HIDE DEF t, u, id
<1>5. Rect(u, p, l.width, l.height) = Rect(t, p, l.width, l.height)
  BY <1>1, <1>4, RectAgrees
<1> QED
  BY <1>2, <1>3, <1>5 DEF Given, t, u, id

\* Only the rectangle of the pane that is split is shared out anew.
LEMMA SplitLeavesOthers ==
  ASSUME Sound, NEW id \in PaneIds, NEW new \in PaneIds, NEW dir \in Directions, NEW ratio \in Ratios,
         Split(id, dir, ratio, new)
  PROVE  Same(layout, layout', Ids(Tree) \ {id})
<1> PICK l : l = layout
  OBVIOUS
<1> PICK m : m = layout'
  OBVIOUS
<1> DEFINE t == l.root
           u == m.root
           p == LeafOf(t, id)
<1>1. ProperLayout(l) /\ Proper(t) /\ IsTree(t) /\ id \in Ids(t) /\ new \notin Ids(t) /\ Ids(Tree) = Ids(t)
  BY DEF Sound, ProperLayout, Proper, Tree, Split
<1>2. m = SplitPane(l, id, dir, ratio, new)
  BY DEF Split
<1>3. m = LayoutTree(ReplaceLeafWithSplit(t, id, dir, ratio, new), l.active, l.zoomed, l.width, l.height)
  <2>1. m = [l EXCEPT !.root = ReplaceLeafWithSplit(t, id, dir, ratio, new)]
    BY <1>2 DEF SplitPane
  <2> QED
    BY ONLY <1>1, <2>1, Rebuilt
<1>4. u = ReplaceLeafWithSplit(t, id, dir, ratio, new) /\ m.width = l.width /\ m.height = l.height
  BY <1>3 DEF LayoutTree
<1>5. ratio \in 0..Unit
  BY PaneTreeAssumption
<1>6. Proper(u)
  BY <1>1, <1>4, <1>5, SplitTree
<1>7. p \in Leaves(t) /\ p \in DOMAIN t /\ p \in Paths /\ t[p].id = id /\ Branching(t)
  BY <1>1, Leaf, Branches DEF Proper, Leaves
<1>8. \A q \in DOMAIN t \ {p} : u[q] = t[q] /\ q \in DOMAIN u
  <2> DEFINE a == Append(p, 1)
             b == Append(p, 2)
  <2>1. a \notin DOMAIN t /\ b \notin DOMAIN t
    BY <1>7 DEF Branching, Turns, Splits
  <2>2. u = [q \in DOMAIN t \cup {a, b} |->
               CASE q = p -> SplitNode(dir, ratio)
                 [] q = a -> t[p]
                 [] q = b -> PaneNode(new)
                 [] OTHER -> t[q]]
    BY <1>4 DEF ReplaceLeafWithSplit
  <2> HIDE DEF a, b, p, u
  <2> QED
    BY <2>1, <2>2
<1> HIDE DEF p
<1>9. ASSUME NEW other \in Ids(t) \ {id}
      PROVE  Given(m, other) = Given(l, other)
  <2>1. PICK q \in Leaves(t) : t[q].id = other
    BY DEF Ids
  <2>2. q # p /\ q \in DOMAIN t
    BY <1>7, <2>1 DEF Leaves
  <2>3. q \in Leaves(u) /\ u[q] = t[q]
    BY <1>8, <2>1, <2>2 DEF Leaves
  <2>4. \A s \in Splits(t) : u[s] = t[s]
    BY <1>7, <1>8 DEF Splits
  <2>5. Given(m, t[q].id) = Given(l, t[q].id)
    BY <1>1, <1>4, <1>6, <2>3, <2>4, GivenTheSame
  <2> QED
    BY <2>1, <2>5
<1> QED
  BY <1>1, <1>9 DEF Same

\* Only the rectangle of the split above the closed pane is shared out anew.
LEMMA CloseLeavesOthers ==
  ASSUME Sound, NEW id \in PaneIds, Close(id)
  PROVE  Same(layout, layout', Ids(Tree) \ Below(layout, Front(LeafOf(Tree, id))))
<1> PICK l : l = layout
  OBVIOUS
<1> PICK m : m = layout'
  OBVIOUS
<1> DEFINE t == l.root
           u == m.root
           leaf == LeafOf(t, id)
           parent == Front(leaf)
           kept == {p \in DOMAIN t : ~IsPrefix(parent, p)}
<1>1. /\ ProperLayout(l) /\ Proper(t) /\ IsTree(t) /\ DOMAIN t \subseteq Paths /\ CanClose(l, id)
      /\ Tree = t /\ id \in Ids(t) /\ leaf # <<>> /\ m = ClosePane(l, id)
  BY DEF Sound, ProperLayout, Proper, Tree, Close, CanClose
<1>2. u = CloseLeaf(t, id)
  <2> DEFINE v == CloseLeaf(t, id)
  <2>1. "root" \in DOMAIN l
    BY <1>1 DEF ProperLayout, LayoutTree
  <2>2. ClosePane(l, id).root = v
    BY <2>1 DEF ClosePane
  <2> QED
    BY <1>1, <2>2
<1>3. m.width = l.width /\ m.height = l.height
  BY <1>1, SizeIsKept
<1>4. Proper(u)
  BY <1>1, <1>2, CloseTree
<1>5. leaf \in DOMAIN t /\ leaf \in Paths /\ parent \in Paths
  BY <1>1, Leaf, Unstep DEF Leaves
<1>6. \A p \in kept : p \in DOMAIN u /\ u[p] = t[p]
  BY <1>2 DEF CloseLeaf
<1> HIDE DEF leaf, u
<1>7. ASSUME NEW other \in Ids(t), ~IsPrefix(parent, LeafOf(t, other))
      PROVE  Given(m, other) = Given(l, other)
  <2>1. PICK q \in Leaves(t) : t[q].id = other /\ q = LeafOf(t, other) /\ q \in Paths
    BY <1>1, Leaf DEF Leaves
  <2>2. q \in Leaves(u) /\ u[q] = t[q]
    BY <1>6, <1>7, <2>1 DEF Leaves
  <2>3. ASSUME NEW s \in Splits(t), IsPrefix(s, q)
        PROVE  u[s] = t[s]
    <3>1. s \in DOMAIN t /\ s \in Paths
      BY <1>1 DEF Splits
    <3>2. ~IsPrefix(parent, s)
      BY <1>5, <1>7, <2>1, <2>3, <3>1, AboveAbove
    <3> QED
      BY <1>6, <3>1, <3>2
  <2>4. Given(m, t[q].id) = Given(l, t[q].id)
    BY <1>1, <1>3, <1>4, <2>2, <2>3, GivenTheSame DEF u
  <2> QED
    BY <2>1, <2>4
<1> QED
  BY <1>1, <1>7 DEF Same, Below, leaf

\* Splitting and closing move no pane but those of the rectangle concerned.
THEOREM OthersAlwaysStayPut == Spec => OthersStayPut
<1> DEFINE SplitStays == \A id \in PaneIds, new \in PaneIds, dir \in Directions, ratio \in Ratios :
                           Split(id, dir, ratio, new) => Same(layout, layout', Ids(Tree) \ {id})
           CloseStays == \A id \in PaneIds :
                           Close(id) => Same(layout, layout', Ids(Tree) \ Below(layout, Front(LeafOf(Tree, id))))
<1>1. Sound => SplitStays /\ CloseStays
  BY SplitLeavesOthers, CloseLeavesOthers
<1>2. Sound => [SplitStays /\ CloseStays]_vars
  BY <1>1
<1> QED
  BY <1>2, InitSound, StepKeepsSound, PTL DEF Spec, OthersStayPut

-----------------------------------------------------------------------------
(* Panes in a tree that fits.                                                *)

Within(a, b) ==
  /\ a.x >= b.x /\ a.x + a.width <= b.x + b.width
  /\ a.y >= b.y /\ a.y + a.height <= b.y + b.height

\* Where there is room for two minimums, the shares of the children add up.
LEMMA SharesAddUp ==
  ASSUME NEW u \in Nat, NEW ratio \in 0..Unit, NEW m \in Nat, u >= 2 * m
  PROVE  /\ FirstSize(u, ratio, m) \in 0..u
         /\ SecondSize(u, ratio, m) = u - FirstSize(u, ratio, m)
<1> DEFINE share == Share(u, ratio)
           first == FirstSize(u, ratio, m)
<1>1. share \in Nat
  <2> DEFINE n == u * ratio
  <2>1. n \in Nat
    BY LayoutAssumption
  <2> HIDE DEF n
  <2>2. n \div Unit \in Nat
    BY <2>1, LayoutAssumption
  <2> QED
    BY <2>2 DEF Share, n
<1> HIDE DEF share
<1>2. first \in 0..u /\ first <= u - m
  BY <1>1 DEF FirstSize, Smaller, Larger, Monus, share
<1> HIDE DEF first
<1>3. SecondSize(u, ratio, m) = u - first
  BY <1>2 DEF SecondSize, Larger, Monus, first
<1> QED
  BY <1>2, <1>3 DEF first

\* A split with room divides its rectangle: both children are in it, with a border's cell
\* between them.
LEMMA ChildrenTile ==
  ASSUME NEW split \in SplitNodes, NEW r \in Rects,
         Usable(Extent(r, split.direction)) >= 2 * Minimum(split.direction)
  PROVE  /\ \A e \in Turns : Within(ChildRect(split, r, e), r)
         /\ LET a == ChildRect(split, r, 1)
                b == ChildRect(split, r, 2)
            IN  IF split.direction = "vertical" THEN a.x + a.width < b.x ELSE a.y + a.height < b.y
<1> DEFINE dir == split.direction
           x == Extent(r, dir)
           u == Usable(x)
           m == Minimum(dir)
           first == FirstSize(u, split.ratio, m)
           second == SecondSize(u, split.ratio, m)
           a == ChildRect(split, r, 1)
           b == ChildRect(split, r, 2)
<1>1. m \in Nat /\ m > 0 /\ x \in Nat /\ split.ratio \in 0..Unit
  BY LayoutAssumption DEF Minimum, Extent, Rects, SplitNodes
<1>2. u >= 2 * m
  OBVIOUS
<1> HIDE DEF m, x
<1>3. u \in Nat
  BY <1>1 DEF Usable, Monus
<1>4. x = u + 1
  BY <1>1, <1>2, <1>3 DEF Usable, Monus
<1> HIDE DEF u
<1>5. first \in 0..u /\ second = u - first
  BY <1>1, <1>2, <1>3, SharesAddUp
<1> HIDE DEF first, second
<1>6. CASE dir = "vertical"
  <2>1. a = [r EXCEPT !.x = r.x + 0, !.width = first]
    BY <1>6 DEF ChildRect, first, u, m, x
  <2>2. b = [r EXCEPT !.x = r.x + (first + 1), !.width = second]
    BY <1>6 DEF ChildRect, first, second, u, m, x
  <2>3. r.x \in Nat /\ r.width = u + 1 /\ r.y \in Nat /\ r.height \in Nat
    BY <1>4, <1>6 DEF x, Extent, Rects
  <2> HIDE DEF a, b
  <2>4. /\ a.x = r.x /\ a.width = first /\ a.y = r.y /\ a.height = r.height
        /\ b.x = r.x + first + 1 /\ b.width = second /\ b.y = r.y /\ b.height = r.height
    <3>1. a.x = r.x + 0 /\ a.width = first /\ a.y = r.y /\ a.height = r.height
      BY <2>1 DEF Rects
    <3>2. b.x = r.x + (first + 1) /\ b.width = second /\ b.y = r.y /\ b.height = r.height
      BY <2>2 DEF Rects
    <3> QED
      BY <1>3, <1>5, <2>3, <3>1, <3>2
  <2>5. Within(a, r) /\ Within(b, r) /\ a.x + a.width < b.x
    BY <1>3, <1>5, <2>3, <2>4 DEF Within
  <2> QED
    BY <1>6, <2>5 DEF a, b, Turns
<1>7. CASE dir # "vertical"
  <2>1. a = [r EXCEPT !.y = r.y + 0, !.height = first]
    BY <1>7 DEF ChildRect, first, u, m, x
  <2>2. b = [r EXCEPT !.y = r.y + (first + 1), !.height = second]
    BY <1>7 DEF ChildRect, first, second, u, m, x
  <2>3. r.y \in Nat /\ r.height = u + 1 /\ r.x \in Nat /\ r.width \in Nat
    BY <1>4, <1>7 DEF x, Extent, Rects
  <2> HIDE DEF a, b
  <2>4. /\ a.y = r.y /\ a.height = first /\ a.x = r.x /\ a.width = r.width
        /\ b.y = r.y + first + 1 /\ b.height = second /\ b.x = r.x /\ b.width = r.width
    <3>1. a.y = r.y + 0 /\ a.height = first /\ a.x = r.x /\ a.width = r.width
      BY <2>1 DEF Rects
    <3>2. b.y = r.y + (first + 1) /\ b.height = second /\ b.x = r.x /\ b.width = r.width
      BY <2>2 DEF Rects
    <3> QED
      BY <1>3, <1>5, <2>3, <3>1, <3>2
  <2>5. Within(a, r) /\ Within(b, r) /\ a.y + a.height < b.y
    BY <1>3, <1>5, <2>3, <2>4 DEF Within
  <2> QED
    BY <1>7, <2>5 DEF a, b, Turns
<1> QED
  BY <1>6, <1>7

\* No pane is above another.
LEMMA NeitherAbove ==
  ASSUME NEW t, Proper(t), NEW p \in Leaves(t), NEW q \in DOMAIN t, p # q
  PROVE  p \in DOMAIN t /\ ~IsPrefix(p, q)
<1>1. p \in DOMAIN t /\ p \in Paths /\ p \notin Splits(t) /\ DOMAIN t \subseteq Paths /\ IsTree(t)
  BY DEF Proper, Leaves, Splits
<1> QED
  BY <1>1, AboveIsSplit

\* Two nodes of which neither is above the other part at a split, one below each child.
LEMMA NodesPart ==
  ASSUME NEW t, Proper(t), NEW p \in DOMAIN t, NEW q \in DOMAIN t, ~IsPrefix(p, q), ~IsPrefix(q, p)
  PROVE  \E s \in Splits(t) : \E e, f \in Turns :
           e # f /\ IsPrefix(Append(s, e), p) /\ IsPrefix(Append(s, f), q)
<1> SUFFICES ASSUME \A s \in Splits(t) : \A e, f \in Turns :
                      ~(e # f /\ IsPrefix(Append(s, e), p) /\ IsPrefix(Append(s, f), q))
             PROVE  FALSE
  OBVIOUS
<1>1. p \in Paths /\ q \in Paths /\ DOMAIN t \subseteq Paths /\ IsTree(t) /\ IsPrefix(p, p)
  BY DEF Proper, IsPrefix
<1> DEFINE S == {a \in Paths : IsPrefix(a, p) => IsPrefix(a, q)}
<1>2. <<>> \in S
  <2>1. <<>> \in Paths /\ <<>> \o q = q
    BY <1>1, EmptySeq, ConcatEmptySeq DEF Paths
  <2>2. IsPrefix(<<>>, <<>> \o q)
    BY <1>1, <2>1, Way
  <2> QED
    BY <2>1, <2>2
<1>3. ASSUME NEW s \in Paths, NEW e \in Turns, s \in S
      PROVE  Append(s, e) \in S
  <2>1. ASSUME IsPrefix(Append(s, e), p)
        PROVE  IsPrefix(Append(s, e), q)
    <3>1. IsPrefix(s, p) /\ s # p
      BY <1>1, <2>1, AboveStep
    <3>2. s \in Splits(t)
      BY <1>1, <3>1, AboveIsSplit
    <3>3. IsPrefix(s, q) /\ s # q
      BY <1>3, <3>1
    <3>4. PICK f \in Turns : IsPrefix(Append(s, f), q)
      BY <1>1, <3>3, NextTurn
    <3>5. e = f
      BY <2>1, <3>2, <3>4
    <3> QED
      BY <3>4, <3>5
  <2>2. Append(s, e) \in Paths
    BY Step
  <2> QED
    BY <2>1, <2>2
<1> HIDE DEF S
<1>4. p \in S
  BY <1>1, <1>2, <1>3, PathInduction
<1> QED
  BY <1>1, <1>4 DEF S

\* What lies within a part lies within the whole.
LEMMA WithinIsTransitive ==
  ASSUME NEW a \in Rects, NEW b \in Rects, NEW c \in Rects, Within(a, b), Within(b, c)
  PROVE  Within(a, c)
BY DEF Within, Rects

\* In a tree that fits, what is below a node lies in the node's rectangle.
LEMMA BelowIsWithin ==
  ASSUME NEW l, ProperLayout(l), Fits(l), NEW a \in DOMAIN l.root, NEW p \in DOMAIN l.root, IsPrefix(a, p)
  PROVE  Within(Rect(l.root, p, l.width, l.height), Rect(l.root, a, l.width, l.height))
<1> DEFINE t == l.root
           w == l.width
           h == l.height
           S == {q \in Paths : q \in DOMAIN t /\ IsPrefix(a, q) => Within(Rect(t, q, w, h), Rect(t, a, w, h))}
<1>1. Proper(t) /\ IsTree(t) /\ DOMAIN t \subseteq Paths /\ Branching(t) /\ w \in Nat /\ h \in Nat
  BY Branches DEF ProperLayout, Proper
<1>2. a \in Paths /\ p \in Paths /\ Rect(t, a, w, h) \in Rects
  BY <1>1, RectType
<1>3. Within(Rect(t, a, w, h), Rect(t, a, w, h))
  BY <1>2 DEF Within, Rects
<1>4. <<>> \in S
  <2>1. <<>> \in Paths /\ Len(<<>>) = 0
    BY EmptySeq DEF Paths
  <2>2. IsPrefix(a, <<>>) => a = <<>>
    <3>1. Len(a) \in Nat
      BY <1>2, LenProperties DEF Paths
    <3>2. IsPrefix(a, <<>>) => Len(a) = 0
      BY <2>1, <3>1 DEF IsPrefix
    <3> QED
      BY <1>2, <3>2, EmptySeq DEF Paths
  <2> QED
    BY <1>3, <2>1, <2>2
<1> HIDE DEF t, w, h
<1>5. ASSUME NEW s \in Paths, NEW e \in Turns, s \in S
      PROVE  Append(s, e) \in S
  <2>1. Append(s, e) \in Paths
    BY Step
  <2>2. ASSUME Append(s, e) \in DOMAIN t, IsPrefix(a, Append(s, e))
        PROVE  Within(Rect(t, Append(s, e), w, h), Rect(t, a, w, h))
    <3>1. CASE a = Append(s, e)
      BY <1>3, <3>1
    <3>2. CASE a # Append(s, e)
      <4> DEFINE r == Rect(t, s, w, h)
                 c == ChildRect(t[s], r, e)
      <4>1. IsPrefix(a, s)
        BY <1>2, <2>2, <3>2, PrefixStep
      <4>2. s \in Splits(t) /\ s \in DOMAIN t
        BY <1>1, <2>2 DEF Branching, Splits
      <4>3. t[s] \in SplitNodes /\ r \in Rects
        BY <1>1, <4>2, RectType DEF Proper
      <4>4. Within(r, Rect(t, a, w, h))
        BY <1>5, <4>1, <4>2
      <4>5. Usable(Extent(r, t[s].direction)) >= 2 * Minimum(t[s].direction)
        BY <4>2, RoomAtSplits DEF t, w, h
      <4>6. Rect(t, Append(s, e), w, h) = c
        BY RectStep
      <4> HIDE DEF r
      <4>7. Within(c, r)
        BY <4>3, <4>5, ChildrenTile
      <4>8. c \in Rects
        BY <4>3, ChildRectType
      <4> HIDE DEF c
      <4> QED
        BY <1>2, <4>3, <4>4, <4>6, <4>7, <4>8, WithinIsTransitive
    <3> QED
      BY <3>1, <3>2
  <2> QED
    BY <2>1, <2>2
<1> HIDE DEF S
<1>6. p \in S
  BY <1>2, <1>4, <1>5, PathInduction
<1> QED
  BY <1>6 DEF S, t, w, h

\* Two nodes of a tree that fits are apart, unless one is above the other.
LEMMA NodesDisjoint ==
  ASSUME NEW l, ProperLayout(l), Fits(l), NEW p \in DOMAIN l.root, NEW q \in DOMAIN l.root,
         ~IsPrefix(p, q), ~IsPrefix(q, p)
  PROVE  Disjoint(Rect(l.root, p, l.width, l.height), Rect(l.root, q, l.width, l.height))
<1> DEFINE t == l.root
           w == l.width
           h == l.height
           P == Rect(t, p, w, h)
           Q == Rect(t, q, w, h)
<1>1. Proper(t) /\ Branching(t) /\ DOMAIN t \subseteq Paths /\ w \in Nat /\ h \in Nat
  BY Branches DEF ProperLayout, Proper
<1>2. PICK s \in Splits(t) : \E e, f \in Turns :
        e # f /\ IsPrefix(Append(s, e), p) /\ IsPrefix(Append(s, f), q)
  BY <1>1, NodesPart
<1>3. PICK e \in Turns, f \in Turns : e # f /\ IsPrefix(Append(s, e), p) /\ IsPrefix(Append(s, f), q)
  BY <1>2
<1> DEFINE r == Rect(t, s, w, h)
           A == ChildRect(t[s], r, 1)
           B == ChildRect(t[s], r, 2)
<1>4. s \in DOMAIN t /\ s \in Paths /\ t[s] \in SplitNodes /\ r \in Rects
  BY <1>1, RectType DEF Splits, Proper
<1>5. P \in Rects /\ Q \in Rects
  BY <1>1, RectType
<1>6. 1 \in Turns /\ 2 \in Turns /\ ((e = 1 /\ f = 2) \/ (e = 2 /\ f = 1))
  BY <1>3 DEF Turns
<1>7. /\ Append(s, 1) \in DOMAIN t /\ Rect(t, Append(s, 1), w, h) = A
      /\ Append(s, 2) \in DOMAIN t /\ Rect(t, Append(s, 2), w, h) = B
  <2>1. Append(s, 1) \in DOMAIN t /\ Append(s, 2) \in DOMAIN t
    BY <1>1, <1>4, <1>6 DEF Branching
  <2>2. Rect(t, Append(s, 1), w, h) = A
    BY <1>4, <1>6, RectStep
  <2>3. Rect(t, Append(s, 2), w, h) = B
    BY <1>4, <1>6, RectStep
  <2> QED
    BY <2>1, <2>2, <2>3
<1>8. A \in Rects /\ B \in Rects
  BY <1>4, ChildRectType
<1>9. A.x + A.width < B.x \/ A.y + A.height < B.y
  <2>1. Usable(Extent(r, t[s].direction)) >= 2 * Minimum(t[s].direction)
    BY RoomAtSplits
  <2>2. IF t[s].direction = "vertical" THEN A.x + A.width < B.x ELSE A.y + A.height < B.y
    <3> HIDE DEF r
    <3> QED
      BY <1>4, <2>1, ChildrenTile
  <2> QED
    BY <2>2
<1>10. (Within(P, A) /\ Within(Q, B)) \/ (Within(P, B) /\ Within(Q, A))
  <2>1. CASE e = 1 /\ f = 2
    BY <1>3, <1>5, <1>7, <2>1, BelowIsWithin
  <2>2. CASE e = 2 /\ f = 1
    BY <1>3, <1>5, <1>7, <2>2, BelowIsWithin
  <2> QED
    BY <1>6, <2>1, <2>2
<1> HIDE DEF A, B, P, Q
<1>11. Disjoint(P, Q)
  BY <1>5, <1>8, <1>9, <1>10 DEF Disjoint, Within, Rects
<1> QED
  BY <1>11 DEF P, Q

\* Two panes of a tree that fits are apart.
LEMMA PanesDisjoint ==
  ASSUME NEW l, ProperLayout(l), Fits(l), NEW p \in Leaves(l.root), NEW q \in Leaves(l.root), p # q
  PROVE  Disjoint(Rect(l.root, p, l.width, l.height), Rect(l.root, q, l.width, l.height))
<1>1. Proper(l.root) /\ p \in DOMAIN l.root /\ q \in DOMAIN l.root
  BY DEF ProperLayout, Leaves
<1>2. ~IsPrefix(p, q) /\ ~IsPrefix(q, p)
  BY <1>1, NeitherAbove
<1> QED
  BY <1>1, <1>2, NodesDisjoint

\* In a tree that fits, two leaves part at a split whose children are a border apart.
LEMMA SoundIsApart == Sound => PanesAreApart
<1> SUFFICES ASSUME Sound, Fits(layout)
             PROVE  /\ \A id \in Ids(Tree) :
                         /\ Shown(layout)[id].x + Shown(layout)[id].width <= layout.width
                         /\ Shown(layout)[id].y + Shown(layout)[id].height <= layout.height
                    /\ \A a, b \in Ids(Tree) : a # b => Disjoint(Shown(layout)[a], Shown(layout)[b])
  BY DEF PanesAreApart
<1> PICK l : l = layout
  OBVIOUS
<1> DEFINE t == l.root
           w == l.width
           h == l.height
           R(p) == Rect(t, p, w, h)
<1>1. ProperLayout(l) /\ Fits(l) /\ Proper(t) /\ IsTree(t) /\ w \in Nat /\ h \in Nat /\ Tree = t
  BY DEF Sound, ProperLayout, Proper, Tree
<1>2. ASSUME NEW id \in Ids(t)
      PROVE  \E p \in Leaves(t) :
               /\ t[p].id = id /\ p \in DOMAIN t /\ R(p) \in Rects
               /\ Shown(l)[id].x = R(p).x /\ Shown(l)[id].width = R(p).width
               /\ Shown(l)[id].y = R(p).y /\ Shown(l)[id].height = R(p).height
  <2> DEFINE p == LeafOf(t, id)
             r == Rect(t, p, w, h)
             m == [l EXCEPT !.zoomed = NoPane]
  <2>1. p \in Leaves(t) /\ t[p].id = id /\ p \in DOMAIN t
    BY <1>1, Leaf DEF Leaves
  <2>2. r \in Rects
    BY <1>1, <2>1, RectType
  <2>3. r.width >= MinCols /\ r.height >= MinRows
    BY <1>1 DEF Fits, HasRoom, Given
  <2>4. m = LayoutTree(t, l.active, NoPane, w, h)
    BY <1>1, Rebuilt
  <2> HIDE DEF m
  <2>5. m.root = t /\ m.zoomed = NoPane /\ m.width = w /\ m.height = h
    BY <2>4 DEF LayoutTree
  <2>6. Resolve(m)[id] = AtLeastMinimum(r)
    BY <2>5 DEF Resolve
  <2>7. Shown(l)[id] = AtLeastMinimum(r)
    BY <2>6 DEF Shown, m
  <2> HIDE DEF r
  <2>8. Larger(r.width, MinCols) = r.width /\ Larger(r.height, MinRows) = r.height
    BY <2>2, <2>3, LayoutAssumption DEF Larger, Rects
  <2>9. AtLeastMinimum(r) = [r EXCEPT !.width = r.width, !.height = r.height]
    BY <2>8 DEF AtLeastMinimum
  <2>10. /\ AtLeastMinimum(r).x = r.x /\ AtLeastMinimum(r).width = r.width
         /\ AtLeastMinimum(r).y = r.y /\ AtLeastMinimum(r).height = r.height
    BY <2>2, <2>9 DEF Rects
  <2> QED
    BY <2>1, <2>2, <2>7, <2>10 DEF r
<1>3. ASSUME NEW id \in Ids(t)
      PROVE  Shown(l)[id].x + Shown(l)[id].width <= w /\ Shown(l)[id].y + Shown(l)[id].height <= h
  <2>1. PICK p \in Leaves(t) :
               /\ t[p].id = id /\ p \in DOMAIN t /\ R(p) \in Rects
               /\ Shown(l)[id].x = R(p).x /\ Shown(l)[id].width = R(p).width
               /\ Shown(l)[id].y = R(p).y /\ Shown(l)[id].height = R(p).height
    BY <1>2
  <2>2. p \in Paths /\ <<>> \in Paths /\ <<>> \o p = p /\ <<>> \in DOMAIN t
    BY <1>1, <2>1, EmptySeq, ConcatEmptySeq DEF Paths, Proper, IsTree
  <2>3. IsPrefix(<<>>, <<>> \o p)
    BY <2>2, Way
  <2>4. Within(R(p), R(<<>>))
    BY <1>1, <2>1, <2>2, <2>3, BelowIsWithin
  <2>5. R(<<>>) = [x |-> 0, y |-> 0, width |-> w, height |-> h]
    BY RectRoot
  <2> HIDE DEF R, w, h
  <2>6. R(<<>>).x = 0 /\ R(<<>>).y = 0 /\ R(<<>>).width = w /\ R(<<>>).height = h
    BY <2>5
  <2> QED
    BY <1>1, <2>1, <2>4, <2>6 DEF Within, Rects
<1>4. ASSUME NEW a \in Ids(t), NEW b \in Ids(t), a # b
      PROVE  Disjoint(Shown(l)[a], Shown(l)[b])
  <2>1. PICK p \in Leaves(t) :
               /\ t[p].id = a /\ p \in DOMAIN t /\ R(p) \in Rects
               /\ Shown(l)[a].x = R(p).x /\ Shown(l)[a].width = R(p).width
               /\ Shown(l)[a].y = R(p).y /\ Shown(l)[a].height = R(p).height
    BY <1>2
  <2>2. PICK q \in Leaves(t) :
               /\ t[q].id = b /\ q \in DOMAIN t /\ R(q) \in Rects
               /\ Shown(l)[b].x = R(q).x /\ Shown(l)[b].width = R(q).width
               /\ Shown(l)[b].y = R(q).y /\ Shown(l)[b].height = R(q).height
    BY <1>2
  <2>3. p # q
    BY <1>4, <2>1, <2>2
  <2>4. Disjoint(R(p), R(q))
    BY <1>1, <2>3, PanesDisjoint
  <2> HIDE DEF R
  <2> QED
    BY <2>1, <2>2, <2>4 DEF Disjoint
<1> QED
  BY <1>1, <1>3, <1>4

\* In a window in which every pane has its minimum, no pane reaches over the edge of the
\* window, and a border's cell lies between any two panes.
THEOREM PanesAreAlwaysApart == Spec => []PanesAreApart
BY InitSound, StepKeepsSound, SoundIsApart, PTL DEF Spec

-----------------------------------------------------------------------------
(* More room is never less room for the parts. *)

\* Divisions of two products by the same number.
LEMMA Quotient ==
  ASSUME NEW n \in Nat
  PROVE  /\ n \div Unit \in Nat /\ (n \div Unit) * Unit <= n /\ n < (n \div Unit) * Unit + Unit
BY LayoutAssumption

\* A wider rectangle gives a child no less, and the other child no less either.
LEMMA ShareGrows ==
  ASSUME NEW u \in Nat, NEW v \in Nat, u <= v, NEW ratio \in 0..Unit
  PROVE  /\ Share(u, ratio) \in Nat /\ Share(v, ratio) \in Nat
         /\ Share(u, ratio) <= Share(v, ratio)
         /\ Share(v, ratio) - Share(u, ratio) <= v - u
<1> DEFINE d == v - u
           A == u * ratio
           B == v * ratio
           D == d * ratio
           E == d * Unit
           a == A \div Unit
           b == B \div Unit
<1>1. Unit \in Nat /\ Unit > 0 /\ d \in Nat /\ ratio \in Nat /\ ratio <= Unit
  BY LayoutAssumption
<1>2. A \in Nat /\ B \in Nat /\ D \in Nat /\ E \in Nat
  BY <1>1
<1>3. B = A + D
  BY <1>1
<1>4. D <= E
  BY <1>1
<1> HIDE DEF A, B, D
<1>5. /\ a \in Nat /\ a * Unit <= A /\ A < a * Unit + Unit
      /\ b \in Nat /\ b * Unit <= B /\ B < b * Unit + Unit
  BY <1>2, Quotient
<1> HIDE DEF a, b, d
<1>6. a <= b
  <2> SUFFICES ASSUME b + 1 <= a
               PROVE  FALSE
    BY <1>5
  <2>1. (b + 1) * Unit <= a * Unit
    BY <1>1, <1>5
  <2>2. (b + 1) * Unit = b * Unit + Unit
    BY <1>1, <1>5
  <2> DEFINE m == a * Unit
             n == b * Unit
  <2>3. m \in Nat /\ n \in Nat
    BY <1>1, <1>5
  <2>4. n + Unit <= m /\ m <= A /\ A < m + Unit /\ n <= B /\ B < n + Unit
    BY <1>5, <2>1, <2>2
  <2> HIDE DEF m, n
  <2> QED
    BY <1>1, <1>2, <1>3, <2>3, <2>4
<1>7. b - a <= d
  <2> SUFFICES ASSUME a + d + 1 <= b
               PROVE  FALSE
    BY <1>1, <1>5
  <2>1. (a + d + 1) * Unit <= b * Unit
    BY <1>1, <1>5
  <2>2. (a + d + 1) * Unit = a * Unit + E + Unit
    BY <1>1, <1>5
  <2> DEFINE m == a * Unit
             n == b * Unit
  <2>3. m \in Nat /\ n \in Nat
    BY <1>1, <1>5
  <2>4. m + E + Unit <= n /\ m <= A /\ A < m + Unit /\ n <= B /\ B < n + Unit
    BY <1>5, <2>1, <2>2
  <2> HIDE DEF m, n, E
  <2> QED
    BY <1>1, <1>2, <1>3, <1>4, <2>3, <2>4
<1>8. Share(u, ratio) = a /\ Share(v, ratio) = b
  BY DEF Share, a, b, A, B
<1> QED
  BY <1>5, <1>6, <1>7, <1>8 DEF d

\* Where there is room for two minimums, a child has the minimum, and more where there
\* is more to share.
LEMMA SizesGrow ==
  ASSUME NEW u \in Nat, NEW v \in Nat, u <= v, NEW ratio \in 0..Unit, NEW m \in Nat, u >= 2 * m
  PROVE  /\ FirstSize(u, ratio, m) >= m /\ SecondSize(u, ratio, m) >= m
         /\ FirstSize(u, ratio, m) <= FirstSize(v, ratio, m)
         /\ SecondSize(u, ratio, m) <= SecondSize(v, ratio, m)
<1> DEFINE a == Share(u, ratio)
           b == Share(v, ratio)
<1>1. a \in Nat /\ b \in Nat /\ a <= b /\ b - a <= v - u
  BY ShareGrows
<1> HIDE DEF a, b
<1>2. FirstSize(u, ratio, m) = Smaller(Larger(a, m), u - m)
  BY DEF FirstSize, a, Monus
<1>3. FirstSize(v, ratio, m) = Smaller(Larger(b, m), v - m)
  BY DEF FirstSize, b, Monus
<1>4. SecondSize(u, ratio, m) = u - FirstSize(u, ratio, m)
  BY SharesAddUp
<1>5. SecondSize(v, ratio, m) = v - FirstSize(v, ratio, m)
  BY SharesAddUp
<1> QED
  BY <1>1, <1>2, <1>3, <1>4, <1>5 DEF Smaller, Larger

\* The side of a rectangle on which dir begins, and the one on which it ends.
Low(r, dir) == IF dir = "vertical" THEN r.x ELSE r.y
High(r, dir) == Low(r, dir) + Extent(r, dir)

\* A child has its part of the split's direction and all of the other one.
LEMMA ChildSizes ==
  ASSUME NEW split \in SplitNodes, NEW r \in Rects, NEW e \in Turns
  PROVE  LET dir == split.direction
             u == Usable(Extent(r, dir))
             m == Minimum(dir)
             first == FirstSize(u, split.ratio, m)
             c == ChildRect(split, r, e)
         IN  /\ Low(c, dir) = Low(r, dir) + (IF e = 1 THEN 0 ELSE first + 1)
             /\ Extent(c, dir) = IF e = 1 THEN first ELSE SecondSize(u, split.ratio, m)
             /\ \A d \in Directions \ {dir} : Low(c, d) = Low(r, d) /\ Extent(c, d) = Extent(r, d)
<1> DEFINE dir == split.direction
           u == Usable(Extent(r, dir))
           m == Minimum(dir)
           first == FirstSize(u, split.ratio, m)
           second == SecondSize(u, split.ratio, m)
           size == IF e = 1 THEN first ELSE second
           offset == IF e = 1 THEN 0 ELSE first + 1
           c == ChildRect(split, r, e)
<1>1. dir \in {"horizontal", "vertical"}
  BY DEF SplitNodes, Directions
<1>2. CASE dir = "vertical"
  <2>1. c = [r EXCEPT !.x = r.x + offset, !.width = size]
    BY <1>2 DEF ChildRect
  <2> HIDE DEF c, size, offset
  <2>2. c.x = r.x + offset /\ c.width = size /\ c.y = r.y /\ c.height = r.height
    BY <2>1 DEF Rects
  <2>3. Low(c, dir) = Low(r, dir) + offset /\ Extent(c, dir) = size
    BY <1>2, <2>2 DEF Low, Extent
  <2>4. \A d \in Directions \ {dir} : Low(c, d) = Low(r, d) /\ Extent(c, d) = Extent(r, d)
    BY <1>2, <2>2 DEF Low, Extent, Directions
  <2> QED
    BY <2>3, <2>4 DEF c, size, offset
<1>3. CASE dir = "horizontal"
  <2>1. c = [r EXCEPT !.y = r.y + offset, !.height = size]
    BY <1>3 DEF ChildRect
  <2> HIDE DEF c, size, offset
  <2>2. c.y = r.y + offset /\ c.height = size /\ c.x = r.x /\ c.width = r.width
    BY <2>1 DEF Rects
  <2>3. Low(c, dir) = Low(r, dir) + offset /\ Extent(c, dir) = size
    BY <1>3, <2>2 DEF Low, Extent
  <2>4. \A d \in Directions \ {dir} : Low(c, d) = Low(r, d) /\ Extent(c, d) = Extent(r, d)
    BY <1>3, <2>2 DEF Low, Extent, Directions
  <2> QED
    BY <2>3, <2>4 DEF c, size, offset
<1> QED
  BY <1>1, <1>2, <1>3

\* Two children of a split with room for them have a border's cell between them and
\* together the length of the split; each has the minimum.
LEMMA ChildrenAdjoin ==
  ASSUME NEW split \in SplitNodes, NEW r \in Rects,
         Usable(Extent(r, split.direction)) >= 2 * Minimum(split.direction)
  PROVE  LET dir == split.direction
             a == ChildRect(split, r, 1)
             b == ChildRect(split, r, 2)
         IN  /\ Low(a, dir) = Low(r, dir) /\ High(b, dir) = High(r, dir)
             /\ Low(b, dir) = High(a, dir) + 1
             /\ Extent(a, dir) >= Minimum(dir) /\ Extent(b, dir) >= Minimum(dir)
             /\ \A d \in Directions \ {dir} : /\ Low(a, d) = Low(r, d) /\ Extent(a, d) = Extent(r, d)
                                              /\ Low(b, d) = Low(r, d) /\ Extent(b, d) = Extent(r, d)
<1> DEFINE dir == split.direction
           x == Extent(r, dir)
           u == Usable(x)
           m == Minimum(dir)
           first == FirstSize(u, split.ratio, m)
           second == SecondSize(u, split.ratio, m)
           a == ChildRect(split, r, 1)
           b == ChildRect(split, r, 2)
<1>1. m \in Nat /\ m > 0 /\ x \in Nat /\ split.ratio \in 0..Unit /\ 1 \in Turns /\ 2 \in Turns
  BY LayoutAssumption DEF Minimum, Extent, Rects, SplitNodes, Turns
<1>2. u >= 2 * m
  OBVIOUS
<1>3. /\ Low(a, dir) = Low(r, dir) + 0 /\ Extent(a, dir) = first
      /\ \A d \in Directions \ {dir} : Low(a, d) = Low(r, d) /\ Extent(a, d) = Extent(r, d)
  BY <1>1, ChildSizes
<1>4. /\ Low(b, dir) = Low(r, dir) + (first + 1) /\ Extent(b, dir) = second
      /\ \A d \in Directions \ {dir} : Low(b, d) = Low(r, d) /\ Extent(b, d) = Extent(r, d)
  BY <1>1, ChildSizes
<1> HIDE DEF m, a, b
<1>5. u \in Nat /\ x = u + 1
  BY <1>1, <1>2 DEF Usable, Monus
<1>6. Low(r, dir) \in Nat /\ High(r, dir) = Low(r, dir) + x
  BY DEF Low, High, Rects
<1> HIDE DEF u, x
<1>7. first \in 0..u /\ second = u - first
  BY <1>1, <1>2, <1>5, SharesAddUp
<1>8. first >= m /\ second >= m
  BY <1>1, <1>2, <1>5, SizesGrow
<1> HIDE DEF first, second, dir
<1>9. /\ Low(a, dir) = Low(r, dir) /\ High(b, dir) = High(r, dir) /\ Low(b, dir) = High(a, dir) + 1
      /\ Extent(a, dir) >= m /\ Extent(b, dir) >= m
  <2>1. High(a, dir) = Low(a, dir) + Extent(a, dir) /\ High(b, dir) = Low(b, dir) + Extent(b, dir)
    BY DEF High
  <2> QED
    BY <1>3, <1>4, <1>5, <1>6, <1>7, <1>8, <2>1
<1> QED
  BY <1>3, <1>4, <1>9 DEF dir, m, a, b

\* A larger rectangle gives larger children.
LEMMA ChildGrows ==
  ASSUME NEW split \in SplitNodes, NEW r \in Rects, NEW s \in Rects, NEW e \in Turns,
         \A d \in Directions : Extent(r, d) <= Extent(s, d),
         Usable(Extent(r, split.direction)) >= 2 * Minimum(split.direction)
  PROVE  \A d \in Directions : Extent(ChildRect(split, r, e), d) <= Extent(ChildRect(split, s, e), d)
<1> DEFINE dir == split.direction
           u == Usable(Extent(r, dir))
           v == Usable(Extent(s, dir))
           m == Minimum(dir)
<1>1. dir \in Directions /\ split.ratio \in 0..Unit /\ m \in Nat
  BY LayoutAssumption DEF SplitNodes, Minimum
<1>2. u \in Nat /\ v \in Nat /\ u <= v
  <2>1. Extent(r, dir) \in Nat /\ Extent(s, dir) \in Nat /\ Extent(r, dir) <= Extent(s, dir)
    BY <1>1 DEF Extent, Rects
  <2> QED
    BY <2>1 DEF Usable, Monus
<1>3. u >= 2 * m
  OBVIOUS
<1>4. /\ Extent(ChildRect(split, r, e), dir)
           = IF e = 1 THEN FirstSize(u, split.ratio, m) ELSE SecondSize(u, split.ratio, m)
      /\ \A d \in Directions \ {dir} : Extent(ChildRect(split, r, e), d) = Extent(r, d)
  BY ChildSizes
<1>5. /\ Extent(ChildRect(split, s, e), dir)
           = IF e = 1 THEN FirstSize(v, split.ratio, m) ELSE SecondSize(v, split.ratio, m)
      /\ \A d \in Directions \ {dir} : Extent(ChildRect(split, s, e), d) = Extent(s, d)
  BY ChildSizes
<1> HIDE DEF u, v, m, dir
<1>6. /\ FirstSize(u, split.ratio, m) <= FirstSize(v, split.ratio, m)
      /\ SecondSize(u, split.ratio, m) <= SecondSize(v, split.ratio, m)
  BY <1>1, <1>2, <1>3, SizesGrow
<1> QED
  BY <1>4, <1>5, <1>6

-----------------------------------------------------------------------------
(* A tree in which every pane has room. *)

\* The rectangle of a node, and whether there is the minimum in both directions.
Place(l, p) == Rect(l.root, p, l.width, l.height)
Roomy(r) == \A d \in Directions : Extent(r, d) >= Minimum(d)

\* A tree fits if every leaf's rectangle has the minimum.
LEMMA FitsByLeaves ==
  ASSUME NEW l, Proper(l.root)
  PROVE  Fits(l) <=> \A p \in Leaves(l.root) : Roomy(Place(l, p))
<1> DEFINE t == l.root
<1>1. /\ \A id \in Ids(t) : LeafOf(t, id) \in Leaves(t)
      /\ \A p \in Leaves(t) : t[p].id \in Ids(t) /\ LeafOf(t, t[p].id) = p
  BY Leaf DEF Proper
<1>2. \A id \in Ids(t) : HasRoom(l, id) <=> Roomy(Place(l, LeafOf(t, id)))
  BY DEF HasRoom, Given, Roomy, Place, Extent, Minimum, Directions
<1> QED
  BY <1>1, <1>2 DEF Fits

\* In a tree that fits every node has the minimum, a pane or not.
LEMMA NodesHaveRoom ==
  ASSUME NEW l, ProperLayout(l), Fits(l), NEW p \in DOMAIN l.root
  PROVE  Place(l, p) \in Rects /\ p \in Paths /\ Roomy(Place(l, p))
<1>1. Proper(l.root) /\ l.width \in Nat /\ l.height \in Nat /\ p \in Paths
  BY DEF ProperLayout, Proper
<1>2. /\ Place(l, p) \in Rects
      /\ \A q \in Leaves(l.root) : Place(l, q) \in Rects
  BY <1>1, RectType DEF Place, Leaves
<1>3. \A q \in Leaves(l.root) : Roomy(Place(l, q))
  BY <1>1, FitsByLeaves
<1>4. ASSUME NEW d \in Directions, Extent(Place(l, p), d) < Minimum(d)
      PROVE  FALSE
  <2>1. PICK q \in Leaves(l.root) : Extent(Place(l, q), d) < Minimum(d)
    BY <1>1, <1>4, ShortPaneBelow DEF Place
  <2>2. Extent(Place(l, q), d) >= Minimum(d)
    BY <1>3 DEF Roomy
  <2> QED
    BY <1>2, <2>1, <2>2, LayoutAssumption DEF Extent, Minimum, Rects
<1>5. \A d \in Directions : Extent(Place(l, p), d) \in Int /\ Minimum(d) \in Int
  BY <1>2, LayoutAssumption DEF Extent, Minimum, Rects
<1>6. Roomy(Place(l, p))
  BY <1>4, <1>5 DEF Roomy
<1> QED
  BY <1>1, <1>2, <1>6

\* In a tree that fits a split divides its rectangle between its children.
LEMMA SplitDivides ==
  ASSUME NEW l, ProperLayout(l), Fits(l), NEW s \in Splits(l.root)
  PROVE  LET dir == l.root[s].direction
             r == Place(l, s)
             a == Place(l, Append(s, 1))
             b == Place(l, Append(s, 2))
         IN  /\ s \in DOMAIN l.root /\ s \in Paths /\ l.root[s] \in SplitNodes /\ dir \in Directions
             /\ Append(s, 1) \in DOMAIN l.root /\ Append(s, 2) \in DOMAIN l.root
             /\ r \in Rects /\ a \in Rects /\ b \in Rects
             /\ Low(a, dir) = Low(r, dir) /\ High(b, dir) = High(r, dir)
             /\ Low(b, dir) = High(a, dir) + 1
             /\ Extent(a, dir) >= Minimum(dir) /\ Extent(b, dir) >= Minimum(dir)
             /\ \A d \in Directions \ {dir} : /\ Low(a, d) = Low(r, d) /\ Extent(a, d) = Extent(r, d)
                                              /\ Low(b, d) = Low(r, d) /\ Extent(b, d) = Extent(r, d)
<1> DEFINE t == l.root
           r == Place(l, s)
<1>1. Proper(t) /\ Branching(t) /\ DOMAIN t \subseteq Paths /\ l.width \in Nat /\ l.height \in Nat
  BY Branches DEF ProperLayout, Proper
<1>2. s \in DOMAIN t /\ s \in Paths /\ t[s] \in SplitNodes /\ t[s].direction \in Directions
  BY <1>1 DEF Splits, Proper, SplitNodes
<1>3. 1 \in Turns /\ 2 \in Turns
  BY DEF Turns
<1>4. Append(s, 1) \in DOMAIN t /\ Append(s, 2) \in DOMAIN t
  BY <1>1, <1>2, <1>3 DEF Branching
<1>5. r \in Rects /\ Place(l, Append(s, 1)) \in Rects /\ Place(l, Append(s, 2)) \in Rects
  BY <1>2, <1>4, NodesHaveRoom
<1>6. Place(l, Append(s, 1)) = ChildRect(t[s], r, 1)
  BY <1>2, <1>3, RectStep DEF Place
<1>7. Place(l, Append(s, 2)) = ChildRect(t[s], r, 2)
  BY <1>2, <1>3, RectStep DEF Place
<1>8. Usable(Extent(r, t[s].direction)) >= 2 * Minimum(t[s].direction)
  BY RoomAtSplits DEF Place
<1> HIDE DEF r
<1>9. LET dir == t[s].direction
          a == ChildRect(t[s], r, 1)
          b == ChildRect(t[s], r, 2)
      IN  /\ Low(a, dir) = Low(r, dir) /\ High(b, dir) = High(r, dir)
          /\ Low(b, dir) = High(a, dir) + 1
          /\ Extent(a, dir) >= Minimum(dir) /\ Extent(b, dir) >= Minimum(dir)
          /\ \A d \in Directions \ {dir} : /\ Low(a, d) = Low(r, d) /\ Extent(a, d) = Extent(r, d)
                                           /\ Low(b, d) = Low(r, d) /\ Extent(b, d) = Extent(r, d)
  BY ONLY <1>2, <1>5, <1>8, ChildrenAdjoin
<1> QED
  BY <1>1, <1>2, <1>4, <1>5, <1>6, <1>7, <1>9 DEF r

\* Whether a tree fits depends on its rectangles, the splits above them and nothing else.
LEMMA SplitKeepsRoom ==
  ASSUME NEW l, ProperLayout(l), Fits(l), l.zoomed = NoPane, NEW id \in Ids(l.root),
         NEW new, new \notin Ids(l.root), NEW dir \in Directions, NEW ratio \in 0..Unit,
         CanSplit(l, id, dir, ratio)
  PROVE  Fits(SplitPane(l, id, dir, ratio, new))
<1> DEFINE t == l.root
           m == SplitPane(l, id, dir, ratio, new)
           u == m.root
           p == LeafOf(t, id)
           a == Append(p, 1)
           b == Append(p, 2)
           r == Place(l, p)
           split == SplitNode(dir, ratio)
<1>1. /\ Proper(t) /\ IsTree(t) /\ DOMAIN t \subseteq Paths /\ Branching(t)
      /\ p \in Leaves(t) /\ p \in DOMAIN t /\ p \in Paths /\ l.width \in Nat /\ l.height \in Nat
  BY Leaf, Branches DEF ProperLayout, Proper, Leaves
<1>2. u = ReplaceLeafWithSplit(t, id, dir, ratio, new) /\ m.width = l.width /\ m.height = l.height
  <2>1. m = LayoutTree(ReplaceLeafWithSplit(t, id, dir, ratio, new), l.active, l.zoomed, l.width, l.height)
    BY Rebuilt DEF SplitPane
  <2> QED
    BY <2>1 DEF LayoutTree
<1>3. Proper(u)
  BY <1>1, <1>2, SplitTree
<1>4. /\ a \notin DOMAIN t /\ b \notin DOMAIN t /\ a \in Paths /\ b \in Paths /\ a # b /\ a # p /\ b # p
      /\ 1 \in Turns /\ 2 \in Turns
  <2>1. 1 \in Turns /\ 2 \in Turns
    BY DEF Turns
  <2>2. a \in Paths /\ Last(a) = 1 /\ a # p
    BY <1>1, <2>1, Step
  <2>3. b \in Paths /\ Last(b) = 2 /\ b # p
    BY <1>1, <2>1, Step
  <2>4. a \notin DOMAIN t /\ b \notin DOMAIN t
    BY <1>1, <2>1 DEF Branching, Splits
  <2> QED
    BY <2>1, <2>2, <2>3, <2>4
<1>5. /\ DOMAIN u = DOMAIN t \cup {a, b} /\ u[p] = split /\ u[a] = t[p] /\ u[b] = PaneNode(new)
      /\ \A q \in DOMAIN t \ {p} : u[q] = t[q]
  <2>1. u = [q \in DOMAIN t \cup {a, b} |->
               CASE q = p -> split
                 [] q = a -> t[p]
                 [] q = b -> PaneNode(new)
                 [] OTHER -> t[q]]
    BY <1>2 DEF ReplaceLeafWithSplit
  <2> HIDE DEF a, b, p, u, split
  <2> QED
    BY <1>1, <1>4, <2>1
<1>6. split \in SplitNodes /\ split.direction = dir
  BY DEF SplitNode, SplitNodes
<1> HIDE DEF u, split, p
<1>7. ASSUME NEW q \in DOMAIN t
      PROVE  Rect(u, q, l.width, l.height) = Place(l, q)
  <2>1. q \in Paths
    BY <1>1
  <2>2. ASSUME NEW s \in Paths, IsPrefix(s, q), s # q
        PROVE  u[s] = t[s]
    <3>1. s \in Splits(t)
      BY <1>1, <2>2, AboveIsSplit
    <3>2. s \in DOMAIN t \ {p}
      BY <1>1, <3>1 DEF Splits
    <3> QED
      BY <1>5, <3>2
  <2> QED
    BY <2>1, <2>2, RectAgrees DEF Place
<1>8. Rect(u, p, l.width, l.height) = r
  BY <1>1, <1>7
<1>9. r \in Rects /\ Roomy(r)
  BY <1>1, NodesHaveRoom
<1>10. Usable(Extent(r, dir)) >= 2 * Minimum(dir)
  <2>1. Resolve(l)[id] = AtLeastMinimum(r)
    BY DEF Resolve, Place, p
  <2>2. Extent(AtLeastMinimum(r), dir) = Extent(r, dir)
    <3> HIDE DEF r
    <3>1. r.width >= MinCols /\ r.height >= MinRows
      BY <1>9 DEF Roomy, Extent, Minimum, Directions
    <3>2. Larger(r.width, MinCols) = r.width /\ Larger(r.height, MinRows) = r.height
      BY <1>9, <3>1, LayoutAssumption DEF Larger, Rects
    <3>3. AtLeastMinimum(r) = [r EXCEPT !.width = r.width, !.height = r.height]
      BY <3>2 DEF AtLeastMinimum
    <3>4. AtLeastMinimum(r).width = r.width /\ AtLeastMinimum(r).height = r.height
      BY <1>9, <3>3 DEF Rects
    <3> QED
      BY <3>4 DEF Extent
  <2>3. Usable(Extent(Resolve(l)[id], dir)) >= 2 * Minimum(dir)
    BY DEF CanSplit
  <2> QED
    BY <2>1, <2>2, <2>3
<1>11. /\ Rect(u, a, l.width, l.height) = ChildRect(split, r, 1)
       /\ Rect(u, b, l.width, l.height) = ChildRect(split, r, 2)
  <2>1. Rect(u, a, l.width, l.height) = ChildRect(u[p], Rect(u, p, l.width, l.height), 1)
    BY <1>1, <1>4, RectStep
  <2>2. Rect(u, b, l.width, l.height) = ChildRect(u[p], Rect(u, p, l.width, l.height), 2)
    BY <1>1, <1>4, RectStep
  <2> QED
    BY <1>5, <1>8, <2>1, <2>2
<1> HIDE DEF r
<1>12. Roomy(ChildRect(split, r, 1)) /\ Roomy(ChildRect(split, r, 2))
  <2>1. LET c == ChildRect(split, r, 1)
            d == ChildRect(split, r, 2)
        IN  /\ Extent(c, dir) >= Minimum(dir) /\ Extent(d, dir) >= Minimum(dir)
            /\ \A o \in Directions \ {dir} : Extent(c, o) = Extent(r, o) /\ Extent(d, o) = Extent(r, o)
    BY ONLY <1>6, <1>9, <1>10, ChildrenAdjoin
  <2> QED
    BY <1>9, <2>1 DEF Roomy
<1>13. ASSUME NEW q \in Leaves(u)
       PROVE  Roomy(Rect(u, q, l.width, l.height))
  <2>1. CASE q \in {a, b}
    BY <1>11, <1>12, <2>1
  <2>2. CASE q \notin {a, b}
    <3>1. q \in DOMAIN t
      BY <1>5, <2>2 DEF Leaves
    <3> QED
      BY <1>7, <3>1, NodesHaveRoom
  <2> QED
    BY <2>1, <2>2
<1>14. \A q \in Leaves(m.root) : Roomy(Place(m, q))
  BY <1>2, <1>13 DEF Place, u
<1> QED
  BY <1>3, <1>14, FitsByLeaves DEF u

\* What a close moves up gets the parent's rectangle instead of its own, and more for
\* each of its panes.
LEMMA CloseKeepsRoom ==
  ASSUME NEW l, ProperLayout(l), Fits(l), NEW id, CanClose(l, id)
  PROVE  Fits(ClosePane(l, id))
<1> DEFINE t == l.root
           m == ClosePane(l, id)
           u == m.root
           w == l.width
           h == l.height
           leaf == LeafOf(t, id)
<1>1. /\ Proper(t) /\ IsTree(t) /\ DOMAIN t \subseteq Paths /\ Branching(t) /\ id \in Ids(t)
      /\ leaf \in DOMAIN t /\ leaf \in Paths /\ leaf # <<>> /\ w \in Nat /\ h \in Nat
  BY Leaf, Branches DEF ProperLayout, Proper, Leaves, CanClose
<1>2. u = CloseLeaf(t, id)
  <2> DEFINE v == CloseLeaf(t, id)
  <2>1. "root" \in DOMAIN l
    BY DEF ProperLayout, LayoutTree
  <2> QED
    BY <2>1 DEF ClosePane
<1>3. Proper(u) /\ m.width = w /\ m.height = h
  BY <1>1, <1>2, CloseTree, SizeIsKept
<1>4. PICK parent \in Paths, x \in Turns : leaf = Append(parent, x)
  BY <1>1, Unstep
<1> DEFINE y == 3 - x
           sibling == Append(parent, y)
           kept == {p \in DOMAIN t : ~IsPrefix(parent, p)}
           W == {v \in Paths : sibling \o v \in DOMAIN t}
<1>5. /\ DOMAIN u = kept \cup {parent \o v : v \in W}
      /\ \A p \in kept : u[p] = t[p]
      /\ \A v \in W : u[parent \o v] = t[sibling \o v]
  <2> DEFINE c == CloseLeaf(t, id)
  <2>1. /\ DOMAIN c = kept \cup {parent \o v : v \in W}
        /\ \A p \in kept : c[p] = t[p]
        /\ \A v \in W : c[parent \o v] = t[sibling \o v]
    BY ONLY <1>1, <1>4, CloseShape, parent \in Paths, x \in Turns
  <2> QED
    BY ONLY <1>2, <2>1
<1>6. y \in Turns /\ sibling \in Paths /\ parent \in Splits(t) /\ parent \in DOMAIN t
  BY <1>1, <1>4, Step DEF Turns, Branching, Splits
<1> HIDE DEF leaf, u, y
<1>7. ASSUME NEW p \in DOMAIN t, p = parent \/ ~IsPrefix(parent, p)
      PROVE  Rect(u, p, w, h) = Place(l, p)
  <2>1. p \in Paths
    BY <1>1
  <2>2. ASSUME NEW s \in Paths, IsPrefix(s, p), s # p
        PROVE  u[s] = t[s]
    <3>1. s \in DOMAIN t
      BY <1>1, <2>2, AboveIsSplit DEF Splits
    <3>2. ~IsPrefix(parent, s)
      <4>1. CASE p = parent
        <5>1. Len(s) \in Nat /\ Len(parent) \in Nat
          BY LenProperties DEF Paths
        <5>2. SUFFICES ASSUME IsPrefix(parent, s) PROVE FALSE
          OBVIOUS
        <5>3. PICK v \in Paths : s = parent \o v /\ Len(s) = Len(parent) + Len(v)
          BY <5>2, WayBelow
        <5>4. PICK z \in Paths : parent = s \o z /\ Len(parent) = Len(s) + Len(z)
          BY <2>2, <4>1, WayBelow
        <5>5. Len(v) \in Nat /\ Len(z) \in Nat
          BY LenProperties DEF Paths
        <5>6. Len(z) = 0
          BY <5>1, <5>3, <5>4, <5>5
        <5>7. z = <<>>
          BY <5>6, EmptySeq DEF Paths
        <5>8. parent = s
          BY <5>4, <5>7, ConcatEmptySeq DEF Paths
        <5> QED
          BY <2>2, <4>1, <5>8
      <4>2. CASE p # parent
        BY <1>7, <2>1, <2>2, <4>2, AboveAbove
      <4> QED
        BY <4>1, <4>2
    <3> QED
      BY <1>5, <3>1, <3>2
  <2> QED
    BY <2>1, <2>2, RectAgrees DEF Place
<1> DEFINE R(v) == Place(l, sibling \o v)
           Q(v) == Rect(u, parent \o v, w, h)
           S == {v \in Paths : v \in W => Q(v) \in Rects /\ \A d \in Directions : Extent(R(v), d) <= Extent(Q(v), d)}
<1>8. <<>> \in S
  <2>1. <<>> \in Paths /\ sibling \o <<>> = sibling /\ parent \o <<>> = parent
    BY <1>6, EmptySeq, ConcatEmptySeq DEF Paths
  <2>2. Q(<<>>) = Place(l, parent)
    BY <1>6, <1>7, <2>1
  <2>3. /\ Place(l, parent) \in Rects
        /\ Usable(Extent(Place(l, parent), t[parent].direction)) >= 2 * Minimum(t[parent].direction)
        /\ t[parent] \in SplitNodes
    BY <1>1, <1>6, NodesHaveRoom, RoomAtSplits DEF Place, Proper
  <2>4. R(<<>>) = ChildRect(t[parent], Place(l, parent), y)
    BY <1>6, <2>1, RectStep DEF Place, sibling
  <2> DEFINE c == ChildRect(t[parent], Place(l, parent), y)
             q == Place(l, parent)
  <2>5. Within(c, q) /\ c \in Rects
    BY <1>6, <2>3, ChildrenTile, ChildRectType
  <2>6. \A d \in Directions : Extent(c, d) <= Extent(q, d)
    <3> HIDE DEF c, q
    <3>1. /\ c.width <= q.width \/ c.x > q.x
          /\ c.height <= q.height \/ c.y > q.y
          /\ c.x \in Nat /\ c.y \in Nat /\ c.width \in Nat /\ c.height \in Nat
          /\ q.x \in Nat /\ q.y \in Nat /\ q.width \in Nat /\ q.height \in Nat
      BY <2>3, <2>5 DEF Within, Rects, q
    <3> QED
      BY <2>5, <3>1 DEF Within, Extent
  <2> QED
    BY <2>1, <2>2, <2>3, <2>4, <2>6
<1>9. ASSUME NEW v \in Paths, NEW e \in Turns, v \in S
      PROVE  Append(v, e) \in S
  <2>1. Append(v, e) \in Paths
    BY Step
  <2>2. ASSUME Append(v, e) \in W
        PROVE  Q(Append(v, e)) \in Rects /\ \A d \in Directions : Extent(R(Append(v, e)), d) <= Extent(Q(Append(v, e)), d)
    <3>1. sibling \o Append(v, e) = Append(sibling \o v, e) /\ sibling \o v \in Paths
      BY <1>6, Way, WayStep
    <3>2. parent \o Append(v, e) = Append(parent \o v, e) /\ parent \o v \in Paths
      <4>1. parent \o v \in Paths
        BY Way
      <4>2. parent \o Append(v, e) = Append(parent \o v, e)
        BY WayStep
      <4> QED
        BY <4>1, <4>2
    <3>3. sibling \o v \in Splits(t) /\ sibling \o v \in DOMAIN t
      <4>1. Append(sibling \o v, e) \in DOMAIN t /\ sibling \o v \in Paths
        BY <2>2, <3>1
      <4>2. sibling \o v \in Splits(t)
        BY ONLY <1>1, <4>1 DEF Branching
      <4> QED
        BY <4>2 DEF Splits
    <3>4. v \in W
      BY <3>3
    <3>5. /\ t[sibling \o v] \in SplitNodes /\ u[parent \o v] = t[sibling \o v]
          /\ Q(v) \in Rects /\ \A d \in Directions : Extent(R(v), d) <= Extent(Q(v), d)
      BY <1>1, <1>5, <1>9, <3>3, <3>4 DEF Proper
    <3>6. /\ R(v) \in Rects
          /\ Usable(Extent(R(v), t[sibling \o v].direction)) >= 2 * Minimum(t[sibling \o v].direction)
      BY <3>3, NodesHaveRoom, RoomAtSplits DEF Place
    <3>7. R(Append(v, e)) = ChildRect(t[sibling \o v], R(v), e)
      BY <3>1, RectStep DEF Place
    <3>8. Q(Append(v, e)) = ChildRect(u[parent \o v], Q(v), e)
      BY <3>2, RectStep
    <3> HIDE DEF R, Q, sibling
    <3>9. \A d \in Directions :
            Extent(ChildRect(t[sibling \o v], R(v), e), d) <= Extent(ChildRect(t[sibling \o v], Q(v), e), d)
      BY ONLY <3>5, <3>6, ChildGrows, e \in Turns
    <3>10. ChildRect(t[sibling \o v], Q(v), e) \in Rects
      BY <3>5, ChildRectType
    <3> QED
      BY <3>5, <3>7, <3>8, <3>9, <3>10
  <2> QED
    BY <2>1, <2>2
<1> HIDE DEF S
<1>10. ASSUME NEW v \in W
       PROVE  Roomy(Q(v))
  <2>1. v \in S
    BY <1>8, <1>9, PathInduction
  <2>2. Q(v) \in Rects /\ \A d \in Directions : Extent(R(v), d) <= Extent(Q(v), d)
    BY <2>1 DEF S
  <2>3. R(v) \in Rects /\ Roomy(R(v))
    BY NodesHaveRoom
  <2> HIDE DEF R, Q
  <2>4. \A d \in Directions : /\ Extent(R(v), d) \in Int /\ Extent(Q(v), d) \in Int /\ Minimum(d) \in Int
    BY <2>2, <2>3, LayoutAssumption DEF Extent, Minimum, Rects
  <2> QED
    BY <2>2, <2>3, <2>4 DEF Roomy
<1>11. ASSUME NEW p \in Leaves(u)
       PROVE  Roomy(Rect(u, p, w, h))
  <2>1. p \in kept \/ \E v \in W : p = parent \o v
    BY <1>5 DEF Leaves
  <2>2. CASE p \in kept
    <3>1. Rect(u, p, w, h) = Place(l, p)
      BY <1>7, <2>2
    <3> QED
      BY <2>2, <3>1, NodesHaveRoom
  <2> QED
    BY <1>10, <2>1, <2>2
<1>12. \A p \in Leaves(m.root) : Roomy(Place(m, p))
  BY <1>3, <1>11 DEF Place, u
<1> QED
  BY <1>3, <1>12, FitsByLeaves DEF u

\* A layout with the same tree in a window of the same size fits as well.
LEMMA SameTreeFits ==
  ASSUME NEW l, NEW m, m.root = l.root, m.width = l.width, m.height = l.height
  PROVE  Fits(m) <=> Fits(l)
BY DEF Fits, HasRoom, Given

\* Panes that change places leave the rectangles where they are.
LEMMA SwapKeepsRoom ==
  ASSUME NEW l, ProperLayout(l), Fits(l), NEW a \in Ids(l.root), NEW b \in Ids(l.root)
  PROVE  Fits([l EXCEPT !.root = SwapPaneIds(l.root, a, b)])
<1> DEFINE t == l.root
           u == SwapPaneIds(t, a, b)
           m == [l EXCEPT !.root = u]
<1>1. Proper(t) /\ DOMAIN t \subseteq Paths /\ IsTree(t)
  BY DEF ProperLayout, Proper
<1>2. Proper(u) /\ Ids(u) = Ids(t)
  BY <1>1, PanesSwapped
<1>3. m.root = u /\ m.width = l.width /\ m.height = l.height
  BY <1>2, RootChanged
<1>4. /\ DOMAIN u = DOMAIN t /\ \A s \in Splits(t) : u[s] = t[s]
  BY DEF SwapPaneIds, Splits
<1>5. Leaves(u) \subseteq Leaves(t)
  BY <1>4 DEF Leaves, Splits
<1>6. ASSUME NEW p \in Leaves(u)
      PROVE  Roomy(Place(m, p))
  <2>1. p \in Leaves(t) /\ p \in DOMAIN t /\ p \in Paths
    BY <1>1, <1>5 DEF Leaves
  <2>2. \A s \in Paths : IsPrefix(s, p) /\ s # p => u[s] = t[s]
    BY <1>1, <1>4, <2>1, AboveIsSplit
  <2> HIDE DEF u, m
  <2>3. Rect(u, p, l.width, l.height) = Rect(t, p, l.width, l.height)
    BY <2>1, <2>2, RectAgrees
  <2>4. Place(m, p) = Place(l, p)
    BY <1>3, <2>3 DEF Place
  <2> QED
    BY <1>1, <2>1, <2>4, FitsByLeaves
<1> HIDE DEF u, m
<1> QED
  BY <1>2, <1>3, <1>6, FitsByLeaves DEF u, m

\* Every pane of a tree that fits goes on having the minimum: a split divides only what
\* is large enough, and a close gives the sibling's panes more than they had.
THEOREM RoomIsAlwaysKept == Spec => RoomIsKept
<1> DEFINE Kept == (Fits(layout) /\ ~Fits(layout')) =>
                     \/ \E id \in PaneIds : Rotate(id) \/ \E dir \in Directions, d \in Deltas : Resize(id, dir, d)
                     \/ \E w \in Windows : SetDimensions(w)
                     \/ layout.zoomed # NoPane /\ ~(Ids(layout'.root) \subseteq Ids(Tree))
<1>1. ASSUME Sound, Next, Fits(layout), ~Fits(layout'),
             ~ \E id \in PaneIds : Rotate(id) \/ \E dir \in Directions, d \in Deltas : Resize(id, dir, d),
             ~ \E w \in Windows : SetDimensions(w)
      PROVE  layout.zoomed # NoPane /\ ~(Ids(layout'.root) \subseteq Ids(Tree))
  <2>1. ProperLayout(layout)
    BY <1>1 DEF Sound
  <2>2. ASSUME NEW id \in PaneIds, NEW new \in PaneIds, NEW dir \in Directions, NEW ratio \in Ratios,
               Split(id, dir, ratio, new)
        PROVE  layout.zoomed # NoPane /\ ~(Ids(layout'.root) \subseteq Ids(Tree))
    <3>1. /\ id \in Ids(layout.root) /\ new \notin Ids(layout.root) /\ CanSplit(layout, id, dir, ratio)
          /\ layout' = SplitPane(layout, id, dir, ratio, new) /\ ratio \in 0..Unit /\ Tree = layout.root
      BY <2>2, PaneTreeAssumption DEF Split, Tree
    <3>2. new \in Ids(layout'.root)
      BY <2>1, <3>1, SplitPanes
    <3>3. layout.zoomed # NoPane
      BY <1>1, <2>1, <3>1, SplitKeepsRoom
    <3> QED
      BY <3>1, <3>2, <3>3
  <2>3. ASSUME NEW id \in PaneIds, Close(id)
        PROVE  FALSE
    BY <1>1, <2>1, <2>3, CloseKeepsRoom DEF Close
  <2>4. ASSUME NEW a \in PaneIds, NEW b \in PaneIds, Swap(a, b)
        PROVE  FALSE
    BY <1>1, <2>1, <2>4, SwapKeepsRoom DEF Swap, Tree
  <2>5. ASSUME NEW z \in Ids(layout.root) \cup {NoPane}, layout' = [layout EXCEPT !.zoomed = z]
        PROVE  FALSE
    <3>1. layout.active \in Ids(layout.root)
      BY <2>1 DEF ProperLayout
    <3>2. layout'.root = layout.root /\ layout'.width = layout.width /\ layout'.height = layout.height
      BY <2>1, <2>5, <3>1, SelectionChanged
    <3> QED
      BY <1>1, <3>2, SameTreeFits
  <2>6. ASSUME NEW dir \in Directions, MoveTo(dir)
        PROVE  FALSE
    <3> DEFINE to == Neighbour(layout, layout.active, dir)
    <3>1. layout' = [layout EXCEPT !.active = to]
      BY <2>6 DEF MoveTo
    <3>2. to \in Ids(layout.root)
      BY <2>1, NeighbourIsPane DEF ProperLayout
    <3> HIDE DEF to
    <3>3. NoPane \in Ids(layout.root) \cup {NoPane}
      OBVIOUS
    <3>4. layout'.root = layout.root /\ layout'.width = layout.width /\ layout'.height = layout.height
      BY <2>1, <3>1, <3>2, <3>3, SelectionChanged
    <3> QED
      BY <1>1, <3>4, SameTreeFits
  <2>7. ASSUME NEW id \in PaneIds, Zoom(id)
        PROVE  FALSE
    BY <2>5, <2>7 DEF Zoom, Tree
  <2>8. CASE Unzoom
    BY <2>5, <2>8 DEF Unzoom
  <2> QED
    BY <1>1, <2>2, <2>3, <2>4, <2>6, <2>7, <2>8 DEF Next
<1>2. Sound /\ [Next]_vars => [Kept]_vars
  BY <1>1
<1>3. RoomIsKept <=> [][Kept]_vars
  BY DEF RoomIsKept
<1> HIDE DEF Kept
<1> QED
  BY <1>2, <1>3, InitSound, StepKeepsSound, PTL DEF Spec

-----------------------------------------------------------------------------
(* What lies on the other side of a border. *)

\* Where the neighbour on side e begins: behind the end for the second child of a split
\* of that direction, at the beginning for the first.
Cut(r, dir, e) == IF e = 1 THEN High(r, dir) + 1 ELSE Low(r, dir)

\* Two rectangles have cells on one line across.
Meets(a, b, d) == Low(a, d) < High(b, d) /\ Low(b, d) < High(a, d)

\* A side of a split of the direction is a side of one of its children, of any other split
\* one of both.
LEMMA SplitCuts ==
  ASSUME NEW l, ProperLayout(l), Fits(l), NEW s \in Splits(l.root), NEW d \in Directions, NEW e \in Turns
  PROVE  /\ d = l.root[s].direction =>
              /\ Cut(Place(l, Append(s, 3 - e)), d, e) = Cut(Place(l, s), d, e)
              /\ Cut(Place(l, Append(s, 1)), d, 1) = Cut(Place(l, Append(s, 2)), d, 2)
         /\ d # l.root[s].direction =>
              \A f \in Turns : /\ Cut(Place(l, Append(s, f)), d, e) = Cut(Place(l, s), d, e)
                               /\ Low(Place(l, Append(s, f)), d) = Low(Place(l, s), d)
                               /\ High(Place(l, Append(s, f)), d) = High(Place(l, s), d)
<1> DEFINE dir == l.root[s].direction
           r == Place(l, s)
           a == Place(l, Append(s, 1))
           b == Place(l, Append(s, 2))
<1>1. /\ Low(a, dir) = Low(r, dir) /\ High(b, dir) = High(r, dir)
      /\ Low(b, dir) = High(a, dir) + 1
      /\ \A o \in Directions \ {dir} : /\ Low(a, o) = Low(r, o) /\ Extent(a, o) = Extent(r, o)
                                       /\ Low(b, o) = Low(r, o) /\ Extent(b, o) = Extent(r, o)
  BY SplitDivides
<1>2. /\ Append(s, 3 - 1) = Append(s, 2) /\ Append(s, 3 - 2) = Append(s, 1)
      /\ e = 1 \/ e = 2
  BY DEF Turns
<1>3. \A f \in Turns : Place(l, Append(s, f)) = a \/ Place(l, Append(s, f)) = b
  BY DEF Turns
<1>4. CASE d = dir
  <2>1. CASE e = 1
    BY <1>1, <1>2, <1>4, <2>1 DEF Cut
  <2>2. CASE e = 2
    BY <1>1, <1>2, <1>4, <2>2 DEF Cut
  <2> QED
    BY <1>2, <1>4, <2>1, <2>2
<1>5. CASE d # dir
  <2>1. /\ Low(a, d) = Low(r, d) /\ High(a, d) = High(r, d)
        /\ Low(b, d) = Low(r, d) /\ High(b, d) = High(r, d)
    BY <1>1, <1>5 DEF High
  <2> HIDE DEF a, b, r
  <2>2. Cut(a, d, e) = Cut(r, d, e) /\ Cut(b, d, e) = Cut(r, d, e)
    BY <2>1 DEF Cut
  <2>3. \A f \in Turns : /\ Cut(Place(l, Append(s, f)), d, e) = Cut(r, d, e)
                         /\ Low(Place(l, Append(s, f)), d) = Low(r, d)
                         /\ High(Place(l, Append(s, f)), d) = High(r, d)
    BY <1>3, <2>1, <2>2
  <2> QED
    BY <1>5, <2>3 DEF r
<1> QED
  BY <1>4, <1>5

\* Among the panes below a node one lies at a given side of it and on a line across with a
\* rectangle of two lines or more that has lines in common with the node: where a border
\* runs across, one of its two sides has such a line.
LEMMA PaneAlong ==
  ASSUME NEW l, ProperLayout(l), Fits(l), NEW c \in DOMAIN l.root, NEW P \in Rects,
         NEW d \in Directions, NEW o \in Directions \ {d}, NEW e \in Turns,
         Extent(P, o) >= 2, Meets(P, Place(l, c), o)
  PROVE  \E p \in Leaves(l.root) : /\ Cut(Place(l, p), d, e) = Cut(Place(l, c), d, e)
                                   /\ Meets(P, Place(l, p), o)
<1> DEFINE B == {p \in DOMAIN l.root : /\ Cut(Place(l, p), d, e) = Cut(Place(l, c), d, e)
                                       /\ Meets(P, Place(l, p), o)}
<1>1. Proper(l.root) /\ c \in B /\ B \in SUBSET DOMAIN l.root
  BY DEF ProperLayout
<1>2. ASSUME NEW s \in B \cap Splits(l.root)
      PROVE  \E f \in Turns : Append(s, f) \in B
  <2> DEFINE dir == l.root[s].direction
             r == Place(l, s)
             a == Place(l, Append(s, 1))
             b == Place(l, Append(s, 2))
  <2>1. /\ Append(s, 1) \in DOMAIN l.root /\ Append(s, 2) \in DOMAIN l.root
        /\ r \in Rects /\ a \in Rects /\ b \in Rects /\ dir \in Directions
        /\ Low(a, dir) = Low(r, dir) /\ High(b, dir) = High(r, dir)
        /\ Low(b, dir) = High(a, dir) + 1
        /\ Extent(a, dir) >= Minimum(dir) /\ Extent(b, dir) >= Minimum(dir)
    BY SplitDivides
  <2>2. 1 \in Turns /\ 2 \in Turns /\ 3 - e \in Turns
    BY DEF Turns
  <2>3. Cut(r, d, e) = Cut(Place(l, c), d, e) /\ Meets(P, r, o)
    OBVIOUS
  <2>4. CASE dir = o
    <3>1. \A f \in Turns : Cut(Place(l, Append(s, f)), d, e) = Cut(r, d, e)
      BY <2>4, SplitCuts
    <3>2. Cut(a, d, e) = Cut(r, d, e) /\ Cut(b, d, e) = Cut(r, d, e)
      BY <2>2, <3>1
    <3>3. /\ Low(a, o) = Low(r, o) /\ High(b, o) = High(r, o) /\ Low(b, o) = High(a, o) + 1
          /\ Extent(a, o) > 0 /\ Extent(b, o) > 0
      <4>1. Extent(a, o) \in Nat /\ Extent(b, o) \in Nat /\ Minimum(o) \in Nat /\ Minimum(o) > 0
        BY <2>1, LayoutAssumption DEF Extent, Rects, Minimum
      <4> QED
        BY <2>1, <2>4, <4>1
    <3> HIDE DEF a, b, r
    <3>4. /\ Low(P, o) \in Nat /\ Low(a, o) \in Nat /\ Low(b, o) \in Nat
          /\ Extent(P, o) \in Nat /\ Extent(a, o) \in Nat /\ Extent(b, o) \in Nat
          /\ High(P, o) = Low(P, o) + Extent(P, o) /\ High(a, o) = Low(a, o) + Extent(a, o)
          /\ High(b, o) = Low(b, o) + Extent(b, o)
      BY <2>1 DEF Low, High, Extent, Rects
    <3>5. Meets(P, a, o) \/ Meets(P, b, o)
      BY <2>3, <3>3, <3>4 DEF Meets
    <3> QED
      BY <2>1, <2>2, <2>3, <3>2, <3>5 DEF a, b
  <2>5. CASE dir # o
    <3>1. dir = d
      BY <2>1, <2>5 DEF Directions
    <3>2. Cut(Place(l, Append(s, 3 - e)), d, e) = Cut(r, d, e)
      BY <3>1, SplitCuts
    <3>3. /\ Low(Place(l, Append(s, 3 - e)), o) = Low(r, o)
          /\ High(Place(l, Append(s, 3 - e)), o) = High(r, o)
      BY <2>2, <2>5, SplitCuts
    <3>4. Meets(P, Place(l, Append(s, 3 - e)), o)
      BY <2>3, <3>3 DEF Meets
    <3>5. Append(s, 3 - e) \in DOMAIN l.root
      BY <2>1, <2>2 DEF Turns
    <3> QED
      BY <2>2, <2>3, <3>2, <3>4, <3>5
  <2> QED
    BY <2>4, <2>5
<1> HIDE DEF B
<1>3. PICK p \in Leaves(l.root) : p \in B
  BY <1>1, <1>2, Descend
<1> QED
  BY <1>3 DEF B

\* A pane below child e of a split of a direction shares its side e with that child of the
\* nearest such split.
LEMMA NearestCut ==
  ASSUME NEW l, ProperLayout(l), Fits(l), NEW p \in DOMAIN l.root, NEW d \in Directions, NEW e \in Turns,
         \E s \in Splits(l.root) : l.root[s].direction = d /\ IsPrefix(Append(s, e), p)
  PROVE  \E s \in Splits(l.root) :
           /\ l.root[s].direction = d /\ IsPrefix(Append(s, e), p)
           /\ Cut(Place(l, p), d, e) = Cut(Place(l, Append(s, e)), d, e)
<1> DEFINE t == l.root
           G == {s \in Splits(t) : t[s].direction = d /\ IsPrefix(Append(s, e), p)}
<1>1. Proper(t) /\ IsTree(t) /\ DOMAIN t \subseteq Paths /\ p \in Paths
  BY DEF ProperLayout, Proper
<1>2. PICK n \in Nat : \A q \in DOMAIN t : Len(q) <= n
  BY <1>1 DEF Proper
<1>3. \A s \in G : s \in DOMAIN t /\ s \in Paths /\ Len(s) \in Nat
  BY <1>1, LenProperties DEF Paths, Splits
<1> DEFINE N == {n - Len(s) : s \in G}
<1>4. N \in SUBSET Nat /\ N # {}
  BY <1>2, <1>3
<1> HIDE DEF N
<1>5. PICK k \in N : \A m \in N : k <= m
  BY <1>4, LeastNumber
<1> USE DEF N
<1>6. PICK s \in G : k = n - Len(s)
  OBVIOUS
<1>7. ASSUME NEW q \in G
      PROVE  Len(q) <= Len(s)
  <2>1. n - Len(q) \in N
    BY <1>7
  <2>2. n - Len(s) <= n - Len(q)
    BY <1>5, <1>6, <2>1
  <2>3. Len(q) \in Nat /\ Len(s) \in Nat
    BY <1>3, <1>6, <1>7
  <2> QED
    BY <2>2, <2>3
<1> HIDE DEF N
<1> DEFINE a == Append(s, e)
           S == {q \in Paths : IsPrefix(a, q) /\ IsPrefix(q, p) => Cut(Place(l, q), d, e) = Cut(Place(l, a), d, e)}
<1>8. a \in Paths /\ Len(a) = Len(s) + 1 /\ Len(s) \in Nat
  BY <1>3, Step
<1>9. <<>> \in S
  <2>1. <<>> \in Paths /\ Len(<<>>) = 0
    BY EmptySeq DEF Paths
  <2>2. ~IsPrefix(a, <<>>)
    BY <1>8, <2>1 DEF IsPrefix
  <2> QED
    BY <2>1, <2>2
<1>10. ASSUME NEW q \in Paths, NEW f \in Turns, q \in S
       PROVE  Append(q, f) \in S
  <2>1. Append(q, f) \in Paths
    BY Step
  <2>2. ASSUME IsPrefix(a, Append(q, f)), IsPrefix(Append(q, f), p), a # Append(q, f)
        PROVE  Cut(Place(l, Append(q, f)), d, e) = Cut(Place(l, a), d, e)
    <3>1. IsPrefix(a, q)
      BY <1>8, <2>2, PrefixStep
    <3>2. IsPrefix(q, p) /\ q # p
      BY <1>1, <2>2, AboveStep
    <3>3. q \in Splits(t)
      BY <1>1, <3>2, AboveIsSplit
    <3>4. Cut(Place(l, q), d, e) = Cut(Place(l, a), d, e)
      BY <1>10, <3>1, <3>2
    <3>5. Cut(Place(l, Append(q, f)), d, e) = Cut(Place(l, q), d, e)
      <4>1. CASE t[q].direction = d
        <5>1. Len(q) >= Len(a)
          BY <3>1 DEF IsPrefix
        <5>2. q \notin G
          BY <1>7, <1>8, <5>1
        <5>3. f # e
          BY <2>2, <3>3, <4>1, <5>2
        <5>4. f = 3 - e
          BY <5>3 DEF Turns
        <5> QED
          BY <3>3, <4>1, <5>4, SplitCuts
      <4>2. CASE t[q].direction # d
        BY <3>3, <4>2, SplitCuts
      <4> QED
        BY <4>1, <4>2
    <3> QED
      BY <3>4, <3>5
  <2> QED
    BY <2>1, <2>2
<1> HIDE DEF S
<1>11. p \in S
  BY <1>1, <1>9, <1>10, PathInduction
<1>12. IsPrefix(a, p) /\ IsPrefix(p, p)
  BY DEF IsPrefix
<1>13. Cut(Place(l, p), d, e) = Cut(Place(l, a), d, e)
  BY <1>11, <1>12 DEF S
<1> QED
  BY <1>13

\* What lies within a rectangle is between its sides.
LEMMA WithinSides ==
  ASSUME NEW a \in Rects, NEW b \in Rects, Within(a, b), NEW d \in Directions
  PROVE  Low(b, d) <= Low(a, d) /\ High(a, d) <= High(b, d)
BY DEF Within, Low, High, Extent, Rects

\* A pane that shares a line across with one farther on has a pane on the other side of its
\* border that shares one with it.
LEMMA PaneAcross ==
  ASSUME NEW l, ProperLayout(l), Fits(l), NEW p \in Leaves(l.root), NEW q \in Leaves(l.root),
         NEW d \in Directions, NEW o \in Directions \ {d}, NEW e \in Turns,
         Minimum(o) >= 2, Meets(Place(l, p), Place(l, q), o),
         IF e = 1 THEN Low(Place(l, p), d) < Low(Place(l, q), d) ELSE Low(Place(l, q), d) < Low(Place(l, p), d)
  PROVE  \E c \in Leaves(l.root) : /\ Cut(Place(l, c), d, 3 - e) = Cut(Place(l, p), d, e)
                                   /\ Meets(Place(l, p), Place(l, c), o)
<1> DEFINE t == l.root
           P == Place(l, p)
           Q == Place(l, q)
<1>1. Proper(t) /\ DOMAIN t \subseteq Paths
  BY DEF ProperLayout, Proper
<1>2. p \in DOMAIN t /\ q \in DOMAIN t /\ p \in Paths /\ q \in Paths /\ P \in Rects /\ Q \in Rects /\ Roomy(P) /\ Roomy(Q)
  BY <1>1, NodesHaveRoom DEF Leaves
<1>3. p # q
  BY <1>2 DEF Low, Rects
<1>4. PICK s \in Splits(t) : \E f, g \in Turns : f # g /\ IsPrefix(Append(s, f), p) /\ IsPrefix(Append(s, g), q)
  <2>1. ~IsPrefix(p, q) /\ ~IsPrefix(q, p)
    BY <1>1, <1>2, <1>3, NeitherAbove
  <2> QED
    BY <1>1, <1>2, <2>1, NodesPart
<1>5. PICK f \in Turns, g \in Turns : f # g /\ IsPrefix(Append(s, f), p) /\ IsPrefix(Append(s, g), q)
  BY <1>4
<1> DEFINE dir == t[s].direction
           A == Place(l, Append(s, 1))
           B == Place(l, Append(s, 2))
           F == Place(l, Append(s, f))
           H == Place(l, Append(s, g))
<1>6. /\ Append(s, 1) \in DOMAIN t /\ Append(s, 2) \in DOMAIN t /\ dir \in Directions
      /\ A \in Rects /\ B \in Rects /\ Low(B, dir) = High(A, dir) + 1
  BY SplitDivides
<1>7. (f = 1 /\ g = 2) \/ (f = 2 /\ g = 1)
  BY <1>5 DEF Turns
<1>8. Within(P, F) /\ Within(Q, H) /\ F \in Rects /\ H \in Rects
  <2>1. Append(s, f) \in DOMAIN t /\ Append(s, g) \in DOMAIN t
    BY <1>6, <1>7
  <2> QED
    BY <1>2, <1>5, <1>6, <1>7, <2>1, BelowIsWithin DEF Place
<1>9. \A b \in Directions : /\ Low(F, b) <= Low(P, b) /\ High(P, b) <= High(F, b)
                            /\ Low(H, b) <= Low(Q, b) /\ High(Q, b) <= High(H, b)
  <2> HIDE DEF P, Q, F, H
  <2> QED
    BY <1>2, <1>8, WithinSides
<1>10. \A b \in Directions : /\ High(P, b) = Low(P, b) + Extent(P, b) /\ High(Q, b) = Low(Q, b) + Extent(Q, b)
                             /\ Low(P, b) \in Nat /\ Low(Q, b) \in Nat
                             /\ Extent(P, b) \in Nat /\ Extent(Q, b) \in Nat
                             /\ Low(F, b) \in Nat /\ High(F, b) \in Nat /\ Low(H, b) \in Nat /\ High(H, b) \in Nat
  <2> HIDE DEF P, Q, F, H
  <2> QED
    BY <1>2, <1>8 DEF Low, High, Extent, Rects
<1>11. (f = 1 => Low(H, dir) = High(F, dir) + 1) /\ (f = 2 => Low(F, dir) = High(H, dir) + 1)
  BY <1>6, <1>7
<1> HIDE DEF P, Q, F, H
<1>12. dir = d
  <2>1. dir # o
    <3> SUFFICES ASSUME dir = o PROVE FALSE
      OBVIOUS
    <3>1. Low(P, o) < High(Q, o) /\ Low(Q, o) < High(P, o)
      BY DEF Meets, P, Q
    <3> QED
      BY <1>7, <1>9, <1>10, <1>11, <3>1
  <2> QED
    BY <1>6, <2>1 DEF Directions
<1>13. f = e
  <2>1. IF e = 1 THEN Low(P, d) < Low(Q, d) ELSE Low(Q, d) < Low(P, d)
    BY DEF P, Q
  <2>2. f = 1 => Low(P, d) < Low(Q, d)
    BY <1>7, <1>9, <1>10, <1>11, <1>12
  <2>3. f = 2 => Low(Q, d) < Low(P, d)
    BY <1>7, <1>9, <1>10, <1>11, <1>12
  <2>4. Low(P, d) \in Nat /\ Low(Q, d) \in Nat
    BY <1>10
  <2> QED
    BY <1>7, <2>1, <2>2, <2>3, <2>4 DEF Turns
<1>14. \E z \in Splits(t) : t[z].direction = d /\ IsPrefix(Append(z, e), p)
  BY <1>5, <1>12, <1>13
<1>15. PICK z \in Splits(t) : /\ t[z].direction = d /\ IsPrefix(Append(z, e), p)
                              /\ Cut(P, d, e) = Cut(Place(l, Append(z, e)), d, e)
  BY <1>2, <1>14, NearestCut DEF P
<1> DEFINE near == Append(z, e)
           far == Append(z, 3 - e)
<1>16. near \in DOMAIN t /\ far \in DOMAIN t /\ 3 - e \in Turns
  <2>1. Append(z, 1) \in DOMAIN t /\ Append(z, 2) \in DOMAIN t
    BY SplitDivides
  <2> QED
    BY <2>1 DEF Turns
<1>17. Cut(Place(l, far), d, 3 - e) = Cut(Place(l, near), d, e)
  <2>1. Cut(Place(l, Append(z, 1)), d, 1) = Cut(Place(l, Append(z, 2)), d, 2)
    BY <1>15, SplitCuts
  <2>2. CASE e = 1
    BY <2>1, <2>2
  <2>3. CASE e = 2
    BY <2>1, <2>3
  <2> QED
    BY <2>2, <2>3 DEF Turns
<1>18. Low(Place(l, far), o) = Low(Place(l, near), o) /\ High(Place(l, far), o) = High(Place(l, near), o)
  BY <1>15, <1>16, SplitCuts
<1>19. Meets(P, Place(l, far), o)
  <2>1. Within(P, Place(l, near)) /\ Place(l, near) \in Rects
    BY <1>2, <1>15, <1>16, BelowIsWithin, NodesHaveRoom DEF Place, P
  <2> HIDE DEF near, far
  <2>2. Low(Place(l, near), o) <= Low(P, o) /\ High(P, o) <= High(Place(l, near), o)
    BY <1>2, <2>1, WithinSides
  <2>3. Low(Place(l, near), o) \in Nat /\ High(Place(l, near), o) \in Nat
    BY <2>1 DEF Low, High, Extent, Rects
  <2>4. Extent(P, o) >= 2
    <3>1. Extent(P, o) >= Minimum(o) /\ Minimum(o) \in Nat
      BY <1>2, LayoutAssumption DEF Roomy, P, Minimum
    <3> QED
      BY <1>10, <3>1
  <2> QED
    BY <1>10, <1>18, <2>2, <2>3, <2>4 DEF Meets
<1>20. Extent(P, o) >= 2
  <2>1. Extent(P, o) >= Minimum(o) /\ Minimum(o) \in Nat
    BY <1>2, LayoutAssumption DEF Roomy, P, Minimum
  <2> QED
    BY <1>10, <2>1
<1> HIDE DEF near, far
<1>21. PICK c \in Leaves(t) : /\ Cut(Place(l, c), d, 3 - e) = Cut(Place(l, far), d, 3 - e)
                              /\ Meets(P, Place(l, c), o)
  BY <1>2, <1>16, <1>19, <1>20, PaneAlong
<1>22. Cut(Place(l, c), d, 3 - e) = Cut(P, d, e)
  BY <1>15, <1>17, <1>21 DEF near, far
<1> QED
  BY <1>21, <1>22 DEF P

\* In a tree that fits a pane is shown in the rectangle the tree has for it.
LEMMA ShownInPlace ==
  ASSUME NEW l, ProperLayout(l), Fits(l), NEW id \in Ids(l.root)
  PROVE  /\ LeafOf(l.root, id) \in Leaves(l.root) /\ l.root[LeafOf(l.root, id)].id = id
         /\ Place(l, LeafOf(l.root, id)) \in Rects /\ Roomy(Place(l, LeafOf(l.root, id)))
         /\ AtLeastMinimum(Rect(l.root, LeafOf(l.root, id), l.width, l.height)) = Place(l, LeafOf(l.root, id))
<1> DEFINE p == LeafOf(l.root, id)
           r == Place(l, p)
<1>1. p \in Leaves(l.root) /\ l.root[p].id = id /\ p \in DOMAIN l.root
  BY Leaf DEF ProperLayout, Proper, Leaves
<1>2. r \in Rects /\ Roomy(r)
  BY <1>1, NodesHaveRoom
<1>3. r.width >= MinCols /\ r.height >= MinRows
  BY <1>2 DEF Roomy, Extent, Minimum, Directions
<1> HIDE DEF r
<1>4. Larger(r.width, MinCols) = r.width /\ Larger(r.height, MinRows) = r.height
  BY <1>2, <1>3, LayoutAssumption DEF Larger, Rects
<1>5. AtLeastMinimum(r) = [r EXCEPT !.width = r.width, !.height = r.height]
  BY <1>4 DEF AtLeastMinimum
<1>6. AtLeastMinimum(r) = r
  BY <1>2, <1>5 DEF Rects
<1> QED
  BY <1>1, <1>2, <1>6 DEF r, Place

\* The window as resolve shows it, with no pane zoomed.
LEMMA ResolvedInPlace ==
  ASSUME NEW l, ProperLayout(l), Fits(l), l.zoomed = NoPane
  PROVE  Resolve(l) = [id \in Ids(l.root) |-> Place(l, LeafOf(l.root, id))]
<1>1. Resolve(l) = [id \in Ids(l.root) |-> AtLeastMinimum(Rect(l.root, LeafOf(l.root, id), l.width, l.height))]
  BY DEF Resolve
<1>2. \A id \in Ids(l.root) :
        AtLeastMinimum(Rect(l.root, LeafOf(l.root, id), l.width, l.height)) = Place(l, LeafOf(l.root, id))
  BY ShownInPlace
<1> QED
  BY <1>1, <1>2

\* navigate answers the pane itself, or the nearest of those that begin later and share a
\* line across, or the one that ends last of those that begin and end earlier and share one.
LEMMA NearestNeighbour ==
  ASSUME NEW l, ProperLayout(l), Fits(l), l.zoomed = NoPane, NEW from \in Ids(l.root),
         NEW d \in Directions, NEW o \in Directions \ {d}
  PROVE  LET R(id) == Place(l, LeafOf(l.root, id))
             to == Neighbour(l, from, d)
             after == {id \in Ids(l.root) \ {from} : Low(R(id), d) > Low(R(from), d) /\ Meets(R(from), R(id), o)}
             before == {id \in Ids(l.root) \ {from} : /\ High(R(id), d) < High(R(from), d)
                                                      /\ Low(R(id), d) < Low(R(from), d)
                                                      /\ Meets(R(from), R(id), o)}
         IN  \/ to = from
             \/ /\ to \in after
                /\ \A id \in after : Monus(Low(R(to), d), High(R(from), d)) <= Monus(Low(R(id), d), High(R(from), d))
             \/ /\ to \in before
                /\ \A id \in before : High(R(to), d) >= High(R(id), d)
<1> DEFINE t == l.root
           R(id) == Place(l, LeafOf(t, id))
           geoms == Resolve(l)
           others == DOMAIN geoms \ {from}
           Start(id) == IF d = "vertical" THEN geoms[id].x ELSE geoms[id].y
           End(id) == Start(id) + Extent(geoms[id], d)
           end == [id \in others |-> End(id)]
           gap == [id \in others |-> Monus(Start(id), End(from))]
           Beside(id) == IF d = "vertical" THEN OverlapsVertically(geoms[from], geoms[id])
                         ELSE OverlapsHorizontally(geoms[from], geoms[id])
           after == {id \in others : Start(id) > Start(from) /\ Beside(id)}
           before == {id \in others : End(id) < End(from) /\ Start(id) < Start(from) /\ Beside(id)}
           A == {id \in Ids(t) \ {from} : Low(R(id), d) > Low(R(from), d) /\ Meets(R(from), R(id), o)}
           B == {id \in Ids(t) \ {from} : /\ High(R(id), d) < High(R(from), d)
                                          /\ Low(R(id), d) < Low(R(from), d)
                                          /\ Meets(R(from), R(id), o)}
           to == Neighbour(l, from, d)
<1>1. Neighbour(l, from, d)
        = IF from \notin DOMAIN geoms THEN from
          ELSE IF after # {} THEN MinBy(t, after, gap)
          ELSE IF before # {} THEN MaxBy(t, before, end)
          ELSE from
  BY DEF Neighbour
<1>2. geoms = [id \in Ids(t) |-> R(id)]
  BY ResolvedInPlace
<1>3. DOMAIN geoms = Ids(t) /\ \A id \in Ids(t) : geoms[id] = R(id) /\ R(id) \in Rects
  BY <1>2, ShownInPlace
<1> HIDE DEF geoms, R
<1>4. \A id \in Ids(t) : Start(id) = Low(R(id), d) /\ End(id) = High(R(id), d)
  BY <1>3 DEF Low, High
<1>5. \A id \in Ids(t) : Beside(id) <=> Meets(R(from), R(id), o)
  BY <1>3 DEF Meets, OverlapsVertically, OverlapsHorizontally, Low, High, Extent, Directions
<1>6. after = A /\ before = B /\ others = Ids(t) \ {from}
  BY <1>3, <1>4, <1>5
<1>7. \A id \in Ids(t) : Low(R(id), d) \in Nat /\ High(R(id), d) \in Nat
  BY <1>3 DEF Low, High, Extent, Rects
<1>8. \A id \in others : gap[id] = Monus(Low(R(id), d), High(R(from), d)) /\ end[id] = High(R(id), d)
  BY <1>4, <1>6
<1> HIDE DEF Start, End, Beside, after, before
<1>9. \A id \in others : gap[id] \in Int /\ end[id] \in Int
  BY <1>6, <1>7, <1>8 DEF Monus
<1>10. A \in SUBSET Ids(t) /\ B \in SUBSET Ids(t) /\ A \subseteq others /\ B \subseteq others /\ Proper(t)
  BY <1>6 DEF ProperLayout
<1> HIDE DEF others, gap, end, A, B
<1>11. CASE A # {}
  <2>1. to = MinBy(t, A, gap)
    BY <1>1, <1>3, <1>6, <1>11
  <2> HIDE DEF to
  <2>2. to \in A /\ \A id \in A : gap[to] <= gap[id]
    BY <1>9, <1>10, <1>11, <2>1, NearestExists
  <2>3. \A id \in A : Monus(Low(R(to), d), High(R(from), d)) <= Monus(Low(R(id), d), High(R(from), d))
    BY <1>8, <1>10, <2>2
  <2> QED
    BY <2>2, <2>3 DEF A, to, R
<1>12. CASE A = {} /\ B # {}
  <2>1. to = MaxBy(t, B, end)
    BY <1>1, <1>3, <1>6, <1>12
  <2> HIDE DEF to
  <2>2. to \in B /\ \A id \in B : end[to] >= end[id]
    BY <1>9, <1>10, <1>12, <2>1, NearestExists
  <2>3. \A id \in B : High(R(to), d) >= High(R(id), d)
    BY <1>8, <1>10, <2>2
  <2> QED
    BY <2>2, <2>3 DEF B, to, R
<1>13. CASE A = {} /\ B = {}
  BY <1>1, <1>3, <1>6, <1>13
<1> QED
  BY <1>11, <1>12, <1>13

\* Disjoint rectangles that share a line across are one before the other along it.
LEMMA DisjointAlong ==
  ASSUME NEW a \in Rects, NEW b \in Rects, Disjoint(a, b), NEW d \in Directions, NEW o \in Directions \ {d},
         Meets(a, b, o)
  PROVE  High(a, d) < Low(b, d) \/ High(b, d) < Low(a, d)
BY DEF Disjoint, Meets, Low, High, Extent, Rects, Directions

\* A neighbour is across a border: the pane across the border is one of those compared, and
\* none of them is nearer.
LEMMA NeighbourIsAcross ==
  ASSUME MinCols >= 2, MinRows >= 2,
         NEW l, ProperLayout(l), Fits(l), l.zoomed = NoPane, NEW from \in Ids(l.root), NEW d \in Directions,
         Neighbour(l, from, d) # from
  PROVE  LET a == Place(l, LeafOf(l.root, from))
             b == Place(l, LeafOf(l.root, Neighbour(l, from, d)))
         IN  Low(b, d) = High(a, d) + 1 \/ Low(a, d) = High(b, d) + 1
<1> DEFINE t == l.root
           R(id) == Place(l, LeafOf(t, id))
           to == Neighbour(l, from, d)
<1>1. PICK o \in Directions : o # d
  BY DEF Directions
<1> DEFINE after == {id \in Ids(t) \ {from} : Low(R(id), d) > Low(R(from), d) /\ Meets(R(from), R(id), o)}
           before == {id \in Ids(t) \ {from} : /\ High(R(id), d) < High(R(from), d)
                                               /\ Low(R(id), d) < Low(R(from), d)
                                               /\ Meets(R(from), R(id), o)}
<1>2. \/ /\ to \in after
         /\ \A id \in after : Monus(Low(R(to), d), High(R(from), d)) <= Monus(Low(R(id), d), High(R(from), d))
      \/ /\ to \in before
         /\ \A id \in before : High(R(to), d) >= High(R(id), d)
  BY <1>1, NearestNeighbour
<1>3. Minimum(o) >= 2 /\ o \in Directions \ {d}
  BY <1>1 DEF Minimum
<1>4. \A id \in Ids(t) : LeafOf(t, id) \in Leaves(t) /\ t[LeafOf(t, id)].id = id /\ R(id) \in Rects
  BY ShownInPlace
<1>5. \A c \in Leaves(t) : t[c].id \in Ids(t) /\ LeafOf(t, t[c].id) = c /\ R(t[c].id) = Place(l, c)
  BY Leaf DEF ProperLayout, Proper
<1>6. \A id \in Ids(t) : /\ Low(R(id), d) \in Nat /\ Extent(R(id), d) \in Nat
                         /\ High(R(id), d) = Low(R(id), d) + Extent(R(id), d)
  <2> HIDE DEF R
  <2> QED
    BY <1>4 DEF Low, High, Extent, Rects
<1>7. to \in Ids(t) /\ from \in Ids(t) /\ Meets(R(from), R(to), o)
  BY <1>2
<1>8. High(R(from), d) < Low(R(to), d) \/ High(R(to), d) < Low(R(from), d)
  <2>1. LeafOf(t, from) # LeafOf(t, to)
    BY <1>4, <1>7
  <2>2. Disjoint(R(from), R(to))
    BY <1>4, <1>7, <2>1, PanesDisjoint DEF Place
  <2> HIDE DEF R, to
  <2> QED
    BY <1>3, <1>4, <1>7, <2>2, DisjointAlong
<1> HIDE DEF to
<1>9. CASE to \in after /\ \A id \in after : Monus(Low(R(to), d), High(R(from), d)) <= Monus(Low(R(id), d), High(R(from), d))
  <2>1. \E c \in Leaves(t) : Cut(Place(l, c), d, 3 - 1) = Cut(R(from), d, 1) /\ Meets(R(from), Place(l, c), o)
    <3>1. IF 1 = 1 THEN Low(R(from), d) < Low(R(to), d) ELSE Low(R(to), d) < Low(R(from), d)
      BY <1>6, <1>7, <1>9
    <3>2. 1 \in Turns
      BY DEF Turns
    <3> QED
      BY <1>3, <1>4, <1>7, <3>1, <3>2, PaneAcross
  <2>2. PICK c \in Leaves(t) : Low(Place(l, c), d) = High(R(from), d) + 1 /\ Meets(R(from), Place(l, c), o)
    BY <2>1 DEF Cut
  <2>3. PICK id \in Ids(t) : R(id) = Place(l, c)
    BY <1>5
  <2> HIDE DEF R
  <2>4. Low(R(id), d) = High(R(from), d) + 1 /\ Meets(R(from), R(id), o)
    BY <2>2, <2>3
  <2>5. id \in after
    BY <1>6, <2>4
  <2>6. Monus(Low(R(to), d), High(R(from), d)) <= Monus(Low(R(id), d), High(R(from), d))
    BY <1>9, <2>5
  <2>7. Low(R(to), d) > Low(R(from), d)
    BY <1>9
  <2>8. Low(R(to), d) = High(R(from), d) + 1
    BY <1>6, <1>7, <1>8, <2>4, <2>6, <2>7 DEF Monus
  <2> QED
    BY <2>8 DEF R, to
<1>10. CASE to \in before /\ \A id \in before : High(R(to), d) >= High(R(id), d)
  <2>1. \E c \in Leaves(t) : Cut(Place(l, c), d, 3 - 2) = Cut(R(from), d, 2) /\ Meets(R(from), Place(l, c), o)
    <3>1. IF 2 = 1 THEN Low(R(from), d) < Low(R(to), d) ELSE Low(R(to), d) < Low(R(from), d)
      BY <1>6, <1>7, <1>10
    <3>2. 2 \in Turns
      BY DEF Turns
    <3> QED
      BY <1>3, <1>4, <1>7, <3>1, <3>2, PaneAcross
  <2>2. PICK c \in Leaves(t) : High(Place(l, c), d) + 1 = Low(R(from), d) /\ Meets(R(from), Place(l, c), o)
    BY <2>1 DEF Cut
  <2>3. PICK id \in Ids(t) : R(id) = Place(l, c)
    BY <1>5
  <2> HIDE DEF R
  <2>4. High(R(id), d) + 1 = Low(R(from), d) /\ Meets(R(from), R(id), o)
    BY <2>2, <2>3
  <2>5. id \in before
    BY <1>6, <2>4
  <2>6. High(R(to), d) >= High(R(id), d)
    BY <1>10, <2>5
  <2>7. Low(R(to), d) < Low(R(from), d)
    BY <1>10
  <2>8. Low(R(from), d) = High(R(to), d) + 1
    BY <1>6, <1>7, <1>8, <2>4, <2>6, <2>7
  <2> QED
    BY <2>8 DEF R, to
<1> QED
  BY <1>2, <1>9, <1>10

\* In a tree that fits, a move leads across one border: nothing lies between, and no pane is
\* jumped over. With a minimum of one line a pane could end up facing a border's end.
THEOREM NavigationIsAlwaysAdjacent ==
  ASSUME MinCols >= 2, MinRows >= 2
  PROVE  Spec => []NavigationIsAdjacent
<1>1. Sound => NavigationIsAdjacent
  <2> SUFFICES ASSUME Sound, Fits(layout), layout.zoomed = NoPane, NEW id \in Ids(Tree), NEW dir \in Directions,
                      Neighbour(layout, id, dir) # id
               PROVE  LET a == Resolve(layout)[id]
                          b == Resolve(layout)[Neighbour(layout, id, dir)]
                      IN  IF dir = "vertical"
                          THEN b.x = a.x + a.width + 1 \/ a.x = b.x + b.width + 1
                          ELSE b.y = a.y + a.height + 1 \/ a.y = b.y + b.height + 1
    BY DEF NavigationIsAdjacent
  <2> PICK l : l = layout
    OBVIOUS
  <2>1. ProperLayout(l) /\ Fits(l) /\ l.zoomed = NoPane /\ id \in Ids(l.root) /\ Neighbour(l, id, dir) # id
    BY DEF Sound, Tree
  <2> DEFINE to == Neighbour(l, id, dir)
             a == Place(l, LeafOf(l.root, id))
             b == Place(l, LeafOf(l.root, to))
  <2>2. to \in Ids(l.root)
    BY <2>1, NeighbourIsPane
  <2>3. Low(b, dir) = High(a, dir) + 1 \/ Low(a, dir) = High(b, dir) + 1
    BY <2>1, NeighbourIsAcross
  <2>4. Resolve(l)[id] = a /\ Resolve(l)[to] = b
    BY <2>1, <2>2, ResolvedInPlace
  <2> HIDE DEF a, b, to
  <2>5. IF dir = "vertical"
        THEN b.x = a.x + a.width + 1 \/ a.x = b.x + b.width + 1
        ELSE b.y = a.y + a.height + 1 \/ a.y = b.y + b.height + 1
    BY <2>3 DEF Low, High, Extent
  <2> QED
    BY <2>4, <2>5 DEF to
<1> QED
  BY <1>1, InitSound, StepKeepsSound, PTL DEF Spec

-----------------------------------------------------------------------------
(* Sums over finite sets. *)

\* Among some subsets of a finite set there is one that has no other of them in it.
LEMMA SmallestSubset ==
  ASSUME NEW S, IsFiniteSet(S), NEW B \in SUBSET SUBSET S, B # {}
  PROVE  \E X \in B : \A Y \in B : Y \subseteq X => Y = X
<1>1. B \subseteq FiniteSubsetsOf(S)
  <2> SUFFICES ASSUME NEW T \in B PROVE T \in SUBSET S /\ IsFiniteSet(T)
    BY DEF FiniteSubsetsOf
  <2> QED
    BY FS_Subset
<1>2. IsWellFoundedOn(StrictSubsetOrdering(S), FiniteSubsetsOf(S))
  BY FS_StrictSubsetOrderingWellFounded
<1>3. PICK X \in B : \A Y \in B : ~(<<Y, X>> \in StrictSubsetOrdering(S))
  BY <1>1, <1>2, WFMin
<1> QED
  BY <1>3 DEF StrictSubsetOrdering

\* A set of subsets that has the empty one and, with a subset, the same with one element
\* more, has them all.
LEMMA SubsetInduction ==
  ASSUME NEW S, IsFiniteSet(S), NEW G, {} \in G,
         \A T \in SUBSET S, x \in S : T \in G /\ x \notin T => T \cup {x} \in G
  PROVE  \A T \in SUBSET S : T \in G
<1> DEFINE B == {T \in SUBSET S : T \notin G}
<1> SUFFICES ASSUME B # {} PROVE FALSE
  OBVIOUS
<1>1. B \in SUBSET SUBSET S
  OBVIOUS
<1> HIDE DEF B
<1>2. PICK X \in B : \A Y \in B : Y \subseteq X => Y = X
  BY <1>1, SmallestSubset
<1> USE DEF B
<1>3. PICK x \in X : x \in S
  OBVIOUS
<1>4. X \ {x} \in SUBSET S /\ x \notin X \ {x} /\ (X \ {x}) \cup {x} = X
  BY <1>3
<1>5. X \ {x} \notin G
  BY <1>3, <1>4
<1> QED
  BY <1>2, <1>4, <1>5

\* The sums of w over the subsets of S, added up in the order of CHOOSE.
Some(s) == CHOOSE x \in s : TRUE
Sums(w, S, g) == g = [s \in SUBSET S |-> IF s = {} THEN 0 ELSE w[Some(s)] + g[s \ {Some(s)}]]

\* There are such sums: those over n elements give those over one more.
LEMMA SumsExist ==
  ASSUME NEW S, IsFiniteSet(S), NEW w
  PROVE  \E g : Sums(w, S, g)
<1> DEFINE L(n) == {s \in SUBSET S : Cardinality(s) <= n}
           Def(g, n) == g = [s \in L(n) |-> IF s = {} THEN 0 ELSE w[Some(s)] + g[s \ {Some(s)}]]
           N == {n \in Nat : \E g : Def(g, n)}
<1>1. \A s \in SUBSET S : IsFiniteSet(s) /\ Cardinality(s) \in Nat
  BY FS_Subset, FS_CardinalityType
<1>2. \A s \in SUBSET S : s # {} =>
        /\ Some(s) \in s /\ s \ {Some(s)} \in SUBSET S
        /\ Cardinality(s \ {Some(s)}) = Cardinality(s) - 1
  BY <1>1, FS_RemoveElement DEF Some
<1>3. 0 \in N
  <2> DEFINE g == [s \in L(0) |-> IF s = {} THEN 0 ELSE w[Some(s)] + 0]
  <2>1. \A s \in L(0) : s = {}
    BY <1>1, FS_EmptySet
  <2>2. Def(g, 0)
    BY <2>1
  <2> HIDE DEF g, Def
  <2> QED
    BY <2>2
<1>4. ASSUME NEW n \in N
      PROVE  n + 1 \in N
  <2>1. PICK f : Def(f, n)
    OBVIOUS
  <2> DEFINE g == [s \in L(n + 1) |-> IF s = {} THEN 0 ELSE w[Some(s)] + f[s \ {Some(s)}]]
  <2>2. L(n) \subseteq L(n + 1)
    BY <1>1
  <2>3. ASSUME NEW s \in L(n)
        PROVE  g[s] = f[s]
    BY <2>1, <2>2
  <2>4. ASSUME NEW s \in L(n + 1), s # {}
        PROVE  s \ {Some(s)} \in L(n)
    BY <2>4, <1>1, <1>2
  <2>5. ASSUME NEW s \in L(n + 1), s # {}
        PROVE  g[s \ {Some(s)}] = f[s \ {Some(s)}]
    BY <2>3, <2>4, <2>5
  <2>6. Def(g, n + 1)
    <3> HIDE DEF L
    <3> QED
      BY <2>5
  <2> HIDE DEF g, Def
  <2> QED
    BY <2>6
<1>5. Cardinality(S) \in N
  <2> DEFINE M == {n \in Nat : n \notin N}
  <2> HIDE DEF N
  <2> SUFFICES ASSUME Cardinality(S) \notin N PROVE FALSE
    OBVIOUS
  <2>1. M # {}
    BY <1>1
  <2>2. PICK n \in M : \A m \in M : n <= m
    BY <2>1, LeastNumber
  <2>3. n # 0
    BY <1>3
  <2>4. n - 1 \in Nat /\ ~(n <= n - 1)
    BY <2>3
  <2>5. n - 1 \in N
    BY <2>2, <2>4
  <2>6. n \in N
    BY <1>4, <2>4, <2>5
  <2> QED
    BY <2>6
<1>6. L(Cardinality(S)) = SUBSET S
  BY <1>1, FS_Subset
<1> QED
  BY <1>5, <1>6 DEF Sums

\* A sum does not depend on the order: one element more adds what it counts for.
LEMMA SumsAdd ==
  ASSUME NEW S, IsFiniteSet(S), NEW w, \A x \in S : w[x] \in Nat, NEW g, Sums(w, S, g)
  PROVE  /\ g[{}] = 0 /\ \A T \in SUBSET S : g[T] \in Nat
         /\ \A T \in SUBSET S, x \in S : x \notin T => g[T \cup {x}] = g[T] + w[x]
<1> DEFINE Good(T) == g[T] \in Nat /\ \A x \in T : g[T] = g[T \ {x}] + w[x] /\ g[T \ {x}] \in Nat
<1>1. \A T \in SUBSET S : g[T] = IF T = {} THEN 0 ELSE w[Some(T)] + g[T \ {Some(T)}]
  BY DEF Sums
<1>2. g[{}] = 0
  BY <1>1
<1>3. \A T \in SUBSET S : T # {} => Some(T) \in T
  BY DEF Some
<1>4. ASSUME NEW T \in SUBSET S, \A U \in SUBSET T : U # T => Good(U)
      PROVE  Good(T)
  <2>1. CASE T = {}
    BY <2>1, <1>2
  <2>2. CASE T # {}
    <3> DEFINE c == Some(T)
    <3>1. c \in T /\ c \in S /\ g[T] = w[c] + g[T \ {c}]
      BY <2>2, <1>1, <1>3
    <3> HIDE DEF c
    <3>2. Good(T \ {c})
      BY <3>1, <1>4
    <3>3. g[T] \in Nat
      BY <3>1, <3>2
    <3>4. ASSUME NEW x \in T
          PROVE  g[T] = g[T \ {x}] + w[x] /\ g[T \ {x}] \in Nat
      <4>1. CASE x = c
        BY <4>1, <3>1, <3>2
      <4>2. CASE x # c
        <5>1. Good(T \ {x})
          BY <1>4
        <5>2. g[T \ {c}] = g[(T \ {c}) \ {x}] + w[x] /\ g[(T \ {c}) \ {x}] \in Nat
          BY <4>2, <3>2
        <5>3. g[T \ {x}] = g[(T \ {x}) \ {c}] + w[c] /\ g[T \ {x}] \in Nat
          BY <4>2, <3>1, <5>1
        <5>4. (T \ {x}) \ {c} = (T \ {c}) \ {x}
          OBVIOUS
        <5>5. w[x] \in Nat /\ w[c] \in Nat
          BY <3>1
        <5> HIDE DEF Good
        <5> QED
          BY <3>1, <5>2, <5>3, <5>4, <5>5
      <4> QED
        BY <4>1, <4>2
    <3> QED
      BY <3>3, <3>4
  <2> QED
    BY <2>1, <2>2
<1>5. \A T \in SUBSET S : Good(T)
  <2> DEFINE B == {T \in SUBSET S : ~Good(T)}
  <2> HIDE DEF Good
  <2> SUFFICES ASSUME B # {} PROVE FALSE
    OBVIOUS
  <2>1. B \in SUBSET SUBSET S
    OBVIOUS
  <2> HIDE DEF B
  <2>2. PICK T \in B : \A U \in B : U \subseteq T => U = T
    BY <2>1, SmallestSubset
  <2> USE DEF B
  <2>3. \A U \in SUBSET T : U # T => Good(U)
    BY <2>2
  <2> QED
    BY <2>3, <1>4
<1>6. ASSUME NEW T \in SUBSET S, NEW x \in S, x \notin T
      PROVE  g[T \cup {x}] = g[T] + w[x]
  <2>1. Good(T \cup {x}) /\ (T \cup {x}) \ {x} = T
    BY <1>5, <1>6
  <2> QED
    BY <2>1
<1> QED
  BY <1>2, <1>5, <1>6

-----------------------------------------------------------------------------
(* Panes and borders fill the window. *)

\* A tree has finitely many nodes: there are finitely many paths of bounded length.
LEMMA FinitelyManyNodes ==
  ASSUME NEW t, Proper(t)
  PROVE  IsFiniteSet(DOMAIN t)
<1> DEFINE F(n) == {p \in Paths : Len(p) <= n}
           B == {n \in Nat : ~IsFiniteSet(F(n))}
<1>1. IsFiniteSet(F(0))
  <2>1. F(0) \subseteq {<<>>}
    <3> SUFFICES ASSUME NEW p \in F(0) PROVE p = <<>>
      OBVIOUS
    <3>1. p \in Seq(Turns) /\ Len(p) = 0
      BY LenProperties DEF Paths
    <3> QED
      BY <3>1, EmptySeq
  <2>2. IsFiniteSet({<<>>})
    BY FS_Singleton
  <2> QED
    BY <2>1, <2>2, FS_Subset
<1>2. ASSUME NEW n \in Nat, IsFiniteSet(F(n))
      PROVE  IsFiniteSet(F(n + 1))
  <2> DEFINE T(e) == {Append(s, e) : s \in F(n)}
  <2>1. ASSUME NEW e \in Turns
        PROVE  IsFiniteSet(T(e))
    <3> DEFINE f == [s \in F(n) |-> Append(s, e)]
    <3>1. f \in Surjection(F(n), T(e))
      BY DEF Surjection
    <3> HIDE DEF f, T, F
    <3> QED
      BY <1>2, <3>1, FS_Surjection
  <2>2. F(n + 1) \subseteq {<<>>} \cup (T(1) \cup T(2))
    <3> SUFFICES ASSUME NEW p \in F(n + 1), p # <<>>
                 PROVE  p \in T(1) \/ p \in T(2)
      OBVIOUS
    <3>1. Front(p) \in Paths /\ Last(p) \in Turns /\ p = Append(Front(p), Last(p))
      BY Unstep
    <3>2. Len(p) = Len(Front(p)) + 1 /\ Len(Front(p)) \in Nat
      BY <3>1, Step, LenProperties DEF Paths
    <3>3. Front(p) \in F(n)
      BY <3>1, <3>2
    <3> QED
      BY <3>1, <3>3 DEF Turns
  <2> HIDE DEF T, F
  <2>3. IsFiniteSet({<<>>}) /\ IsFiniteSet(T(1)) /\ IsFiniteSet(T(2))
    <3>1. 1 \in Turns /\ 2 \in Turns
      BY DEF Turns
    <3> QED
      BY <2>1, <3>1, FS_Singleton
  <2>4. IsFiniteSet({<<>>} \cup (T(1) \cup T(2)))
    BY <2>3, FS_Union
  <2> QED
    BY <2>2, <2>4, FS_Subset
<1> HIDE DEF F
<1>3. \A n \in Nat : IsFiniteSet(F(n))
  <2> SUFFICES ASSUME B # {} PROVE FALSE
    OBVIOUS
  <2>1. PICK n \in B : \A m \in B : n <= m
    BY LeastNumber
  <2>2. n # 0
    BY <1>1
  <2>3. n - 1 \in Nat /\ ~(n <= n - 1) /\ (n - 1) + 1 = n
    BY <2>2
  <2>4. IsFiniteSet(F(n - 1))
    BY <2>1, <2>3
  <2>5. IsFiniteSet(F(n))
    BY <1>2, <2>3, <2>4
  <2> QED
    BY <2>5
<1>4. PICK n \in Nat : \A p \in DOMAIN t : Len(p) <= n
  BY DEF Proper
<1>5. DOMAIN t \subseteq F(n)
  BY <1>4 DEF F, Proper
<1> QED
  BY <1>3, <1>5, FS_Subset

\* A split's rectangle is made up of its children's and its border.
LEMMA SplitAddsUp ==
  ASSUME NEW l, ProperLayout(l), Fits(l), NEW s \in Splits(l.root)
  PROVE  /\ Area(Place(l, s)) \in Nat /\ BorderLength(l, s) \in Nat
         /\ Area(Place(l, Append(s, 1))) \in Nat /\ Area(Place(l, Append(s, 2))) \in Nat
         /\ Area(Place(l, s))
              = Area(Place(l, Append(s, 1))) + Area(Place(l, Append(s, 2))) + BorderLength(l, s)
<1> DEFINE dir == l.root[s].direction
           r == Place(l, s)
           a == Place(l, Append(s, 1))
           b == Place(l, Append(s, 2))
<1>1. /\ dir \in Directions /\ r \in Rects /\ a \in Rects /\ b \in Rects
      /\ Low(a, dir) = Low(r, dir) /\ High(b, dir) = High(r, dir)
      /\ Low(b, dir) = High(a, dir) + 1
      /\ \A d \in Directions \ {dir} : Extent(a, d) = Extent(r, d) /\ Extent(b, d) = Extent(r, d)
  BY SplitDivides
<1>2. BorderLength(l, s) = IF dir = "vertical" THEN r.height ELSE r.width
  BY DEF BorderLength, Place
<1> HIDE DEF r, a, b, dir
<1>3. \A m, n \in Nat : m * n \in Nat
  OBVIOUS
<1>4. \A m, n, k \in Nat : (m + n + 1) * k = m * k + n * k + k /\ k * (m + n + 1) = k * m + k * n + k
  OBVIOUS
<1>5. CASE dir = "vertical"
  <2>1. r.width = a.width + b.width + 1 /\ a.height = r.height /\ b.height = r.height
    BY <1>1, <1>5 DEF Low, High, Extent, Directions, Rects
  <2> QED
    BY <1>1, <1>2, <1>3, <1>4, <1>5, <2>1 DEF Area, Rects, r, a, b
<1>6. CASE dir = "horizontal"
  <2>1. r.height = a.height + b.height + 1 /\ a.width = r.width /\ b.width = r.width
    BY <1>1, <1>6 DEF Low, High, Extent, Directions, Rects
  <2> QED
    BY <1>1, <1>2, <1>3, <1>4, <1>6, <2>1 DEF Area, Rects, r, a, b
<1> QED
  BY <1>1, <1>5, <1>6 DEF Directions

\* The areas of a tree's leaves and the borders of its splits add up to the root's: one
\* split more takes its own area off what its children bring in.
LEMMA AreasAddUp ==
  ASSUME NEW l, ProperLayout(l), Fits(l),
         NEW g, Sums([p \in DOMAIN l.root |-> Area(Place(l, p))], DOMAIN l.root, g),
         NEW h, Sums([p \in Splits(l.root) |-> BorderLength(l, p)], Splits(l.root), h)
  PROVE  g[Leaves(l.root)] \in Nat /\ h[Splits(l.root)] \in Nat
         /\ g[Leaves(l.root)] + h[Splits(l.root)] = l.width * l.height
<1> DEFINE t == l.root
           D == DOMAIN t
           w == [p \in D |-> Area(Place(l, p))]
           b == [p \in Splits(t) |-> BorderLength(l, p)]
           Kids(S) == {Append(s, 1) : s \in S} \cup {Append(s, 2) : s \in S}
           Even(S) == g[Leaves(t) \cup S] = g[Leaves(t)] + h[S] + g[Kids(S)]
           G == {S \in SUBSET Splits(t) : Even(S)}
<1>1. IsFiniteSet(D) /\ IsFiniteSet(Splits(t)) /\ Splits(t) \subseteq D /\ Leaves(t) \subseteq D
  BY FinitelyManyNodes, FS_Subset DEF ProperLayout, Splits, Leaves
<1>2. D \subseteq Paths /\ Leaves(t) \cup Splits(t) = D /\ Leaves(t) \cap Splits(t) = {}
  BY DEF ProperLayout, Proper, Leaves, Splits
<1>3. Branching(t)
  BY <1>2, Branches DEF ProperLayout, Proper
<1>4. \A p \in D : w[p] \in Nat
  <2> SUFFICES ASSUME NEW p \in D PROVE Area(Place(l, p)) \in Nat
    OBVIOUS
  <2>1. Place(l, p) \in Rects
    BY NodesHaveRoom
  <2>2. \A m, n \in Nat : m * n \in Nat
    OBVIOUS
  <2> QED
    BY <2>1, <2>2 DEF Area, Rects
<1>5. \A p \in Splits(t) : b[p] \in Nat
  BY SplitAddsUp
<1>6. /\ g[{}] = 0 /\ \A T \in SUBSET D : g[T] \in Nat
      /\ \A T \in SUBSET D, x \in D : x \notin T => g[T \cup {x}] = g[T] + w[x]
  <2> HIDE DEF w, D
  <2>1. Sums(w, D, g)
    BY DEF w, D
  <2> QED
    BY <1>1, <1>4, <2>1, SumsAdd
<1>7. /\ h[{}] = 0 /\ \A T \in SUBSET Splits(t) : h[T] \in Nat
      /\ \A T \in SUBSET Splits(t), x \in Splits(t) : x \notin T => h[T \cup {x}] = h[T] + b[x]
  <2> HIDE DEF b, t
  <2>1. Sums(b, Splits(t), h)
    BY DEF b, t
  <2> QED
    BY <1>1, <1>5, <2>1, SumsAdd
<1>8. {} \in G
  <2>1. Kids({}) = {} /\ Leaves(t) \cup {} = Leaves(t) /\ Leaves(t) \in SUBSET D
    BY <1>1
  <2> HIDE DEF Kids, w, D
  <2>2. g[Leaves(t) \cup {}] = g[Leaves(t)] /\ g[Kids({})] = 0 /\ h[{}] = 0 /\ g[Leaves(t)] \in Nat
    BY <1>6, <1>7, <2>1
  <2>3. Even({})
    BY <2>2
  <2> QED
    BY <2>3
<1>9. ASSUME NEW S \in SUBSET Splits(t), NEW x \in Splits(t), S \in G, x \notin S
      PROVE  S \cup {x} \in G
  <2>1. Append(x, 1) \in D /\ Append(x, 2) \in D /\ Kids(S) \subseteq D /\ x \in D
    <3>1. \A s \in Splits(t), e \in Turns : Append(s, e) \in D
      BY <1>1, <1>2, <1>3 DEF Branching
    <3>2. 1 \in Turns /\ 2 \in Turns
      BY DEF Turns
    <3>3. \A k \in Kids(S) : k \in D
      BY <3>1, <3>2
    <3> HIDE DEF D, t, Kids
    <3> QED
      BY <1>1, <3>1, <3>2, <3>3
  <2>2. Kids(S \cup {x}) = (Kids(S) \cup {Append(x, 1)}) \cup {Append(x, 2)}
    BY DEF Turns
  <2>3. Append(x, 1) \notin Kids(S) /\ Append(x, 2) \notin Kids(S) /\ Append(x, 1) # Append(x, 2)
    <3>1. \A s \in S \cup {x}, e \in Turns : Front(Append(s, e)) = s /\ Last(Append(s, e)) = e
      BY <1>1, <1>2, Step
    <3>2. 1 \in Turns /\ 2 \in Turns /\ 1 # 2
      BY DEF Turns
    <3>3. \A k \in Kids(S) : Front(k) \in S
      BY <3>1, <3>2
    <3> HIDE DEF Kids
    <3>4. \A e \in Turns : Append(x, e) \notin Kids(S)
      BY <1>9, <3>1, <3>3
    <3> QED
      BY <3>1, <3>2, <3>4
  <2>4. Leaves(t) \cup (S \cup {x}) = (Leaves(t) \cup S) \cup {x} /\ x \notin Leaves(t) \cup S
        /\ Leaves(t) \cup S \in SUBSET D
    BY <1>1, <1>2, <1>9
  <2>5. /\ w[x] = w[Append(x, 1)] + w[Append(x, 2)] + b[x]
        /\ w[x] \in Nat /\ w[Append(x, 1)] \in Nat /\ w[Append(x, 2)] \in Nat /\ b[x] \in Nat
    BY <1>4, <1>5, <2>1, SplitAddsUp
  <2> HIDE DEF Kids, w, b, D
  <2>6. g[Leaves(t) \cup (S \cup {x})] = g[Leaves(t) \cup S] + w[x]
    BY <1>6, <2>1, <2>4
  <2>7. h[S \cup {x}] = h[S] + b[x]
    BY <1>7, <1>9
  <2>8. /\ Kids(S) \cup {Append(x, 1)} \in SUBSET D
        /\ g[Kids(S) \cup {Append(x, 1)}] = g[Kids(S)] + w[Append(x, 1)]
    BY <1>6, <2>1, <2>3
  <2>9. g[Kids(S \cup {x})] = g[Kids(S) \cup {Append(x, 1)}] + w[Append(x, 2)]
    BY <1>6, <2>1, <2>2, <2>3, <2>8
  <2>10. g[Kids(S)] \in Nat /\ g[Leaves(t)] \in Nat /\ g[Leaves(t) \cup S] \in Nat /\ h[S] \in Nat
    BY <1>1, <1>6, <1>7, <2>1, <2>4
  <2>11. g[Leaves(t) \cup S] = g[Leaves(t)] + h[S] + g[Kids(S)]
    BY <1>9
  <2>12. g[Leaves(t) \cup (S \cup {x})] = g[Leaves(t)] + h[S \cup {x}] + g[Kids(S \cup {x})]
    <3> DEFINE a == g[Leaves(t) \cup (S \cup {x})]
               k == g[Kids(S \cup {x})]
               j == g[Kids(S) \cup {Append(x, 1)}]
    <3>1. a = g[Leaves(t) \cup S] + w[x] /\ j = g[Kids(S)] + w[Append(x, 1)] /\ k = j + w[Append(x, 2)]
      BY <2>6, <2>8, <2>9
    <3> HIDE DEF a, j, k, t
    <3>2. a = g[Leaves(t)] + h[S \cup {x}] + k
      BY <2>5, <2>7, <2>10, <2>11, <3>1
    <3> QED
      BY <3>2 DEF a, k
  <2> QED
    BY <2>12
<1>10. Splits(t) \in G
  <2> HIDE DEF G
  <2>1. \A T \in SUBSET Splits(t) : T \in G
    BY <1>1, <1>8, <1>9, SubsetInduction
  <2> QED
    BY <2>1
<1>11. <<>> \in D /\ Kids(Splits(t)) = D \ {<<>>}
  <2>1. <<>> \in D
    BY <1>3 DEF Branching
  <2>2. \A s \in Splits(t), e \in Turns : Append(s, e) \in D /\ Append(s, e) # <<>>
    BY <1>1, <1>2, <1>3, Step DEF Branching
  <2>3. ASSUME NEW p \in D, p # <<>>
        PROVE  \E s \in Splits(t), e \in Turns : p = Append(s, e)
    <3>1. Front(p) \in Paths /\ Last(p) \in Turns /\ p = Append(Front(p), Last(p))
      BY <1>2, <2>3, Unstep
    <3>2. Front(p) \in Splits(t)
      BY <1>3, <3>1 DEF Branching
    <3> QED
      BY <3>1, <3>2
  <2>4. 1 \in Turns /\ 2 \in Turns /\ \A e \in Turns : e = 1 \/ e = 2
    BY DEF Turns
  <2>5. \A p \in Kids(Splits(t)) : p \in D /\ p # <<>>
    BY <2>2, <2>4
  <2>6. \A p \in D \ {<<>>} : p \in Kids(Splits(t))
    BY <2>3, <2>4
  <2> HIDE DEF D, Kids, t
  <2> QED
    BY <2>1, <2>5, <2>6
<1>12. w[<<>>] = l.width * l.height
  <2>1. Place(l, <<>>) = [x |-> 0, y |-> 0, width |-> l.width, height |-> l.height]
    BY RectRoot DEF Place
  <2> QED
    BY <1>11, <2>1 DEF Area
<1>13. g[D] = g[Kids(Splits(t))] + w[<<>>]
  <2> HIDE DEF w, D, Kids
  <2>1. (D \ {<<>>}) \cup {<<>>} = D /\ <<>> \notin D \ {<<>>} /\ D \ {<<>>} \in SUBSET D
    BY <1>11
  <2> QED
    BY <1>6, <1>11, <2>1
<1>14. Even(Splits(t))
  BY <1>10
<1> HIDE DEF w, D, Kids
<1>15. g[Kids(Splits(t))] \in Nat /\ g[Leaves(t)] \in Nat /\ h[Splits(t)] \in Nat /\ w[<<>>] \in Nat
  <2>1. Kids(Splits(t)) \in SUBSET D /\ Leaves(t) \in SUBSET D /\ Splits(t) \in SUBSET Splits(t)
    BY <1>1, <1>11
  <2> QED
    BY <1>4, <1>6, <1>7, <1>11, <2>1
<1>16. g[D] = g[Leaves(t)] + h[Splits(t)] + g[Kids(Splits(t))]
  BY <1>2, <1>14
<1> QED
  BY <1>12, <1>13, <1>15, <1>16

\* What MapThenSumSet computes are such sums, for the panes' areas and for the borders.
LEMMA AreasAreSums ==
  ASSUME NEW l, IsFiniteSet(Ids(l.root)), IsFiniteSet(Splits(l.root))
  PROVE  /\ \E g : /\ Sums([id \in Ids(l.root) |-> Area(Shown(l)[id])], Ids(l.root), g)
                   /\ MapThenSumSet(LAMBDA id : Area(Shown(l)[id]), Ids(l.root)) = g[Ids(l.root)]
         /\ \E h : /\ Sums([p \in Splits(l.root) |-> BorderLength(l, p)], Splits(l.root), h)
                   /\ MapThenSumSet(LAMBDA p : BorderLength(l, p), Splits(l.root)) = h[Splits(l.root)]
<1>1. \E g : /\ Sums([id \in Ids(l.root) |-> Area(Shown(l)[id])], Ids(l.root), g)
             /\ MapThenSumSet(LAMBDA id : Area(Shown(l)[id]), Ids(l.root)) = g[Ids(l.root)]
  <2> DEFINE S == Ids(l.root)
             w == [id \in S |-> Area(Shown(l)[id])]
             Is(g) == g = [s \in SUBSET S |->
                             IF s = {} THEN 0
                             ELSE Area(Shown(l)[CHOOSE x \in s : TRUE]) + g[s \ {CHOOSE x \in s : TRUE}]]
             it == CHOOSE g : Is(g)
  <2>1. ASSUME NEW s \in SUBSET S, s # {}
        PROVE  w[Some(s)] = Area(Shown(l)[CHOOSE x \in s : TRUE])
    BY <2>1 DEF Some
  <2>2. \A g : Is(g) <=> Sums(w, S, g)
    <3> HIDE DEF w, S
    <3> QED
      BY <2>1 DEF Sums, Some
  <2>3. \E g : Is(g)
    <3> HIDE DEF Is, w, S
    <3>1. IsFiniteSet(S)
      BY DEF S
    <3> QED
      BY <2>2, <3>1, SumsExist
  <2>4. Is(it)
    <3> HIDE DEF Is
    <3> QED
      BY <2>3
  <2>5. MapThenSumSet(LAMBDA id : Area(Shown(l)[id]), S) = it[S]
    BY DEF MapThenSumSet, MapThenFoldSet
  <2> HIDE DEF Is, it
  <2> QED
    BY <2>2, <2>4, <2>5
<1>2. \E h : /\ Sums([p \in Splits(l.root) |-> BorderLength(l, p)], Splits(l.root), h)
             /\ MapThenSumSet(LAMBDA p : BorderLength(l, p), Splits(l.root)) = h[Splits(l.root)]
  <2> DEFINE S == Splits(l.root)
             w == [p \in S |-> BorderLength(l, p)]
             Is(g) == g = [s \in SUBSET S |->
                             IF s = {} THEN 0
                             ELSE BorderLength(l, CHOOSE x \in s : TRUE) + g[s \ {CHOOSE x \in s : TRUE}]]
             it == CHOOSE g : Is(g)
  <2>1. ASSUME NEW s \in SUBSET S, s # {}
        PROVE  w[Some(s)] = BorderLength(l, CHOOSE x \in s : TRUE)
    BY <2>1 DEF Some
  <2>2. \A g : Is(g) <=> Sums(w, S, g)
    <3> HIDE DEF w, S
    <3> QED
      BY <2>1 DEF Sums, Some
  <2>3. \E g : Is(g)
    <3> HIDE DEF Is, w, S
    <3>1. IsFiniteSet(S)
      BY DEF S
    <3> QED
      BY <2>2, <3>1, SumsExist
  <2>4. Is(it)
    <3> HIDE DEF Is
    <3> QED
      BY <2>3
  <2>5. MapThenSumSet(LAMBDA p : BorderLength(l, p), S) = it[S]
    BY DEF MapThenSumSet, MapThenFoldSet
  <2> HIDE DEF Is, it
  <2> QED
    BY <2>2, <2>4, <2>5
<1> QED
  BY <1>1, <1>2

\* The panes' areas add up to what their leaves' do.
LEMMA PanesAreLeaves ==
  ASSUME NEW l, ProperLayout(l), Fits(l),
         NEW g, Sums([p \in DOMAIN l.root |-> Area(Place(l, p))], DOMAIN l.root, g),
         NEW f, Sums([id \in Ids(l.root) |-> Area(Shown(l)[id])], Ids(l.root), f)
  PROVE  f[Ids(l.root)] = g[Leaves(l.root)]
<1> DEFINE t == l.root
           D == DOMAIN t
           I == Ids(t)
           w == [p \in D |-> Area(Place(l, p))]
           v == [id \in I |-> Area(Shown(l)[id])]
           At(T) == {LeafOf(t, id) : id \in T}
           G == {T \in SUBSET I : f[T] = g[At(T)]}
<1>1. IsFiniteSet(D) /\ IsFiniteSet(I)
  BY FinitelyManyNodes DEF ProperLayout, Proper
<1>2. /\ \A id \in I : LeafOf(t, id) \in D /\ LeafOf(t, id) \in Leaves(t) /\ t[LeafOf(t, id)].id = id
      /\ \A p \in Leaves(t) : t[p].id \in I /\ LeafOf(t, t[p].id) = p
  BY Leaf DEF ProperLayout, Proper, Leaves
<1>3. \A p \in D : w[p] \in Nat
  <2> SUFFICES ASSUME NEW p \in D PROVE Area(Place(l, p)) \in Nat
    OBVIOUS
  <2>1. Place(l, p) \in Rects
    BY NodesHaveRoom
  <2>2. \A m, n \in Nat : m * n \in Nat
    OBVIOUS
  <2> QED
    BY <2>1, <2>2 DEF Area, Rects
<1>4. \A id \in I : v[id] = w[LeafOf(t, id)]
  <2>1. \A id \in I : Shown(l)[id] = Place(l, LeafOf(t, id))
    <3> DEFINE m == [l EXCEPT !.zoomed = NoPane]
    <3>1. m = LayoutTree(t, l.active, NoPane, l.width, l.height)
      BY Rebuilt
    <3>2. m.zoomed = NoPane /\ m.root = t /\ m.width = l.width /\ m.height = l.height
      BY <3>1 DEF LayoutTree
    <3> HIDE DEF m
    <3>3. Shown(l) = [id \in I |-> AtLeastMinimum(Rect(t, LeafOf(t, id), l.width, l.height))]
      BY <3>2 DEF Shown, Resolve, m
    <3> QED
      BY <3>3, ShownInPlace
  <2> QED
    BY <1>2, <2>1
<1>5. /\ g[{}] = 0 /\ \A T \in SUBSET D : g[T] \in Nat
      /\ \A T \in SUBSET D, x \in D : x \notin T => g[T \cup {x}] = g[T] + w[x]
  <2> HIDE DEF w, D
  <2>1. Sums(w, D, g)
    BY DEF w, D
  <2> QED
    BY <1>1, <1>3, <2>1, SumsAdd
<1>6. /\ f[{}] = 0
      /\ \A T \in SUBSET I, x \in I : x \notin T => f[T \cup {x}] = f[T] + v[x]
  <2> HIDE DEF v, I, w, D
  <2>1. Sums(v, I, f)
    BY DEF v, I
  <2>2. \A id \in I : v[id] \in Nat
    BY <1>2, <1>3, <1>4
  <2> QED
    BY <1>1, <2>1, <2>2, SumsAdd
<1> HIDE DEF v, w, D, I, t
<1>7. {} \in G
  <2>1. At({}) = {}
    OBVIOUS
  <2> QED
    BY <1>5, <1>6, <2>1
<1>8. ASSUME NEW T \in SUBSET I, NEW x \in I, T \in G, x \notin T
      PROVE  T \cup {x} \in G
  <2>1. At(T \cup {x}) = At(T) \cup {LeafOf(t, x)}
    OBVIOUS
  <2>2. LeafOf(t, x) \notin At(T) /\ At(T) \in SUBSET D /\ LeafOf(t, x) \in D
    BY <1>2, <1>8
  <2> HIDE DEF At
  <2>3. g[At(T \cup {x})] = g[At(T)] + w[LeafOf(t, x)]
    BY <1>5, <2>1, <2>2
  <2>4. f[T \cup {x}] = f[T] + v[x]
    BY <1>6, <1>8
  <2> QED
    BY <1>4, <1>8, <2>3, <2>4
<1>9. f[I] = g[At(I)]
  <2> HIDE DEF G
  <2>1. \A T \in SUBSET I : T \in G
    BY <1>1, <1>7, <1>8, SubsetInduction
  <2> QED
    BY <2>1 DEF G
<1>10. At(I) = Leaves(t)
  BY <1>2
<1> QED
  BY <1>9, <1>10 DEF I, t

\* A sound layout's panes and borders fill the window.
LEMMA SoundIsTiled == Sound => PanesTileTheWindow
<1> SUFFICES ASSUME Sound, Fits(layout)
             PROVE  MapThenSumSet(LAMBDA id : Area(Shown(layout)[id]), Ids(Tree))
                      + MapThenSumSet(LAMBDA p : BorderLength(layout, p), Splits(Tree))
                      = layout.width * layout.height
  BY SoundIsApart DEF PanesTileTheWindow
<1>1. PICK l : l = layout
  OBVIOUS
<1>2. ProperLayout(l) /\ Fits(l)
  BY <1>1 DEF Sound
<1>3. IsFiniteSet(DOMAIN l.root) /\ IsFiniteSet(Splits(l.root)) /\ IsFiniteSet(Ids(l.root))
  <2>1. Splits(l.root) \subseteq DOMAIN l.root
    BY DEF Splits
  <2> QED
    BY <1>2, <2>1, FinitelyManyNodes, FS_Subset DEF ProperLayout, Proper
<1>4. PICK f : /\ Sums([id \in Ids(l.root) |-> Area(Shown(l)[id])], Ids(l.root), f)
               /\ MapThenSumSet(LAMBDA id : Area(Shown(l)[id]), Ids(l.root)) = f[Ids(l.root)]
  BY <1>3, AreasAreSums
<1>5. PICK h : /\ Sums([p \in Splits(l.root) |-> BorderLength(l, p)], Splits(l.root), h)
               /\ MapThenSumSet(LAMBDA p : BorderLength(l, p), Splits(l.root)) = h[Splits(l.root)]
  BY <1>3, AreasAreSums
<1>6. PICK g : Sums([p \in DOMAIN l.root |-> Area(Place(l, p))], DOMAIN l.root, g)
  BY <1>3, SumsExist
<1>7. f[Ids(l.root)] + h[Splits(l.root)] = l.width * l.height
  BY <1>2, <1>4, <1>5, <1>6, PanesAreLeaves, AreasAddUp
<1>8. MapThenSumSet(LAMBDA id : Area(Shown(l)[id]), Ids(l.root))
        + MapThenSumSet(LAMBDA p : BorderLength(l, p), Splits(l.root)) = l.width * l.height
  BY <1>4, <1>5, <1>7
<1> QED
  BY <1>1, <1>8 DEF Tree

\* In a window in which every pane has its minimum, the panes and the borders between them
\* fill the window: resolve neither loses nor shares a cell.
THEOREM PanesAlwaysTileTheWindow == Spec => []PanesTileTheWindow
BY InitSound, StepKeepsSound, SoundIsTiled, PTL DEF Spec

-----------------------------------------------------------------------------
(* The cells between the panes. *)

\* A cell's place in a direction, the cell k further on in it, and the cells of a rectangle.
Pos(c, d) == IF d = "vertical" THEN c[1] ELSE c[2]
Beside(c, d, k) == IF d = "vertical" THEN <<c[1] + k, c[2]>> ELSE <<c[1], c[2] + k>>
Has(r, c) == \A d \in Directions : Low(r, d) <= Pos(c, d) /\ Pos(c, d) < High(r, d)
Window(l) == (0..(l.width - 1)) \X (0..(l.height - 1))

\* The cell is on the border of the split s.
OnLine(l, s, c) ==
  /\ Pos(c, l.root[s].direction) = High(Place(l, Append(s, 1)), l.root[s].direction)
  /\ \A o \in Directions \ {l.root[s].direction} :
       Low(Place(l, s), o) <= Pos(c, o) /\ Pos(c, o) < High(Place(l, s), o)

\* Inside and the window in these words.
LEMMA HasIsInside ==
  ASSUME NEW r \in Rects, NEW c \in Int \X Int
  PROVE  Inside(r, c[1], c[2]) <=> Has(r, c)
BY DEF Inside, Has, Low, High, Extent, Pos, Directions, Rects

\* The cells of the window are those of the root.
LEMMA WindowIsRoot ==
  ASSUME NEW l, ProperLayout(l), NEW c \in Int \X Int
  PROVE  c \in Window(l) <=> Has(Place(l, <<>>), c)
<1>1. Place(l, <<>>) = [x |-> 0, y |-> 0, width |-> l.width, height |-> l.height]
  BY RectRoot DEF Place
<1>2. l.width \in Nat /\ l.height \in Nat
  BY DEF ProperLayout
<1>3. Has(Place(l, <<>>), c) <=> 0 <= c[1] /\ c[1] < l.width /\ 0 <= c[2] /\ c[2] < l.height
  BY <1>1, <1>2 DEF Has, Low, High, Extent, Pos, Directions
<1> QED
  BY <1>2, <1>3 DEF Window

\* A cell of a split is a cell of one of its children or on its border.
LEMMA ChildOrBorder ==
  ASSUME NEW l, ProperLayout(l), Fits(l), NEW s \in Splits(l.root), NEW c \in Int \X Int, Has(Place(l, s), c)
  PROVE  (\E e \in Turns : Has(Place(l, Append(s, e)), c)) \/ OnLine(l, s, c)
<1> DEFINE dir == l.root[s].direction
           r == Place(l, s)
           a == Place(l, Append(s, 1))
           b == Place(l, Append(s, 2))
<1>1. /\ dir \in Directions /\ r \in Rects /\ a \in Rects /\ b \in Rects
      /\ Low(a, dir) = Low(r, dir) /\ High(b, dir) = High(r, dir)
      /\ Low(b, dir) = High(a, dir) + 1
      /\ \A d \in Directions \ {dir} : /\ Low(a, d) = Low(r, d) /\ Extent(a, d) = Extent(r, d)
                                       /\ Low(b, d) = Low(r, d) /\ Extent(b, d) = Extent(r, d)
  BY SplitDivides
<1>2. \A d \in Directions : /\ Pos(c, d) \in Int /\ Low(r, d) \in Int /\ High(r, d) \in Int
                            /\ Low(a, d) \in Int /\ High(a, d) \in Int
  <2> HIDE DEF a, b, r
  <2> QED
    BY <1>1 DEF Pos, Low, High, Extent, Rects
<1>3. \A d \in Directions \ {dir} : High(a, d) = High(r, d) /\ High(b, d) = High(r, d)
  BY <1>1 DEF High
<1>4. 1 \in Turns /\ 2 \in Turns
  BY DEF Turns
<1>5. Has(r, c)
  OBVIOUS
<1> HIDE DEF a, b, r, dir
<1>6. CASE Pos(c, dir) < High(a, dir)
  <2>1. Has(a, c)
    BY <1>1, <1>2, <1>3, <1>5, <1>6 DEF Has
  <2> QED
    BY <1>4, <2>1 DEF a
<1>7. CASE Pos(c, dir) > High(a, dir)
  <2>1. Has(b, c)
    BY <1>1, <1>2, <1>3, <1>5, <1>7 DEF Has
  <2> QED
    BY <1>4, <2>1 DEF b
<1>8. CASE Pos(c, dir) = High(a, dir)
  BY <1>5, <1>8 DEF OnLine, Has, a, r, dir
<1> QED
  BY <1>1, <1>2, <1>6, <1>7, <1>8

\* A cell of the window is in a pane or on the border of a split.
LEMMA PaneOrBorder ==
  ASSUME NEW l, ProperLayout(l), Fits(l), NEW c \in Window(l),
         \A s \in Splits(l.root) : ~OnLine(l, s, c)
  PROVE  \E p \in Leaves(l.root) : Has(Place(l, p), c)
<1> DEFINE B == {p \in DOMAIN l.root : Has(Place(l, p), c)}
<1>1. c \in Int \X Int
  BY DEF Window, ProperLayout
<1>2. <<>> \in B
  BY <1>1, WindowIsRoot DEF ProperLayout, Proper, IsTree
<1>3. ASSUME NEW s \in B \cap Splits(l.root)
      PROVE  \E e \in Turns : Append(s, e) \in B
  <2>1. PICK e \in Turns : Has(Place(l, Append(s, e)), c)
    BY <1>1, ChildOrBorder
  <2>2. Append(s, 1) \in DOMAIN l.root /\ Append(s, 2) \in DOMAIN l.root /\ (e = 1 \/ e = 2)
    BY SplitDivides DEF Turns
  <2> QED
    BY <2>1, <2>2
<1> HIDE DEF B
<1>4. B \in SUBSET DOMAIN l.root /\ B # {} /\ Proper(l.root)
  BY <1>2 DEF B, ProperLayout
<1>5. PICK p \in Leaves(l.root) : p \in B
  BY <1>3, <1>4, Descend
<1> QED
  BY <1>5 DEF B

\* Rectangles that are apart have no cell in common.
LEMMA NoCellTwice ==
  ASSUME NEW a \in Rects, NEW b \in Rects, Disjoint(a, b), NEW c \in Int \X Int
  PROVE  ~(Has(a, c) /\ Has(b, c))
BY DEF Disjoint, Has, Low, High, Extent, Pos, Directions, Rects

\* A rectangle within another has cells of the other only.
LEMMA WithinHas ==
  ASSUME NEW a \in Rects, NEW b \in Rects, Within(a, b), NEW c \in Int \X Int, Has(a, c)
  PROVE  Has(b, c)
BY DEF Within, Has, Low, High, Extent, Pos, Directions, Rects

\* The cells of a node are cells of the window.
LEMMA NodeInWindow ==
  ASSUME NEW l, ProperLayout(l), Fits(l), NEW p \in DOMAIN l.root, NEW c \in Int \X Int, Has(Place(l, p), c)
  PROVE  c \in Window(l)
<1>1. /\ <<>> \in DOMAIN l.root /\ p \in Paths /\ <<>> \o p = p /\ <<>> \in Paths
      /\ Place(l, <<>>) \in Rects /\ Place(l, p) \in Rects
  BY EmptySeq, ConcatEmptySeq, NodesHaveRoom DEF Paths, ProperLayout, Proper, IsTree
<1>2. IsPrefix(<<>>, <<>> \o p)
  BY <1>1, Way
<1>3. Within(Place(l, p), Place(l, <<>>))
  BY <1>1, <1>2, BelowIsWithin DEF Place
<1>4. Has(Place(l, <<>>), c)
  BY <1>1, <1>3, WithinHas
<1> QED
  BY <1>4, WindowIsRoot

\* A cell on the border of a split is one of the split's, none of its children's and in no pane.
LEMMA BorderIsEmpty ==
  ASSUME NEW l, ProperLayout(l), Fits(l), NEW s \in Splits(l.root), NEW c \in Int \X Int, OnLine(l, s, c)
  PROVE  /\ Has(Place(l, s), c) /\ c \in Window(l)
         /\ \A q \in Leaves(l.root) : ~Has(Place(l, q), c)
<1> DEFINE dir == l.root[s].direction
           r == Place(l, s)
           a == Place(l, Append(s, 1))
           b == Place(l, Append(s, 2))
<1>1. /\ dir \in Directions /\ r \in Rects /\ a \in Rects /\ b \in Rects
      /\ Low(a, dir) = Low(r, dir) /\ High(b, dir) = High(r, dir)
      /\ Low(b, dir) = High(a, dir) + 1
      /\ Extent(a, dir) >= Minimum(dir) /\ Extent(b, dir) >= Minimum(dir)
      /\ s \in DOMAIN l.root /\ s \in Paths
      /\ Append(s, 1) \in DOMAIN l.root /\ Append(s, 2) \in DOMAIN l.root
  BY SplitDivides
<1>2. Minimum(dir) \in Nat /\ Minimum(dir) > 0
  BY LayoutAssumption DEF Minimum
<1> HIDE DEF a, b, r, dir
<1>3. Has(r, c)
  <2>1. /\ Low(r, dir) \in Int /\ Extent(a, dir) \in Int /\ Extent(b, dir) \in Int
        /\ High(a, dir) = Low(a, dir) + Extent(a, dir) /\ High(b, dir) = Low(b, dir) + Extent(b, dir)
    BY <1>1 DEF Low, High, Extent, Rects
  <2>2. Pos(c, dir) = High(a, dir) /\ \A o \in Directions \ {dir} : Low(r, o) <= Pos(c, o) /\ Pos(c, o) < High(r, o)
    BY DEF OnLine, a, r, dir
  <2>3. Low(r, dir) <= Pos(c, dir) /\ Pos(c, dir) < High(r, dir)
    BY <1>1, <1>2, <2>1, <2>2
  <2> QED
    BY <2>2, <2>3 DEF Has
<1>4. ~Has(a, c) /\ ~Has(b, c)
  <2>1. Pos(c, dir) = High(a, dir) /\ High(a, dir) \in Int
    BY <1>1 DEF OnLine, a, dir, High, Low, Extent, Rects
  <2> QED
    BY <1>1, <2>1 DEF Has
<1>5. ASSUME NEW q \in Leaves(l.root), Has(Place(l, q), c)
      PROVE  FALSE
  <2>1. Proper(l.root) /\ q \in DOMAIN l.root /\ q \in Paths /\ q # s
    BY DEF Leaves, Splits, ProperLayout, Proper
  <2>2. Place(l, q) \in Rects
    BY <2>1, NodesHaveRoom
  <2>3. CASE IsPrefix(s, q)
    <3>1. PICK e \in Turns : IsPrefix(Append(s, e), q)
      BY <1>1, <2>1, <2>3, NextTurn
    <3>2. (e = 1 \/ e = 2) /\ Append(s, e) \in DOMAIN l.root
      BY <1>1 DEF Turns
    <3>3. Within(Place(l, q), Place(l, Append(s, e)))
      BY <2>1, <3>1, <3>2, BelowIsWithin DEF Place
    <3>4. Has(Place(l, Append(s, e)), c)
      BY <1>1, <1>5, <2>2, <3>2, <3>3, WithinHas DEF a, b
    <3> QED
      BY <1>4, <3>2, <3>4 DEF a, b
  <2>4. CASE ~IsPrefix(s, q)
    <3>1. ~IsPrefix(q, s)
      BY <1>1, <2>1, NeitherAbove
    <3>2. Disjoint(Place(l, s), Place(l, q))
      BY <1>1, <2>1, <2>4, <3>1, NodesDisjoint DEF Place
    <3> QED
      BY <1>1, <1>3, <1>5, <2>2, <3>2, NoCellTwice DEF r
  <2> QED
    BY <2>3, <2>4
<1>6. c \in Window(l)
  BY <1>1, <1>3, NodeInWindow DEF r
<1> QED
  BY <1>3, <1>5, <1>6 DEF r

\* A cell of the window that is in no pane.
Bare(l, c) == c \in Window(l) /\ \A q \in Leaves(l.root) : ~Has(Place(l, q), c)

\* The border a bare cell is on has the window on both sides and goes on along one of them.
LEMMA AlongTheBorder ==
  ASSUME MinCols >= 2, MinRows >= 2,
         NEW l, ProperLayout(l), Fits(l), NEW c, Bare(l, c)
  PROVE  \E d, o \in Directions : 
           /\ o # d /\ Beside(c, d, 1) \in Window(l) /\ Beside(c, d, -1) \in Window(l)
           /\ Bare(l, Beside(c, o, 1)) \/ Bare(l, Beside(c, o, -1))
<1>1. PICK s \in Splits(l.root) : OnLine(l, s, c)
  BY PaneOrBorder DEF Bare
<1>2. c \in Int \X Int
  BY DEF Bare, Window, ProperLayout
<1> DEFINE d == l.root[s].direction
           r == Place(l, s)
           a == Place(l, Append(s, 1))
           b == Place(l, Append(s, 2))
<1>3. /\ d \in Directions /\ r \in Rects /\ a \in Rects /\ b \in Rects
      /\ Low(a, d) = Low(r, d) /\ High(b, d) = High(r, d) /\ Low(b, d) = High(a, d) + 1
      /\ Extent(a, d) >= Minimum(d) /\ Extent(b, d) >= Minimum(d)
      /\ s \in DOMAIN l.root /\ s \in Paths
  BY SplitDivides
<1>4. \A e \in Directions : Minimum(e) \in Nat /\ Minimum(e) >= 2 /\ Extent(r, e) >= Minimum(e)
  BY <1>3, NodesHaveRoom, LayoutAssumption DEF Minimum, Roomy
<1>5. PICK o \in Directions : o # d /\ Directions = {d, o}
  BY <1>3 DEF Directions
<1> HIDE DEF a, b, r
<1>6. \A e \in Directions : /\ Low(r, e) \in Int /\ Extent(r, e) \in Int /\ High(r, e) = Low(r, e) + Extent(r, e)
                            /\ Low(a, e) \in Int /\ Extent(a, e) \in Int /\ High(a, e) = Low(a, e) + Extent(a, e)
                            /\ Low(b, e) \in Int /\ Extent(b, e) \in Int /\ High(b, e) = Low(b, e) + Extent(b, e)
  BY <1>3 DEF Low, High, Extent, Rects
<1>7. Pos(c, d) = High(a, d) /\ Low(r, o) <= Pos(c, o) /\ Pos(c, o) < High(r, o)
  BY <1>1, <1>5 DEF OnLine, a, r
<1> HIDE DEF d
<1>8. \A k \in Int : /\ \A e \in Directions : Beside(c, e, k) \in Int \X Int
                     /\ Pos(Beside(c, d, k), d) = Pos(c, d) + k /\ Pos(Beside(c, d, k), o) = Pos(c, o)
                     /\ Pos(Beside(c, o, k), o) = Pos(c, o) + k /\ Pos(Beside(c, o, k), d) = Pos(c, d)
                     /\ Pos(c, d) \in Int /\ Pos(c, o) \in Int
  <2> SUFFICES ASSUME NEW k \in Int
               PROVE  /\ \A e \in Directions : Beside(c, e, k) \in Int \X Int
                      /\ Pos(Beside(c, d, k), d) = Pos(c, d) + k /\ Pos(Beside(c, d, k), o) = Pos(c, o)
                      /\ Pos(Beside(c, o, k), o) = Pos(c, o) + k /\ Pos(Beside(c, o, k), d) = Pos(c, d)
                      /\ Pos(c, d) \in Int /\ Pos(c, o) \in Int
    OBVIOUS
  <2>1. d \in Directions /\ o \in Directions \ {d} /\ d \in Directions \ {o}
    BY <1>3, <1>5
  <2>2. \A e \in Directions : /\ Beside(c, e, k) \in Int \X Int /\ Pos(Beside(c, e, k), e) = Pos(c, e) + k
                              /\ Pos(c, e) \in Int
                              /\ \A f \in Directions \ {e} : Pos(Beside(c, e, k), f) = Pos(c, f)
    <3> SUFFICES ASSUME NEW e \in Directions
                 PROVE  /\ Beside(c, e, k) \in Int \X Int /\ Pos(Beside(c, e, k), e) = Pos(c, e) + k
                        /\ Pos(c, e) \in Int
                        /\ \A f \in Directions \ {e} : Pos(Beside(c, e, k), f) = Pos(c, f)
      OBVIOUS
    <3> QED
      BY <1>2 DEF Beside, Pos, Directions
  <2> QED
    BY <2>1, <2>2
<1>9. ASSUME NEW k \in {-1, 1}
      PROVE  Beside(c, d, k) \in Window(l)
  <2>1. /\ Pos(Beside(c, d, k), d) = Pos(c, d) + k /\ Pos(Beside(c, d, k), o) = Pos(c, o)
        /\ Pos(c, d) \in Int /\ Pos(c, o) \in Int /\ Beside(c, d, k) \in Int \X Int
    <3>1. k \in Int
      OBVIOUS
    <3> QED
      BY <1>3, <1>8, <3>1
  <2>2. Low(r, d) <= Pos(c, d) + k /\ Pos(c, d) + k < High(r, d)
    BY <1>3, <1>4, <1>6, <1>7, <2>1
  <2>3. Has(r, Beside(c, d, k))
    BY <1>5, <1>7, <2>1, <2>2 DEF Has
  <2> QED
    BY <1>3, <2>1, <2>3, NodeInWindow DEF r
<1>10. \E k \in {-1, 1} : Low(r, o) <= Pos(c, o) + k /\ Pos(c, o) + k < High(r, o)
  <2>1. Extent(r, o) >= 2
    BY <1>4, <1>6
  <2>2. CASE Pos(c, o) + 1 < High(r, o)
    BY <1>6, <1>7, <1>8, <2>2
  <2>3. CASE ~(Pos(c, o) + 1 < High(r, o))
    BY <1>6, <1>7, <1>8, <2>1, <2>3
  <2> QED
    BY <2>2, <2>3
<1>11. PICK k \in {-1, 1} : Low(r, o) <= Pos(c, o) + k /\ Pos(c, o) + k < High(r, o)
  BY <1>10
<1>12. Bare(l, Beside(c, o, k))
  <2>1. /\ Pos(Beside(c, o, k), o) = Pos(c, o) + k /\ Pos(Beside(c, o, k), d) = Pos(c, d)
        /\ Beside(c, o, k) \in Int \X Int
    <3>1. k \in Int
      OBVIOUS
    <3> QED
      BY <1>5, <1>8, <3>1
  <2>2. OnLine(l, s, Beside(c, o, k))
    BY <1>5, <1>7, <1>11, <2>1 DEF OnLine, a, r, d
  <2> QED
    BY <2>1, <2>2, BorderIsEmpty DEF Bare
<1> QED
  BY <1>3, <1>5, <1>9, <1>12

\* A cell is between two rectangles if its neighbours on the two sides are in them, and it
\* itself is in neither.
LEMMA BetweenTwo ==
  ASSUME NEW a \in Rects, NEW b \in Rects, Roomy(a), Roomy(b), NEW d \in Directions, NEW c \in Int \X Int,
         ~Has(a, c), ~Has(b, c)
  PROVE  Between(a, b, d, c[1], c[2]) <=> Has(a, Beside(c, d, -1)) /\ Has(b, Beside(c, d, 1))
<1>1. a.width > 0 /\ a.height > 0 /\ b.width > 0 /\ b.height > 0
  BY LayoutAssumption DEF Roomy, Extent, Minimum, Directions, Rects
<1>2. \A r \in Rects : \A e \in Int \X Int :
        Has(r, e) <=> /\ r.x <= e[1] /\ e[1] < r.x + r.width
                      /\ r.y <= e[2] /\ e[2] < r.y + r.height
  BY DEF Has, Low, High, Extent, Pos, Directions
<1>3. CASE d = "vertical"
  <2>1. \A k \in Int : Beside(c, d, k) = <<c[1] + k, c[2]>> /\ Beside(c, d, k) \in Int \X Int
    BY <1>3 DEF Beside
  <2>2. /\ Has(a, c) <=> /\ a.x <= c[1] /\ c[1] < a.x + a.width /\ a.y <= c[2] /\ c[2] < a.y + a.height
        /\ Has(b, c) <=> /\ b.x <= c[1] /\ c[1] < b.x + b.width /\ b.y <= c[2] /\ c[2] < b.y + b.height
        /\ Has(a, Beside(c, d, -1)) <=> /\ a.x <= c[1] - 1 /\ c[1] - 1 < a.x + a.width
                                        /\ a.y <= c[2] /\ c[2] < a.y + a.height
        /\ Has(b, Beside(c, d, 1)) <=> /\ b.x <= c[1] + 1 /\ c[1] + 1 < b.x + b.width
                                       /\ b.y <= c[2] /\ c[2] < b.y + b.height
    BY <1>2, <2>1
  <2>3. Between(a, b, d, c[1], c[2]) <=>
          /\ a.x + a.width + 1 = b.x /\ c[1] = a.x + a.width
          /\ a.y <= c[2] /\ b.y <= c[2] /\ c[2] < a.y + a.height /\ c[2] < b.y + b.height
    BY <1>3 DEF Between, Larger, Smaller, Rects
  <2> QED
    BY <1>1, <2>2, <2>3 DEF Rects
<1>4. CASE d = "horizontal"
  <2>1. \A k \in Int : Beside(c, d, k) = <<c[1], c[2] + k>> /\ Beside(c, d, k) \in Int \X Int
    BY <1>4 DEF Beside
  <2>2. /\ Has(a, c) <=> /\ a.x <= c[1] /\ c[1] < a.x + a.width /\ a.y <= c[2] /\ c[2] < a.y + a.height
        /\ Has(b, c) <=> /\ b.x <= c[1] /\ c[1] < b.x + b.width /\ b.y <= c[2] /\ c[2] < b.y + b.height
        /\ Has(a, Beside(c, d, -1)) <=> /\ a.x <= c[1] /\ c[1] < a.x + a.width
                                        /\ a.y <= c[2] - 1 /\ c[2] - 1 < a.y + a.height
        /\ Has(b, Beside(c, d, 1)) <=> /\ b.x <= c[1] /\ c[1] < b.x + b.width
                                       /\ b.y <= c[2] + 1 /\ c[2] + 1 < b.y + b.height
    BY <1>2, <2>1
  <2>3. Between(a, b, d, c[1], c[2]) <=>
          /\ a.y + a.height + 1 = b.y /\ c[2] = a.y + a.height
          /\ a.x <= c[1] /\ b.x <= c[1] /\ c[1] < a.x + a.width /\ c[1] < b.x + b.width
    BY <1>4 DEF Between, Larger, Smaller, Rects
  <2> QED
    BY <1>1, <2>2, <2>3 DEF Rects
<1> QED
  BY <1>3, <1>4 DEF Directions

\* Of some panes one comes before all the others.
LEMMA EarliestPane ==
  ASSUME NEW t, Proper(t), NEW ids \in SUBSET Ids(t), ids # {}
  PROVE  \E a \in ids : \A b \in ids \ {a} : Before(LeafOf(t, a), LeafOf(t, b))
<1> DEFINE R == {r \in ids \X ids : Before(LeafOf(t, r[1]), LeafOf(t, r[2]))}
<1>1. IsFiniteSet(ids)
  BY FS_Subset DEF Proper
<1>2. \A a \in ids : LeafOf(t, a) \in Leaves(t) /\ LeafOf(t, a) \in Paths /\ t[LeafOf(t, a)].id = a
  BY Leaf DEF Proper, Leaves
<1>3. \A a, b \in ids : <<a, b>> \in R <=> Before(LeafOf(t, a), LeafOf(t, b))
  OBVIOUS
<1>4. \A a \in ids : <<a, a>> \notin R
  <2> SUFFICES ASSUME NEW a \in ids, Before(LeafOf(t, a), LeafOf(t, a)) PROVE FALSE
    BY <1>3
  <2>1. PICK i \in DOMAIN LeafOf(t, a) : LeafOf(t, a)[i] < LeafOf(t, a)[i]
    BY DEF Before
  <2>2. LeafOf(t, a) \in Seq(Turns)
    BY <1>2 DEF Paths
  <2>3. LeafOf(t, a)[i] \in Turns
    BY <2>1, <2>2, ElementOfSeq, LenProperties
  <2> QED
    BY <2>1, <2>3 DEF Turns
<1>5. \A a, b, c \in ids : <<a, b>> \in R /\ <<b, c>> \in R => <<a, c>> \in R
  <2> SUFFICES ASSUME NEW a \in ids, NEW b \in ids, NEW c \in ids,
                      Before(LeafOf(t, a), LeafOf(t, b)), Before(LeafOf(t, b), LeafOf(t, c))
               PROVE  Before(LeafOf(t, a), LeafOf(t, c))
    BY <1>3
  <2> QED
    BY <1>2, BeforeIsTransitive
<1>6. \A a, b \in ids : a # b => <<a, b>> \in R \/ <<b, a>> \in R
  <2> SUFFICES ASSUME NEW a \in ids, NEW b \in ids, a # b
               PROVE  Before(LeafOf(t, a), LeafOf(t, b)) \/ Before(LeafOf(t, b), LeafOf(t, a))
    BY <1>3
  <2>1. LeafOf(t, a) # LeafOf(t, b)
    BY <1>2
  <2> QED
    BY <1>2, <2>1, BeforeIsTotal
<1> HIDE DEF R
<1>7. PICK a \in ids : \A b \in ids \ {a} : <<a, b>> \in R
  BY <1>1, <1>4, <1>5, <1>6, LeastElement
<1> QED
  BY <1>3, <1>7

\* Of some lines of one direction one is found first.
LEMMA FirstLine ==
  ASSUME NEW t, Proper(t), NEW d, NEW lines \in SUBSET [a : Ids(t), b : Ids(t), dir : {d}], lines # {}
  PROVE  \E p \in lines : \A q \in lines \ {p} : Precedes(t, p, q)
<1> DEFINE A == {p.a : p \in lines}
<1>1. A \in SUBSET Ids(t) /\ A # {}
  OBVIOUS
<1> HIDE DEF A
<1>2. PICK a \in A : \A x \in A \ {a} : Before(LeafOf(t, a), LeafOf(t, x))
  BY <1>1, EarliestPane
<1> DEFINE B == {p.b : p \in {q \in lines : q.a = a}}
<1>3. B \in SUBSET Ids(t) /\ B # {}
  BY <1>2 DEF A
<1> HIDE DEF B
<1>4. PICK b \in B : \A x \in B \ {b} : Before(LeafOf(t, b), LeafOf(t, x))
  BY <1>3, EarliestPane
<1>5. PICK p \in lines : p.a = a /\ p.b = b
  BY <1>4 DEF B
<1>6. ASSUME NEW q \in lines \ {p}
      PROVE  Precedes(t, p, q)
  <2>1. p = [a |-> p.a, b |-> p.b, dir |-> d] /\ q = [a |-> q.a, b |-> q.b, dir |-> d]
    OBVIOUS
  <2>2. CASE q.a # a
    <3>1. q.a \in A \ {a}
      BY <2>2 DEF A
    <3> QED
      BY <1>2, <1>5, <3>1 DEF Precedes
  <2>3. CASE q.a = a
    <3>1. q.b # b
      BY <1>5, <2>1, <2>3
    <3>2. q.b \in B \ {b}
      BY <2>3, <3>1 DEF B
    <3> QED
      BY <1>4, <1>5, <2>3, <3>2 DEF Precedes
  <2> QED
    BY <2>2, <2>3
<1> QED
  BY <1>6

\* In a tree that fits a bare cell is a drawn line where both of its sides have panes.
LEMMA LinesOfCell ==
  ASSUME MinCols >= 2, MinRows >= 2,
         NEW l, ProperLayout(l), Fits(l), NEW c, Bare(l, c),
         NEW d \in Directions, NEW o \in Directions \ {d},
         Beside(c, d, 1) \in Window(l), Beside(c, d, -1) \in Window(l),
         Bare(l, Beside(c, o, 1)) \/ Bare(l, Beside(c, o, -1))
  PROVE  LET R(id) == Place(l, LeafOf(l.root, id))
             lines == {p \in [a : Ids(l.root), b : Ids(l.root), dir : Directions] :
                         p.a # p.b /\ Between(R(p.a), R(p.b), p.dir, c[1], c[2])}
         IN  /\ \A p \in lines : p.dir = d
             /\ lines # {} <=> ~Bare(l, Beside(c, d, 1)) /\ ~Bare(l, Beside(c, d, -1))
<1> DEFINE t == l.root
           R(id) == Place(l, LeafOf(t, id))
           lines == {p \in [a : Ids(t), b : Ids(t), dir : Directions] :
                       p.a # p.b /\ Between(R(p.a), R(p.b), p.dir, c[1], c[2])}
<1>1. c \in Int \X Int
  BY DEF Bare, Window, ProperLayout
<1>2. \A id \in Ids(t) : R(id) \in Rects /\ Roomy(R(id)) /\ ~Has(R(id), c) /\ LeafOf(t, id) \in Leaves(t)
  BY ShownInPlace DEF Bare
<1>3. \A q \in Leaves(t) : t[q].id \in Ids(t) /\ R(t[q].id) = Place(l, q)
  BY Leaf DEF ProperLayout, Proper
<1>4. \A a, b \in Ids(t), e \in Directions :
        Between(R(a), R(b), e, c[1], c[2]) <=> Has(R(a), Beside(c, e, -1)) /\ Has(R(b), Beside(c, e, 1))
  <2> SUFFICES ASSUME NEW a \in Ids(t), NEW b \in Ids(t), NEW e \in Directions
               PROVE  Between(R(a), R(b), e, c[1], c[2])
                        <=> Has(R(a), Beside(c, e, -1)) /\ Has(R(b), Beside(c, e, 1))
    OBVIOUS
  <2> HIDE DEF R
  <2> QED
    BY <1>1, <1>2, BetweenTwo
<1>5. \A id \in Ids(t) : \A e : Has(R(id), e) => ~Bare(l, e)
  BY <1>2 DEF Bare
<1>6. ASSUME NEW p \in lines
      PROVE  p.dir = d /\ ~Bare(l, Beside(c, d, 1)) /\ ~Bare(l, Beside(c, d, -1))
  <2>1. p.a \in Ids(t) /\ p.b \in Ids(t) /\ p.dir \in Directions /\ Between(R(p.a), R(p.b), p.dir, c[1], c[2])
    OBVIOUS
  <2> HIDE DEF R, lines
  <2>2. ~Bare(l, Beside(c, p.dir, 1)) /\ ~Bare(l, Beside(c, p.dir, -1))
    BY <1>4, <1>5, <2>1
  <2>3. p.dir = d \/ p.dir = o
    BY <2>1 DEF Directions
  <2> QED
    BY <2>2, <2>3
<1>7. ASSUME ~Bare(l, Beside(c, d, 1)), ~Bare(l, Beside(c, d, -1))
      PROVE  lines # {}
  <2>1. PICK p \in Leaves(t) : Has(Place(l, p), Beside(c, d, -1))
    BY <1>7 DEF Bare
  <2>2. PICK q \in Leaves(t) : Has(Place(l, q), Beside(c, d, 1))
    BY <1>7 DEF Bare
  <2> DEFINE a == t[p].id
             b == t[q].id
  <2>3. a \in Ids(t) /\ b \in Ids(t) /\ R(a) = Place(l, p) /\ R(b) = Place(l, q)
    BY <1>3
  <2> HIDE DEF R, a, b
  <2>4. Between(R(a), R(b), d, c[1], c[2])
    BY <1>4, <2>1, <2>2, <2>3
  <2>5. \A r \in Rects : ~Between(r, r, d, c[1], c[2])
    BY DEF Between, Rects
  <2>6. a # b
    BY <1>2, <2>3, <2>4, <2>5
  <2>7. [a |-> a, b |-> b, dir |-> d] \in lines
    BY <2>3, <2>4, <2>6
  <2> QED
    BY <2>7
<1> QED
  BY <1>6, <1>7

\* What hit_test says of a cell above the status bar and in no pane.
LEMMA HitBorder ==
  ASSUME NEW l, NEW x, NEW y, NEW height, ~(height > 0 /\ y >= height - 1),
         {id \in DOMAIN Resolve(l) : Inside(Resolve(l)[id], x, y)} = {},
         NEW lines, lines = {p \in [a : DOMAIN Resolve(l), b : DOMAIN Resolve(l), dir : Directions] :
                               p.a # p.b /\ Between(Resolve(l)[p.a], Resolve(l)[p.b], p.dir, x, y)}
  PROVE  LET line == CHOOSE p \in lines : \A q \in lines \ {p} : Precedes(l.root, p, q)
         IN  HitTest(l, x, y, height)
               = IF lines # {} THEN OnBorder(line.dir, IF line.dir = "vertical" THEN x ELSE y) ELSE NoTarget
BY DEF HitTest

\* In a tree that fits a border's cell is grabbed as the line it is drawn as.
LEMMA BorderGrabbed ==
  ASSUME MinCols >= 2, MinRows >= 2,
         NEW l, ProperLayout(l), Fits(l), NEW c \in Borders(l)
  PROVE  HitTest(l, c.x, c.y, l.height + 1)
           = CASE c.char = {"up", "down"} -> OnBorder("vertical", c.x)
               [] c.char = {"left", "right"} -> OnBorder("horizontal", c.y)
               [] OTHER -> NoTarget
<1> DEFINE t == l.root
           R(id) == Place(l, LeafOf(t, id))
           shown == Resolve(l)
           empty == {e \in (0..(l.width - 1)) \X (0..(l.height - 1)) :
                       \A id \in DOMAIN shown : ~Inside(shown[id], e[1], e[2])}
<1>1. l.zoomed = NoPane
  <2> SUFFICES ASSUME l.zoomed # NoPane PROVE FALSE
    OBVIOUS
  <2>1. DOMAIN shown = {l.zoomed}
    BY DEF Resolve
  <2>2. Cardinality(DOMAIN shown) = 1
    BY <2>1, FS_Singleton
  <2>3. Cardinality(DOMAIN shown) <= 1
    BY <2>2
  <2> QED
    BY <2>3 DEF Borders
<1>2. shown = [id \in Ids(t) |-> R(id)] /\ \A id \in Ids(t) : R(id) \in Rects
  BY <1>1, ResolvedInPlace, ShownInPlace
<1>3. PICK e \in empty :
        c.x = e[1] /\ c.y = e[2] /\ c.char = BoxChar(Links(empty, e[1], e[2]))
  <2> HIDE DEF empty
  <2>1. c \in {[x |-> k[1], y |-> k[2], char |-> BoxChar(Links(empty, k[1], k[2])),
                active |-> /\ l.active \in DOMAIN shown
                           /\ \E n \in {<<k[1] - 1, k[2]>>, <<k[1] + 1, k[2]>>, <<k[1], k[2] - 1>>, <<k[1], k[2] + 1>>} :
                                Inside(shown[l.active], n[1], n[2])] : k \in empty}
    BY DEF Borders, empty
  <2> QED
    BY <2>1
<1>4. \A k : k \in empty <=> Bare(l, k)
  <2> SUFFICES ASSUME NEW k \in Window(l)
               PROVE  (\A id \in DOMAIN shown : ~Inside(shown[id], k[1], k[2]))
                        <=> \A q \in Leaves(t) : ~Has(Place(l, q), k)
    BY DEF Bare, Window
  <2>1. k \in Int \X Int
    BY DEF Window, ProperLayout
  <2>2. /\ \A id \in Ids(t) : LeafOf(t, id) \in Leaves(t)
        /\ \A q \in Leaves(t) : t[q].id \in Ids(t) /\ R(t[q].id) = Place(l, q)
    BY Leaf DEF ProperLayout, Proper
  <2>3. \A id \in Ids(t) : Inside(R(id), k[1], k[2]) <=> Has(R(id), k)
    <3> SUFFICES ASSUME NEW id \in Ids(t) PROVE Inside(R(id), k[1], k[2]) <=> Has(R(id), k)
      OBVIOUS
    <3> HIDE DEF R
    <3> QED
      BY <1>2, <2>1, HasIsInside
  <2>4. DOMAIN shown = Ids(t) /\ \A id \in Ids(t) : shown[id] = R(id)
    BY <1>2
  <2> HIDE DEF shown
  <2>5. (\A id \in DOMAIN shown : ~Inside(shown[id], k[1], k[2])) <=> \A id \in Ids(t) : ~Has(R(id), k)
    BY <2>3, <2>4
  <2> QED
    BY <2>2, <2>5
<1>5. Bare(l, e) /\ e \in Window(l) /\ e[1] \in 0..(l.width - 1) /\ e[2] \in 0..(l.height - 1) /\ l.height \in Nat
  BY <1>3, <1>4 DEF Bare, Window, ProperLayout
<1>6. PICK d \in Directions, o \in Directions :
        /\ o # d /\ Beside(e, d, 1) \in Window(l) /\ Beside(e, d, -1) \in Window(l)
        /\ Bare(l, Beside(e, o, 1)) \/ Bare(l, Beside(e, o, -1))
  BY <1>5, AlongTheBorder
<1> DEFINE lines == {p \in [a : Ids(t), b : Ids(t), dir : Directions] :
                       p.a # p.b /\ Between(R(p.a), R(p.b), p.dir, e[1], e[2])}
<1>7. /\ \A p \in lines : p.dir = d
      /\ lines # {} <=> ~Bare(l, Beside(e, d, 1)) /\ ~Bare(l, Beside(e, d, -1))
  BY <1>5, <1>6, LinesOfCell
<1>8. HitTest(l, c.x, c.y, l.height + 1)
        = IF lines # {} THEN OnBorder(d, IF d = "vertical" THEN c.x ELSE c.y) ELSE NoTarget
  <2> DEFINE line == CHOOSE p \in lines : \A q \in lines \ {p} : Precedes(t, p, q)
  <2>1. {id \in DOMAIN shown : Inside(shown[id], c.x, c.y)} = {}
    BY <1>3
  <2>2. lines = {p \in [a : DOMAIN shown, b : DOMAIN shown, dir : Directions] :
                   p.a # p.b /\ Between(shown[p.a], shown[p.b], p.dir, c.x, c.y)}
    <3>1. DOMAIN shown = Ids(t) /\ \A id \in Ids(t) : shown[id] = R(id)
      BY <1>2
    <3> HIDE DEF shown, R
    <3> QED
      BY <1>3, <3>1
  <2>3. lines # {} => line.dir = d
    <3> SUFFICES ASSUME lines # {} PROVE line.dir = d
      OBVIOUS
    <3>1. lines \in SUBSET [a : Ids(t), b : Ids(t), dir : {d}] /\ Proper(t)
      BY <1>7 DEF ProperLayout
    <3> HIDE DEF lines
    <3>2. \E p \in lines : \A q \in lines \ {p} : Precedes(t, p, q)
      BY <3>1, FirstLine
    <3>3. line \in lines
      BY <3>2
    <3> QED
      BY <1>7, <3>3
  <2>4. HitTest(l, c.x, c.y, l.height + 1)
          = IF lines # {} THEN OnBorder(line.dir, IF line.dir = "vertical" THEN c.x ELSE c.y) ELSE NoTarget
    <3> DEFINE h == l.height + 1
    <3>1. ~(h > 0 /\ c.y >= h - 1)
      BY <1>3, <1>5
    <3> HIDE DEF lines, h, line
    <3>2. LET first == CHOOSE p \in lines : \A q \in lines \ {p} : Precedes(l.root, p, q)
          IN  HitTest(l, c.x, c.y, h)
                = IF lines # {} THEN OnBorder(first.dir, IF first.dir = "vertical" THEN c.x ELSE c.y) ELSE NoTarget
      BY ONLY <2>1, <2>2, <3>1, HitBorder
    <3> QED
      BY <3>2 DEF h, line
  <2> HIDE DEF line
  <2> QED
    BY <2>3, <2>4
<1> DEFINE links == Links(empty, e[1], e[2])
<1>9. /\ links \subseteq {"up", "down", "left", "right"}
      /\ "up" \in links <=> Bare(l, <<e[1], e[2] - 1>>)
      /\ "down" \in links <=> Bare(l, <<e[1], e[2] + 1>>)
      /\ "left" \in links <=> Bare(l, <<e[1] - 1, e[2]>>)
      /\ "right" \in links <=> Bare(l, <<e[1] + 1, e[2]>>)
  <2> HIDE DEF empty
  <2> QED
    BY <1>4 DEF Links
<1>10. /\ Beside(e, "vertical", 1) = <<e[1] + 1, e[2]>> /\ Beside(e, "vertical", -1) = <<e[1] - 1, e[2]>>
       /\ Beside(e, "horizontal", 1) = <<e[1], e[2] + 1>> /\ Beside(e, "horizontal", -1) = <<e[1], e[2] - 1>>
  BY <1>5 DEF Beside
<1> HIDE DEF lines, links, empty
<1>11. c.char = BoxChar(links)
  BY <1>3 DEF links
<1>12. CASE d = "vertical"
  <2>1. "up" \in links \/ "down" \in links
    BY <1>6, <1>9, <1>10, <1>12 DEF Directions
  <2>2. lines # {} <=> "left" \notin links /\ "right" \notin links
    BY <1>7, <1>9, <1>10, <1>12
  <2>3. CASE lines # {}
    <3>1. BoxChar(links) = {"up", "down"}
      BY <1>9, <2>1, <2>2, <2>3 DEF BoxChar
    <3> QED
      BY <1>8, <1>11, <1>12, <2>3, <3>1
  <2>4. CASE lines = {}
    <3>1. BoxChar(links) = links
      BY <1>9, <2>1, <2>2, <2>4 DEF BoxChar
    <3>2. links # {"up", "down"} /\ links # {"left", "right"}
      BY <2>1, <2>2, <2>4
    <3> QED
      BY <1>8, <1>11, <2>4, <3>1, <3>2
  <2> QED
    BY <2>3, <2>4
<1>13. CASE d = "horizontal"
  <2>1. "left" \in links \/ "right" \in links
    BY <1>6, <1>9, <1>10, <1>13 DEF Directions
  <2>2. lines # {} <=> "up" \notin links /\ "down" \notin links
    BY <1>7, <1>9, <1>10, <1>13
  <2>3. CASE lines # {}
    <3>1. BoxChar(links) = {"left", "right"}
      BY <1>9, <2>1, <2>2, <2>3 DEF BoxChar
    <3>2. {"left", "right"} # {"up", "down"}
      OBVIOUS
    <3> QED
      BY <1>8, <1>11, <1>13, <2>3, <3>1, <3>2
  <2>4. CASE lines = {}
    <3>1. BoxChar(links) = links
      BY <1>9, <2>1, <2>2, <2>4 DEF BoxChar
    <3>2. links # {"up", "down"} /\ links # {"left", "right"}
      BY <2>1, <2>2, <2>4
    <3> QED
      BY <1>8, <1>11, <2>4, <3>1, <3>2
  <2> QED
    BY <2>3, <2>4
<1> QED
  BY <1>12, <1>13 DEF Directions

\* In a sound layout every border's cell can be grabbed.
LEMMA SoundIsGrabbable ==
  ASSUME MinCols >= 2, MinRows >= 2
  PROVE  Sound => BordersCanBeGrabbed
<1> SUFFICES ASSUME Sound, Fits(layout), NEW c \in Borders(layout)
             PROVE  HitTest(layout, c.x, c.y, layout.height + 1)
                      = CASE c.char = {"up", "down"} -> OnBorder("vertical", c.x)
                          [] c.char = {"left", "right"} -> OnBorder("horizontal", c.y)
                          [] OTHER -> NoTarget
  BY DEF BordersCanBeGrabbed
<1>1. PICK l : l = layout
  OBVIOUS
<1>2. ProperLayout(l) /\ Fits(l) /\ c \in Borders(l)
  BY <1>1 DEF Sound
<1>3. HitTest(l, c.x, c.y, l.height + 1)
        = CASE c.char = {"up", "down"} -> OnBorder("vertical", c.x)
            [] c.char = {"left", "right"} -> OnBorder("horizontal", c.y)
            [] OTHER -> NoTarget
  BY <1>2, BorderGrabbed
<1> QED
  BY <1>1, <1>3

\* What is drawn as a border can be grabbed as the border it is drawn as, in any tree that
\* fits and however its splits meet. The smallest pane is 5 by 2: a border one cell long
\* would be drawn as a horizontal one, whichever way it runs.
THEOREM BordersCanAlwaysBeGrabbed ==
  ASSUME MinCols >= 2, MinRows >= 2
  PROVE  Spec => []BordersCanBeGrabbed
<1>1. Sound => BordersCanBeGrabbed
  BY SoundIsGrabbable
<1> QED
  BY <1>1, InitSound, StepKeepsSound, PTL DEF Spec
=============================================================================

-------------------------------- MODULE Pointer --------------------------------
(***************************************************************************)
(* What a pointer finds in a window: the borders that are drawn between    *)
(* panes (render/borders.rs), what lies under a cell, and what a report of *)
(* the mouse becomes (input/mouse.rs), as operators on values.             *)
(***************************************************************************)
EXTENDS Layout

Inside(r, x, y) == x \in r.x .. (r.x + r.width - 1) /\ y \in r.y .. (r.y + r.height - 1)

-----------------------------------------------------------------------------
(* Borders. A box-drawing character is the set of the sides it reaches.      *)

\* from_neighbours: the sides on which the next cell of the window is empty too.
Links(empty, x, y) ==
  {side \in {"up", "down", "left", "right"} :
     CASE side = "up" -> <<x, y - 1>> \in empty
       [] side = "down" -> <<x, y + 1>> \in empty
       [] side = "left" -> <<x - 1, y>> \in empty
       [] side = "right" -> <<x + 1, y>> \in empty}

\* box_char: stubs are drawn as whole lines, a cell by itself as a horizontal one.
BoxChar(links) ==
  IF links # {} /\ links \subseteq {"up", "down"} THEN {"up", "down"}
  ELSE IF links \subseteq {"left", "right"} THEN {"left", "right"}
  ELSE links

\* compute_borders: a pane that is shown alone has none.
Borders(l) ==
  LET shown == Resolve(l)
      empty == {c \in (0..(l.width - 1)) \X (0..(l.height - 1)) :
                  \A id \in DOMAIN shown : ~Inside(shown[id], c[1], c[2])}
      near(c) == {<<c[1] - 1, c[2]>>, <<c[1] + 1, c[2]>>, <<c[1], c[2] - 1>>, <<c[1], c[2] + 1>>}
      isActive(c) == /\ l.active \in DOMAIN shown
                     /\ \E n \in near(c) : Inside(shown[l.active], n[1], n[2])
  IN  IF Cardinality(DOMAIN shown) <= 1 THEN {}
      ELSE {[x |-> c[1], y |-> c[2], char |-> BoxChar(Links(empty, c[1], c[2])),
             active |-> isActive(c)] : c \in empty}

-----------------------------------------------------------------------------
(* hit_test *)

NoTarget == [kind |-> "StatusBar"]
OnPane(id) == [kind |-> "Pane", id |-> id]
OnBorder(dir, position) == [kind |-> "Border", direction |-> dir, position |-> position]

\* Mutant: the border's own cell counts as the pane's.
Between_Wide(a, b, dir, x, y) ==
  IF dir = "vertical"
  THEN /\ a.x + a.width + 1 = b.x /\ x = a.x + a.width
       /\ y >= Larger(a.y, b.y) /\ y < Smaller(a.y + a.height, b.y + b.height) - 1
  ELSE /\ a.y + a.height + 1 = b.y /\ y = a.y + a.height
       /\ x >= Larger(a.x, b.x) /\ x < Smaller(a.x + a.width, b.x + b.width) - 1

\* The cell is on the line that runs between a, on the left or above, and b, as
\* far as both go along it.
Between(a, b, dir, x, y) ==
  IF dir = "vertical"
  THEN /\ a.x + a.width + 1 = b.x /\ x = a.x + a.width
       /\ y >= Larger(a.y, b.y) /\ y < Smaller(a.y + a.height, b.y + b.height)
  ELSE /\ a.y + a.height + 1 = b.y /\ y = a.y + a.height
       /\ x >= Larger(a.x, b.x) /\ x < Smaller(a.x + a.width, b.x + b.width)

\* The pairs of panes on whose border the cell is, with its direction, in the
\* order of the two loops; the vertical one is looked at first.
Precedes(t, u, v) ==
  LET leaf(id) == LeafOf(t, id)
  IN  \/ Before(leaf(u.a), leaf(v.a))
      \/ u.a = v.a /\ Before(leaf(u.b), leaf(v.b))
      \/ u.a = v.a /\ u.b = v.b /\ u.dir = "vertical" /\ v.dir = "horizontal"

\* height is the whole terminal's: its last row is the status bar's.
HitTest(l, x, y, height) ==
  LET shown == Resolve(l)
      under == {id \in DOMAIN shown : Inside(shown[id], x, y)}
      first == CHOOSE a \in under : \A b \in under \ {a} : Before(LeafOf(l.root, a), LeafOf(l.root, b))
      lines == {p \in [a : DOMAIN shown, b : DOMAIN shown, dir : Directions] :
                  p.a # p.b /\ Between(shown[p.a], shown[p.b], p.dir, x, y)}
      line == CHOOSE p \in lines : \A q \in lines \ {p} : Precedes(l.root, p, q)
  IN  IF height > 0 /\ y >= height - 1 THEN NoTarget
      ELSE IF under # {} THEN OnPane(first)
      ELSE IF lines # {} THEN OnBorder(line.dir, IF line.dir = "vertical" THEN x ELSE y)
      ELSE NoTarget

-----------------------------------------------------------------------------
(* Reports of the mouse. A report is a button number, a 1-based place and the *)
(* final letter, M or m; its text is abstracted.                              *)

Buttons == 0..2
Modifiers == SUBSET {4, 8, 16}    \* Shift, Alt, Ctrl

\* Bits 2 to 4 hold the modifiers.
Bit(button, bit) == bit * ((button \div bit) % 2)
ModifiersOf(button) == {bit \in {4, 8, 16} : Bit(button, bit) = bit}
BaseOf(button) == button - Bit(button, 4) - Bit(button, 8) - Bit(button, 16)

NoEvent == [kind |-> "None"]

\* parse_sgr_mouse. A motion is a motion whichever letter it ends with.
ParseSgr(button, col, row, final) ==
  LET base == BaseOf(button)
      kind == CASE base = 64 -> "ScrollUp"
                [] base = 65 -> "ScrollDown"
                [] base > 65 -> "None"
                [] base \in 32..63 -> "Move"
                [] base < 32 /\ base % 4 = 3 -> "None"
                [] OTHER -> IF final = "m" THEN "Release" ELSE "Press"
  IN  IF kind = "None" THEN NoEvent
      ELSE [kind |-> kind, col |-> Monus(col, 1), row |-> Monus(row, 1),
            modifiers |-> ModifiersOf(button)]

\* dispatch_mouse: the action and whether a drag is under way afterwards.
NoDrag == [kind |-> "None"]
Ignore == [kind |-> "Ignore"]
Answer(action, dragging) == [action |-> action, dragging |-> dragging]

\* What a press or the wheel does where no drag is under way.
OnTarget(event, target, active, mouseMode) ==
  CASE target.kind = "StatusBar" -> Answer(Ignore, NoDrag)
    [] target.kind = "Border" ->
         IF event.kind = "Press"
         THEN Answer([kind |-> "StartBorderDrag", hit |-> target], target)
         ELSE Answer(Ignore, NoDrag)
    [] target.kind = "Pane" /\ event.kind # "Press" ->
         Answer([kind |-> event.kind, id |-> target.id], NoDrag)
    [] target.kind = "Pane" /\ event.kind = "Press" ->
         Answer(IF target.id # active THEN [kind |-> "FocusPane", id |-> target.id]
                ELSE IF mouseMode THEN [kind |-> "ForwardToPane", event |-> event]
                ELSE Ignore, NoDrag)

\* Mutant: what is under the pointer is looked at before the drag.
DispatchMouse_TargetFirst(event, l, height, active, mouseMode, dragging) ==
  LET target == HitTest(l, event.col, event.row, height)
  IN  IF dragging # NoDrag /\ target.kind = "Border"
      THEN CASE event.kind = "Move" ->
                  Answer([kind |-> "ContinueBorderDrag", col |-> event.col, row |-> event.row], dragging)
             [] event.kind = "Release" -> Answer([kind |-> "EndBorderDrag"], NoDrag)
             [] OTHER -> Answer(Ignore, dragging)
      ELSE IF event.kind \in {"Release", "Move"} THEN Answer(Ignore, dragging)
      ELSE OnTarget(event, target, active, mouseMode)

DispatchMouse(event, l, height, active, mouseMode, dragging) ==
  IF dragging # NoDrag
  THEN CASE event.kind = "Move" ->
              Answer([kind |-> "ContinueBorderDrag", col |-> event.col, row |-> event.row], dragging)
         [] event.kind = "Release" -> Answer([kind |-> "EndBorderDrag"], NoDrag)
         [] OTHER -> Answer(Ignore, dragging)
  ELSE IF event.kind \in {"Release", "Move"} THEN Answer(Ignore, NoDrag)
  ELSE OnTarget(event, HitTest(l, event.col, event.row, height), active, mouseMode)
=============================================================================

---------------------------- MODULE TerminalProofs ----------------------------
(***************************************************************************)
(* Proofs about Terminal, for panes of every size and applications of      *)
(* every kind: the margins fit the screen, only a cursor that was saved    *)
(* leaves it, a panic needs such a cursor, and the primary screen waits;   *)
(* then what the cells hold: both screens and the scrollback are made of   *)
(* rows of cells, the halves of broad characters stay together, and SGR    *)
(* sequences are read from left to right; at last what the rows say: what  *)
(* a program writes line by line is all there, and a reflow keeps it.      *)
(***************************************************************************)
EXTENDS Terminal, SequenceTheorems, FiniteSetTheorems, TLAPS

\* A cursor whose place is two numbers, whatever its style and flags.
Cursors(S) == [col : Nat, row : Nat, style : S, visible : S, pending : S]
IsCursor(c) == \E S : c \in Cursors(S)
IsRegion(area) == area \in [top : Nat, bottom : Nat]
OnScreen(c) == c.col < cols /\ c.row < rows

\* The inductive invariant. MarginsFit needs the screen to have a row, the margins
\* to be numbers and one screen at most to wait; the cursors are needed
\* because those of the waiting screen and of DECSC come back.
Shape ==
  /\ cols \in Nat /\ rows \in Nat /\ cols > 0 /\ rows > 0
  /\ IsCursor(cursor)
  /\ saved = <<>> \/ (DOMAIN saved = {1} /\ IsCursor(saved[1]))
  /\ IsRegion(region) /\ Fits(region)
  /\ alternate = <<>> \/ /\ DOMAIN alternate = {1} /\ IsCursor(alternate[1].cursor)
                         /\ IsRegion(alternate[1].region) /\ Fits(alternate[1].region)

\* What most actions do: the cursor moves on the screen, the rest stays, and
\* nothing reaches the scrollback from the alternate screen.
Moves ==
  /\ UNCHANGED <<cols, rows, region, alternate, saved>>
  /\ IsCursor(cursor')
  /\ CursorFits => CursorFits'
  /\ alternate # <<>> => UNCHANGED scrollback

-----------------------------------------------------------------------------
(* Cursors. *)

\* Clamping to a screen gives a place on it, whatever is clamped.
LEMMA Clamping ==
  ASSUME NEW n, NEW limit \in Nat, limit > 0
  PROVE  Clamp(n, limit) \in Nat /\ Clamp(n, limit) < limit
BY DEF Clamp

\* There is room for one more style or flag.
LEMMA OneMore ==
  ASSUME NEW c, IsCursor(c), NEW s
  PROVE  \E T : c \in Cursors(T) /\ s \in T
<1>1. PICK S : c \in Cursors(S)
  BY DEF IsCursor
<1>2. c \in Cursors(S \cup {s})
  BY <1>1 DEF Cursors
<1> QED
  BY <1>2

\* A cursor has a column and a row that are numbers.
LEMMA CursorIsPlace ==
  ASSUME NEW c, IsCursor(c)
  PROVE  c.col \in Nat /\ c.row \in Nat
BY DEF IsCursor, Cursors

\* set_cursor gives a place on the screen, wherever it is asked to go.
LEMMA AtFits ==
  ASSUME Shape, NEW col, NEW row
  PROVE  IsCursor(At(col, row)) /\ OnScreen(At(col, row))
<1>1. /\ Clamp(col, cols) \in Nat /\ Clamp(col, cols) < cols
      /\ Clamp(row, rows) \in Nat /\ Clamp(row, rows) < rows
  BY Clamping DEF Shape
<1> DEFINE x == Clamp(col, cols)
           y == Clamp(row, rows)
<1>2. PICK T : cursor \in Cursors(T) /\ FALSE \in T
  BY OneMore DEF Shape
<1>3. x \in Nat /\ y \in Nat
  BY <1>1
<1> HIDE DEF x, y
<1>4. [cursor EXCEPT !.col = x, !.row = y, !.pending = FALSE] \in Cursors(T)
  BY <1>2, <1>3 DEF Cursors
<1>5. /\ [cursor EXCEPT !.col = x, !.row = y, !.pending = FALSE].col = x
      /\ [cursor EXCEPT !.col = x, !.row = y, !.pending = FALSE].row = y
  BY <1>2 DEF Cursors
<1> QED
  BY <1>1, <1>4, <1>5 DEF OnScreen, IsCursor, At, x, y

\* A step that moves the cursor by set_cursor and nothing else.
LEMMA Placed ==
  ASSUME Shape, NEW col, NEW row, cursor' = At(col, row),
         UNCHANGED <<cols, rows, region, alternate, saved>>,
         alternate # <<>> => UNCHANGED scrollback
  PROVE  Moves
<1>1. IsCursor(cursor') /\ cursor'.col < cols' /\ cursor'.row < rows'
  BY AtFits DEF OnScreen
<1> QED
  BY <1>1 DEF Moves, CursorFits

\* set_cursor does no more than that.
LEMMA SetCursorMoves ==
  ASSUME Shape, NEW col, NEW row, SetCursor(col, row)
  PROVE  Moves
BY Placed DEF SetCursor, others, geometry, content, settings

\* A step that leaves the cursor alone.
LEMMA CursorStays ==
  ASSUME Shape, UNCHANGED <<cols, rows, region, alternate, saved, cursor>>,
         alternate # <<>> => UNCHANGED scrollback
  PROVE  Moves
BY DEF Shape, Moves, CursorFits

\* After a panic all is as it was.
LEMMA PanicStays ==
  ASSUME Shape, Panic
  PROVE  Moves
BY CursorStays DEF Panic, geometry, content, settings
-----------------------------------------------------------------------------
(* The actions that move the cursor at most. *)

\* Scrolling the alternate screen puts nothing into the scrollback.
LEMMA CapturedHere ==
  ASSUME NEW lines, NEW n, alternate # <<>>
  PROVE  Captured(lines, n) = scrollback
BY DEF Captured

\* write_char leaves the cursor on the row it has, the next one or the last,
\* and clamps its column.
LEMMA WriteMoves ==
  ASSUME Shape, NEW char, Write(char)
  PROVE  Moves
<1>1. CASE Panic
  BY <1>1, PanicStays
<1>2. CASE ~Panic
  <2> DEFINE autoWrap == "AUTO_WRAP" \in modes
             width == Width(char)
             resolves == cursor.pending /\ autoWrap
             col == IF ~cursor.pending THEN cursor.col ELSE IF autoWrap THEN 0 ELSE cols - 1
             noRoom == width = 2 /\ col + 1 >= cols
             givesUp == noRoom /\ (cols = 1 \/ ~autoWrap)
             wraps == resolves \/ (noRoom /\ ~givesUp)
             newRow == IF wraps THEN NextRow ELSE cursor.row
             filled == IF noRoom /\ ~resolves THEN Reset(visible, cursor.row, col) ELSE visible
             marked == IF wraps THEN SoftWrap(filled) ELSE filled
             scrolls == wraps /\ AtBottom
             at == IF wraps THEN 0 ELSE col
             right == at + width
             newCol == IF givesUp THEN at ELSE Clamp(right, cols)
             waits == ~givesUp /\ right >= cols
  <2>1. /\ ~(cursor.row >= rows \/ col >= cols)
        /\ scrollback' = IF scrolls THEN Captured(marked, 1) ELSE scrollback
        /\ cursor' = [cursor EXCEPT !.row = newRow, !.col = newCol, !.pending = waits]
    BY <1>2 DEF Write
  <2>2. UNCHANGED <<cols, rows, region, alternate, saved>>
    BY <1>2 DEF Write, geometry, settings
  <2>3. cols \in Nat /\ rows \in Nat /\ cols > 0 /\ cursor.col \in Nat /\ cursor.row \in Nat
    BY CursorIsPlace DEF Shape
  <2>4. at \in Nat /\ at < cols
    BY <2>1, <2>3
  <2>5. newCol \in Nat /\ newCol < cols
    BY <2>3, <2>4, Clamping
  <2>6. newRow \in Nat /\ (cursor.row < rows => newRow < rows)
    BY <2>3 DEF NextRow
  <2>7. alternate # <<>> => UNCHANGED scrollback
    BY <2>1, CapturedHere
  <2> HIDE DEF newRow, newCol, waits
  <2>8. PICK T : cursor \in Cursors(T) /\ waits \in T
    BY OneMore DEF Shape
  <2>9. cursor' \in Cursors(T) /\ cursor'.col = newCol /\ cursor'.row = newRow
    BY <2>1, <2>5, <2>6, <2>8 DEF Cursors
  <2> QED
    BY <2>2, <2>3, <2>5, <2>6, <2>7, <2>9 DEF Moves, CursorFits, IsCursor
<1> QED
  BY <1>1, <1>2

\* Characters and marks (print).
LEMMA CharacterMoves ==
  ASSUME Shape, PrintChar \/ Mark
  PROVE  Moves
<1>1. ASSUME NEW char, NEW col, NEW row, Combine(char, col, row) PROVE Moves
  <2>1. CASE Panic
    BY <2>1, PanicStays
  <2>2. CASE ~Panic
    BY <1>1, <2>2, CursorStays DEF Combine, geometry, settings
  <2> QED
    BY <2>1, <2>2
<1> QED
  BY <1>1, WriteMoves DEF PrintChar, Mark

\* Erasing (erase_below and the others, erase_chars).
LEMMA EraseMoves ==
  ASSUME Shape, EraseInDisplay \/ EraseInLine \/ EraseChars
  PROVE  Moves
<1>1. ASSUME NEW spans, Erase(spans) PROVE Moves
  <2>1. CASE Panic
    BY <2>1, PanicStays
  <2>2. CASE ~Panic
    BY <1>1, <2>2, CursorStays DEF Erase, geometry, settings
  <2> QED
    BY <2>1, <2>2
<1> QED
  BY <1>1 DEF EraseInDisplay, EraseInLine, EraseChars

\* The actions that are one call of set_cursor.
LEMMA SimpleMoves ==
  ASSUME Shape, Backspace \/ CarriageReturn \/ CursorMovement \/ CursorPosition
  PROVE  Moves
BY SetCursorMoves DEF Backspace, CarriageReturn, CursorMovement, CursorPosition

\* Tabulators, and CBT from a cursor that is off the screen (prev_stop).
LEMMA TabMoves ==
  ASSUME Shape, Tab
  PROVE  Moves
BY SetCursorMoves, PanicStays DEF Tab

\* Line feeds and scrolling (scroll_up_in_region, scroll_down_in_region).
LEMMA LineMoves ==
  ASSUME Shape, LineFeed \/ ReverseIndex \/ Scroll
  PROVE  Moves
<1>1. \A n : ScrollUp(n) \/ ScrollDown(n) => (alternate # <<>> => UNCHANGED scrollback)
  BY CapturedHere DEF ScrollUp, ScrollDown
<1>2. CASE LineFeed
  <2>1. CASE SetCursor(cursor.col, cursor.row + 1)
    BY <2>1, SetCursorMoves
  <2>2. CASE ScrollUp(1) /\ cursor' = At(cursor.col, cursor.row) /\ UNCHANGED <<geometry, saved, settings, alternate>>
    BY <1>1, <2>2, Placed DEF geometry, settings
  <2> QED
    BY <1>2, <2>1, <2>2 DEF LineFeed
<1>3. CASE ReverseIndex
  <2>1. CASE SetCursor(cursor.col, cursor.row - 1)
    BY <2>1, SetCursorMoves
  <2>2. CASE ScrollDown(1) /\ cursor' = At(cursor.col, cursor.row) /\ UNCHANGED <<geometry, saved, settings, alternate>>
    BY <1>1, <2>2, Placed DEF geometry, settings
  <2> QED
    BY <1>3, <2>1, <2>2 DEF ReverseIndex
<1>4. CASE Scroll
  BY <1>1, <1>4, CursorStays DEF Scroll, geometry, settings
<1> QED
  BY <1>2, <1>3, <1>4

\* Tab stops and character sets.
LEMMA SettingMoves ==
  ASSUME Shape, TabStop \/ SelectCharset
  PROVE  Moves
BY CursorStays DEF TabStop, SelectCharset, geometry, content

\* SGR sequences change the style of the cursor only.
LEMMA StyleMoves ==
  ASSUME Shape, SelectGraphicRendition
  PROVE  Moves
<1>1. PICK s : cursor' = [cursor EXCEPT !.style = s]
  BY DEF SelectGraphicRendition
<1>2. PICK T : cursor \in Cursors(T) /\ s \in T
  BY OneMore DEF Shape
<1>3. cursor' \in Cursors(T) /\ cursor'.col = cursor.col /\ cursor'.row = cursor.row
  BY <1>1, <1>2 DEF Cursors
<1> QED
  BY <1>3 DEF SelectGraphicRendition, Moves, IsCursor, CursorFits, others, geometry, content, settings

\* Modes change how the cursor looks, or put it back on the screen.
LEMMA ModesSet ==
  ASSUME Shape, NEW new, NEW now, IsCursor(now), SetModes(new, now)
  PROVE  IsCursor(cursor') /\ cursor'.col = now.col /\ cursor'.row = now.row
<1>1. PICK v : cursor' = [now EXCEPT !.visible = v]
  BY DEF SetModes
<1>2. PICK T : now \in Cursors(T) /\ v \in T
  BY OneMore
<1> QED
  BY <1>1, <1>2 DEF Cursors, IsCursor

\* Private modes: DECOM takes the cursor home, the others leave it where it is.
LEMMA ModeMoves ==
  ASSUME Shape, PrivateMode
  PROVE  Moves
<1>1. UNCHANGED <<cols, rows, region, alternate, saved, scrollback>>
  BY DEF PrivateMode, geometry, content
<1>2. PICK new, now : /\ SetModes(new, now)
                      /\ \/ \E col, row : now = At(col, row)
                         \/ now = [cursor EXCEPT !.pending = FALSE]
                         \/ now = cursor
  BY DEF PrivateMode
<1>3. IsCursor(now) /\ (CursorFits => OnScreen(now))
  <2>1. ASSUME NEW col, NEW row, now = At(col, row) PROVE IsCursor(now) /\ OnScreen(now)
    BY <2>1, AtFits
  <2>2. CASE now = [cursor EXCEPT !.pending = FALSE]
    <3>1. PICK T : cursor \in Cursors(T) /\ FALSE \in T
      BY OneMore DEF Shape
    <3>2. now \in Cursors(T) /\ now.col = cursor.col /\ now.row = cursor.row
      BY <2>2, <3>1 DEF Cursors
    <3> QED
      BY <3>2 DEF IsCursor, CursorFits, OnScreen
  <2>3. CASE now = cursor
    BY <2>3 DEF Shape, CursorFits, OnScreen
  <2> QED
    BY <1>2, <2>1, <2>2, <2>3
<1>4. IsCursor(cursor') /\ cursor'.col = now.col /\ cursor'.row = now.row
  BY <1>2, <1>3, ModesSet
<1> QED
  BY <1>1, <1>3, <1>4 DEF Moves, CursorFits, OnScreen

\* A step that only moves keeps the shape.
LEMMA MovesKeepShape ==
  ASSUME Shape, Moves
  PROVE  Shape'
BY DEF Shape, Moves, Fits

-----------------------------------------------------------------------------
(* The actions that do more. *)

\* Every size a pane is given has a column and a row.
LEMMA SizesHaveRoom ==
  ASSUME NEW size \in Sizes
  PROVE  size[1] \in Nat /\ size[2] \in Nat /\ size[1] > 0 /\ size[2] > 0
BY TerminalAssumption

\* The whole of a screen that has a row is a region that fits.
LEMMA FullRegionFits ==
  ASSUME NEW r \in Nat, r > 0
  PROVE  /\ IsRegion(FullRegion(r))
         /\ FullRegion(r).top = 0 /\ FullRegion(r).bottom = r - 1
BY DEF IsRegion, FullRegion

\* A new grid has the shape (Grid::new).
LEMMA ShapeAtFirst == Init => Shape
<1> SUFFICES ASSUME Init PROVE Shape
  OBVIOUS
<1>1. cols \in Nat /\ rows \in Nat /\ cols > 0 /\ rows > 0
  BY SizesHaveRoom DEF Init
<1>2. IsCursor(HomeCursor)
  <2>1. HomeCursor \in Cursors({Plain, TRUE, FALSE})
    BY DEF HomeCursor, Cursors
  <2> QED
    BY <2>1 DEF IsCursor
<1> QED
  BY <1>1, <1>2, FullRegionFits DEF Init, Shape, Fits

\* DECSC and DECRC: what comes back is a cursor, on the screen or not.
LEMMA SavingKeepsShape ==
  ASSUME Shape, SaveCursor \/ RestoreCursor
  PROVE  Shape'
<1>1. UNCHANGED <<cols, rows, region, alternate>>
  BY DEF SaveCursor, RestoreCursor, geometry, settings
<1>2. CASE SaveCursor
  <2>1. saved' = <<cursor>> /\ cursor' = cursor
    BY <1>2 DEF SaveCursor
  <2>2. DOMAIN saved' = {1} /\ IsCursor(saved'[1])
    BY <2>1 DEF Shape
  <2> QED
    BY <1>1, <2>1, <2>2 DEF Shape, Fits
<1>3. CASE RestoreCursor
  <2>1. IsCursor(cursor') /\ saved' = <<>>
    BY <1>3 DEF RestoreCursor, Shape
  <2> QED
    BY <1>1, <2>1 DEF Shape, Fits
<1> QED
  BY <1>2, <1>3

\* DECSTBM lets no other margins through than those that fit.
LEMMA SetMarginsKeepsShape ==
  ASSUME Shape, SetMargins
  PROVE  Shape' /\ CursorFits'
<1>1. UNCHANGED <<cols, rows, saved, alternate>>
  BY DEF SetMargins, geometry
<1>2. IsCursor(cursor') /\ cursor'.col < cols' /\ cursor'.row < rows'
  BY <1>1, AtFits DEF SetMargins, OnScreen
<1>3. IsRegion(region') /\ Fits(region)'
  <2>1. PICK t \in Counts, b \in Counts :
          LET top == Param(t)
              bottom == IF b = 0 THEN rows ELSE b
          IN  bottom <= rows /\ top < bottom /\ region' = [top |-> top - 1, bottom |-> bottom - 1]
    BY DEF SetMargins
  <2>2. t \in Nat /\ b \in Nat /\ rows \in Nat
    BY TerminalAssumption DEF Shape
  <2>3. Param(t) \in Nat /\ Param(t) >= 1
    BY <2>2 DEF Param
  <2> QED
    BY <1>1, <2>1, <2>2, <2>3 DEF IsRegion, Fits
<1> QED
  BY <1>1, <1>2, <1>3 DEF Shape, Fits, CursorFits

\* The alternate screen begins with full margins, and the screen that waits keeps
\* its own (enter_alternate_screen).
LEMMA EnterKeepsShape ==
  ASSUME Shape, EnterAlternate
  PROVE  /\ Shape' /\ UNCHANGED scrollback
         /\ CursorFits => CursorFits'
         /\ alternate # <<>> => UNCHANGED alternate
<1>1. UNCHANGED <<cols, rows, saved, scrollback>>
  BY DEF EnterAlternate, geometry
<1>2. CASE alternate = <<>>
  <2>1. PICK new : SetModes(new, HomeCursor)
    BY <1>2 DEF EnterAlternate
  <2>2. IsCursor(HomeCursor) /\ HomeCursor.col = 0 /\ HomeCursor.row = 0
    <3>1. HomeCursor \in Cursors({Plain, TRUE, FALSE})
      BY DEF HomeCursor, Cursors
    <3> QED
      BY <3>1 DEF IsCursor, HomeCursor
  <2>3. IsCursor(cursor') /\ cursor'.col = 0 /\ cursor'.row = 0
    BY <2>1, <2>2, ModesSet
  <2>4. /\ alternate' = <<[visible |-> visible, cursor |-> cursor, region |-> region]>>
        /\ region' = FullRegion(rows)
    BY <1>2 DEF EnterAlternate
  <2>5. /\ DOMAIN alternate' = {1} /\ alternate'[1].cursor = cursor /\ alternate'[1].region = region
        /\ alternate' # <<>>
    BY <2>4
  <2>6. IsRegion(region') /\ Fits(region)'
    BY <1>1, <2>4, FullRegionFits DEF Shape, Fits
  <2>7. CursorFits'
    BY <1>1, <2>3 DEF Shape, CursorFits
  <2>8. Shape'
    BY <1>1, <2>3, <2>5, <2>6 DEF Shape, Fits
  <2> QED
    BY <1>1, <1>2, <2>7, <2>8
<1>3. CASE alternate # <<>>
  <2>1. PICK new : SetModes(new, cursor)
    BY <1>3 DEF EnterAlternate
  <2>2. IsCursor(cursor') /\ cursor'.col = cursor.col /\ cursor'.row = cursor.row
    BY <2>1, ModesSet DEF Shape
  <2>3. UNCHANGED <<alternate, region>>
    BY <1>3 DEF EnterAlternate
  <2> QED
    BY <1>1, <2>2, <2>3 DEF Shape, Fits, CursorFits
<1> QED
  BY <1>2, <1>3

\* The margins that come back are those that waited (exit_alternate_screen).
LEMMA LeaveKeepsShape ==
  ASSUME Shape, LeaveAlternate
  PROVE  Shape' /\ alternate' = <<>>
<1>1. UNCHANGED <<cols, rows, saved>> /\ alternate' = <<>>
  BY DEF LeaveAlternate, geometry
<1>2. CASE alternate = <<>>
  <2>1. PICK new : SetModes(new, cursor)
    BY <1>2 DEF LeaveAlternate
  <2>2. IsCursor(cursor')
    BY <2>1, ModesSet DEF Shape
  <2>3. region' = region
    BY <1>2 DEF LeaveAlternate
  <2> QED
    BY <1>1, <2>2, <2>3 DEF Shape, Fits
<1>3. CASE alternate # <<>>
  <2>1. PICK new : SetModes(new, alternate[1].cursor)
    BY <1>3 DEF LeaveAlternate
  <2>2. IsCursor(cursor')
    BY <1>3, <2>1, ModesSet DEF Shape
  <2>3. region' = alternate[1].region
    BY <1>3 DEF LeaveAlternate
  <2> QED
    BY <1>1, <1>3, <2>2, <2>3 DEF Shape, Fits
<1> QED
  BY <1>2, <1>3

\* A cursor that is clamped is on the screen of the new size.
LEMMA ClampedFits ==
  ASSUME NEW c, IsCursor(c), NEW width \in Nat, NEW height \in Nat, width > 0, height > 0
  PROVE  LET d == Clamped(c, width, height)
         IN  IsCursor(d) /\ d.col < width /\ d.row < height
<1> DEFINE x == Clamp(c.col, width)
           y == Clamp(c.row, height)
<1>1. x \in Nat /\ x < width /\ y \in Nat /\ y < height
  BY Clamping
<1> HIDE DEF x, y
<1>2. PICK T : c \in Cursors(T)
  BY DEF IsCursor
<1>3. [c EXCEPT !.col = x, !.row = y] \in Cursors(T)
  BY <1>1, <1>2 DEF Cursors
<1>4. [c EXCEPT !.col = x, !.row = y].col = x /\ [c EXCEPT !.col = x, !.row = y].row = y
  BY <1>2 DEF Cursors
<1> QED
  BY <1>1, <1>3, <1>4 DEF IsCursor, Clamped, x, y

\* The waiting screen's margins are clamped one by one and stay in order.
LEMMA ClampedRegion ==
  ASSUME NEW area, IsRegion(area), area.top <= area.bottom, NEW r \in Nat, r > 0
  PROVE  /\ Clamp(area.top, r) \in Nat /\ Clamp(area.bottom, r) \in Nat
         /\ Clamp(area.top, r) <= Clamp(area.bottom, r) /\ Clamp(area.bottom, r) < r
BY DEF IsRegion, Clamp

\* A resize clamps the margins of the screen that waits to the new size
\* (resize, basic_resize).
LEMMA ResizeKeepsShape ==
  ASSUME Shape, Resize
  PROVE  /\ Shape' /\ CursorFits'
         /\ alternate # <<>> => UNCHANGED scrollback
<1>1. PICK size \in Sizes :
        /\ \/ BasicResize(size[1], size[2])
           \/ alternate = <<>> /\ ReflowResize(size[1], size[2])
        /\ cols' = size[1] /\ rows' = size[2] /\ region' = FullRegion(size[2])
  BY DEF Resize
<1> DEFINE c == size[1]
           r == size[2]
<1>2. c \in Nat /\ r \in Nat /\ c > 0 /\ r > 0 /\ cols' = c /\ rows' = r
  BY <1>1, SizesHaveRoom
<1>3. region' = FullRegion(r)
  BY <1>1
<1>4. IsRegion(region') /\ Fits(region)'
  BY <1>2, <1>3, FullRegionFits DEF Fits
<1>5. saved' = saved
  BY DEF Resize
<1>6. CASE BasicResize(c, r)
  <2>1. /\ cursor' = Clamped(cursor, c, r) /\ scrollback' = scrollback
        /\ alternate' = [i \in DOMAIN alternate |->
             [visible |-> ResizedRows(alternate[i].visible, c, r),
              cursor |-> Clamped(alternate[i].cursor, c, r),
              region |-> [top |-> Clamp(alternate[i].region.top, r),
                          bottom |-> Clamp(alternate[i].region.bottom, r)]]]
    BY <1>6 DEF BasicResize
  <2>2. IsCursor(cursor') /\ cursor'.col < c /\ cursor'.row < r
    BY <1>2, <2>1, ClampedFits DEF Shape
  <2>3. CASE alternate = <<>>
    <3>1. alternate' = <<>>
      BY <2>1, <2>3
    <3> QED
      BY <1>2, <1>4, <1>5, <2>1, <2>2, <3>1 DEF Shape, Fits, CursorFits
  <2>4. CASE alternate # <<>>
    <3>1. /\ DOMAIN alternate = {1} /\ IsCursor(alternate[1].cursor)
          /\ IsRegion(alternate[1].region) /\ Fits(alternate[1].region)
      BY <2>4 DEF Shape
    <3>2. /\ DOMAIN alternate' = {1}
          /\ alternate'[1].cursor = Clamped(alternate[1].cursor, c, r)
          /\ alternate'[1].region = [top |-> Clamp(alternate[1].region.top, r),
                                     bottom |-> Clamp(alternate[1].region.bottom, r)]
      BY <2>1, <3>1
    <3>3. IsCursor(alternate'[1].cursor)
      BY <1>2, <3>1, <3>2, ClampedFits
    <3>4. alternate[1].region.top <= alternate[1].region.bottom
      BY <3>1 DEF Fits
    <3>5. IsRegion(alternate'[1].region) /\ Fits(alternate[1].region)'
      BY <1>2, <3>1, <3>2, <3>4, ClampedRegion DEF IsRegion, Fits
    <3> QED
      BY <1>2, <1>4, <1>5, <2>1, <2>2, <3>2, <3>3, <3>5 DEF Shape, CursorFits
  <2> QED
    BY <2>3, <2>4
<1>7. CASE alternate = <<>> /\ ReflowResize(c, r)
  <2>1. PICK x, y : cursor' = [cursor EXCEPT !.col = Clamp(x, c), !.row = Clamp(y, r), !.pending = FALSE]
    BY <1>7 DEF ReflowResize
  <2> DEFINE newCol == Clamp(x, c)
             newRow == Clamp(y, r)
  <2>2. newCol \in Nat /\ newCol < c /\ newRow \in Nat /\ newRow < r
    BY <1>2, Clamping
  <2>3. PICK T : cursor \in Cursors(T) /\ FALSE \in T
    BY OneMore DEF Shape
  <2>4. cursor' = [cursor EXCEPT !.col = newCol, !.row = newRow, !.pending = FALSE]
    BY <2>1
  <2> HIDE DEF newCol, newRow
  <2>5. cursor' \in Cursors(T) /\ cursor'.col = newCol /\ cursor'.row = newRow
    BY <2>2, <2>3, <2>4 DEF Cursors
  <2>6. IsCursor(cursor') /\ cursor'.col < c /\ cursor'.row < r
    BY <2>2, <2>5 DEF IsCursor
  <2>7. alternate' = <<>>
    BY <1>7 DEF ReflowResize
  <2> QED
    BY <1>2, <1>4, <1>5, <1>7, <2>6, <2>7 DEF Shape, CursorFits
<1> QED
  BY <1>1, <1>6, <1>7

-----------------------------------------------------------------------------
(* The theorems. *)

\* Each step is one of the six that change more, or moves the cursor.
LEMMA EveryStep ==
  ASSUME Shape, [Next]_vars
  PROVE  \/ Moves \/ SaveCursor \/ RestoreCursor \/ SetMargins
         \/ EnterAlternate \/ LeaveAlternate \/ Resize
<1>1. UNCHANGED vars => Moves
  BY CursorStays DEF vars, geometry, content, settings
<1> QED
  BY <1>1, CharacterMoves, EraseMoves, SimpleMoves, TabMoves, LineMoves, SettingMoves,
     StyleMoves, ModeMoves DEF Next

\* Shape is inductive.
LEMMA ShapeHolds == Spec => []Shape
<1>1. Shape /\ [Next]_vars => Shape'
  BY EveryStep, MovesKeepShape, SavingKeepsShape, SetMarginsKeepsShape, EnterKeepsShape,
     LeaveKeepsShape, ResizeKeepsShape
<1> QED
  BY <1>1, ShapeAtFirst, PTL DEF Spec

\* The margins of the screen that is shown and of the one that waits are rows of
\* the screen, in order, for every size and every sequence of resizes, DECSTBM and
\* switches of the screen (scroll_up_in_region, basic_resize).
THEOREM MarginsAlwaysFit == Spec => []MarginsFit
<1>1. Shape => MarginsFit
  BY DEF Shape, MarginsFit
<1> QED
  BY <1>1, ShapeHolds, PTL

\* Nothing but restoring a saved cursor takes the cursor off the screen
\* (set_cursor, write_char, basic_resize, restore_cursor).
THEOREM CursorLeavesByRestoring == Spec => OnlyRestoringLeavesTheScreen
<1> DEFINE A == CursorFits => CursorFits' \/ RestoreCursor \/ LeaveAlternate
<1>1. Shape /\ [Next]_vars => A
  <2>1. Shape /\ SaveCursor => A
    BY DEF SaveCursor, CursorFits, geometry
  <2> QED
    BY <2>1, EveryStep, SetMarginsKeepsShape, EnterKeepsShape, ResizeKeepsShape DEF Moves
<1>2. [][A]_vars => OnlyRestoringLeavesTheScreen
  BY DEF OnlyRestoringLeavesTheScreen
<1> QED
  BY <1>1, <1>2, ShapeHolds, PTL DEF Spec

\* An application on the alternate screen reaches neither the primary screen nor
\* the scrollback (enter_alternate_screen, scroll_up_in_region).
THEOREM PrimaryAlwaysWaits == Spec => PrimaryWaits
<1> DEFINE A == alternate # <<>> /\ alternate' # <<>>
                  => UNCHANGED scrollback /\ (UNCHANGED alternate \/ Resize)
<1>1. Shape /\ [Next]_vars => A
  <2>1. SaveCursor \/ RestoreCursor \/ SetMargins => A
    BY DEF SaveCursor, RestoreCursor, SetMargins, content
  <2> QED
    BY <2>1, EveryStep, EnterKeepsShape, LeaveKeepsShape, ResizeKeepsShape DEF Moves
<1>2. [][A]_vars => PrimaryWaits
  BY DEF PrimaryWaits
<1> QED
  BY <1>1, <1>2, ShapeHolds, PTL DEF Spec

-----------------------------------------------------------------------------
(* Panics. *)

\* What a step of Next may do about panics: none, or one from a cursor that is off
\* the screen and stays there.
Careful ==
  \/ UNCHANGED panicked
  \/ ~CursorFits /\ UNCHANGED <<cols, rows, cursor>>

\* A panic from a cursor off the screen is one of those.
LEMMA PanicIsCareful ==
  ASSUME Panic, ~CursorFits
  PROVE  Careful
BY DEF Panic, Careful, geometry

\* write_char asks for a column that is the cursor's, the first or the last, and
\* combine_with_previous for one before the cursor or the last of the row above.
LEMMA CharactersAreCareful ==
  ASSUME Shape, PrintChar \/ Mark
  PROVE  Careful
<1>1. cols \in Nat /\ rows \in Nat /\ cols > 0 /\ cursor.col \in Nat /\ cursor.row \in Nat
  BY CursorIsPlace DEF Shape
<1>2. ASSUME NEW char, Write(char)
      PROVE  Careful
  <2> DEFINE col == IF ~cursor.pending THEN cursor.col ELSE IF "AUTO_WRAP" \in modes THEN 0 ELSE cols - 1
  <2>1. CASE cursor.row >= rows \/ col >= cols
    <3>1. Panic
      BY <1>2, <2>1 DEF Write
    <3>2. col = cursor.col \/ col = 0 \/ col = cols - 1
      OBVIOUS
    <3> HIDE DEF col
    <3>3. ~CursorFits
      BY <1>1, <2>1, <3>2 DEF CursorFits
    <3> QED
      BY <3>1, <3>3, PanicIsCareful
  <2>2. CASE ~(cursor.row >= rows \/ col >= cols)
    BY <1>2, <2>2 DEF Write, Careful
  <2> QED
    BY <2>1, <2>2
<1>3. ASSUME NEW char, NEW col, NEW row, Combine(char, col, row), row >= rows \/ col >= cols => ~CursorFits
      PROVE  Careful
  BY <1>3, PanicIsCareful DEF Combine, Careful
<1>4. CASE PrintChar
  BY <1>2, <1>4 DEF PrintChar
<1>5. CASE Mark
  <2>1. PICK char \in Zero :
          \/ cursor.col > 0 /\ Combine(char, cursor.col - 1, cursor.row)
          \/ cursor.col = 0 /\ cursor.row > 0 /\ Combine(char, cols - 1, cursor.row - 1)
    BY <1>5 DEF Mark
  <2>2. cursor.row >= rows \/ cursor.col - 1 >= cols => ~CursorFits
    BY <1>1 DEF CursorFits
  <2>3. cursor.row - 1 >= rows \/ cols - 1 >= cols => ~CursorFits
    BY <1>1 DEF CursorFits
  <2> QED
    BY <1>3, <2>1, <2>2, <2>3
<1> QED
  BY <1>4, <1>5

\* The erase functions and prev_stop ask for nothing beyond the cursor and the screen.
LEMMA ErasingIsCareful ==
  ASSUME Shape, EraseInDisplay \/ EraseInLine \/ EraseChars
  PROVE  Careful
<1>1. cols \in Nat /\ rows \in Nat /\ cols > 0 /\ rows > 0 /\ cursor.col \in Nat /\ cursor.row \in Nat
  BY CursorIsPlace DEF Shape
<1> DEFINE Safe(spans) == CursorFits => \A s \in spans : ~(s.row >= rows \/ s.to >= cols)
<1>2. ASSUME NEW spans, Erase(spans), Safe(spans)
      PROVE  Careful
  <2>1. CASE \E s \in {s \in spans : s.from <= s.to} : s.row >= rows \/ s.to >= cols
    <3>1. Panic
      BY <1>2, <2>1 DEF Erase
    <3>2. ~CursorFits
      BY <1>2, <2>1
    <3> QED
      BY <3>1, <3>2, PanicIsCareful
  <2>2. CASE ~\E s \in {s \in spans : s.from <= s.to} : s.row >= rows \/ s.to >= cols
    BY <1>2, <2>2 DEF Erase, Careful
  <2> QED
    BY <2>1, <2>2
<1>3. Safe({ToTheRight}) /\ Safe({ToTheLeft}) /\ Safe(WholeRows({cursor.row}))
  BY <1>1 DEF ToTheRight, ToTheLeft, WholeRows, Span, CursorFits
<1>4. /\ Safe(WholeRows((cursor.row + 1)..(rows - 1)))
      /\ Safe(WholeRows(0..(cursor.row - 1)))
      /\ Safe(WholeRows(0..(rows - 1)))
  BY <1>1 DEF WholeRows, Span, CursorFits
<1>5. /\ Safe({ToTheRight} \cup WholeRows((cursor.row + 1)..(rows - 1)))
      /\ Safe({ToTheLeft} \cup WholeRows(0..(cursor.row - 1)))
  BY <1>3, <1>4
<1>6. ASSUME NEW n
      PROVE  Safe({Span(cursor.row, cursor.col, Clamp(cursor.col + n - 1, cols))})
  <2>1. Clamp(cursor.col + n - 1, cols) \in Nat /\ Clamp(cursor.col + n - 1, cols) < cols
    BY <1>1, Clamping
  <2> QED
    BY <1>1, <2>1 DEF Span, CursorFits
<1> HIDE DEF Safe
<1> QED
  BY <1>2, <1>3, <1>4, <1>5, <1>6 DEF EraseInDisplay, EraseInLine, EraseChars

\* A tab moves the cursor along its row without reading a cell.
LEMMA TabIsCareful ==
  ASSUME Shape, Tab
  PROVE  Careful
<1>1. cols \in Nat /\ cursor.col \in Nat
  BY CursorIsPlace DEF Shape
<1>2. cursor.col > cols => ~CursorFits
  BY <1>1 DEF CursorFits
<1>3. ASSUME NEW c, SetCursor(c, cursor.row)
      PROVE  Careful
  BY <1>3 DEF SetCursor, others, Careful
<1> QED
  BY <1>2, <1>3, PanicIsCareful DEF Tab

\* No other operation indexes a row by the cursor.
LEMMA EveryStepIsCareful ==
  ASSUME Shape, Next
  PROVE  Careful
<1>1. CASE Backspace \/ CarriageReturn \/ LineFeed \/ ReverseIndex \/ CursorMovement \/ CursorPosition
  BY <1>1 DEF Backspace, CarriageReturn, LineFeed, ReverseIndex, CursorMovement, CursorPosition,
              SetCursor, others, Careful
<1>2. CASE TabStop \/ SaveCursor \/ RestoreCursor \/ Scroll \/ SetMargins \/ SelectCharset
  BY <1>2 DEF TabStop, SaveCursor, RestoreCursor, Scroll, SetMargins, SelectCharset,
              SetCursor, others, Careful
<1>3. CASE PrivateMode \/ EnterAlternate \/ LeaveAlternate \/ SelectGraphicRendition \/ Resize
  BY <1>3 DEF PrivateMode, EnterAlternate, LeaveAlternate, SelectGraphicRendition, Resize,
              others, Careful
<1> QED
  BY <1>1, <1>2, <1>3, CharactersAreCareful, ErasingIsCareful, TabIsCareful DEF Next

\* Every operation stops at a panic.
LEMMA NothingAfterAPanic ==
  ASSUME Next
  PROVE  ~panicked
BY DEF Next, Uses, PrintChar, Mark, Backspace, CarriageReturn, LineFeed, ReverseIndex, Tab, TabStop,
       CursorMovement, CursorPosition, SaveCursor, RestoreCursor, EraseInDisplay, EraseInLine,
       EraseChars, Scroll, SetMargins, PrivateMode, EnterAlternate, LeaveAlternate,
       SelectGraphicRendition, SelectCharset, Resize

\* For every size and every sequence of operations, a row or a cell that does not
\* exist is asked for only with the cursor off the screen, which by the theorem
\* before takes a restored cursor (write_char, combine_with_previous, the erase
\* functions, TabStops::prev_stop).
THEOREM PanicAlwaysNeedsAStaleCursor == Spec => []PanicNeedsAStaleCursor
<1>1. Init => PanicNeedsAStaleCursor
  BY DEF Init, PanicNeedsAStaleCursor
<1>2. Shape /\ PanicNeedsAStaleCursor /\ [Next]_vars => PanicNeedsAStaleCursor'
  <2>1. CASE Next
    <3>1. Shape => Careful
      BY <2>1, EveryStepIsCareful
    <3>2. ~panicked
      BY <2>1, NothingAfterAPanic
    <3> QED
      BY <3>1, <3>2 DEF Careful, PanicNeedsAStaleCursor, CursorFits
  <2>2. CASE UNCHANGED vars
    BY <2>2 DEF vars, geometry, PanicNeedsAStaleCursor, CursorFits
  <2> QED
    BY <2>1, <2>2
<1> QED
  BY <1>1, <1>2, ShapeHolds, PTL DEF Spec

-----------------------------------------------------------------------------
(* What the cells hold.                                                       *)

\* Every character a cell may hold, a style, a cell and a row of a width.
Glyphs == {Space} \cup Characters \cup {Graphics[char] : char \in DOMAIN Graphics}
Style == [fg : Seq(Nat), bg : Seq(Nat), attrs : SUBSET Attrs]
Cell == [text : Seq(Glyphs), kind : Kinds, style : Style]
Line(w) == [cells : [0..(w - 1) -> Cell], wrapped : BOOLEAN]
Lines == UNION {Line(w) : w \in Nat \ {0}}

\* A screen of some size whose rows are in a set.
Screen(G, c, r) == {lines \in Seq(G \cap Line(c)) : Len(lines) = r}

\* What the emulator does to a row, and a set of rows that is closed under it.
Fresh(G) == \A w \in Nat \ {0} : NewRow(w) \in G
Flagged(G) == \A w \in Nat \ {0} : \A l \in G \cap Line(w) : \A b \in BOOLEAN : [l EXCEPT !.wrapped = b] \in G
Written(G) ==
  \A w \in Nat \ {0} : \A l \in G \cap Line(w) : \A at \in Nat, char \in Glyphs \ Zero, style \in Style :
    at + Width(char) <= w => Put(l, at, char, style) \in G
Emptied(G) ==
  \A w \in Nat \ {0} : \A l \in G \cap Line(w) : [l EXCEPT !.cells[w - 1] = Blank] \in G
Erased(G) ==
  \A w \in Nat \ {0} : \A l \in G \cap Line(w) : \A from \in Nat, to \in Nat :
    from <= to /\ to < w => EraseRange(l, from, to) \in G
Marked(G) ==
  \A w \in Nat \ {0} : \A l \in G \cap Line(w) : \A col \in 0..(w - 1), char \in Zero :
    [l EXCEPT !.cells[col].text = Append(l.cells[col].text, char)] \in G
Closed(G) ==
  /\ G \subseteq Lines
  /\ Fresh(G) /\ Flagged(G) /\ Written(G) /\ Erased(G) /\ Marked(G)

\* A blank cell is a cell, and a new row a row.
LEMMA BlankIsACell == Blank \in Cell /\ Plain \in Style
<1>1. Plain \in Style
  BY EmptySeq DEF Plain, Style, Default
<1>2. <<Space>> \in Seq(Glyphs)
  BY DEF Glyphs
<1> QED
  BY <1>1, <1>2 DEF Blank, Cell, Kinds

\* A new row is a row of its width (Row::new).
LEMMA NewRowIsALine ==
  ASSUME NEW w \in Nat \ {0}
  PROVE  NewRow(w) \in Line(w)
BY BlankIsACell DEF NewRow, Line

\* A set of new rows is a screen.
LEMMA NewScreenIsAScreen ==
  ASSUME NEW G, Fresh(G), NEW c \in Nat \ {0}, NEW r \in Nat
  PROVE  NewScreen(c, r) \in Screen(G, c, r)
<1>1. NewRow(c) \in G \cap Line(c)
  BY NewRowIsALine DEF Fresh
<1>2. NewScreen(c, r) \in Seq(G \cap Line(c)) /\ Len(NewScreen(c, r)) = r
  <2> DEFINE S == G \cap Line(c)
             new == NewRow(c)
  <2> HIDE DEF S, new
  <2>1. [i \in 1..r |-> new] \in [1..r -> S]
    BY <1>1 DEF S, new
  <2>2. [i \in 1..r |-> new] \in Seq(S)
    BY <2>1, SeqDef
  <2>3. Len([i \in 1..r |-> new]) = r
    BY <2>2, LenProperties
  <2> QED
    BY <2>2, <2>3 DEF NewScreen, S, new
<1> QED
  BY <1>2 DEF Screen

\* Rows that are left out are fewer.
LEMMA MovingBounds ==
  ASSUME Shape, NEW n \in Nat
  PROVE  Moving(n) \in Nat /\ Moving(n) <= n /\ Moving(n) <= region.bottom - region.top + 1
<1> DEFINE k == region.bottom - region.top + 1
<1>1. k \in Nat
  BY DEF Shape, IsRegion, Fits
<1> HIDE DEF k
<1>2. Min({n, k}) \in {n, k} /\ Min({n, k}) <= n /\ Min({n, k}) <= k
  <2>1. CASE n <= k
    <3>1. \A y \in {n, k} : n =< y
      BY <1>1, <2>1
    <3> QED
      BY <1>1, <3>1 DEF Min
  <2>2. CASE k <= n
    <3>1. \A y \in {n, k} : k =< y
      BY <1>1, <2>2
    <3> QED
      BY <1>1, <3>1 DEF Min
  <2> QED
    BY <1>1, <2>1, <2>2
<1> QED
  BY <1>1, <1>2 DEF Moving, k

\* The rows of a screen.
LEMMA RowsOfAScreen ==
  ASSUME NEW G, NEW c, NEW r, NEW lines \in Screen(G, c, r)
  PROVE  /\ lines \in Seq(G \cap Line(c)) /\ Len(lines) = r /\ DOMAIN lines = 1..r
         /\ \A i \in 1..r : lines[i] \in G /\ lines[i] \in Line(c)
BY LenProperties, ElementOfSeq DEF Screen

\* Some rows of a screen.
LEMMA SomeRows ==
  ASSUME NEW S, NEW lines \in Seq(S), NEW m \in Nat, NEW n \in Nat, m >= 1, m <= n + 1, n <= Len(lines)
  PROVE  SubSeq(lines, m, n) \in Seq(S) /\ Len(SubSeq(lines, m, n)) = n - m + 1
<1>1. \A i \in m..n : i \in 1..Len(lines) /\ lines[i] \in S
  BY LenProperties, ElementOfSeq
<1> QED
  BY <1>1, SubSeqProperties

\* Scrolling keeps a screen a screen (scroll_up_in_region, scroll_down_in_region).
LEMMA ScrollingKeepsScreens ==
  ASSUME Shape, NEW G, Fresh(G), NEW lines \in Screen(G, cols, rows), NEW n \in Nat
  PROVE  /\ ScrolledUp(lines, n) \in Screen(G, cols, rows)
         /\ ScrolledDown(lines, n) \in Screen(G, cols, rows)
<1> DEFINE m == Moving(n)
           t == region.top
           b == region.bottom
           S == G \cap Line(cols)
           new == NewScreen(cols, m)
<1>1. t \in Nat /\ b \in Nat /\ t <= b /\ b < rows /\ rows \in Nat /\ cols \in Nat \ {0}
  BY DEF Shape, IsRegion, Fits
<1>2. m \in Nat /\ m <= b - t + 1
  BY MovingBounds
<1>3. lines \in Seq(S) /\ Len(lines) = rows
  BY RowsOfAScreen
<1>4. new \in Seq(S) /\ Len(new) = m
  BY <1>1, <1>2, NewScreenIsAScreen DEF Screen
<1> HIDE DEF m, t, b, S, new
<1>5. /\ SubSeq(lines, 1, t) \in Seq(S) /\ Len(SubSeq(lines, 1, t)) = t
      /\ SubSeq(lines, t + m + 1, b + 1) \in Seq(S) /\ Len(SubSeq(lines, t + m + 1, b + 1)) = b + 1 - (t + m)
      /\ SubSeq(lines, t + 1, b + 1 - m) \in Seq(S) /\ Len(SubSeq(lines, t + 1, b + 1 - m)) = b + 1 - m - t
      /\ SubSeq(lines, b + 2, rows) \in Seq(S) /\ Len(SubSeq(lines, b + 2, rows)) = rows - (b + 1)
  <2>1. /\ 1 <= t + 1 /\ t <= rows
        /\ t + m + 1 \in Nat /\ b + 1 \in Nat /\ t + m + 1 >= 1 /\ t + m + 1 <= (b + 1) + 1 /\ b + 1 <= rows
        /\ t + 1 \in Nat /\ b + 1 - m \in Nat /\ t + 1 <= (b + 1 - m) + 1 /\ b + 1 - m <= rows
        /\ b + 2 \in Nat /\ b + 2 >= 1 /\ b + 2 <= rows + 1
    BY <1>1, <1>2
  <2>2. SubSeq(lines, 1, t) \in Seq(S) /\ Len(SubSeq(lines, 1, t)) = t - 1 + 1
    BY <1>1, <1>3, <2>1, SomeRows
  <2>3. SubSeq(lines, t + m + 1, b + 1) \in Seq(S) /\ Len(SubSeq(lines, t + m + 1, b + 1)) = (b + 1) - (t + m + 1) + 1
    BY <1>3, <2>1, SomeRows
  <2>4. SubSeq(lines, t + 1, b + 1 - m) \in Seq(S) /\ Len(SubSeq(lines, t + 1, b + 1 - m)) = (b + 1 - m) - (t + 1) + 1
    BY <1>3, <2>1, SomeRows
  <2>5. SubSeq(lines, b + 2, rows) \in Seq(S) /\ Len(SubSeq(lines, b + 2, rows)) = rows - (b + 2) + 1
    BY <1>1, <1>3, <2>1, SomeRows
  <2> QED
    BY <1>1, <1>2, <2>2, <2>3, <2>4, <2>5
<1> DEFINE p == SubSeq(lines, 1, t)
           q == SubSeq(lines, t + m + 1, b + 1)
           s == SubSeq(lines, t + 1, b + 1 - m)
           u == SubSeq(lines, b + 2, rows)
<1>6. ScrolledUp(lines, n) = ((p \o q) \o new) \o u /\ ScrolledDown(lines, n) = ((p \o new) \o s) \o u
  BY <1>3 DEF ScrolledUp, ScrolledDown, m, t, b, new
<1> HIDE DEF p, q, s, u
<1>7. /\ p \in Seq(S) /\ Len(p) = t /\ q \in Seq(S) /\ Len(q) = b + 1 - (t + m)
      /\ s \in Seq(S) /\ Len(s) = b + 1 - m - t /\ u \in Seq(S) /\ Len(u) = rows - (b + 1)
  BY <1>5 DEF p, q, s, u
<1>8. p \o q \in Seq(S) /\ Len(p \o q) = Len(p) + Len(q) /\ p \o new \in Seq(S) /\ Len(p \o new) = Len(p) + Len(new)
  BY <1>4, <1>7, ConcatProperties
<1>9. (p \o q) \o new \in Seq(S) /\ Len((p \o q) \o new) = Len(p \o q) + Len(new)
  BY ONLY <1>4, <1>8, ConcatProperties
<1>12. (p \o new) \o s \in Seq(S) /\ Len((p \o new) \o s) = Len(p \o new) + Len(s)
  BY ONLY <1>7, <1>8, ConcatProperties
<1>10. /\ ((p \o q) \o new) \o u \in Seq(S) /\ Len(((p \o q) \o new) \o u) = Len((p \o q) \o new) + Len(u)
       /\ ((p \o new) \o s) \o u \in Seq(S) /\ Len(((p \o new) \o s) \o u) = Len((p \o new) \o s) + Len(u)
  BY <1>7, <1>9, <1>12, ConcatProperties
<1>11. Len(((p \o q) \o new) \o u) = rows /\ Len(((p \o new) \o s) \o u) = rows
  BY <1>1, <1>2, <1>4, <1>7, <1>8, <1>9, <1>10, <1>12
<1> QED
  BY <1>6, <1>10, <1>11 DEF Screen, S

\* Induction over the natural numbers, for sets.
LEMMA Numbers ==
  ASSUME NEW S, 0 \in S, \A n \in Nat : n \in S => n + 1 \in S
  PROVE  \A n \in Nat : n \in S
<1> DEFINE B == {n \in Nat : n \notin S}
           Up(n) == {m \in B : m <= n}
           T == {Up(n) : n \in B}
<1> SUFFICES ASSUME B # {} PROVE FALSE
  OBVIOUS
<1>1. T \subseteq FiniteSubsetsOf(B)
  <2> SUFFICES ASSUME NEW n \in B
               PROVE  Up(n) \in SUBSET B /\ IsFiniteSet(Up(n))
    BY DEF FiniteSubsetsOf
  <2>1. n \in Nat /\ Up(n) \in SUBSET Nat /\ Up(n) \in SUBSET B /\ \A m \in Up(n) : m <= n
    OBVIOUS
  <2> HIDE DEF Up
  <2> QED
    BY <2>1, FS_BoundedSetOfNaturals
<1>2. T # {}
  OBVIOUS
<1>3. IsWellFoundedOn(StrictSubsetOrdering(B), FiniteSubsetsOf(B))
  BY FS_StrictSubsetOrderingWellFounded
<1> HIDE DEF T
<1>4. PICK X \in T : \A Y \in T : ~(<<Y, X>> \in StrictSubsetOrdering(B))
  BY <1>1, <1>2, <1>3, WFMin
<1> USE DEF T
<1>5. PICK n \in B : X = Up(n)
  OBVIOUS
<1>6. n - 1 \in Nat /\ n - 1 \notin S
  OBVIOUS
<1> DEFINE m == n - 1
<1>7. m \in B /\ m < n
  BY <1>6
<1> HIDE DEF m
<1>8. n \in Up(n) /\ n \notin Up(m) /\ Up(m) \in SUBSET Up(n)
  BY <1>7
<1>9. <<Up(m), X>> \in StrictSubsetOrdering(B)
  BY <1>5, <1>8 DEF StrictSubsetOrdering
<1> QED
  BY <1>4, <1>7, <1>9

\* The greatest of some of the numbers up to k is k, if k is one of them.
LEMMA LastOne ==
  ASSUME NEW k \in Nat, NEW S \in SUBSET (1..k), k \in S
  PROVE  Max(S) = k
<1>1. Max(S) = CHOOSE x \in S : \A y \in S : x >= y
  BY DEF Max
<1>2. \A y \in S : k >= y
  OBVIOUS
<1>3. \A x \in S : (\A y \in S : x >= y) => x = k
  <2> TAKE x \in S
  <2>1. x \in Nat /\ x <= k
    OBVIOUS
  <2> QED
    BY <2>1
<1> QED
  BY <1>1, <1>2, <1>3

-----------------------------------------------------------------------------
(* The scrollback.                                                            *)

\* A row that is pushed is one more, and no more than there may be.
LEMMA PushingARow ==
  ASSUME NEW G, NEW buffer \in Seq(G), NEW row \in G
  PROVE  PushRow(buffer, row, MaxLines) \in Seq(G) /\ Len(PushRow(buffer, row, MaxLines)) <= MaxLines
<1> DEFINE n == Len(buffer) + 1
           k == Min({MaxLines, n})
           all == <<row>> \o buffer
<1>1. MaxLines \in Nat /\ n \in Nat
  BY LenProperties, TerminalAssumption
<1>2. all \in Seq(G) /\ Len(all) = n
  <2>1. <<row>> \in Seq(G) /\ Len(<<row>>) = 1
    OBVIOUS
  <2> QED
    BY <1>1, <2>1, ConcatProperties
<1> HIDE DEF n, all
<1>3. k \in Nat /\ k <= MaxLines /\ k <= n
  <2>1. CASE n <= MaxLines
    <3>1. \A y \in {MaxLines, n} : n =< y
      BY <1>1, <2>1
    <3> QED
      BY <1>1, <3>1 DEF Min
  <2>2. CASE MaxLines <= n
    <3>1. \A y \in {MaxLines, n} : MaxLines =< y
      BY <1>1, <2>2
    <3> QED
      BY <1>1, <3>1 DEF Min
  <2> QED
    BY <1>1, <2>1, <2>2
<1> HIDE DEF k
<1>4. SubSeq(all, 1, k) \in Seq(G) /\ Len(SubSeq(all, 1, k)) = k - 1 + 1
  BY <1>1, <1>2, <1>3, SomeRows
<1>5. PushRow(buffer, row, MaxLines) = SubSeq(all, 1, k)
  BY DEF PushRow, all, k, n
<1> QED
  BY <1>1, <1>3, <1>4, <1>5

\* What is left of the rows that are pushed one after the other
\* (ScrollbackBuffer::push).
PushAll(buffer, lines) == FoldLeft(LAMBDA old, row : PushRow(old, row, MaxLines), buffer, lines)

\* The scrollback after each of the rows.
Pushes(buffer, lines, r) ==
  /\ r[0] = buffer
  /\ \A k \in 1..Len(lines) : r[k] = PushRow(r[k - 1], lines[k], MaxLines)

\* The fold of the library, as a function of sets of positions.
PushFold(buffer, lines, n, f) ==
  f = [S \in SUBSET (1..n) |-> IF S = {} THEN buffer
                               ELSE PushRow(f[S \ {Max(S)}], lines[Max(S)], MaxLines)]

\* There is one, by induction over the positions.
LEMMA PushFoldExists ==
  ASSUME NEW buffer, NEW lines, NEW n \in Nat
  PROVE  \E f : PushFold(buffer, lines, n, f)
<1> DEFINE P == {k \in Nat : \E f : PushFold(buffer, lines, k, f)}
<1>1. 0 \in P
  <2> DEFINE f == [S \in SUBSET (1..0) |-> buffer]
  <2>1. \A S \in SUBSET (1..0) : S = {}
    OBVIOUS
  <2>2. f = [S \in SUBSET (1..0) |-> IF S = {} THEN buffer
                                      ELSE PushRow(f[S \ {Max(S)}], lines[Max(S)], MaxLines)]
    BY <2>1
  <2> HIDE DEF f
  <2>3. PushFold(buffer, lines, 0, f)
    BY <2>2 DEF PushFold
  <2> QED
    BY <2>3
<1>2. ASSUME NEW k \in Nat, k \in P
      PROVE  k + 1 \in P
  <2>1. PICK f : PushFold(buffer, lines, k, f)
    BY <1>2
  <2> DEFINE m == k + 1
             g == [S \in SUBSET (1..m) |-> IF m \in S THEN PushRow(f[S \ {m}], lines[m], MaxLines) ELSE f[S]]
             h == [S \in SUBSET (1..m) |-> IF S = {} THEN buffer
                                           ELSE PushRow(g[S \ {Max(S)}], lines[Max(S)], MaxLines)]
  <2>2. ASSUME NEW S \in SUBSET (1..m)
        PROVE  g[S] = h[S]
    <3>1. CASE m \in S
      <4>1. S \ {m} \in SUBSET (1..k) /\ S \ {m} \in SUBSET (1..m) /\ m \notin S \ {m}
        OBVIOUS
      <4>2. Max(S) = m
        BY <3>1, LastOne
      <4> QED
        BY <3>1, <4>1, <4>2
    <3>2. CASE m \notin S
      <4>1. S \in SUBSET (1..k)
        BY <3>2
      <4>2. CASE S = {}
        BY <2>1, <3>2, <4>1, <4>2 DEF PushFold
      <4>3. CASE S # {}
        <5>1. S \ {Max(S)} \in SUBSET (1..k) /\ S \ {Max(S)} \in SUBSET (1..m) /\ m \notin S \ {Max(S)}
          BY <3>2, <4>1
        <5>2. f[S] = PushRow(f[S \ {Max(S)}], lines[Max(S)], MaxLines)
          BY <2>1, <4>1, <4>3 DEF PushFold
        <5> QED
          BY <3>2, <4>3, <5>1, <5>2
      <4> QED
        BY <4>2, <4>3
    <3> QED
      BY <3>1, <3>2
  <2>3. g = h
    BY <2>2
  <2> HIDE DEF g
  <2>4. PushFold(buffer, lines, m, g)
    BY <2>3 DEF PushFold
  <2> QED
    BY <2>4
<1> HIDE DEF P
<1>3. n \in P
  BY <1>1, <1>2, Numbers
<1> QED
  BY <1>3 DEF P

\* What is left in the end is what is left after the last row.
LEMMA PushesExist ==
  ASSUME NEW buffer, NEW lines, Len(lines) \in Nat, DOMAIN lines = 1..Len(lines)
  PROVE  \E r : Pushes(buffer, lines, r) /\ r[Len(lines)] = PushAll(buffer, lines)
<1> DEFINE n == Len(lines)
           f == CHOOSE g : PushFold(buffer, lines, n, g)
           r == [k \in 0..n |-> f[1..k]]
<1>1. PushFold(buffer, lines, n, f)
  BY PushFoldExists
<1>2. PushAll(buffer, lines) = f[1..n]
  BY DEF PushAll, FoldLeft, MapThenFoldSet, PushFold
<1> HIDE DEF f
<1>3. r[0] = buffer
  <2>1. 1..0 = {} /\ 1..0 \in SUBSET (1..n)
    OBVIOUS
  <2> QED
    BY <1>1, <2>1 DEF PushFold
<1>4. ASSUME NEW k \in 1..n
      PROVE  r[k] = PushRow(r[k - 1], lines[k], MaxLines)
  <2>1. 1..k \in SUBSET (1..n) /\ k \in 1..k /\ (1..k) \ {k} = 1..(k - 1) /\ k - 1 \in 0..n
    OBVIOUS
  <2>2. Max(1..k) = k
    BY <2>1, LastOne
  <2>3. f[1..k] = PushRow(f[1..(k - 1)], lines[k], MaxLines)
    BY <1>1, <2>1, <2>2 DEF PushFold
  <2> QED
    BY <2>1, <2>3
<1>5. r[n] = f[1..n]
  OBVIOUS
<1> HIDE DEF r
<1> QED
  BY <1>2, <1>3, <1>4, <1>5 DEF Pushes

\* The scrollback holds rows, and no more than it may.
LEMMA PushingRows ==
  ASSUME NEW G, NEW buffer \in Seq(G), Len(buffer) <= MaxLines, NEW lines \in Seq(G)
  PROVE  PushAll(buffer, lines) \in Seq(G) /\ Len(PushAll(buffer, lines)) <= MaxLines
<1>1. Len(lines) \in Nat /\ DOMAIN lines = 1..Len(lines) /\ \A k \in 1..Len(lines) : lines[k] \in G
  BY LenProperties, ElementOfSeq
<1>2. PICK r : Pushes(buffer, lines, r) /\ r[Len(lines)] = PushAll(buffer, lines)
  BY <1>1, PushesExist
<1> DEFINE P == {k \in Nat : k <= Len(lines) => r[k] \in Seq(G) /\ Len(r[k]) <= MaxLines}
<1>3. 0 \in P
  BY <1>2 DEF Pushes
<1>4. ASSUME NEW k \in Nat, k \in P
      PROVE  k + 1 \in P
  <2> SUFFICES ASSUME k + 1 <= Len(lines)
               PROVE  r[k + 1] \in Seq(G) /\ Len(r[k + 1]) <= MaxLines
    OBVIOUS
  <2>1. r[k] \in Seq(G) /\ k + 1 \in 1..Len(lines) /\ (k + 1) - 1 = k
    BY <1>1, <1>4
  <2>2. r[k + 1] = PushRow(r[k], lines[k + 1], MaxLines)
    BY <1>2, <2>1 DEF Pushes
  <2> QED
    BY <1>1, <2>1, <2>2, PushingARow
<1> HIDE DEF P
<1>5. Len(lines) \in P
  BY <1>1, <1>3, <1>4, Numbers
<1> QED
  BY <1>1, <1>2, <1>5 DEF P

\* What scroll_up_in_region takes off the top of a screen.
LEMMA CapturingKeepsRows ==
  ASSUME Shape, NEW G, scrollback \in Seq(G), Len(scrollback) <= MaxLines,
         NEW lines \in Screen(G, cols, rows), NEW n \in Nat
  PROVE  Captured(lines, n) \in Seq(G) /\ Len(Captured(lines, n)) <= MaxLines
<1>1. Moving(n) \in Nat /\ Moving(n) <= rows /\ rows \in Nat
  <2>1. /\ region.top \in Nat /\ region.bottom \in Nat /\ rows \in Nat
        /\ region.top <= region.bottom /\ region.bottom < rows
    BY DEF Shape, IsRegion, Fits
  <2>2. Moving(n) \in Nat /\ Moving(n) <= region.bottom - region.top + 1
    BY MovingBounds
  <2> QED
    BY <2>1, <2>2
<1>2. lines \in Seq(G) /\ Len(lines) = rows
  <2> DEFINE S == G \cap Line(cols)
  <2>1. lines \in Seq(S) /\ Len(lines) = rows /\ S \subseteq G
    BY RowsOfAScreen
  <2> HIDE DEF S
  <2> QED
    BY <2>1, SeqMonotonic
<1>3. SubSeq(lines, 1, Moving(n)) \in Seq(G)
  <2> DEFINE m == Moving(n)
  <2> HIDE DEF m
  <2>1. m \in Nat /\ m <= rows
    BY <1>1 DEF m
  <2>2. SubSeq(lines, 1, m) \in Seq(G)
    BY <1>1, <1>2, <2>1, SomeRows
  <2> QED
    BY <2>2 DEF m
<1>4. /\ PushAll(scrollback, SubSeq(lines, 1, Moving(n))) \in Seq(G)
      /\ Len(PushAll(scrollback, SubSeq(lines, 1, Moving(n)))) <= MaxLines
  BY <1>3, PushingRows
<1> QED
  BY <1>4 DEF Captured, PushAll

-----------------------------------------------------------------------------
(* Reflow.                                                                    *)

\* Cells, or a row, in which every lead has its tail and every tail its lead.
WholeCells(cells) ==
  /\ cells \in Seq(Cell)
  /\ \A i \in 1..Len(cells) :
       /\ cells[i].kind = "tail" => i > 1 /\ cells[i - 1].kind = "lead"
       /\ cells[i].kind = "lead" => i < Len(cells) /\ cells[i + 1].kind = "tail"
WholeLine(w) ==
  {l \in Line(w) : \A c \in 0..(w - 1) :
     /\ l.cells[c].kind = "tail" => c > 0 /\ l.cells[c - 1].kind = "lead"
     /\ l.cells[c].kind = "lead" => c + 1 < w /\ l.cells[c + 1].kind = "tail"}

\* Whole cells make a whole row.
LEMMA RowOfIsWhole ==
  ASSUME NEW w \in Nat \ {0}, NEW cells, WholeCells(cells), Len(cells) <= w, NEW wrapped \in BOOLEAN
  PROVE  RowOf(cells, w, wrapped) \in WholeLine(w)
<1> DEFINE n == Len(cells)
           f == [c \in 0..(w - 1) |-> IF c < n THEN cells[c + 1] ELSE Blank]
<1>1. n \in Nat /\ n <= w /\ \A i \in 1..n : cells[i] \in Cell
  BY LenProperties, ElementOfSeq DEF WholeCells
<1>2. /\ \A i \in 1..n : cells[i].kind = "tail" => i > 1 /\ cells[i - 1].kind = "lead"
      /\ \A i \in 1..n : cells[i].kind = "lead" => i < n /\ cells[i + 1].kind = "tail"
  BY DEF WholeCells
<1>3. Blank \in Cell /\ Blank.kind = "single"
  BY BlankIsACell DEF Blank
<1> HIDE DEF n
<1>4. f \in [0..(w - 1) -> Cell]
  BY <1>1, <1>3
<1>5. ASSUME NEW c \in 0..(w - 1)
      PROVE  /\ f[c].kind = "tail" => c > 0 /\ f[c - 1].kind = "lead"
             /\ f[c].kind = "lead" => c + 1 < w /\ f[c + 1].kind = "tail"
  <2>1. CASE c < n
    <3>1. c + 1 \in 1..n /\ f[c] = cells[c + 1] /\ (c + 1) - 1 = c
      BY <1>1, <2>1
    <3>2. cells[c + 1].kind = "tail" => c + 1 > 1 /\ cells[(c + 1) - 1].kind = "lead"
      BY <1>2, <3>1
    <3>3. cells[c + 1].kind = "lead" => c + 1 < n /\ cells[(c + 1) + 1].kind = "tail"
      BY <1>2, <3>1
    <3>4. c > 0 => f[c - 1] = cells[c]
      BY <1>1, <2>1
    <3>5. c + 1 < n => c + 1 < w /\ f[c + 1] = cells[(c + 1) + 1]
      BY <1>1, <2>1
    <3> QED
      BY <3>1, <3>2, <3>3, <3>4, <3>5
  <2>2. CASE ~(c < n)
    BY <1>3, <2>2
  <2> QED
    BY <2>1, <2>2
<1>6. RowOf(cells, w, wrapped) = [cells |-> f, wrapped |-> wrapped]
  BY DEF RowOf, n
<1> HIDE DEF f
<1> QED
  BY <1>4, <1>5, <1>6 DEF WholeLine, Line

\* The steps of rewrap_line, for a width.
Flush(acc, w) == [acc EXCEPT !.rows = Append(acc.rows, RowOf(acc.line, w, TRUE)), !.line = <<>>]
Full(acc, w) == IF Len(acc.line) >= w THEN Flush(acc, w) ELSE acc
Add(acc, more, w) == Full([acc EXCEPT !.line = acc.line \o more], w)
RewrapStep(acc, cell, w) ==
  CASE acc.skip -> [acc EXCEPT !.skip = FALSE]
    [] ~acc.skip /\ cell.kind = "tail" -> acc
    [] ~acc.skip /\ cell.kind = "lead" /\ w = 1 ->
         [Add(acc, <<Blank>>, w) EXCEPT !.skip = TRUE]
    [] ~acc.skip /\ cell.kind = "lead" /\ w > 1 ->
         Add(IF Len(acc.line) + 1 >= w THEN Flush(acc, w) ELSE acc,
             <<cell, [Blank EXCEPT !.kind = "tail"]>>, w)
    [] OTHER -> Add(acc, <<cell>>, w)

\* What has been made of the first cells.
Rewraps(cells, w, a) ==
  /\ a[0] = [rows |-> <<>>, line |-> <<>>, skip |-> FALSE]
  /\ \A i \in 1..Len(cells) : a[i] = RewrapStep(a[i - 1], cells[i], w)
RewrapFold(cells, w, n, a) ==
  a = [i \in 0..n |-> IF i = 0 THEN [rows |-> <<>>, line |-> <<>>, skip |-> FALSE]
                      ELSE RewrapStep(a[i - 1], cells[i], w)]

\* There is such a function, by induction over the cells.
LEMMA RewrapFoldExists ==
  ASSUME NEW cells, NEW w, NEW n \in Nat
  PROVE  \E a : RewrapFold(cells, w, n, a)
<1> DEFINE P == {k \in Nat : \E a : RewrapFold(cells, w, k, a)}
           zero == [rows |-> <<>>, line |-> <<>>, skip |-> FALSE]
<1>1. 0 \in P
  <2> DEFINE a == [i \in 0..0 |-> zero]
  <2>1. a = [i \in 0..0 |-> IF i = 0 THEN zero ELSE RewrapStep(a[i - 1], cells[i], w)]
    OBVIOUS
  <2> HIDE DEF a
  <2>2. RewrapFold(cells, w, 0, a)
    BY <2>1 DEF RewrapFold
  <2> QED
    BY <2>2
<1>2. ASSUME NEW k \in Nat, k \in P
      PROVE  k + 1 \in P
  <2>1. PICK a : RewrapFold(cells, w, k, a)
    BY <1>2
  <2> HIDE DEF zero
  <2> DEFINE m == k + 1
             b == [i \in 0..m |-> IF i = m THEN RewrapStep(a[k], cells[m], w) ELSE a[i]]
  <2>2. ASSUME NEW i \in 0..m
        PROVE  b[i] = IF i = 0 THEN zero ELSE RewrapStep(b[i - 1], cells[i], w)
    <3>1. CASE i = m
      BY <3>1
    <3>2. CASE i # m
      <4>1. i \in 0..k /\ b[i] = a[i] /\ (i # 0 => i - 1 \in 0..k /\ i - 1 # m /\ b[i - 1] = a[i - 1])
        BY <3>2
      <4>2. a[i] = IF i = 0 THEN zero ELSE RewrapStep(a[i - 1], cells[i], w)
        BY <2>1, <4>1 DEF RewrapFold, zero
      <4> QED
        BY <4>1, <4>2
    <3> QED
      BY <3>1, <3>2
  <2>3. b = [i \in 0..m |-> IF i = 0 THEN zero ELSE RewrapStep(b[i - 1], cells[i], w)]
    <3> DEFINE d == [i \in 0..m |-> IF i = 0 THEN zero ELSE RewrapStep(b[i - 1], cells[i], w)]
    <3>1. \A i \in 0..m : b[i] = d[i]
      BY <2>2
    <3>2. DOMAIN b = 0..m /\ DOMAIN d = 0..m
      OBVIOUS
    <3> QED
      BY <3>1, <3>2
  <2> HIDE DEF b
  <2>4. RewrapFold(cells, w, m, b)
    BY <2>3 DEF RewrapFold, zero
  <2> QED
    BY <2>4
<1> HIDE DEF P
<1>3. n \in P
  BY <1>1, <1>2, Numbers
<1> QED
  BY <1>3 DEF P

\* rewrap_line, from what has been made of all cells.
Rewrapped(done, w) ==
  LET all == IF done.line # <<>> \/ done.rows = <<>>
               THEN Append(done.rows, RowOf(done.line, w, FALSE)) ELSE done.rows
  IN [all EXCEPT ![Len(all)].wrapped = FALSE]

\* rewrap_line goes through the cells one by one.
LEMMA RewrapsExist ==
  ASSUME NEW cells, NEW w, Len(cells) \in Nat
  PROVE  \E a : Rewraps(cells, w, a) /\ RewrapLine(cells, w) = Rewrapped(a[Len(cells)], w)
<1> DEFINE n == Len(cells)
           a == CHOOSE b : RewrapFold(cells, w, n, b)
<1>1. RewrapFold(cells, w, n, a)
  BY RewrapFoldExists
<1>2. RewrapLine(cells, w) = Rewrapped(a[n], w)
  BY DEF RewrapLine, Rewrapped, RewrapFold, RewrapStep, Add, Full, Flush
<1> HIDE DEF a
<1>3. Rewraps(cells, w, a)
  <2>1. a[0] = [rows |-> <<>>, line |-> <<>>, skip |-> FALSE]
    BY <1>1 DEF RewrapFold
  <2>2. ASSUME NEW i \in 1..n
        PROVE  a[i] = RewrapStep(a[i - 1], cells[i], w)
    <3>1. i \in 0..n /\ i # 0
      OBVIOUS
    <3> QED
      BY <1>1, <3>1 DEF RewrapFold
  <2> QED
    BY <2>1, <2>2 DEF Rewraps
<1> QED
  BY <1>2, <1>3

\* What rewrap_line has at any time: whole rows, whole cells that fill no row, and
\* whether the next cell is to be skipped.
Halfway(acc, w) ==
  /\ acc \in [rows : Seq(WholeLine(w)), line : Seq(Cell), skip : BOOLEAN]
  /\ WholeCells(acc.line) /\ Len(acc.line) < w

\* A row that is put down.
LEMMA FlushKeeps ==
  ASSUME NEW w \in Nat \ {0}, NEW acc \in [rows : Seq(WholeLine(w)), line : Seq(Cell), skip : BOOLEAN],
         WholeCells(acc.line), Len(acc.line) <= w
  PROVE  Halfway(Flush(acc, w), w) /\ Flush(acc, w).line = <<>> /\ Flush(acc, w).skip = acc.skip
<1>1. RowOf(acc.line, w, TRUE) \in WholeLine(w)
  BY RowOfIsWhole
<1> DEFINE new == Append(acc.rows, RowOf(acc.line, w, TRUE))
<1>2. new \in Seq(WholeLine(w))
  BY <1>1, AppendProperties
<1>3. WholeCells(<<>>) /\ Len(<<>>) = 0 /\ <<>> \in Seq(Cell)
  BY EmptySeq DEF WholeCells
<1> HIDE DEF new
<1>4. Flush(acc, w) = [acc EXCEPT !.rows = new, !.line = <<>>]
  BY DEF Flush, new
<1> DEFINE next == [acc EXCEPT !.rows = new, !.line = <<>>]
<1>5. next \in [rows : Seq(WholeLine(w)), line : Seq(Cell), skip : BOOLEAN]
  BY <1>2, <1>3
<1>6. next.line = <<>> /\ next.skip = acc.skip
  OBVIOUS
<1> HIDE DEF next
<1>7. Halfway(next, w)
  BY <1>3, <1>5, <1>6 DEF Halfway
<1> QED
  BY <1>4, <1>6, <1>7 DEF next

\* Whole cells behind whole cells are whole.
LEMMA WholeConcat ==
  ASSUME NEW s, NEW t, WholeCells(s), WholeCells(t)
  PROVE  WholeCells(s \o t) /\ Len(s \o t) = Len(s) + Len(t)
<1> DEFINE m == Len(s)
           n == Len(t)
           u == s \o t
<1>1. s \in Seq(Cell) /\ t \in Seq(Cell) /\ m \in Nat /\ n \in Nat
  BY LenProperties DEF WholeCells
<1>2. /\ u \in Seq(Cell) /\ Len(u) = m + n
      /\ \A i \in 1..(m + n) : u[i] = IF i <= m THEN s[i] ELSE t[i - m]
  BY <1>1, ConcatProperties
<1>3. /\ \A i \in 1..m : s[i].kind = "tail" => i > 1 /\ s[i - 1].kind = "lead"
      /\ \A i \in 1..m : s[i].kind = "lead" => i < m /\ s[i + 1].kind = "tail"
      /\ \A i \in 1..n : t[i].kind = "tail" => i > 1 /\ t[i - 1].kind = "lead"
      /\ \A i \in 1..n : t[i].kind = "lead" => i < n /\ t[i + 1].kind = "tail"
  BY DEF WholeCells
<1> HIDE DEF m, n, u
<1>4. ASSUME NEW i \in 1..(m + n)
      PROVE  /\ u[i].kind = "tail" => i > 1 /\ u[i - 1].kind = "lead"
             /\ u[i].kind = "lead" => i < m + n /\ u[i + 1].kind = "tail"
  <2>1. CASE i <= m
    <3>1. i \in 1..m /\ u[i] = s[i]
      BY <1>1, <1>2, <2>1
    <3>2. i > 1 => i - 1 \in 1..(m + n) /\ u[i - 1] = s[i - 1]
      BY <1>1, <1>2, <2>1
    <3>3. i < m => i + 1 \in 1..(m + n) /\ u[i + 1] = s[i + 1]
      BY <1>1, <1>2, <2>1
    <3> QED
      BY <1>1, <1>3, <3>1, <3>2, <3>3
  <2>2. CASE ~(i <= m)
    <3> DEFINE j == i - m
    <3>1. j \in 1..n /\ u[i] = t[j]
      BY <1>1, <1>2, <2>2
    <3>2. j > 1 => i - 1 \in 1..(m + n) /\ u[i - 1] = t[j - 1]
      <4>1. j > 1 => i - 1 \in 1..(m + n) /\ ~(i - 1 <= m) /\ (i - 1) - m = j - 1
        BY <1>1
      <4> QED
        BY <1>2, <4>1
    <3>3. j < n => i + 1 \in 1..(m + n) /\ u[i + 1] = t[j + 1]
      <4>1. j < n => i + 1 \in 1..(m + n) /\ ~(i + 1 <= m) /\ (i + 1) - m = j + 1
        BY <1>1, <2>2
      <4> QED
        BY <1>2, <4>1
    <3>4. t[j].kind = "tail" => j > 1 /\ t[j - 1].kind = "lead"
      BY <1>3, <3>1
    <3>5. t[j].kind = "lead" => j < n /\ t[j + 1].kind = "tail"
      BY <1>3, <3>1
    <3>6. (j > 1 => i > 1) /\ (j < n => i < m + n)
      BY <1>1, <2>2
    <3> HIDE DEF j
    <3> QED
      BY <3>1, <3>2, <3>3, <3>4, <3>5, <3>6
  <2> QED
    BY <2>1, <2>2
<1> USE DEF m, n, u
<1> QED
  BY <1>2, <1>4 DEF WholeCells

\* Cells that are added to the line, for which there is room.
LEMMA AddKeeps ==
  ASSUME NEW w \in Nat \ {0}, NEW acc, Halfway(acc, w), NEW more, WholeCells(more),
         Len(acc.line) + Len(more) <= w
  PROVE  Halfway(Add(acc, more, w), w)
<1> DEFINE new == acc.line \o more
           next == [acc EXCEPT !.line = new]
<1>1. WholeCells(new) /\ Len(new) <= w
  BY WholeConcat DEF Halfway
<1>2. new \in Seq(Cell) /\ Len(new) \in Nat
  BY <1>1, LenProperties DEF WholeCells
<1> HIDE DEF new
<1>3. next \in [rows : Seq(WholeLine(w)), line : Seq(Cell), skip : BOOLEAN] /\ next.line = new
  BY <1>2 DEF Halfway
<1> HIDE DEF next
<1>4. Add(acc, more, w) = IF Len(next.line) >= w THEN Flush(next, w) ELSE next
  BY DEF Add, Full, next, new
<1>5. CASE Len(next.line) >= w
  BY <1>1, <1>3, <1>4, <1>5, FlushKeeps
<1>6. CASE ~(Len(next.line) >= w)
  BY <1>1, <1>2, <1>3, <1>4, <1>6 DEF Halfway
<1> QED
  BY <1>5, <1>6

\* One cell more.
LEMMA RewrapStepKeeps ==
  ASSUME NEW w \in Nat \ {0}, NEW acc, Halfway(acc, w), NEW cell \in Cell
  PROVE  Halfway(RewrapStep(acc, cell, w), w)
<1>1. cell.kind \in {"single", "lead", "tail"} /\ Len(acc.line) \in Nat /\ acc.skip \in BOOLEAN
  BY LenProperties DEF Cell, Kinds, Halfway
<1>2. CASE acc.skip
  BY <1>2 DEF RewrapStep, Halfway
<1>3. CASE ~acc.skip /\ cell.kind = "tail"
  BY <1>3 DEF RewrapStep
<1>4. CASE ~acc.skip /\ cell.kind = "lead" /\ w = 1
  <2>1. RewrapStep(acc, cell, w) = [Add(acc, <<Blank>>, w) EXCEPT !.skip = TRUE]
    BY <1>4 DEF RewrapStep
  <2>2. WholeCells(<<Blank>>) /\ Len(<<Blank>>) = 1
    BY BlankIsACell DEF WholeCells, Blank
  <2>4. Halfway(acc, w) /\ Len(acc.line) + 1 <= w
    BY <1>1, <1>4 DEF Halfway
  <2> DEFINE more == <<Blank>>
  <2> HIDE DEF more
  <2>5. Len(acc.line) + Len(more) <= w /\ WholeCells(more)
    BY <2>2, <2>4 DEF more
  <2>6. Halfway(Add(acc, more, w), w)
    BY <2>4, <2>5, AddKeeps
  <2>3. Halfway(Add(acc, <<Blank>>, w), w)
    BY <2>6 DEF more
  <2> QED
    BY <2>1, <2>3 DEF Halfway
<1>5. CASE ~acc.skip /\ cell.kind = "lead" /\ w > 1
  <2> DEFINE before == IF Len(acc.line) + 1 >= w THEN Flush(acc, w) ELSE acc
             more == <<cell, [Blank EXCEPT !.kind = "tail"]>>
  <2>1. RewrapStep(acc, cell, w) = Add(before, more, w)
    BY <1>5 DEF RewrapStep
  <2>2. WholeCells(more) /\ Len(more) = 2
    <3>1. [Blank EXCEPT !.kind = "tail"] \in Cell /\ [Blank EXCEPT !.kind = "tail"].kind = "tail"
      BY BlankIsACell DEF Cell, Kinds
    <3> DEFINE tail == [Blank EXCEPT !.kind = "tail"]
    <3> HIDE DEF tail
    <3>4. tail \in Cell /\ tail.kind = "tail"
      BY <3>1 DEF tail
    <3>5. <<cell, tail>> \in Seq(Cell) /\ Len(<<cell, tail>>) = 2 /\ <<cell, tail>>[1] = cell /\ <<cell, tail>>[2] = tail
      BY <3>4
    <3>2. more \in Seq(Cell) /\ Len(more) = 2 /\ more[1].kind = "lead" /\ more[2].kind = "tail"
      BY <1>5, <3>4, <3>5 DEF tail
    <3> HIDE DEF more
    <3>3. \A i \in 1..2 : i = 1 \/ i = 2
      OBVIOUS
    <3> QED
      BY <3>2, <3>3 DEF WholeCells
  <2>3. Halfway(before, w) /\ Len(before.line) + 2 <= w
    <3>1. CASE Len(acc.line) + 1 >= w
      <4>1. Halfway(Flush(acc, w), w) /\ Flush(acc, w).line = <<>>
        BY <1>1, FlushKeeps DEF Halfway
      <4> QED
        BY <1>5, <3>1, <4>1
    <3>2. CASE ~(Len(acc.line) + 1 >= w)
      BY <1>1, <3>2
    <3> QED
      BY <3>1, <3>2
  <2> HIDE DEF before, more
  <2> QED
    BY <2>1, <2>2, <2>3, AddKeeps
<1>6. CASE ~acc.skip /\ cell.kind = "single"
  <2>1. RewrapStep(acc, cell, w) = Add(acc, <<cell>>, w)
    BY <1>6 DEF RewrapStep
  <2>2. WholeCells(<<cell>>) /\ Len(<<cell>>) = 1
    BY <1>6 DEF WholeCells
  <2> DEFINE more == <<cell>>
  <2> HIDE DEF more
  <2>3. WholeCells(more) /\ Len(acc.line) + Len(more) <= w
    BY <1>1, <2>2 DEF more, Halfway
  <2>4. Halfway(Add(acc, more, w), w)
    BY <2>3, AddKeeps
  <2> QED
    BY <2>1, <2>4 DEF more
<1>7. w > 1 \/ w = 1
  OBVIOUS
<1>8. cell.kind = "single" \/ cell.kind = "lead" \/ cell.kind = "tail"
  BY <1>1
<1>9. \/ acc.skip
      \/ ~acc.skip /\ cell.kind = "tail"
      \/ ~acc.skip /\ cell.kind = "lead" /\ w = 1
      \/ ~acc.skip /\ cell.kind = "lead" /\ w > 1
      \/ ~acc.skip /\ cell.kind = "single"
  BY <1>7, <1>8
<1> QED
  BY <1>2, <1>3, <1>4, <1>5, <1>6, <1>9

\* Whatever the cells are, the rows that are made of them are whole (rewrap_line).
LEMMA RewrapGivesWholeRows ==
  ASSUME NEW w \in Nat \ {0}, NEW cells \in Seq(Cell)
  PROVE  RewrapLine(cells, w) \in Seq(WholeLine(w)) /\ Len(RewrapLine(cells, w)) > 0
<1> DEFINE n == Len(cells)
<1>1. n \in Nat /\ \A i \in 1..n : cells[i] \in Cell
  BY LenProperties, ElementOfSeq
<1>2. PICK a : Rewraps(cells, w, a) /\ RewrapLine(cells, w) = Rewrapped(a[n], w)
  BY <1>1, RewrapsExist
<1> HIDE DEF n
<1> DEFINE P == {k \in Nat : k <= n => Halfway(a[k], w)}
<1>3. 0 \in P
  <2>1. a[0] = [rows |-> <<>>, line |-> <<>>, skip |-> FALSE]
    BY <1>2 DEF Rewraps
  <2>2. WholeCells(<<>>) /\ Len(<<>>) = 0 /\ <<>> \in Seq(Cell) /\ <<>> \in Seq(WholeLine(w))
    BY EmptySeq DEF WholeCells
  <2>3. Halfway(a[0], w)
    BY <2>1, <2>2 DEF Halfway
  <2> QED
    BY <2>3
<1>4. ASSUME NEW k \in Nat, k \in P
      PROVE  k + 1 \in P
  <2> SUFFICES ASSUME k + 1 <= n
               PROVE  Halfway(a[k + 1], w)
    OBVIOUS
  <2>1. k + 1 \in 1..n /\ (k + 1) - 1 = k /\ Halfway(a[k], w)
    BY <1>1, <1>4
  <2>2. a[k + 1] = RewrapStep(a[k], cells[k + 1], w)
    BY <1>2, <2>1 DEF Rewraps, n
  <2> QED
    BY <1>1, <2>1, <2>2, RewrapStepKeeps
<1> HIDE DEF P
<1>5. n \in P
  BY <1>1, <1>3, <1>4, Numbers
<1>6. Halfway(a[n], w)
  BY <1>1, <1>5 DEF P
<1> DEFINE done == a[n]
           new == IF done.line # <<>> \/ done.rows = <<>>
                    THEN Append(done.rows, RowOf(done.line, w, FALSE)) ELSE done.rows
<1>7. new \in Seq(WholeLine(w)) /\ new # <<>>
  <2>1. RowOf(done.line, w, FALSE) \in WholeLine(w)
    <3>1. WholeCells(done.line) /\ Len(done.line) < w /\ done.line \in Seq(Cell)
      BY <1>6 DEF Halfway
    <3>2. Len(done.line) <= w
      BY <3>1, LenProperties
    <3> HIDE DEF done
    <3> QED
      BY <3>1, <3>2, RowOfIsWhole
  <2>2. done.rows \in Seq(WholeLine(w))
    BY <1>6 DEF Halfway
  <2> HIDE DEF done
  <2>3. /\ Append(done.rows, RowOf(done.line, w, FALSE)) \in Seq(WholeLine(w))
        /\ Append(done.rows, RowOf(done.line, w, FALSE)) # <<>>
    <3> DEFINE row == RowOf(done.line, w, FALSE)
               longer == Append(done.rows, row)
    <3>1. row \in WholeLine(w)
      BY <2>1
    <3> HIDE DEF row
    <3>2. longer \in Seq(WholeLine(w)) /\ Len(longer) = Len(done.rows) + 1
      BY <2>2, <3>1, AppendProperties
    <3>3. Len(done.rows) \in Nat
      BY <2>2, LenProperties
    <3>4. longer # <<>>
      BY <3>2, <3>3, EmptySeq
    <3> QED
      BY <3>2, <3>4 DEF row
  <2> QED
    BY <2>2, <2>3
<1>8. RewrapLine(cells, w) = [new EXCEPT ![Len(new)].wrapped = FALSE]
  BY <1>2 DEF Rewrapped
<1> HIDE DEF new
<1>9. Len(new) \in Nat /\ Len(new) > 0 /\ new[Len(new)] \in WholeLine(w)
  <2>1. Len(new) \in Nat \ {0}
    BY <1>7, EmptySeq
  <2> QED
    BY <1>7, <2>1, ElementOfSeq
<1> DEFINE k == Len(new)
           last == [new[k] EXCEPT !.wrapped = FALSE]
<1>10. last \in WholeLine(w)
  BY <1>9 DEF WholeLine, Line
<1>11. RewrapLine(cells, w) = [new EXCEPT ![k] = last]
  BY <1>8
<1> HIDE DEF last
<1>12. [new EXCEPT ![k] = last] \in Seq(WholeLine(w)) /\ Len([new EXCEPT ![k] = last]) = k
  BY <1>7, <1>9, <1>10, ExceptSeq
<1> QED
  BY <1>9, <1>11, <1>12

\* Some of the numbers up to n have a greatest.
LEMMA Greatest ==
  ASSUME NEW n \in Nat, NEW S \in SUBSET (0..n), S # {}
  PROVE  Max(S) \in S /\ \A y \in S : Max(S) >= y
<1> DEFINE P == {k \in Nat : \A R \in SUBSET (0..k) : R # {} => \E x \in R : \A y \in R : x >= y}
<1>1. 0 \in P
  <2>1. \A y \in 0..0 : y = 0
    OBVIOUS
  <2>2. ASSUME NEW R \in SUBSET (0..0), R # {}
        PROVE  \E x \in R : \A y \in R : x >= y
    <3>1. PICK x : x \in R
      BY <2>2
    <3>2. \A y \in R : x >= y
      BY <2>1, <3>1
    <3> QED
      BY <3>1, <3>2
  <2> QED
    BY <2>2
<1>2. ASSUME NEW k \in Nat, k \in P
      PROVE  k + 1 \in P
  <2> SUFFICES ASSUME NEW R \in SUBSET (0..(k + 1)), R # {}
               PROVE  \E x \in R : \A y \in R : x >= y
    OBVIOUS
  <2>1. CASE k + 1 \in R
    BY <2>1
  <2>2. CASE k + 1 \notin R
    <3>1. R \in SUBSET (0..k)
      BY <2>2
    <3> QED
      BY <1>2, <3>1
  <2> QED
    BY <2>1, <2>2
<1> HIDE DEF P
<1>3. n \in P
  BY <1>1, <1>2, Numbers
<1> USE DEF P
<1> QED
  BY <1>3 DEF Max

\* The sequences that are flattened, one after the other (Vec::extend in reflow).
Flattens(seqs, r) ==
  /\ r[1] = seqs[1]
  /\ \A k \in 2..Len(seqs) : r[k] = r[k - 1] \o seqs[k]
FlattenFold(seqs, n, r) == r = [i \in 1..n |-> IF i = 1 THEN seqs[i] ELSE r[i - 1] \o seqs[i]]

\* There is such a function, by induction over the sequences.
LEMMA FlattenFoldExists ==
  ASSUME NEW seqs, NEW n \in Nat
  PROVE  \E r : FlattenFold(seqs, n, r)
<1> DEFINE P == {k \in Nat : \E r : FlattenFold(seqs, k, r)}
<1>1. 0 \in P
  <2> DEFINE r == [i \in 1..0 |-> i]
  <2>1. r = [i \in 1..0 |-> IF i = 1 THEN seqs[i] ELSE r[i - 1] \o seqs[i]]
    OBVIOUS
  <2> HIDE DEF r
  <2>2. FlattenFold(seqs, 0, r)
    BY <2>1 DEF FlattenFold
  <2> QED
    BY <2>2
<1>2. ASSUME NEW k \in Nat, k \in P
      PROVE  k + 1 \in P
  <2>1. PICK r : FlattenFold(seqs, k, r)
    BY <1>2
  <2> DEFINE m == k + 1
             s == [i \in 1..m |-> IF i = m THEN (IF m = 1 THEN seqs[m] ELSE r[k] \o seqs[m]) ELSE r[i]]
             t == [i \in 1..m |-> IF i = 1 THEN seqs[i] ELSE s[i - 1] \o seqs[i]]
  <2>2. ASSUME NEW i \in 1..m
        PROVE  s[i] = t[i]
    <3>1. CASE i = m
      <4>1. m # 1 => k \in 1..m /\ k # m /\ s[k] = r[k] /\ m - 1 = k
        OBVIOUS
      <4> QED
        BY <3>1, <4>1
    <3>2. CASE i # m
      <4>1. i \in 1..k /\ s[i] = r[i] /\ (i # 1 => i - 1 \in 1..k /\ i - 1 \in 1..m /\ i - 1 # m)
        BY <3>2
      <4>2. i # 1 => s[i - 1] = r[i - 1]
        BY <4>1
      <4>3. r[i] = IF i = 1 THEN seqs[i] ELSE r[i - 1] \o seqs[i]
        BY <2>1, <4>1 DEF FlattenFold
      <4> QED
        BY <4>1, <4>2, <4>3
    <3> QED
      BY <3>1, <3>2
  <2>3. s = t
    <3>1. DOMAIN s = 1..m /\ DOMAIN t = 1..m
      OBVIOUS
    <3> QED
      BY <2>2, <3>1
  <2> HIDE DEF s
  <2>4. FlattenFold(seqs, m, s)
    BY <2>3 DEF FlattenFold
  <2> QED
    BY <2>4
<1> HIDE DEF P
<1>3. n \in P
  BY <1>1, <1>2, Numbers
<1> QED
  BY <1>3 DEF P

\* A flattening goes through the sequences one by one.
LEMMA FlattensExist ==
  ASSUME NEW seqs, Len(seqs) \in Nat \ {0}
  PROVE  \E r : Flattens(seqs, r) /\ FlattenSeq(seqs) = r[Len(seqs)]
<1> DEFINE n == Len(seqs)
           r == CHOOSE s : FlattenFold(seqs, n, s)
<1>1. FlattenFold(seqs, n, r)
  BY FlattenFoldExists
<1>2. FlattenSeq(seqs) = r[n]
  BY DEF FlattenSeq, FlattenFold
<1> HIDE DEF r
<1>3. Flattens(seqs, r)
  <2>1. r[1] = seqs[1]
    <3>1. 1 \in 1..n
      OBVIOUS
    <3> QED
      BY <1>1, <3>1 DEF FlattenFold
  <2>2. ASSUME NEW k \in 2..n
        PROVE  r[k] = r[k - 1] \o seqs[k]
    <3>1. k \in 1..n /\ k # 1
      OBVIOUS
    <3> QED
      BY <1>1, <3>1 DEF FlattenFold
  <2> QED
    BY <2>1, <2>2 DEF Flattens
<1> QED
  BY <1>2, <1>3

\* Sequences over a set are flattened to one.
LEMMA FlattenKeeps ==
  ASSUME NEW S, NEW seqs \in Seq(Seq(S))
  PROVE  FlattenSeq(seqs) \in Seq(S)
<1> DEFINE n == Len(seqs)
<1>1. n \in Nat /\ \A i \in 1..n : seqs[i] \in Seq(S)
  BY LenProperties, ElementOfSeq
<1>2. CASE n = 0
  <2>1. seqs = <<>> /\ FlattenSeq(seqs) = seqs
    BY <1>2, EmptySeq DEF FlattenSeq
  <2> QED
    BY <2>1, EmptySeq
<1>3. CASE n # 0
  <2>1. PICK r : Flattens(seqs, r) /\ FlattenSeq(seqs) = r[n]
    BY <1>1, <1>3, FlattensExist
  <2> HIDE DEF n
  <2> DEFINE P == {k \in Nat : k + 1 <= n => r[k + 1] \in Seq(S)}
  <2>2. 0 \in P
    <3>1. r[1] = seqs[1] /\ 1 \in 1..n
      BY <1>1, <1>3, <2>1 DEF Flattens
    <3> QED
      BY <1>1, <3>1
  <2>3. ASSUME NEW k \in Nat, k \in P
        PROVE  k + 1 \in P
    <3> SUFFICES ASSUME (k + 1) + 1 <= n
                 PROVE  r[(k + 1) + 1] \in Seq(S)
      OBVIOUS
    <3> DEFINE m == k + 2
    <3>1. m \in 2..n /\ m \in 1..n /\ m - 1 = k + 1 /\ r[k + 1] \in Seq(S) /\ m = (k + 1) + 1
      BY <1>1, <2>3
    <3> HIDE DEF m
    <3>2. r[m] = r[m - 1] \o seqs[m]
      BY <2>1, <3>1 DEF Flattens, n
    <3>3. r[m - 1] \in Seq(S) /\ seqs[m] \in Seq(S)
      BY <1>1, <3>1
    <3>4. r[m] \in Seq(S)
      BY <3>2, <3>3, ConcatProperties
    <3> QED
      BY <3>1, <3>4
  <2> HIDE DEF P
  <2>4. n - 1 \in P
    <3>1. n - 1 \in Nat
      BY <1>1, <1>3
    <3> QED
      BY <2>2, <2>3, <3>1, Numbers
  <2>5. n - 1 \in Nat /\ (n - 1) + 1 = n
    BY <1>1, <1>3
  <2> QED
    BY <2>1, <2>4, <2>5 DEF P
<1> QED
  BY <1>2, <1>3

\* The cells of a row of some width.
LEMMA CellsOfALine ==
  ASSUME NEW w \in Nat \ {0}, NEW l \in Line(w)
  PROVE  CellsOf(l) \in Seq(Cell) /\ Len(CellsOf(l)) = w /\ \A i \in 1..w : CellsOf(l)[i] = l.cells[i - 1]
<1>1. DOMAIN l.cells = 0..(w - 1) /\ \A c \in 0..(w - 1) : l.cells[c] \in Cell
  BY DEF Line
<1>2. Cardinality(0..(w - 1)) = w
  BY FS_Interval
<1> DEFINE f == [i \in 1..w |-> l.cells[i - 1]]
<1>3. CellsOf(l) = f
  BY <1>1, <1>2 DEF CellsOf
<1>4. f \in [1..w -> Cell]
  BY <1>1
<1>5. \A i \in 1..w : f[i] = l.cells[i - 1]
  OBVIOUS
<1> HIDE DEF f
<1>6. f \in Seq(Cell)
  BY <1>4, SeqDef
<1>7. Len(f) = w
  BY <1>4, <1>6, LenProperties
<1> QED
  BY <1>3, <1>5, <1>6, <1>7

\* Cells without those at the end that are blank (trim_trailing_blank_cells).
LEMMA TrimKeeps ==
  ASSUME NEW C, NEW cells \in Seq(C)
  PROVE  TrimTrailingBlankCells(cells) \in Seq(C)
<1> DEFINE n == Len(cells)
           S == {0} \cup {i \in DOMAIN cells : ~IsBlank(cells[i])}
           m == Max(S)
<1>1. n \in Nat /\ DOMAIN cells = 1..n
  BY LenProperties
<1>2. S \in SUBSET (0..n) /\ S # {}
  BY <1>1
<1> HIDE DEF S
<1>3. m \in S
  BY <1>1, <1>2, Greatest
<1>4. m \in Nat /\ m <= n
  <2>1. m \in 0..n
    BY <1>2, <1>3
  <2> HIDE DEF m, n
  <2> QED
    BY <1>1, <2>1
<1> HIDE DEF m
<1>5. SubSeq(cells, 1, m) \in Seq(C)
  BY <1>4, SomeRows
<1> QED
  BY <1>5 DEF TrimTrailingBlankCells, m, S

\* A row joined to the logical lines so far (collect_logical_lines).
Join(acc, row) ==
  [lines |-> IF acc.open
               THEN Front(acc.lines) \o <<Last(acc.lines) \o CellsOf(row)>>
               ELSE Append(acc.lines, CellsOf(row)),
   open |-> row.wrapped]
NoLines == [lines |-> <<>>, open |-> FALSE]

\* The lines after each of the rows, and the fold of the library.
Joins(from, r) ==
  /\ r[0] = NoLines
  /\ \A k \in 1..Len(from) : r[k] = Join(r[k - 1], from[k])
JoinFold(from, n, f) ==
  f = [S \in SUBSET (1..n) |-> IF S = {} THEN NoLines
                               ELSE Join(f[S \ {Max(S)}], from[Max(S)])]

\* There is one, by induction over the rows.
LEMMA JoinFoldExists ==
  ASSUME NEW from, NEW n \in Nat
  PROVE  \E f : JoinFold(from, n, f)
<1> DEFINE P == {k \in Nat : \E f : JoinFold(from, k, f)}
<1>1. 0 \in P
  <2> DEFINE f == [S \in SUBSET (1..0) |-> NoLines]
  <2>1. \A S \in SUBSET (1..0) : S = {}
    OBVIOUS
  <2>2. f = [S \in SUBSET (1..0) |-> IF S = {} THEN NoLines
                                      ELSE Join(f[S \ {Max(S)}], from[Max(S)])]
    BY <2>1
  <2> HIDE DEF f
  <2>3. JoinFold(from, 0, f)
    BY <2>2 DEF JoinFold
  <2> QED
    BY <2>3
<1>2. ASSUME NEW k \in Nat, k \in P
      PROVE  k + 1 \in P
  <2>1. PICK f : JoinFold(from, k, f)
    BY <1>2
  <2> DEFINE m == k + 1
             g == [S \in SUBSET (1..m) |-> IF m \in S THEN Join(f[S \ {m}], from[m]) ELSE f[S]]
             h == [S \in SUBSET (1..m) |-> IF S = {} THEN NoLines
                                           ELSE Join(g[S \ {Max(S)}], from[Max(S)])]
  <2>2. ASSUME NEW S \in SUBSET (1..m)
        PROVE  g[S] = h[S]
    <3>1. CASE m \in S
      <4>1. S \ {m} \in SUBSET (1..k) /\ S \ {m} \in SUBSET (1..m) /\ m \notin S \ {m}
        OBVIOUS
      <4>2. Max(S) = m
        BY <3>1, LastOne
      <4> QED
        BY <3>1, <4>1, <4>2
    <3>2. CASE m \notin S
      <4>1. S \in SUBSET (1..k)
        BY <3>2
      <4>2. CASE S = {}
        BY <2>1, <3>2, <4>1, <4>2 DEF JoinFold
      <4>3. CASE S # {}
        <5>1. S \ {Max(S)} \in SUBSET (1..k) /\ S \ {Max(S)} \in SUBSET (1..m) /\ m \notin S \ {Max(S)}
          BY <3>2, <4>1
        <5>2. f[S] = Join(f[S \ {Max(S)}], from[Max(S)])
          BY <2>1, <4>1, <4>3 DEF JoinFold
        <5> QED
          BY <3>2, <4>3, <5>1, <5>2
      <4> QED
        BY <4>2, <4>3
    <3> QED
      BY <3>1, <3>2
  <2>3. g = h
    BY <2>2
  <2> HIDE DEF g
  <2>4. JoinFold(from, m, g)
    BY <2>3 DEF JoinFold
  <2> QED
    BY <2>4
<1> HIDE DEF P
<1>3. n \in P
  BY <1>1, <1>2, Numbers
<1> QED
  BY <1>3 DEF P

\* collect_logical_lines goes through the rows one by one.
LEMMA JoinsExist ==
  ASSUME NEW from, Len(from) \in Nat, DOMAIN from = 1..Len(from)
  PROVE  \E r : Joins(from, r) /\ CollectLogicalLines(from) = r[Len(from)].lines
<1> DEFINE n == Len(from)
           f == CHOOSE g : JoinFold(from, n, g)
           r == [k \in 0..n |-> f[1..k]]
<1>1. JoinFold(from, n, f)
  BY JoinFoldExists
<1>2. CollectLogicalLines(from) = f[1..n].lines
  BY DEF CollectLogicalLines, FoldLeft, MapThenFoldSet, JoinFold, Join, NoLines
<1> HIDE DEF f
<1>3. r[0] = NoLines
  <2>1. 1..0 = {} /\ 1..0 \in SUBSET (1..n)
    OBVIOUS
  <2> QED
    BY <1>1, <2>1 DEF JoinFold
<1>4. ASSUME NEW k \in 1..n
      PROVE  r[k] = Join(r[k - 1], from[k])
  <2>1. 1..k \in SUBSET (1..n) /\ k \in 1..k /\ (1..k) \ {k} = 1..(k - 1) /\ k - 1 \in 0..n
    OBVIOUS
  <2>2. Max(1..k) = k
    BY <2>1, LastOne
  <2>3. f[1..k] = Join(f[1..(k - 1)], from[k])
    BY <1>1, <2>1, <2>2 DEF JoinFold
  <2> QED
    BY <2>1, <2>3
<1>5. r[n] = f[1..n]
  OBVIOUS
<1> HIDE DEF r
<1> QED
  BY <1>2, <1>3, <1>4, <1>5 DEF Joins

\* Sequences of cells, the last of which may still be open.
Joined(acc, C) == acc.lines \in Seq(Seq(C)) /\ (acc.open => acc.lines # <<>>) /\ acc.open \in BOOLEAN

\* A row begins a line or lengthens the last one.
LEMMA JoinKeeps ==
  ASSUME NEW C, NEW acc, Joined(acc, C), NEW row \in Lines, CellsOf(row) \in Seq(C)
  PROVE  Joined(Join(acc, row), C) /\ Join(acc, row).lines # <<>>
<1> DEFINE cells == CellsOf(row)
           S == Seq(C)
           lines == acc.lines
           n == Len(lines)
<1>1. cells \in S /\ row.wrapped \in BOOLEAN
  BY DEF Lines, Line
<1>2. lines \in Seq(S) /\ n \in Nat /\ (acc.open => n > 0)
  <2>1. lines \in Seq(S) /\ (acc.open => lines # <<>>)
    BY DEF Joined
  <2> QED
    BY <2>1, LenProperties, EmptySeq
<1> HIDE DEF cells
<1>3. CASE acc.open
  <2>1. lines[n] \in S
    BY <1>2, <1>3, ElementOfSeq
  <2> DEFINE x == lines[n] \o cells
             front == SubSeq(lines, 1, n - 1)
  <2>2. x \in S
    BY <1>1, <2>1, ConcatProperties
  <2>3. front \in Seq(S) /\ Len(front) = n - 1
    <3> DEFINE m == n - 1
    <3>1. m \in Nat /\ m <= n /\ 1 <= m + 1
      BY <1>2, <1>3
    <3> HIDE DEF m
    <3>2. SubSeq(lines, 1, m) \in Seq(S) /\ Len(SubSeq(lines, 1, m)) = m - 1 + 1
      BY <1>2, <3>1, SomeRows
    <3> QED
      BY <3>1, <3>2 DEF m
  <2>4. Join(acc, row) = [lines |-> front \o <<x>>, open |-> row.wrapped]
    BY <1>3 DEF Join, Front, Last, cells
  <2> HIDE DEF front, x, S
  <2>5. <<x>> \in Seq(S) /\ Len(<<x>>) = 1
    BY <2>2
  <2>6. front \o <<x>> \in Seq(S) /\ Len(front \o <<x>>) = Len(front) + 1
    BY <2>3, <2>5, ConcatProperties
  <2> DEFINE new == front \o <<x>>
  <2>7. new \in Seq(S) /\ new # <<>>
    BY <1>2, <1>3, <2>3, <2>6, EmptySeq
  <2> HIDE DEF new
  <2>8. Join(acc, row) = [lines |-> new, open |-> row.wrapped]
    BY <2>4 DEF new
  <2> QED
    BY <1>1, <2>7, <2>8 DEF Joined, S
<1>4. CASE ~acc.open
  <2> DEFINE new == Append(lines, cells)
  <2> HIDE DEF S
  <2>1. new \in Seq(S) /\ Len(new) = n + 1
    BY <1>1, <1>2, AppendProperties
  <2>2. new # <<>>
    BY <1>2, <2>1, EmptySeq
  <2>3. Join(acc, row) = [lines |-> new, open |-> row.wrapped]
    BY <1>4 DEF Join, cells
  <2> HIDE DEF new
  <2> QED
    BY <1>1, <2>1, <2>2, <2>3 DEF Joined, S
<1> QED
  BY <1>3, <1>4

\* Logical lines are sequences of cells.
LEMMA CollectKeeps ==
  ASSUME NEW C, NEW from \in Seq(Lines), \A k \in 1..Len(from) : CellsOf(from[k]) \in Seq(C)
  PROVE  CollectLogicalLines(from) \in Seq(Seq(C))
<1> DEFINE n == Len(from)
<1>1. n \in Nat /\ DOMAIN from = 1..n /\ \A k \in 1..n : from[k] \in Lines
  BY LenProperties, ElementOfSeq
<1>2. PICK r : Joins(from, r) /\ CollectLogicalLines(from) = r[n].lines
  BY <1>1, JoinsExist
<1> HIDE DEF n
<1> DEFINE P == {k \in Nat : k <= n => Joined(r[k], C)}
<1>3. 0 \in P
  <2>1. Joined(NoLines, C)
    BY EmptySeq DEF Joined, NoLines
  <2> QED
    BY <1>2, <2>1 DEF Joins
<1>4. ASSUME NEW k \in Nat, k \in P
      PROVE  k + 1 \in P
  <2> SUFFICES ASSUME k + 1 <= n
               PROVE  Joined(r[k + 1], C)
    OBVIOUS
  <2>1. Joined(r[k], C) /\ k + 1 \in 1..n /\ (k + 1) - 1 = k
    BY <1>1, <1>4
  <2>2. r[k + 1] = Join(r[k], from[k + 1])
    BY <1>2, <2>1 DEF Joins, n
  <2> QED
    BY <1>1, <2>1, <2>2, JoinKeeps
<1> HIDE DEF P
<1>5. n \in P
  BY <1>1, <1>3, <1>4, Numbers
<1> QED
  BY <1>1, <1>2, <1>5 DEF P, Joined

\* A reflow makes a screen and a scrollback of whole rows (reflow).
LEMMA ReflowGivesWholeRows ==
  ASSUME NEW above \in Seq(Lines), NEW shown \in Seq(Lines), NEW row, NEW col,
         NEW w \in Nat \ {0}, NEW h \in Nat
  PROVE  LET new == ReflowScreen(above, shown, row, col, w, h)
         IN  /\ new.visible \in Seq(WholeLine(w)) /\ Len(new.visible) = h
             /\ new.scrollback \in Seq(WholeLine(w))
<1> DEFINE S == WholeLine(w)
           old == Reverse(above) \o shown
           lines == CollectLogicalLines(old)
           wrapped == [i \in DOMAIN lines |-> RewrapLine(TrimTrailingBlankCells(lines[i]), w)]
           reflowed == FlattenSeq(wrapped)
           C == {0} \cup {i \in DOMAIN reflowed : ~IsPadding(reflowed[i])}
           ending == Max(C)
           top == Max({0, ending - h})
           seen == SubSeq(reflowed, top + 1, ending)
           padding == [i \in 1..(h - Len(seen)) |-> NewRow(w)]
<1>1. Reverse(above) \in Seq(Lines)
  <2> DEFINE n == Len(above)
             f == [i \in 1..n |-> above[(n - i) + 1]]
  <2>1. n \in Nat /\ \A i \in 1..n : above[i] \in Lines
    BY LenProperties, ElementOfSeq
  <2> HIDE DEF n
  <2>2. \A i \in 1..n : (n - i) + 1 \in 1..n
    BY <2>1
  <2>3. f \in [1..n -> Lines]
    BY <2>1, <2>2
  <2>4. f \in Seq(Lines)
    BY <2>1, <2>3, SeqDef
  <2> QED
    BY <2>4 DEF Reverse, n
<1>2. old \in Seq(Lines)
  BY <1>1, ConcatProperties
<1>3. lines \in Seq(Seq(Cell))
  <2>1. \A k \in 1..Len(old) : old[k] \in Lines
    BY <1>2, LenProperties, ElementOfSeq
  <2> HIDE DEF old
  <2>2. \A k \in 1..Len(old) : CellsOf(old[k]) \in Seq(Cell)
    BY <2>1, CellsOfALine DEF Lines
  <2> QED
    BY <1>2, <2>2, CollectKeeps
<1> HIDE DEF old, lines
<1>4. wrapped \in Seq(Seq(S))
  <2>1. Len(lines) \in Nat /\ DOMAIN lines = 1..Len(lines) /\ \A i \in 1..Len(lines) : lines[i] \in Seq(Cell)
    BY <1>3, LenProperties, ElementOfSeq
  <2>2. ASSUME NEW i \in 1..Len(lines)
        PROVE  RewrapLine(TrimTrailingBlankCells(lines[i]), w) \in Seq(S)
    BY <2>1, TrimKeeps, RewrapGivesWholeRows
  <2>3. wrapped \in [1..Len(lines) -> Seq(S)]
    BY <2>1, <2>2
  <2> QED
    BY <2>1, <2>3, SeqDef
<1> HIDE DEF wrapped
<1>5. reflowed \in Seq(S)
  BY <1>4, FlattenKeeps
<1> HIDE DEF reflowed, S
<1>6. Len(reflowed) \in Nat /\ DOMAIN reflowed = 1..Len(reflowed)
  BY <1>5, LenProperties
<1>7. ending \in 0..Len(reflowed)
  <2>1. C \in SUBSET (0..Len(reflowed)) /\ C # {}
    BY <1>6
  <2> HIDE DEF C
  <2> QED
    BY <1>6, <2>1, Greatest
<1> HIDE DEF ending
<1>8. top \in Nat /\ top <= ending /\ ending - top <= h
  <2> DEFINE k == ending - h
  <2>1. k \in Int /\ k <= ending /\ ending \in Nat
    BY <1>6, <1>7
  <2>2. CASE k >= 0
    <3>1. k \in 0..k /\ {0, k} \in SUBSET (0..k)
      BY <2>1, <2>2
    <3> HIDE DEF k
    <3>2. Max({0, k}) \in {0, k} /\ Max({0, k}) >= k
      <4>1. k \in Nat
        BY <2>1, <2>2
      <4> QED
        BY <3>1, <4>1, Greatest
    <3>3. Max({0, k}) = k
      BY <2>1, <2>2, <3>2
    <3> QED
      BY <2>1, <2>2, <3>3 DEF k
  <2>3. CASE k < 0
    <3> HIDE DEF k
    <3>1. 0 \in {0, k} /\ \A y \in {0, k} : 0 >= y
      BY <2>1, <2>3
    <3>2. \A x \in {0, k} : (\A y \in {0, k} : x >= y) => x = 0
      BY <2>1, <2>3
    <3>3. Max({0, k}) = 0
      BY <3>1, <3>2 DEF Max
    <3> QED
      BY <2>1, <2>3, <3>3 DEF k
  <2> QED
    BY <2>1, <2>2, <2>3
<1> HIDE DEF top
<1>9. seen \in Seq(S) /\ Len(seen) = ending - top
  <2> DEFINE m == top + 1
  <2>1. m \in Nat /\ m >= 1 /\ ending \in Nat /\ m <= ending + 1 /\ ending <= Len(reflowed)
    BY <1>6, <1>7, <1>8
  <2> HIDE DEF m
  <2>2. SubSeq(reflowed, m, ending) \in Seq(S) /\ Len(SubSeq(reflowed, m, ending)) = ending - m + 1
    BY <1>5, <2>1, SomeRows
  <2>3. ending - m + 1 = ending - top
    BY <1>6, <1>7, <1>8 DEF m
  <2> QED
    BY <2>2, <2>3 DEF m
<1>10. SubSeq(reflowed, 1, top) \in Seq(S)
  BY <1>5, <1>6, <1>7, <1>8, SomeRows
<1> HIDE DEF seen
<1>11. padding \in Seq(S) /\ Len(padding) = h - Len(seen)
  <2> DEFINE k == h - Len(seen)
             blank == NewRow(w)
  <2>1. k \in Nat
    BY <1>6, <1>7, <1>8, <1>9
  <2>2. blank \in S
    BY NewRowIsALine DEF S, WholeLine, NewRow, Blank
  <2> HIDE DEF k, blank
  <2>3. [i \in 1..k |-> blank] \in [1..k -> S]
    BY <2>2
  <2>4. [i \in 1..k |-> blank] \in Seq(S)
    BY <2>1, <2>3, SeqDef
  <2>5. Len([i \in 1..k |-> blank]) = k
    BY <2>1, <2>3, <2>4, LenProperties
  <2> QED
    BY <2>4, <2>5 DEF k, blank
<1> HIDE DEF padding
<1>12. seen \o padding \in Seq(S) /\ Len(seen \o padding) = h
  <2>1. seen \o padding \in Seq(S) /\ Len(seen \o padding) = Len(seen) + Len(padding)
    BY <1>9, <1>11, ConcatProperties
  <2> QED
    BY <1>6, <1>7, <1>8, <1>9, <1>11, <2>1
<1>13. /\ ReflowScreen(above, shown, row, col, w, h).visible = seen \o padding
       /\ ReflowScreen(above, shown, row, col, w, h).scrollback = SubSeq(reflowed, 1, top)
  BY DEF ReflowScreen, seen, padding, top, ending, C, reflowed, wrapped, lines, old
<1> QED
  BY <1>10, <1>12, <1>13 DEF S

-----------------------------------------------------------------------------
(* Rows.                                                                      *)

\* Rows in which a tail has its lead, and a lead its tail unless it stands in
\* the last e columns: none for whole rows.
PairedLine(w, e) ==
  {l \in Line(w) : \A c \in 0..(w - 1) :
     /\ l.cells[c].kind = "tail" => c > 0 /\ l.cells[c - 1].kind = "lead"
     /\ l.cells[c].kind = "lead" => (c + 1 < w /\ l.cells[c + 1].kind = "tail") \/ c + e >= w}
Paired(e) == UNION {PairedLine(w, e) : w \in Nat \ {0}}

\* The kind of a cell.
KindAt(l, c) == l.cells[c].kind

\* Setting the flag of a row.
LEMMA FlagGivesALine ==
  ASSUME NEW w \in Nat \ {0}, NEW l \in Line(w), NEW b \in BOOLEAN
  PROVE  [l EXCEPT !.wrapped = b] \in Line(w) /\ [l EXCEPT !.wrapped = b].cells = l.cells
BY DEF Line

\* Another cell in a row.
LEMMA CellGivesALine ==
  ASSUME NEW w \in Nat \ {0}, NEW l \in Line(w), NEW col \in 0..(w - 1), NEW cell \in Cell
  PROVE  /\ [l EXCEPT !.cells[col] = cell] \in Line(w)
         /\ \A c \in 0..(w - 1) : [l EXCEPT !.cells[col] = cell].cells[c] = IF c = col THEN cell ELSE l.cells[c]
BY DEF Line

\* A row has the width it has.
LEMMA OneWidth ==
  ASSUME NEW w \in Nat \ {0}, NEW v \in Nat \ {0}, NEW l \in Line(w), l \in Line(v)
  PROVE  v = w
<1>1. DOMAIN l.cells = 0..(w - 1) /\ DOMAIN l.cells = 0..(v - 1)
  BY DEF Line
<1>2. w - 1 \in 0..(v - 1) /\ v - 1 \in 0..(w - 1)
  BY <1>1
<1> QED
  BY <1>2

\* The cells that are left when the pair at a column is broken (clear_wide_at).
LEMMA ClearedCells ==
  ASSUME NEW w \in Nat \ {0}, NEW l \in Line(w), NEW col \in 0..(w - 1)
  PROVE  LET k == ClearWideAt(l, col)
             Breaks(c) == (c = col + 1 /\ KindAt(l, col) = "lead") \/ (c = col - 1 /\ KindAt(l, col) = "tail")
         IN  /\ k \in Line(w)
             /\ \A c \in 0..(w - 1) :
                  KindAt(k, c) = IF Breaks(c) \/ c = col THEN "single" ELSE KindAt(l, c)
<1> DEFINE k == ClearWideAt(l, col)
           B(c) == (c = col + 1 /\ IsA(l, col, "lead")) \/ (c = col - 1 /\ IsA(l, col, "tail"))
           f == [c \in 0..(w - 1) |-> IF B(c) THEN Blank
                                      ELSE IF c = col THEN [l.cells[c] EXCEPT !.kind = "single"] ELSE l.cells[c]]
<1>1. DOMAIN l.cells = 0..(w - 1) /\ \A c \in 0..(w - 1) : l.cells[c] \in Cell
  BY DEF Line
<1>2. k = [l EXCEPT !.cells = f]
  BY <1>1 DEF ClearWideAt
<1>3. \A c \in 0..(w - 1) : B(c) <=> \/ c = col + 1 /\ KindAt(l, col) = "lead"
                                     \/ c = col - 1 /\ KindAt(l, col) = "tail"
  BY <1>1 DEF IsA, KindAt
<1> HIDE DEF B
<1>4. \A c \in 0..(w - 1) : /\ [l.cells[c] EXCEPT !.kind = "single"] \in Cell
                            /\ [l.cells[c] EXCEPT !.kind = "single"].kind = "single"
  BY <1>1 DEF Cell, Kinds
<1>5. Blank \in Cell /\ Blank.kind = "single"
  BY BlankIsACell DEF Blank
<1>6. f \in [0..(w - 1) -> Cell]
  BY <1>1, <1>4, <1>5
<1>7. \A c \in 0..(w - 1) : f[c].kind = IF B(c) \/ c = col THEN "single" ELSE l.cells[c].kind
  BY <1>4, <1>5
<1> HIDE DEF f
<1>8. k \in Line(w) /\ k.cells = f
  BY <1>2, <1>6 DEF Line
<1> HIDE DEF k
<1>9. \A c \in 0..(w - 1) : KindAt(k, c) = IF B(c) \/ c = col THEN "single" ELSE KindAt(l, c)
  BY <1>7, <1>8 DEF KindAt
<1> QED
  BY <1>3, <1>8, <1>9 DEF k

\* What is in a row after a character is written (write_char): around it only
\* halves of pairs it broke are gone.
LEMMA PutKinds ==
  ASSUME NEW w \in Nat \ {0}, NEW l \in Line(w), NEW at \in Nat, NEW char \in Glyphs \ Zero, NEW style \in Style,
         at + Width(char) <= w
  PROVE  LET p == Put(l, at, char, style)
             broad == Width(char) = 2
             Goes(c) == \/ c = at - 1 /\ KindAt(l, at) = "tail"
                        \/ ~broad /\ c = at + 1 /\ KindAt(l, at) = "lead"
                        \/ broad /\ c = at + 2 /\ KindAt(l, at) # "lead" /\ KindAt(l, at + 1) = "lead"
         IN  /\ p \in Line(w)
             /\ KindAt(p, at) = IF broad THEN "lead" ELSE "single"
             /\ broad => at + 1 < w /\ KindAt(p, at + 1) = "tail"
             /\ \A c \in 0..(w - 1) : c # at /\ ~(broad /\ c = at + 1) =>
                  KindAt(p, c) = IF Goes(c) THEN "single" ELSE KindAt(l, c)
<1> DEFINE p == Put(l, at, char, style)
           broad == Width(char) = 2
           Goes(c) == \/ c = at - 1 /\ KindAt(l, at) = "tail"
                      \/ ~broad /\ c = at + 1 /\ KindAt(l, at) = "lead"
                      \/ broad /\ c = at + 2 /\ KindAt(l, at) # "lead" /\ KindAt(l, at + 1) = "lead"
           k1 == ClearWideAt(l, at)
           k2 == ClearWideAt(k1, at + 1)
           k == IF broad THEN k2 ELSE k1
           first == [text |-> <<char>>, kind |-> IF broad THEN "lead" ELSE "single", style |-> style]
           second == [Blank EXCEPT !.kind = "tail", !.style = style]
           f == [c \in 0..(w - 1) |-> IF c = at THEN first
                                      ELSE IF broad /\ c = at + 1 THEN second ELSE k.cells[c]]
<1>1. (Width(char) = 1 \/ Width(char) = 2) /\ at \in 0..(w - 1) /\ (broad => at + 1 \in 0..(w - 1))
  BY DEF Width
<1>2. first \in Cell /\ second \in Cell /\ first.kind = (IF broad THEN "lead" ELSE "single") /\ second.kind = "tail"
  <2>1. <<char>> \in Seq(Glyphs)
    OBVIOUS
  <2> HIDE DEF broad
  <2>2. first \in Cell /\ first.kind = (IF broad THEN "lead" ELSE "single")
    BY <2>1 DEF Cell, Kinds
  <2>3. second \in Cell /\ second.kind = "tail"
    BY BlankIsACell DEF Cell, Kinds
  <2> QED
    BY <2>2, <2>3
<1> HIDE DEF first, second
<1>3. /\ k1 \in Line(w)
      /\ \A c \in 0..(w - 1) :
           KindAt(k1, c) = IF \/ c = at + 1 /\ KindAt(l, at) = "lead"
                              \/ c = at - 1 /\ KindAt(l, at) = "tail"
                              \/ c = at THEN "single" ELSE KindAt(l, c)
  BY <1>1, ClearedCells
<1> HIDE DEF k1
<1>4. broad => /\ k2 \in Line(w)
               /\ \A c \in 0..(w - 1) :
                    KindAt(k2, c) = IF \/ c = at + 2 /\ KindAt(k1, at + 1) = "lead"
                                       \/ c = at /\ KindAt(k1, at + 1) = "tail"
                                       \/ c = at + 1 THEN "single" ELSE KindAt(k1, c)
  <2> DEFINE m == at + 1
  <2> SUFFICES ASSUME broad
               PROVE  /\ k2 \in Line(w)
                      /\ \A c \in 0..(w - 1) :
                           KindAt(k2, c) = IF \/ c = m + 1 /\ KindAt(k1, m) = "lead"
                                              \/ c = m - 1 /\ KindAt(k1, m) = "tail"
                                              \/ c = m THEN "single" ELSE KindAt(k1, c)
    BY <1>1
  <2>1. m \in 0..(w - 1)
    BY <1>1
  <2> HIDE DEF m
  <2> QED
    BY <1>3, <2>1, ClearedCells DEF m
<1> HIDE DEF k2
<1>5. k \in Line(w)
  BY <1>3, <1>4
<1>6. /\ p = [l EXCEPT !.cells = f]
      /\ DOMAIN l.cells = 0..(w - 1)
  <2>1. DOMAIN l.cells = 0..(w - 1)
    BY DEF Line
  <2> QED
    BY <2>1 DEF Put, k, k2, k1, first, second
<1> HIDE DEF broad
<1>7. f \in [0..(w - 1) -> Cell]
  <2>1. \A c \in 0..(w - 1) : k.cells[c] \in Cell
    BY <1>5 DEF Line
  <2> HIDE DEF k
  <2> QED
    BY <1>2, <2>1
<1>8. \A c \in 0..(w - 1) : f[c].kind = IF c = at THEN first.kind
                                        ELSE IF broad /\ c = at + 1 THEN second.kind ELSE KindAt(k, c)
  BY DEF KindAt
<1> HIDE DEF f
<1>9. p \in Line(w) /\ p.cells = f
  BY <1>6, <1>7 DEF Line
<1> HIDE DEF p
<1>10. \A c \in 0..(w - 1) : KindAt(p, c) = IF c = at THEN (IF broad THEN "lead" ELSE "single")
                                           ELSE IF broad /\ c = at + 1 THEN "tail" ELSE KindAt(k, c)
  BY <1>2, <1>8, <1>9 DEF KindAt
<1>11. ASSUME NEW c \in 0..(w - 1), c # at, ~(broad /\ c = at + 1)
       PROVE  KindAt(p, c) = IF Goes(c) THEN "single" ELSE KindAt(l, c)
  <2>1. KindAt(p, c) = KindAt(k, c)
    BY <1>10, <1>11
  <2>2. CASE broad
    <3>1. KindAt(k1, at + 1) = IF KindAt(l, at) = "lead" THEN "single" ELSE KindAt(l, at + 1)
      <4>1. at + 1 \in 0..(w - 1) /\ at + 1 # at /\ at + 1 # at - 1
        BY <1>1, <2>2 DEF broad
      <4> QED
        BY <1>3, <4>1
    <3>2. KindAt(k2, c) = IF c = at + 2 /\ KindAt(k1, at + 1) = "lead" THEN "single" ELSE KindAt(k1, c)
      BY <1>4, <1>11, <2>2
    <3>3. KindAt(k1, c) = IF c = at - 1 /\ KindAt(l, at) = "tail" THEN "single" ELSE KindAt(l, c)
      BY <1>3, <1>11, <2>2
    <3> QED
      BY <2>1, <2>2, <3>1, <3>2, <3>3
  <2>3. CASE ~broad
    BY <1>3, <1>11, <2>1, <2>3
  <2> QED
    BY <2>2, <2>3
<1>12. /\ KindAt(p, at) = IF broad THEN "lead" ELSE "single"
       /\ broad => at + 1 < w /\ KindAt(p, at + 1) = "tail"
  <2>1. broad => at + 1 \in 0..(w - 1) /\ at + 1 < w
    BY <1>1 DEF broad
  <2>2. at \in 0..(w - 1) /\ at + 1 # at
    BY <1>1
  <2> QED
    BY <1>10, <2>1, <2>2
<1> QED
  BY <1>9, <1>11, <1>12 DEF p, broad

\* What is in a row after some of it is erased (erase_range).
LEMMA ErasedKinds ==
  ASSUME NEW w \in Nat \ {0}, NEW l \in Line(w), NEW from \in Nat, NEW to \in Nat, from <= to, to < w
  PROVE  LET p == EraseRange(l, from, to)
             Goes(c) == \/ c \in from..to
                        \/ c = from - 1 /\ KindAt(l, from) = "tail"
                        \/ c = to + 1 /\ KindAt(l, to) = "lead"
         IN  /\ p \in Line(w)
             /\ \A c \in 0..(w - 1) : KindAt(p, c) = IF Goes(c) THEN "single" ELSE KindAt(l, c)
<1> DEFINE p == EraseRange(l, from, to)
           Goes(c) == \/ c \in from..to
                      \/ c = from - 1 /\ KindAt(l, from) = "tail"
                      \/ c = to + 1 /\ KindAt(l, to) = "lead"
           f == [c \in 0..(w - 1) |-> IF Goes(c) THEN Blank ELSE l.cells[c]]
<1>1. DOMAIN l.cells = 0..(w - 1) /\ \A c \in 0..(w - 1) : l.cells[c] \in Cell
  BY DEF Line
<1>2. (IsA(l, from, "tail") <=> KindAt(l, from) = "tail") /\ (IsA(l, to, "lead") <=> KindAt(l, to) = "lead")
  BY <1>1 DEF IsA, KindAt
<1>3. p = [l EXCEPT !.cells = f]
  BY <1>1, <1>2 DEF EraseRange
<1>4. Blank \in Cell /\ Blank.kind = "single"
  BY BlankIsACell DEF Blank
<1> HIDE DEF Goes
<1>5. f \in [0..(w - 1) -> Cell] /\ \A c \in 0..(w - 1) : f[c].kind = IF Goes(c) THEN "single" ELSE l.cells[c].kind
  BY <1>1, <1>4
<1> HIDE DEF f
<1>6. p \in Line(w) /\ p.cells = f
  BY <1>3, <1>5 DEF Line
<1> HIDE DEF p
<1>7. \A c \in 0..(w - 1) : KindAt(p, c) = IF Goes(c) THEN "single" ELSE KindAt(l, c)
  BY <1>5, <1>6 DEF KindAt
<1> QED
  BY <1>6, <1>7 DEF p, Goes

\* A mark changes what a cell says and not what it is (combine_with_previous).
LEMMA MarkedKinds ==
  ASSUME NEW w \in Nat \ {0}, NEW l \in Line(w), NEW col \in 0..(w - 1), NEW char \in Zero
  PROVE  LET p == [l EXCEPT !.cells[col].text = Append(l.cells[col].text, char)]
         IN  p \in Line(w) /\ \A c \in 0..(w - 1) : KindAt(p, c) = KindAt(l, c)
<1> DEFINE more == Append(l.cells[col].text, char)
           cell == [l.cells[col] EXCEPT !.text = more]
           p == [l EXCEPT !.cells[col] = cell]
<1>1. l.cells[col] \in Cell
  BY DEF Line
<1>2. more \in Seq(Glyphs)
  <2>1. char \in Glyphs
    BY DEF Glyphs, Characters
  <2> QED
    BY <1>1, <2>1, AppendProperties DEF Cell
<1> HIDE DEF more
<1>3. cell \in Cell /\ cell.kind = l.cells[col].kind
  BY <1>1, <1>2 DEF Cell
<1> HIDE DEF cell
<1>4. p \in Line(w) /\ \A c \in 0..(w - 1) : p.cells[c] = IF c = col THEN cell ELSE l.cells[c]
  BY <1>3, CellGivesALine
<1>5. p = [l EXCEPT !.cells[col].text = Append(l.cells[col].text, char)]
  BY DEF cell, more
<1> HIDE DEF p
<1>6. \A c \in 0..(w - 1) : KindAt(p, c) = KindAt(l, c)
  BY <1>3, <1>4 DEF KindAt
<1> QED
  BY <1>4, <1>5, <1>6

\* Rows of the same kinds are paired alike.
LEMMA PairsAreKinds ==
  ASSUME NEW w \in Nat \ {0}, NEW e \in Nat, NEW l
  PROVE  l \in PairedLine(w, e) <=>
           /\ l \in Line(w)
           /\ \A c \in 0..(w - 1) : KindAt(l, c) = "tail" => c > 0 /\ KindAt(l, c - 1) = "lead"
           /\ \A c \in 0..(w - 1) : KindAt(l, c) = "lead" =>
                (c + 1 < w /\ KindAt(l, c + 1) = "tail") \/ c + e >= w
BY DEF PairedLine, KindAt

\* A row that is paired and has a width is a paired row of this width.
LEMMA PairedOfAWidth ==
  ASSUME NEW w \in Nat \ {0}, NEW e \in Nat, NEW l
  PROVE  l \in Paired(e) /\ l \in Line(w) <=> l \in PairedLine(w, e)
<1>1. ASSUME l \in Paired(e), l \in Line(w)
      PROVE  l \in PairedLine(w, e)
  <2>1. PICK v \in Nat \ {0} : l \in PairedLine(v, e)
    BY <1>1 DEF Paired
  <2>2. l \in Line(v)
    BY <2>1 DEF PairedLine
  <2>3. v = w
    BY <1>1, <2>2, OneWidth
  <2> QED
    BY <2>1, <2>3
<1>2. ASSUME l \in PairedLine(w, e)
      PROVE  l \in Paired(e) /\ l \in Line(w)
  BY <1>2 DEF Paired, PairedLine
<1> QED
  BY <1>1, <1>2

\* Writing a character tears no pair (write_char).
LEMMA WritingKeepsPairs ==
  ASSUME NEW w \in Nat \ {0}, NEW e \in 0..2, NEW l \in PairedLine(w, e),
         NEW at \in Nat, NEW char \in Glyphs \ Zero, NEW style \in Style, at + Width(char) <= w
  PROVE  Put(l, at, char, style) \in PairedLine(w, e)
<1> DEFINE p == Put(l, at, char, style)
           broad == Width(char) = 2
           Goes(c) == \/ c = at - 1 /\ KindAt(l, at) = "tail"
                      \/ ~broad /\ c = at + 1 /\ KindAt(l, at) = "lead"
                      \/ broad /\ c = at + 2 /\ KindAt(l, at) # "lead" /\ KindAt(l, at + 1) = "lead"
<1>1. /\ l \in Line(w)
      /\ \A c \in 0..(w - 1) : KindAt(l, c) = "tail" => c > 0 /\ KindAt(l, c - 1) = "lead"
      /\ \A c \in 0..(w - 1) : KindAt(l, c) = "lead" =>
           (c + 1 < w /\ KindAt(l, c + 1) = "tail") \/ c + e >= w
  BY PairsAreKinds
<1>2. /\ p \in Line(w)
      /\ KindAt(p, at) = IF broad THEN "lead" ELSE "single"
      /\ broad => at + 1 < w /\ KindAt(p, at + 1) = "tail"
      /\ \A c \in 0..(w - 1) : c # at /\ ~(broad /\ c = at + 1) =>
           KindAt(p, c) = IF Goes(c) THEN "single" ELSE KindAt(l, c)
  BY <1>1, PutKinds
<1>3. at < w
  BY DEF Width
<1> HIDE DEF p, broad
<1>4. ASSUME NEW c \in 0..(w - 1), KindAt(p, c) = "tail"
      PROVE  c > 0 /\ KindAt(p, c - 1) = "lead"
  <2>1. CASE broad /\ c = at + 1
    BY <1>2, <2>1
  <2>2. CASE ~(broad /\ c = at + 1)
    <3>1. c # at /\ ~Goes(c) /\ KindAt(l, c) = "tail"
      BY <1>2, <1>4, <2>2
    <3>2. c > 0 /\ KindAt(l, c - 1) = "lead" /\ c - 1 \in 0..(w - 1)
      BY <1>1, <3>1
    <3>3. c - 1 # at
      <4>1. CASE c - 1 = at /\ ~broad
        BY <3>1, <3>2, <4>1
      <4>2. CASE c - 1 = at /\ broad
        BY <2>2, <4>2
      <4> QED
        BY <4>1, <4>2
    <3>4. ~(broad /\ c - 1 = at + 1)
      <4> SUFFICES ASSUME broad, c = at + 2 PROVE FALSE
        BY <3>2
      <4>1. KindAt(l, at + 1) = "lead"
        BY <3>2
      <4>2. KindAt(l, at) = "lead"
        BY <3>1, <4>1
      <4>3. KindAt(l, at + 1) = "tail" \/ at + e >= w
        BY <1>1, <1>3, <4>2
      <4> QED
        BY <4>1, <4>3
    <3>5. ~Goes(c - 1)
      <4>1. ~(c - 1 = at - 1 /\ KindAt(l, at) = "tail")
        BY <3>1
      <4>2. ~(~broad /\ c - 1 = at + 1 /\ KindAt(l, at) = "lead")
        <5> SUFFICES ASSUME c = at + 2, KindAt(l, at) = "lead" PROVE FALSE
          BY <3>2
        <5>1. KindAt(l, at + 1) = "lead"
          BY <3>2
        <5>2. KindAt(l, at + 1) = "tail" \/ at + e >= w
          BY <1>1, <1>3
        <5> QED
          BY <5>1, <5>2
      <4>3. ~(broad /\ c - 1 = at + 2 /\ KindAt(l, at) # "lead" /\ KindAt(l, at + 1) = "lead")
        <5> SUFFICES ASSUME broad, c = at + 3, KindAt(l, at + 1) = "lead" PROVE FALSE
          BY <3>2
        <5>1. KindAt(l, at + 2) = "lead"
          BY <3>2
        <5>2. at + 1 \in 0..(w - 1) /\ (at + 1) + 1 = at + 2
          BY <1>2
        <5>3. KindAt(l, at + 2) = "tail" \/ (at + 1) + e >= w
          BY <1>1, <5>2
        <5> QED
          BY <5>1, <5>3
      <4> QED
        BY <4>1, <4>2, <4>3
    <3> QED
      BY <1>2, <3>2, <3>3, <3>4, <3>5
  <2> QED
    BY <2>1, <2>2
<1>5. ASSUME NEW c \in 0..(w - 1), KindAt(p, c) = "lead"
      PROVE  (c + 1 < w /\ KindAt(p, c + 1) = "tail") \/ c + e >= w
  <2>1. CASE c = at
    BY <1>2, <1>5, <2>1
  <2>2. CASE c # at
    <3>1. ~(broad /\ c = at + 1) /\ ~Goes(c) /\ KindAt(l, c) = "lead"
      BY <1>2, <1>5, <2>2
    <3> SUFFICES ASSUME c + 1 < w, KindAt(l, c + 1) = "tail", ~(c + e >= w)
                 PROVE  KindAt(p, c + 1) = "tail"
      BY <1>1, <3>1
    <3>2. c + 1 # at
      BY <2>2, <3>1
    <3>3. ~Goes(c + 1)
      <4>1. ~(c + 1 = at - 1 /\ KindAt(l, at) = "tail")
        <5> SUFFICES ASSUME c = at - 2, KindAt(l, at) = "tail" PROVE FALSE
          OBVIOUS
        <5>1. KindAt(l, at - 1) = "lead"
          BY <1>1, <1>3
        <5> QED
          BY <5>1
      <4>2. ~(~broad /\ c + 1 = at + 1)
        BY <2>2
      <4>3. ~(broad /\ c + 1 = at + 2 /\ KindAt(l, at) # "lead")
        BY <3>1
      <4> QED
        BY <4>1, <4>2, <4>3
    <3>4. c + 1 \in 0..(w - 1)
      OBVIOUS
    <3> QED
      BY <1>2, <2>2, <3>2, <3>3, <3>4
  <2> QED
    BY <2>1, <2>2
<1>6. p \in PairedLine(w, e)
  BY <1>2, <1>4, <1>5, PairsAreKinds
<1> QED
  BY <1>6 DEF p

\* Nor does erasing (erase_range).
LEMMA ErasingKeepsPairs ==
  ASSUME NEW w \in Nat \ {0}, NEW e \in 0..2, NEW l \in PairedLine(w, e),
         NEW from \in Nat, NEW to \in Nat, from <= to, to < w
  PROVE  EraseRange(l, from, to) \in PairedLine(w, e)
<1> DEFINE p == EraseRange(l, from, to)
           Goes(c) == \/ c \in from..to
                      \/ c = from - 1 /\ KindAt(l, from) = "tail"
                      \/ c = to + 1 /\ KindAt(l, to) = "lead"
<1>1. /\ l \in Line(w)
      /\ \A c \in 0..(w - 1) : KindAt(l, c) = "tail" => c > 0 /\ KindAt(l, c - 1) = "lead"
      /\ \A c \in 0..(w - 1) : KindAt(l, c) = "lead" =>
           (c + 1 < w /\ KindAt(l, c + 1) = "tail") \/ c + e >= w
  BY PairsAreKinds
<1>2. p \in Line(w) /\ \A c \in 0..(w - 1) : KindAt(p, c) = IF Goes(c) THEN "single" ELSE KindAt(l, c)
  BY <1>1, ErasedKinds
<1> HIDE DEF p
<1>4. ASSUME NEW c \in 0..(w - 1), KindAt(p, c) = "tail"
      PROVE  c > 0 /\ KindAt(p, c - 1) = "lead"
  <2>1. ~Goes(c) /\ KindAt(l, c) = "tail"
    BY <1>2, <1>4
  <2>2. c > 0 /\ KindAt(l, c - 1) = "lead" /\ c - 1 \in 0..(w - 1)
    BY <1>1, <2>1
  <2>3. ~(c - 1 \in from..to)
    BY <2>1, <2>2
  <2>4. ~(c - 1 = from - 1)
    BY <2>1
  <2>5. ~(c - 1 = to + 1 /\ KindAt(l, to) = "lead")
    <3> SUFFICES ASSUME c = to + 2, KindAt(l, to) = "lead" PROVE FALSE
      BY <2>2
    <3>1. KindAt(l, to + 1) = "lead"
      BY <2>2
    <3>2. KindAt(l, to + 1) = "tail" \/ to + e >= w
      BY <1>1
    <3> QED
      BY <3>1, <3>2
  <2>6. ~Goes(c - 1)
    BY <2>3, <2>4, <2>5
  <2> HIDE DEF Goes
  <2> QED
    BY <1>2, <2>2, <2>6
<1>5. ASSUME NEW c \in 0..(w - 1), KindAt(p, c) = "lead"
      PROVE  (c + 1 < w /\ KindAt(p, c + 1) = "tail") \/ c + e >= w
  <2>1. ~Goes(c) /\ KindAt(l, c) = "lead"
    BY <1>2, <1>5
  <2> SUFFICES ASSUME c + 1 < w, KindAt(l, c + 1) = "tail"
               PROVE  KindAt(p, c + 1) = "tail"
    BY <1>1, <2>1
  <2>2. ~(c + 1 \in from..to)
    BY <2>1
  <2>3. ~(c + 1 = from - 1 /\ KindAt(l, from) = "tail")
    <3> SUFFICES ASSUME from = c + 2, KindAt(l, from) = "tail" PROVE FALSE
      OBVIOUS
    <3>1. KindAt(l, from - 1) = "lead" /\ from - 1 = c + 1
      BY <1>1
    <3> QED
      BY <3>1
  <2>4. ~(c + 1 = to + 1)
    BY <2>1
  <2>5. ~Goes(c + 1) /\ c + 1 \in 0..(w - 1)
    BY <2>2, <2>3, <2>4
  <2> HIDE DEF Goes
  <2> QED
    BY <1>2, <2>5
<1>6. p \in PairedLine(w, e)
  BY <1>2, <1>4, <1>5, PairsAreKinds
<1> QED
  BY <1>6 DEF p

\* The rows of a width are rows.
LEMMA LinesAreRows ==
  ASSUME NEW w \in Nat \ {0}, NEW l \in Line(w)
  PROVE  l \in Lines
BY DEF Lines

\* What is done to a row makes a row.
LEMMA LinesAreClosed == Closed(Lines) /\ Emptied(Lines)
<1>1. Fresh(Lines)
  BY NewRowIsALine, LinesAreRows DEF Fresh
<1>2. Flagged(Lines)
  BY FlagGivesALine, LinesAreRows DEF Flagged
<1>3. Written(Lines)
  <2> SUFFICES ASSUME NEW w \in Nat \ {0}, NEW l \in Line(w), NEW at \in Nat, NEW char \in Glyphs \ Zero,
                      NEW style \in Style, at + Width(char) <= w
               PROVE  Put(l, at, char, style) \in Line(w)
    BY LinesAreRows DEF Written
  <2> QED
    BY PutKinds
<1>4. Erased(Lines)
  <2> SUFFICES ASSUME NEW w \in Nat \ {0}, NEW l \in Line(w), NEW from \in Nat, NEW to \in Nat, from <= to, to < w
               PROVE  EraseRange(l, from, to) \in Line(w)
    BY LinesAreRows DEF Erased
  <2> QED
    BY ErasedKinds
<1>5. Marked(Lines)
  <2> SUFFICES ASSUME NEW w \in Nat \ {0}, NEW l \in Line(w), NEW col \in 0..(w - 1), NEW char \in Zero
               PROVE  [l EXCEPT !.cells[col].text = Append(l.cells[col].text, char)] \in Line(w)
    BY LinesAreRows DEF Marked
  <2> QED
    BY MarkedKinds
<1>6. Emptied(Lines)
  <2> SUFFICES ASSUME NEW w \in Nat \ {0}, NEW l \in Line(w)
               PROVE  [l EXCEPT !.cells[w - 1] = Blank] \in Line(w)
    BY LinesAreRows DEF Emptied
  <2>1. w - 1 \in 0..(w - 1)
    OBVIOUS
  <2> QED
    BY <2>1, BlankIsACell, CellGivesALine
<1> QED
  BY <1>1, <1>2, <1>3, <1>4, <1>5, <1>6 DEF Closed

\* Nothing but a cut tears a pair, other than at the edge (write_char, erase_range,
\* combine_with_previous).
LEMMA PairedAreClosed ==
  ASSUME NEW e \in 0..2
  PROVE  Closed(Paired(e))
<1>1. \A w \in Nat \ {0} : \A l : l \in Paired(e) \cap Line(w) <=> l \in PairedLine(w, e)
  BY PairedOfAWidth
<1>2. \A w \in Nat \ {0} : \A l \in PairedLine(w, e) : l \in Paired(e) /\ l \in Line(w)
  BY <1>1
<1>3. Paired(e) \subseteq Lines
  BY LinesAreRows DEF Paired, PairedLine
<1>4. Fresh(Paired(e))
  <2> SUFFICES ASSUME NEW w \in Nat \ {0}
               PROVE  NewRow(w) \in PairedLine(w, e)
    BY <1>2 DEF Fresh
  <2>1. NewRow(w) \in Line(w)
    BY NewRowIsALine
  <2>2. \A c \in 0..(w - 1) : KindAt(NewRow(w), c) = "single"
    BY DEF NewRow, KindAt, Blank
  <2> HIDE DEF PairedLine
  <2> QED
    BY <2>1, <2>2, PairsAreKinds
<1>5. Flagged(Paired(e))
  <2> SUFFICES ASSUME NEW w \in Nat \ {0}, NEW l \in PairedLine(w, e), NEW b \in BOOLEAN
               PROVE  [l EXCEPT !.wrapped = b] \in PairedLine(w, e)
    BY <1>1, <1>2 DEF Flagged
  <2> DEFINE p == [l EXCEPT !.wrapped = b]
  <2>1. p \in Line(w) /\ p.cells = l.cells
    BY <1>2, FlagGivesALine
  <2> HIDE DEF p
  <2>2. p \in PairedLine(w, e)
    BY <2>1 DEF PairedLine
  <2> QED
    BY <2>2 DEF p
<1>6. Written(Paired(e))
  <2> SUFFICES ASSUME NEW w \in Nat \ {0}, NEW l \in PairedLine(w, e), NEW at \in Nat, NEW char \in Glyphs \ Zero,
                      NEW style \in Style, at + Width(char) <= w
               PROVE  Put(l, at, char, style) \in PairedLine(w, e)
    BY <1>1, <1>2 DEF Written
  <2> QED
    BY WritingKeepsPairs
<1>7. Erased(Paired(e))
  <2> SUFFICES ASSUME NEW w \in Nat \ {0}, NEW l \in PairedLine(w, e), NEW from \in Nat, NEW to \in Nat,
                      from <= to, to < w
               PROVE  EraseRange(l, from, to) \in PairedLine(w, e)
    BY <1>1, <1>2 DEF Erased
  <2> QED
    BY ErasingKeepsPairs
<1>8. Marked(Paired(e))
  <2> SUFFICES ASSUME NEW w \in Nat \ {0}, NEW l \in PairedLine(w, e), NEW col \in 0..(w - 1), NEW char \in Zero
               PROVE  [l EXCEPT !.cells[col].text = Append(l.cells[col].text, char)] \in PairedLine(w, e)
    BY <1>1, <1>2 DEF Marked
  <2> DEFINE p == [l EXCEPT !.cells[col].text = Append(l.cells[col].text, char)]
  <2>1. p \in Line(w) /\ \A c \in 0..(w - 1) : KindAt(p, c) = KindAt(l, c)
    BY <1>2, MarkedKinds
  <2> HIDE DEF p
  <2>2. /\ \A c \in 0..(w - 1) : KindAt(l, c) = "tail" => c > 0 /\ KindAt(l, c - 1) = "lead"
        /\ \A c \in 0..(w - 1) : KindAt(l, c) = "lead" => (c + 1 < w /\ KindAt(l, c + 1) = "tail") \/ c + e >= w
    BY PairsAreKinds
  <2>3. \A c \in 0..(w - 1) : (c > 0 => c - 1 \in 0..(w - 1)) /\ (c + 1 < w => c + 1 \in 0..(w - 1))
    OBVIOUS
  <2>4. p \in PairedLine(w, e)
    BY <2>1, <2>2, <2>3, PairsAreKinds
  <2> QED
    BY <2>4 DEF p
<1> QED
  BY <1>3, <1>4, <1>5, <1>6, <1>7, <1>8 DEF Closed

\* A broad character that finds no room leaves a blank in the last column, and with
\* it the lead before it alone (write_char).
LEMMA EmptyingTheEdge == Emptied(Paired(2))
<1> SUFFICES ASSUME NEW w \in Nat \ {0}, NEW l \in PairedLine(w, 2)
             PROVE  [l EXCEPT !.cells[w - 1] = Blank] \in PairedLine(w, 2)
  BY PairedOfAWidth DEF Emptied
<1> DEFINE p == [l EXCEPT !.cells[w - 1] = Blank]
           last == w - 1
<1>1. last \in 0..(w - 1) /\ l \in Line(w)
  BY PairsAreKinds
<1>2. p \in Line(w) /\ \A c \in 0..(w - 1) : p.cells[c] = IF c = last THEN Blank ELSE l.cells[c]
  <2> HIDE DEF last
  <2>1. /\ [l EXCEPT !.cells[last] = Blank] \in Line(w)
        /\ \A c \in 0..(w - 1) : [l EXCEPT !.cells[last] = Blank].cells[c] = IF c = last THEN Blank ELSE l.cells[c]
    BY <1>1, BlankIsACell, CellGivesALine
  <2> QED
    BY <2>1 DEF last
<1> HIDE DEF p
<1>3. \A c \in 0..(w - 1) : KindAt(p, c) = IF c = w - 1 THEN "single" ELSE KindAt(l, c)
  BY <1>2 DEF KindAt, Blank
<1>4. /\ \A c \in 0..(w - 1) : KindAt(l, c) = "tail" => c > 0 /\ KindAt(l, c - 1) = "lead"
      /\ \A c \in 0..(w - 1) : KindAt(l, c) = "lead" => (c + 1 < w /\ KindAt(l, c + 1) = "tail") \/ c + 2 >= w
  BY PairsAreKinds
<1>5. \A c \in 0..(w - 1) : (c > 0 => c - 1 \in 0..(w - 1) /\ c - 1 # w - 1) /\ (c + 1 < w => c + 1 \in 0..(w - 1))
  OBVIOUS
<1>6. \A c \in 0..(w - 1) : KindAt(p, c) = "tail" => c > 0 /\ KindAt(p, c - 1) = "lead"
  BY <1>3, <1>4, <1>5
<1>7. ASSUME NEW c \in 0..(w - 1), KindAt(p, c) = "lead"
      PROVE  (c + 1 < w /\ KindAt(p, c + 1) = "tail") \/ c + 2 >= w
  <2>1. KindAt(l, c) = "lead"
    BY <1>3, <1>7
  <2>2. CASE c + 2 >= w
    BY <2>2
  <2>3. CASE ~(c + 2 >= w)
    <3>1. c + 1 \in 0..(w - 1) /\ c + 1 # w - 1
      BY <2>3
    <3> QED
      BY <1>3, <1>4, <2>1, <2>3, <3>1
  <2> QED
    BY <2>2, <2>3
<1>8. p \in PairedLine(w, 2)
  BY <1>2, <1>6, <1>7, PairsAreKinds
<1> QED
  BY <1>8 DEF p

\* Whole rows are paired rows.
LEMMA WholeRowsArePaired ==
  ASSUME NEW w \in Nat \ {0}, NEW e \in Nat
  PROVE  WholeLine(w) \subseteq Paired(e) \cap Line(w) /\ PairedLine(w, 0) = WholeLine(w)
<1>1. ASSUME NEW l \in WholeLine(w)
      PROVE  l \in PairedLine(w, e)
  BY DEF WholeLine, PairedLine
<1>2. PairedLine(w, 0) = WholeLine(w)
  BY DEF WholeLine, PairedLine
<1> QED
  BY <1>1, <1>2, PairedOfAWidth

-----------------------------------------------------------------------------
(* Screens.                                                                   *)

\* A cursor writes in a style, and its flags are flags.
Inked(c) == c.style \in Style /\ c.visible \in BOOLEAN /\ c.pending \in BOOLEAN

\* Another row of a screen.
LEMMA RowGivesAScreen ==
  ASSUME NEW G, NEW c, NEW r, NEW lines \in Screen(G, c, r), NEW i \in 1..r, NEW l \in G \cap Line(c)
  PROVE  [lines EXCEPT ![i] = l] \in Screen(G, c, r)
<1> DEFINE S == G \cap Line(c)
<1>1. lines \in Seq(S) /\ Len(lines) = r
  BY RowsOfAScreen
<1> HIDE DEF S
<1>2. i \in 1..Len(lines) /\ l \in S
  BY <1>1 DEF S
<1>3. [lines EXCEPT ![i] = l] \in Seq(S) /\ Len([lines EXCEPT ![i] = l]) = Len(lines)
  BY <1>1, <1>2, ExceptSeq
<1> QED
  BY <1>1, <1>3 DEF Screen, S

\* The flag of a row of a screen.
LEMMA FlagGivesAScreen ==
  ASSUME NEW G, Flagged(G), NEW c \in Nat \ {0}, NEW r, NEW lines \in Screen(G, c, r), NEW i \in 1..r,
         NEW b \in BOOLEAN
  PROVE  [lines EXCEPT ![i].wrapped = b] \in Screen(G, c, r)
<1> DEFINE l == [lines[i] EXCEPT !.wrapped = b]
<1>1. lines[i] \in G /\ lines[i] \in Line(c)
  BY RowsOfAScreen
<1>2. l \in G \cap Line(c)
  BY <1>1, FlagGivesALine DEF Flagged
<1> HIDE DEF l
<1>3. [lines EXCEPT ![i] = l] \in Screen(G, c, r)
  BY <1>2, RowGivesAScreen
<1> QED
  BY <1>3 DEF l

\* The last cell of a row of a screen is emptied.
LEMMA EmptyGivesAScreen ==
  ASSUME NEW G, Emptied(G), NEW c \in Nat \ {0}, NEW r, NEW lines \in Screen(G, c, r), NEW i \in 1..r
  PROVE  [lines EXCEPT ![i].cells[c - 1] = Blank] \in Screen(G, c, r)
<1> DEFINE l == [lines[i] EXCEPT !.cells[c - 1] = Blank]
<1>1. lines[i] \in G /\ lines[i] \in Line(c)
  BY RowsOfAScreen
<1>2. l \in G
  BY <1>1 DEF Emptied
<1>3. l \in Line(c)
  <2> DEFINE col == c - 1
             old == lines[i]
  <2>1. col \in 0..(c - 1) /\ old \in Line(c)
    BY <1>1
  <2> HIDE DEF col, old
  <2>2. [old EXCEPT !.cells[col] = Blank] \in Line(c)
    BY <2>1, BlankIsACell, CellGivesALine
  <2> QED
    BY <2>2 DEF col, old
<1> HIDE DEF l
<1>4. [lines EXCEPT ![i] = l] \in Screen(G, c, r)
  BY <1>2, <1>3, RowGivesAScreen
<1> QED
  BY <1>4 DEF l

\* A character that is written into a screen.
LEMMA PutGivesAScreen ==
  ASSUME NEW G, Written(G), NEW c \in Nat \ {0}, NEW r, NEW lines \in Screen(G, c, r), NEW i \in 1..r,
         NEW at \in Nat, NEW char \in Glyphs \ Zero, NEW style \in Style, at + Width(char) <= c
  PROVE  [lines EXCEPT ![i] = Put(lines[i], at, char, style)] \in Screen(G, c, r)
<1> DEFINE l == Put(lines[i], at, char, style)
<1>1. lines[i] \in G /\ lines[i] \in Line(c)
  BY RowsOfAScreen
<1>2. l \in G
  BY <1>1 DEF Written
<1>3. l \in Line(c)
  BY <1>1, PutKinds
<1> HIDE DEF l
<1>4. [lines EXCEPT ![i] = l] \in Screen(G, c, r)
  BY <1>2, <1>3, RowGivesAScreen
<1> QED
  BY <1>4 DEF l

\* What is printed is a glyph that takes columns, and a broad one was sent as one (print).
LEMMA GlyphsArePrinted ==
  ASSUME NEW char \in Narrow \cup Broad
  PROVE  Glyph(char) \in Glyphs \ Zero /\ (Glyph(char) \in Broad => Glyph(char) = char)
<1>1. char \in Glyphs \ Zero
  BY CharactersAssumption DEF Glyphs, Characters
<1>2. ASSUME char \in DOMAIN Graphics
      PROVE  Graphics[char] \in Glyphs /\ Graphics[char] \notin Broad \cup Zero
  BY <1>2, TerminalAssumption DEF Glyphs
<1>3. Glyph(char) = char \/ (char \in DOMAIN Graphics /\ Glyph(char) = Graphics[char])
  BY DEF Glyph
<1> QED
  BY <1>1, <1>2, <1>3

\* write_char keeps a screen of rows that are closed under what it does; the edge is
\* emptied for a broad character only. What it gives the scrollback are such rows.
LEMMA WritingKeepsScreens ==
  ASSUME Shape, Inked(cursor), NEW G, Closed(G), NEW char \in Glyphs \ Zero, Emptied(G) \/ char \notin Broad,
         visible \in Screen(G, cols, rows), Write(char)
  PROVE  /\ visible' \in Screen(G, cols, rows)
         /\ \/ scrollback' = scrollback
            \/ \E lines \in Screen(G, cols, rows) : scrollback' = Captured(lines, 1)
         /\ typed' = typed \/ typed' = Append(typed, char)
<1>1. CASE Panic
  BY <1>1 DEF Panic, content
<1>2. CASE ~Panic
  <2> DEFINE autoWrap == "AUTO_WRAP" \in modes
             width == Width(char)
             resolves == cursor.pending /\ autoWrap
             col == IF ~cursor.pending THEN cursor.col ELSE IF autoWrap THEN 0 ELSE cols - 1
             noRoom == width = 2 /\ col + 1 >= cols
             givesUp == noRoom /\ (cols = 1 \/ ~autoWrap)
             wraps == resolves \/ (noRoom /\ ~givesUp)
             row == IF wraps THEN NextRow ELSE cursor.row
             filled == IF noRoom /\ ~resolves THEN Reset(visible, cursor.row, col) ELSE visible
             marked == IF wraps THEN SoftWrap(filled) ELSE filled
             scrolls == wraps /\ AtBottom
             moved == IF scrolls THEN ScrolledUp(marked, 1) ELSE marked
             at == IF wraps THEN 0 ELSE col
             put == Put(moved[row + 1], at, char, cursor.style)
             S == Screen(G, cols, rows)
  <2>1. /\ ~(cursor.row >= rows \/ col >= cols)
        /\ visible' = IF ~givesUp THEN [moved EXCEPT ![row + 1] = put]
                      ELSE IF resolves THEN Reset(moved, row, 0) ELSE moved
        /\ scrollback' = IF scrolls THEN Captured(marked, 1) ELSE scrollback
        /\ typed' = Append(typed, char)
    BY <1>2 DEF Write
  <2>2. cols \in Nat \ {0} /\ rows \in Nat \ {0} /\ cursor.col \in Nat /\ cursor.row \in Nat
    BY CursorIsPlace DEF Shape
  <2>3. cursor.row + 1 \in 1..rows /\ row \in Nat /\ row + 1 \in 1..rows
    BY <2>1, <2>2 DEF NextRow
  <2>4. /\ width = 1 \/ (width = 2 /\ char \in Broad)
        /\ col \in Nat /\ col < cols
        /\ noRoom => col = cols - 1 /\ Emptied(G)
    BY <2>1, <2>2 DEF Width
  <2>5. at \in Nat /\ (~givesUp => at + width <= cols) /\ (givesUp /\ resolves => cols = 1)
    BY <2>2, <2>4
  <2>6. Fresh(G) /\ Flagged(G) /\ Written(G)
    BY DEF Closed
  <2> HIDE DEF row, col, width, autoWrap
  <2>7. filled \in S
    <3>1. CASE noRoom /\ ~resolves
      <4> DEFINE i == cursor.row + 1
      <4>1. [visible EXCEPT ![i].cells[cols - 1] = Blank] \in S
        <5> HIDE DEF i
        <5> QED
          BY <2>2, <2>3, <2>4, <3>1, EmptyGivesAScreen DEF i
      <4> QED
        BY <2>4, <3>1, <4>1 DEF Reset
    <3>2. CASE ~(noRoom /\ ~resolves)
      BY <3>2
    <3> QED
      BY <3>1, <3>2
  <2> HIDE DEF filled
  <2>8. marked \in S
    <3>1. CASE wraps
      <4> DEFINE i == cursor.row + 1
      <4>1. [filled EXCEPT ![i].wrapped = TRUE] \in S
        <5> HIDE DEF i
        <5> QED
          BY <2>2, <2>3, <2>6, <2>7, FlagGivesAScreen DEF i
      <4> QED
        BY <3>1, <4>1 DEF SoftWrap
    <3>2. CASE ~wraps
      BY <2>7, <3>2
    <3> QED
      BY <3>1, <3>2
  <2> HIDE DEF marked
  <2>9. moved \in S
    BY <2>6, <2>8, ScrollingKeepsScreens
  <2> HIDE DEF moved, at, wraps, scrolls, noRoom
  <2>10. CASE ~givesUp
    <3> DEFINE i == row + 1
    <3>1. at + width <= cols /\ i \in 1..rows
      BY <2>3, <2>5, <2>10
    <3> HIDE DEF i
    <3>2. [moved EXCEPT ![i] = Put(moved[i], at, char, cursor.style)] \in S
      BY <2>2, <2>5, <2>6, <2>9, <3>1, PutGivesAScreen DEF Inked, width
    <3>3. visible' = [moved EXCEPT ![i] = Put(moved[i], at, char, cursor.style)]
      BY <2>1, <2>10 DEF i
    <3> QED
      BY <2>1, <2>8, <3>2, <3>3
  <2>11. CASE givesUp /\ resolves
    <3> DEFINE i == row + 1
    <3>1. cols = 1 /\ cols - 1 = 0 /\ Emptied(G) /\ i \in 1..rows
      BY <2>3, <2>4, <2>5, <2>11 DEF noRoom
    <3> HIDE DEF i
    <3>2. [moved EXCEPT ![i].cells[cols - 1] = Blank] \in S
      BY <2>2, <2>9, <3>1, EmptyGivesAScreen
    <3>3. visible' = [moved EXCEPT ![i].cells[0] = Blank]
      BY <2>1, <2>11 DEF Reset, i
    <3> QED
      BY <2>1, <2>8, <3>1, <3>2, <3>3
  <2>12. CASE givesUp /\ ~resolves
    BY <2>1, <2>8, <2>9, <2>12
  <2> QED
    BY <2>10, <2>11, <2>12
<1> QED
  BY <1>1, <1>2

\* combine_with_previous puts its mark into a row.
LEMMA CombiningKeepsScreens ==
  ASSUME Shape, NEW G, Closed(G), NEW char \in Zero, NEW col \in Nat, NEW row \in Nat,
         visible \in Screen(G, cols, rows), Combine(char, col, row)
  PROVE  visible' \in Screen(G, cols, rows) /\ scrollback' = scrollback
<1>1. CASE row >= rows \/ col >= cols
  BY <1>1 DEF Combine, Panic, content
<1>2. CASE ~(row >= rows \/ col >= cols)
  <2> DEFINE i == row + 1
             l == [visible[i] EXCEPT !.cells[col].text = Append(visible[i].cells[col].text, char)]
  <2>1. cols \in Nat \ {0} /\ i \in 1..rows /\ col \in 0..(cols - 1)
    BY <1>2 DEF Shape
  <2>2. visible' = [visible EXCEPT ![i] = l] /\ scrollback' = scrollback
    BY <1>2 DEF Combine
  <2> HIDE DEF i
  <2>3. visible[i] \in G /\ visible[i] \in Line(cols)
    BY <2>1, RowsOfAScreen
  <2>4. l \in G
    BY <2>1, <2>3 DEF Closed, Marked
  <2>5. l \in Line(cols)
    BY <2>1, <2>3, MarkedKinds
  <2> HIDE DEF l
  <2>6. [visible EXCEPT ![i] = l] \in Screen(G, cols, rows)
    BY <2>1, <2>4, <2>5, RowGivesAScreen
  <2> QED
    BY <2>2, <2>6
<1> QED
  BY <1>1, <1>2

\* The erase functions erase within rows.
LEMMA SpansKeepScreens ==
  ASSUME Shape, NEW G, Closed(G), NEW spans, \A s \in spans : s.from \in Nat /\ s.to \in Nat,
         visible \in Screen(G, cols, rows), Erase(spans)
  PROVE  visible' \in Screen(G, cols, rows) /\ scrollback' = scrollback
<1> DEFINE real == {s \in spans : s.from <= s.to}
           S == G \cap Line(cols)
           Here(i) == \E s \in real : s.row + 1 = i
           The(i) == CHOOSE s \in real : s.row + 1 = i
           f == [i \in DOMAIN visible |-> IF Here(i) THEN EraseRange(visible[i], The(i).from, The(i).to) ELSE visible[i]]
<1>1. CASE Panic
  BY <1>1 DEF Panic, content
<1>2. CASE ~Panic
  <2>1. visible' = f /\ scrollback' = scrollback /\ ~\E s \in real : s.row >= rows \/ s.to >= cols
    BY <1>2 DEF Erase
  <2>2. cols \in Nat \ {0} /\ rows \in Nat
    BY DEF Shape
  <2>3. DOMAIN visible = 1..rows /\ \A i \in 1..rows : visible[i] \in G /\ visible[i] \in Line(cols)
    BY RowsOfAScreen
  <2>4. ASSUME NEW i \in 1..rows, Here(i)
        PROVE  EraseRange(visible[i], The(i).from, The(i).to) \in S
    <3> DEFINE s == The(i)
               l == visible[i]
    <3>1. s \in real /\ s.row + 1 = i
      BY <2>4
    <3> HIDE DEF s
    <3> DEFINE from == s.from
               to == s.to
    <3>2. from \in Nat /\ to \in Nat /\ from <= to /\ to < cols
      BY <2>1, <2>2, <3>1
    <3>3. l \in G /\ l \in Line(cols)
      BY <2>3
    <3> HIDE DEF from, to, l
    <3>4. EraseRange(l, from, to) \in G
      BY <2>2, <3>2, <3>3 DEF Closed, Erased
    <3>5. EraseRange(l, from, to) \in Line(cols)
      BY <2>2, <3>2, <3>3, ErasedKinds
    <3> QED
      BY <3>4, <3>5 DEF s, from, to, l
  <2>5. \A i \in 1..rows : visible[i] \in S
    BY <2>3
  <2> HIDE DEF Here, The, S
  <2>6. f \in [1..rows -> S]
    BY <2>3, <2>4, <2>5
  <2> HIDE DEF f
  <2>7. f \in Seq(S) /\ Len(f) = rows
    <3>1. f \in Seq(S)
      BY <2>2, <2>6, SeqDef
    <3> QED
      BY <2>2, <2>6, <3>1, LenProperties
  <2> QED
    BY <2>1, <2>7 DEF Screen, S
<1> QED
  BY <1>1, <1>2

\* The spans the erase functions ask for are columns.
LEMMA ErasingKeepsScreens ==
  ASSUME Shape, NEW G, Closed(G), visible \in Screen(G, cols, rows),
         EraseInDisplay \/ EraseInLine \/ EraseChars
  PROVE  visible' \in Screen(G, cols, rows) /\ scrollback' = scrollback
<1> DEFINE Fine(spans) == \A s \in spans : s.from \in Nat /\ s.to \in Nat
<1>1. cols \in Nat /\ cols > 0 /\ cols - 1 \in Nat /\ cursor.col \in Nat
  BY CursorIsPlace DEF Shape
<1>2. ASSUME NEW spans, Erase(spans), Fine(spans)
      PROVE  visible' \in Screen(G, cols, rows) /\ scrollback' = scrollback
  BY <1>2, SpansKeepScreens
<1>3. Fine({ToTheRight}) /\ Fine({ToTheLeft}) /\ \A these : Fine(WholeRows(these))
  BY <1>1 DEF ToTheRight, ToTheLeft, WholeRows, Span
<1>4. /\ Fine({ToTheRight} \cup WholeRows((cursor.row + 1)..(rows - 1)))
      /\ Fine({ToTheLeft} \cup WholeRows(0..(cursor.row - 1)))
  BY <1>3
<1>5. ASSUME NEW n
      PROVE  Fine({Span(cursor.row, cursor.col, Clamp(cursor.col + n - 1, cols))})
  <2>1. Clamp(cursor.col + n - 1, cols) \in Nat
    BY <1>1, Clamping
  <2> QED
    BY <1>1, <2>1 DEF Span
<1> HIDE DEF Fine
<1> QED
  BY <1>2, <1>3, <1>4, <1>5 DEF EraseInDisplay, EraseInLine, EraseChars

\* Characters and marks (print).
LEMMA CharactersKeepScreens ==
  ASSUME Shape, Inked(cursor), NEW G, Closed(G), visible \in Screen(G, cols, rows), PrintChar \/ Mark,
         Emptied(G) \/ \A char \in Broad : typed' # Append(typed, char)
  PROVE  /\ visible' \in Screen(G, cols, rows)
         /\ \/ scrollback' = scrollback
            \/ \E lines \in Screen(G, cols, rows) : scrollback' = Captured(lines, 1)
<1>1. CASE PrintChar
  <2>1. PICK char \in Narrow \cup Broad : Write(Glyph(char))
    BY <1>1 DEF PrintChar
  <2> DEFINE glyph == Glyph(char)
  <2>2. glyph \in Glyphs \ Zero
    BY GlyphsArePrinted
  <2>3. Panic \/ typed' = Append(typed, glyph)
    BY <2>1 DEF Write
  <2>4. CASE Panic
    BY <2>4 DEF Panic, content
  <2>5. CASE ~Panic
    <3> HIDE DEF glyph
    <3>1. Write(glyph) /\ typed' = Append(typed, glyph)
      BY <2>1, <2>3, <2>5 DEF glyph
    <3>2. Emptied(G) \/ glyph \notin Broad
      BY <3>1
    <3> QED
      BY <2>2, <3>1, <3>2, WritingKeepsScreens
  <2> QED
    BY <2>4, <2>5
<1>2. CASE Mark
  <2>1. cols \in Nat /\ rows \in Nat /\ cols > 0 /\ cursor.col \in Nat /\ cursor.row \in Nat
    BY CursorIsPlace DEF Shape
  <2>2. PICK char \in Zero :
          \/ cursor.col > 0 /\ Combine(char, cursor.col - 1, cursor.row)
          \/ cursor.col = 0 /\ cursor.row > 0 /\ Combine(char, cols - 1, cursor.row - 1)
    BY <1>2 DEF Mark
  <2>3. \E col \in Nat, row \in Nat : Combine(char, col, row)
    BY <2>1, <2>2
  <2> QED
    BY <2>3, CombiningKeepsScreens
<1> QED
  BY <1>1, <1>2

\* The content is made of rows of a set: both screens and the scrollback, which
\* holds no more than it may.
Kept(G) ==
  /\ visible \in Screen(G, cols, rows)
  /\ scrollback \in Seq(G) /\ Len(scrollback) <= MaxLines
  /\ alternate # <<>> => alternate[1].visible \in Screen(G, cols, rows)

\* The scrollback stays or takes rows of such a screen.
Captures(G) ==
  \/ scrollback' = scrollback
  \/ \E lines \in Screen(G, cols, rows), n \in Nat : scrollback' = Captured(lines, n)

\* Every step but a resize and the way back from the alternate screen keeps the
\* screen one of such rows.
LEMMA StepsKeepScreens ==
  ASSUME Shape, Inked(cursor), NEW G, Closed(G), visible \in Screen(G, cols, rows),
         [Next]_vars, ~Resize, ~LeaveAlternate,
         Emptied(G) \/ \A char \in Broad : typed' # Append(typed, char)
  PROVE  /\ visible' \in Screen(G, cols, rows) /\ Captures(G)
         /\ UNCHANGED <<cols, rows>>
         /\ \/ alternate' = alternate
            \/ alternate' = <<[visible |-> visible, cursor |-> cursor, region |-> region]>>
<1>1. CASE PrintChar \/ Mark
  <2>1. /\ visible' \in Screen(G, cols, rows)
        /\ \/ scrollback' = scrollback
           \/ \E lines \in Screen(G, cols, rows) : scrollback' = Captured(lines, 1)
    BY <1>1, CharactersKeepScreens
  <2>2. Captures(G)
    <3>1. 1 \in Nat
      OBVIOUS
    <3> QED
      BY <2>1, <3>1 DEF Captures
  <2>3. UNCHANGED <<cols, rows, alternate>>
    BY <1>1 DEF PrintChar, Mark, Write, Combine, Panic, geometry
  <2> QED
    BY <2>1, <2>2, <2>3
<1>2. CASE EraseInDisplay \/ EraseInLine \/ EraseChars
  <2>1. visible' \in Screen(G, cols, rows) /\ scrollback' = scrollback
    BY <1>2, ErasingKeepsScreens
  <2>2. UNCHANGED <<cols, rows, alternate>>
    BY <1>2 DEF EraseInDisplay, EraseInLine, EraseChars, Erase, Panic, geometry
  <2> QED
    BY <2>1, <2>2 DEF Captures
<1>3. ASSUME NEW n \in Nat, ScrollUp(n) \/ ScrollDown(n)
      PROVE  visible' \in Screen(G, cols, rows) /\ Captures(G)
  <2>1. Fresh(G)
    BY DEF Closed
  <2>2. ScrolledUp(visible, n) \in Screen(G, cols, rows) /\ ScrolledDown(visible, n) \in Screen(G, cols, rows)
    BY <2>1, ScrollingKeepsScreens
  <2> QED
    BY <1>3, <2>2 DEF ScrollUp, ScrollDown, Captures
<1>4. ASSUME UNCHANGED <<visible, scrollback, cols, rows, alternate>>
      PROVE  visible' \in Screen(G, cols, rows) /\ Captures(G)
  BY <1>4 DEF Captures
<1>5. CASE LineFeed \/ ReverseIndex \/ Scroll
  <2>1. UNCHANGED <<cols, rows, alternate>>
    BY <1>5 DEF LineFeed, ReverseIndex, Scroll, SetCursor, others, geometry
  <2>2. UNCHANGED <<visible, scrollback>> \/ \E n \in Nat : ScrollUp(n) \/ ScrollDown(n)
    <3>1. CASE LineFeed \/ ReverseIndex
      <4>1. 1 \in Nat
        OBVIOUS
      <4> QED
        BY <3>1, <4>1 DEF LineFeed, ReverseIndex, SetCursor, others, content
    <3>2. CASE Scroll
      <4>1. PICK k \in Counts : ScrollUp(Param(k)) \/ ScrollDown(Param(k))
        BY <3>2 DEF Scroll
      <4>2. Param(k) \in Nat
        BY TerminalAssumption DEF Param
      <4> QED
        BY <4>1, <4>2
    <3> QED
      BY <1>5, <3>1, <3>2
  <2> QED
    BY <1>3, <1>4, <2>1, <2>2
<1>6. CASE EnterAlternate
  <2>1. UNCHANGED <<cols, rows, scrollback>> /\ cols \in Nat \ {0} /\ rows \in Nat
    BY <1>6 DEF EnterAlternate, geometry, Shape
  <2>2. CASE alternate = <<>>
    <3>1. /\ visible' = NewScreen(cols, rows)
          /\ alternate' = <<[visible |-> visible, cursor |-> cursor, region |-> region]>>
      BY <1>6, <2>2 DEF EnterAlternate
    <3>2. NewScreen(cols, rows) \in Screen(G, cols, rows)
      BY <2>1, NewScreenIsAScreen DEF Closed
    <3> QED
      BY <2>1, <3>1, <3>2 DEF Captures
  <2>3. CASE alternate # <<>>
    BY <1>6, <2>1, <2>3 DEF EnterAlternate, Captures
  <2> QED
    BY <2>2, <2>3
<1>7. CASE Backspace \/ CarriageReturn \/ CursorMovement \/ CursorPosition \/ SelectGraphicRendition
  <2>1. UNCHANGED <<visible, scrollback, cols, rows, alternate>>
    BY <1>7 DEF Backspace, CarriageReturn, CursorMovement, CursorPosition, SelectGraphicRendition,
                SetCursor, others, content, geometry
  <2> QED
    BY <1>4, <2>1
<1>8. CASE Tab
  <2>1. UNCHANGED <<visible, scrollback, cols, rows, alternate>>
    BY <1>8 DEF Tab, SetCursor, others, Panic, content, geometry
  <2> QED
    BY <1>4, <2>1
<1>9. CASE TabStop \/ SaveCursor \/ RestoreCursor \/ SetMargins \/ PrivateMode \/ SelectCharset
  <2>1. UNCHANGED <<visible, scrollback, cols, rows, alternate>>
    BY <1>9 DEF TabStop, SaveCursor, RestoreCursor, SetMargins, PrivateMode, SelectCharset, content, geometry
  <2> QED
    BY <1>4, <2>1
<1>10. CASE UNCHANGED vars
  <2>1. UNCHANGED <<visible, scrollback, cols, rows, alternate>>
    BY <1>10 DEF vars, content, geometry
  <2> QED
    BY <1>4, <2>1
<1>11. \/ PrintChar \/ Mark \/ EraseInDisplay \/ EraseInLine \/ EraseChars
       \/ LineFeed \/ ReverseIndex \/ Scroll \/ EnterAlternate
       \/ Backspace \/ CarriageReturn \/ CursorMovement \/ CursorPosition \/ SelectGraphicRendition
       \/ Tab \/ TabStop \/ SaveCursor \/ RestoreCursor \/ SetMargins \/ PrivateMode \/ SelectCharset
       \/ UNCHANGED vars
  BY DEF Next
<1>12. CASE Backspace \/ CarriageReturn \/ CursorMovement \/ CursorPosition \/ SelectGraphicRendition
            \/ Tab \/ TabStop \/ SaveCursor \/ RestoreCursor \/ SetMargins \/ PrivateMode \/ SelectCharset
            \/ UNCHANGED vars
  <2>1. UNCHANGED <<cols, rows, alternate>>
    BY <1>12 DEF Backspace, CarriageReturn, CursorMovement, CursorPosition, SelectGraphicRendition,
                 SetCursor, others, Tab, Panic, TabStop, SaveCursor, RestoreCursor, SetMargins, PrivateMode,
                 SelectCharset, vars, geometry
  <2> QED
    BY <1>7, <1>8, <1>9, <1>10, <1>12, <2>1
<1> QED
  BY <1>1, <1>2, <1>5, <1>6, <1>11, <1>12

\* So does the way back, which brings the screen that waited; all but a resize keep
\* the content one of such rows.
LEMMA StepsKeepContent ==
  ASSUME Shape, Inked(cursor), NEW G, Closed(G), Emptied(G), Kept(G), [Next]_vars, ~Resize
  PROVE  Kept(G)'
<1>1. CASE LeaveAlternate
  <2>1. UNCHANGED <<cols, rows, scrollback>> /\ alternate' = <<>>
    BY <1>1 DEF LeaveAlternate, geometry
  <2>2. visible' = visible \/ (alternate # <<>> /\ visible' = alternate[1].visible)
    BY <1>1 DEF LeaveAlternate
  <2> QED
    BY <2>1, <2>2 DEF Kept
<1>2. CASE ~LeaveAlternate
  <2>1. /\ visible' \in Screen(G, cols, rows) /\ Captures(G)
        /\ UNCHANGED <<cols, rows>>
        /\ \/ alternate' = alternate
           \/ alternate' = <<[visible |-> visible, cursor |-> cursor, region |-> region]>>
    BY <1>2, StepsKeepScreens DEF Kept
  <2>2. scrollback' \in Seq(G) /\ Len(scrollback') <= MaxLines
    <3>1. CASE scrollback' = scrollback
      BY <3>1 DEF Kept
    <3>2. CASE \E lines \in Screen(G, cols, rows), n \in Nat : scrollback' = Captured(lines, n)
      BY <3>2, CapturingKeepsRows DEF Kept
    <3> QED
      BY <2>1, <3>1, <3>2 DEF Captures
  <2>3. alternate' # <<>> => alternate'[1].visible \in Screen(G, cols, rows)
    <3>1. CASE alternate' = alternate
      BY <3>1 DEF Kept
    <3>2. CASE alternate' = <<[visible |-> visible, cursor |-> cursor, region |-> region]>>
      <4>1. alternate'[1].visible = visible
        BY <3>2
      <4> QED
        BY <4>1 DEF Kept
    <3> QED
      BY <2>1, <3>1, <3>2
  <2> QED
    BY <2>1, <2>2, <2>3 DEF Kept
<1> QED
  BY <1>1, <1>2

\* A row that is cut or padded is a row, and one that keeps its width stays as it is
\* (Row::resize).
LEMMA ResizingARow ==
  ASSUME NEW w \in Nat \ {0}, NEW l \in Line(w), NEW c \in Nat \ {0}
  PROVE  ResizeRow(l, c) \in Line(c) /\ (c = w => ResizeRow(l, c) = l)
<1> DEFINE f == [i \in 0..(c - 1) |-> IF i \in DOMAIN l.cells THEN l.cells[i] ELSE Blank]
<1>1. DOMAIN l.cells = 0..(w - 1) /\ \A i \in 0..(w - 1) : l.cells[i] \in Cell
  BY DEF Line
<1>2. f \in [0..(c - 1) -> Cell]
  BY <1>1, BlankIsACell
<1>3. c = w => f = l.cells
  <2> SUFFICES ASSUME c = w PROVE f = l.cells
    OBVIOUS
  <2>1. l.cells \in [0..(c - 1) -> Cell]
    BY DEF Line
  <2>2. \A i \in 0..(c - 1) : f[i] = l.cells[i]
    BY <1>1
  <2> HIDE DEF f
  <2> QED
    BY <1>2, <2>1, <2>2
<1> HIDE DEF f
<1>4. [l EXCEPT !.cells = f] \in Line(c) /\ (f = l.cells => [l EXCEPT !.cells = f] = l)
  BY <1>2 DEF Line
<1> QED
  BY <1>3, <1>4 DEF ResizeRow, f

\* A screen that is cut or padded is a screen (basic_resize).
LEMMA ResizingAScreen ==
  ASSUME NEW G, Fresh(G), NEW w \in Nat \ {0}, NEW h \in Nat, NEW lines \in Screen(G, w, h),
         NEW c \in Nat \ {0}, NEW r \in Nat, G = Lines \/ c = w
  PROVE  ResizedRows(lines, c, r) \in Screen(G, c, r)
<1> DEFINE S == G \cap Line(c)
           f == [i \in 1..r |-> IF i <= Len(lines) THEN ResizeRow(lines[i], c) ELSE NewRow(c)]
<1>1. Len(lines) = h /\ \A i \in 1..h : lines[i] \in G /\ lines[i] \in Line(w)
  BY RowsOfAScreen
<1>2. \A i \in 1..h : ResizeRow(lines[i], c) \in S
  <2> TAKE i \in 1..h
  <2> DEFINE l == lines[i]
  <2>1. l \in G /\ l \in Line(w)
    BY <1>1
  <2> HIDE DEF l
  <2>2. ResizeRow(l, c) \in Line(c) /\ (c = w => ResizeRow(l, c) = l)
    BY <2>1, ResizingARow
  <2>3. ResizeRow(l, c) \in G
    BY <2>1, <2>2, LinesAreRows
  <2> QED
    BY <2>2, <2>3 DEF l
<1>3. NewRow(c) \in S
  BY NewRowIsALine DEF Fresh
<1> HIDE DEF S
<1>4. \A i \in 1..r : i <= Len(lines) => i \in 1..h
  BY <1>1
<1>5. f \in [1..r -> S]
  BY <1>2, <1>3, <1>4
<1> HIDE DEF f
<1>6. f \in Seq(S) /\ Len(f) = r
  <2>1. f \in Seq(S)
    BY <1>5, SeqDef
  <2> QED
    BY <1>5, <2>1, LenProperties
<1> QED
  BY <1>6 DEF ResizedRows, Screen, S, f

\* A resize keeps the content made of rows of a set: any rows, or paired ones if no
\* screen waits.
LEMMA ResizeKeepsContent ==
  ASSUME Shape, NEW G, Closed(G), Kept(G), \A w \in Nat \ {0} : WholeLine(w) \subseteq G \cap Line(w), Resize,
         G = Lines \/ alternate = <<>>
  PROVE  Kept(G)'
<1>1. PICK size \in Sizes :
        /\ \/ (alternate # <<>> \/ size[1] = cols) /\ BasicResize(size[1], size[2])
           \/ alternate = <<>> /\ ReflowResize(size[1], size[2])
        /\ cols' = size[1] /\ rows' = size[2]
  BY DEF Resize
<1> DEFINE c == size[1]
           r == size[2]
<1>2. c \in Nat \ {0} /\ r \in Nat /\ cols' = c /\ rows' = r /\ cols \in Nat \ {0} /\ rows \in Nat
  BY <1>1, SizesHaveRoom DEF Shape
<1>3. Fresh(G) /\ G \subseteq Lines
  BY DEF Closed
<1> HIDE DEF c, r
<1>4. CASE (alternate # <<>> \/ c = cols) /\ BasicResize(c, r)
  <2>1. G = Lines \/ c = cols
    BY <1>4
  <2>2. visible' = ResizedRows(visible, c, r) /\ scrollback' = scrollback
    BY <1>4 DEF BasicResize
  <2>3. visible' \in Screen(G, c, r)
    BY <1>2, <1>3, <2>1, <2>2, ResizingAScreen DEF Kept
  <2>4. alternate' # <<>> => alternate'[1].visible \in Screen(G, c, r)
    <3> SUFFICES ASSUME alternate' # <<>>
                 PROVE  alternate'[1].visible \in Screen(G, c, r)
      OBVIOUS
    <3>1. alternate # <<>>
      BY <1>4 DEF BasicResize
    <3>2. DOMAIN alternate = {1}
      BY <3>1 DEF Shape
    <3>3. alternate'[1].visible = ResizedRows(alternate[1].visible, c, r)
      BY <1>4, <3>2 DEF BasicResize
    <3> DEFINE back == alternate[1].visible
    <3>4. back \in Screen(G, cols, rows)
      BY <3>1 DEF Kept
    <3> HIDE DEF back
    <3>5. ResizedRows(back, c, r) \in Screen(G, c, r)
      BY <1>2, <1>3, <2>1, <3>4, ResizingAScreen
    <3> QED
      BY <3>3, <3>5 DEF back
  <2> QED
    BY <1>2, <2>2, <2>3, <2>4 DEF Kept
<1>5. CASE alternate = <<>> /\ ReflowResize(c, r)
  <2> DEFINE new == ReflowScreen(scrollback, visible, cursor.row, cursor.col, c, r)
  <2>1. /\ visible' = new.visible /\ scrollback' = PushAll(<<>>, new.scrollback) /\ alternate' = <<>>
    BY <1>5 DEF ReflowResize, PushAll
  <2>2. scrollback \in Seq(Lines) /\ visible \in Seq(Lines)
    <3>1. scrollback \in Seq(G) /\ visible \in Seq(G \cap Line(cols))
      BY RowsOfAScreen DEF Kept
    <3> DEFINE S == G \cap Line(cols)
    <3>2. visible \in Seq(S) /\ S \subseteq Lines
      BY <1>3, <3>1
    <3> HIDE DEF S
    <3> QED
      BY <1>3, <3>1, <3>2, SeqMonotonic
  <2>3. new.visible \in Seq(WholeLine(c)) /\ Len(new.visible) = r /\ new.scrollback \in Seq(WholeLine(c))
    BY <1>2, <2>2, ReflowGivesWholeRows
  <2> HIDE DEF new
  <2> DEFINE S == G \cap Line(c)
             W == WholeLine(c)
  <2>4. W \subseteq S /\ W \subseteq G
    BY <1>2
  <2>5. new.visible \in Seq(S) /\ new.scrollback \in Seq(G)
    <3> HIDE DEF S
    <3>1. new.visible \in Seq(W) /\ new.scrollback \in Seq(W)
      BY <2>3
    <3> HIDE DEF W
    <3> QED
      BY <2>4, <3>1, SeqMonotonic
  <2>6. visible' \in Screen(G, c, r)
    BY <2>1, <2>3, <2>5 DEF Screen
  <2>7. scrollback' \in Seq(G) /\ Len(scrollback') <= MaxLines
    <3>1. <<>> \in Seq(G) /\ Len(<<>>) = 0 /\ 0 <= MaxLines
      BY TerminalAssumption
    <3> QED
      BY <2>1, <2>5, <3>1, PushingRows
  <2> QED
    BY <1>2, <2>1, <2>6, <2>7 DEF Kept
<1> QED
  BY <1>1, <1>4, <1>5 DEF c, r

\* A new grid has new rows (Grid::new).
LEMMA ContentAtFirst ==
  ASSUME NEW G, Fresh(G), Init
  PROVE  Kept(G)
<1>1. cols \in Nat \ {0} /\ rows \in Nat
  BY SizesHaveRoom DEF Init
<1>2. visible \in Screen(G, cols, rows)
  BY <1>1, NewScreenIsAScreen DEF Init
<1> QED
  BY <1>2, TerminalAssumption DEF Init, Kept

-----------------------------------------------------------------------------
(* Styles.                                                                    *)

\* A step of apply_sgr, from the parameter at a position.
SgrColor(params, pen, at, ground) ==
  LET found == ExtendedColor(params, at)
  IN [at |-> at + 1 + found.used,
      style |-> IF found.color = <<>> THEN pen ELSE [pen EXCEPT ![ground] = found.color]]
SgrStep(params, pen, at) ==
  CASE params[at] = 38 -> SgrColor(params, pen, at, "fg")
    [] params[at] = 48 -> SgrColor(params, pen, at, "bg")
    [] OTHER -> [at |-> at + 1, style |-> ApplyCode(pen, params[at])]

\* The style and the position after each step.
SgrNext(params, last) == IF last.at > Len(params) THEN last ELSE SgrStep(params, last.style, last.at)
Reads(style, params, r) ==
  /\ r[0] = [at |-> 1, style |-> style]
  /\ \A k \in 1..Len(params) : r[k] = SgrNext(params, r[k - 1])
ReadFold(style, params, n, r) ==
  r = [k \in 0..n |-> IF k = 0 THEN [at |-> 1, style |-> style] ELSE SgrNext(params, r[k - 1])]

\* There are such, by induction over the steps.
LEMMA ReadFoldExists ==
  ASSUME NEW style, NEW params, NEW n \in Nat
  PROVE  \E r : ReadFold(style, params, n, r)
<1> DEFINE P == {k \in Nat : \E r : ReadFold(style, params, k, r)}
           zero == [at |-> 1, style |-> style]
<1>1. 0 \in P
  <2> DEFINE r == [i \in 0..0 |-> zero]
  <2>1. r = [i \in 0..0 |-> IF i = 0 THEN zero ELSE SgrNext(params, r[i - 1])]
    OBVIOUS
  <2> HIDE DEF r
  <2>2. ReadFold(style, params, 0, r)
    BY <2>1 DEF ReadFold
  <2> QED
    BY <2>2
<1>2. ASSUME NEW k \in Nat, k \in P
      PROVE  k + 1 \in P
  <2>1. PICK r : ReadFold(style, params, k, r)
    BY <1>2
  <2> HIDE DEF zero
  <2> DEFINE m == k + 1
             b == [i \in 0..m |-> IF i = m THEN SgrNext(params, r[k]) ELSE r[i]]
  <2>2. ASSUME NEW i \in 0..m
        PROVE  b[i] = IF i = 0 THEN zero ELSE SgrNext(params, b[i - 1])
    <3>1. CASE i = m
      BY <3>1
    <3>2. CASE i # m
      <4>1. i \in 0..k /\ b[i] = r[i] /\ (i # 0 => i - 1 \in 0..k /\ i - 1 # m /\ b[i - 1] = r[i - 1])
        BY <3>2
      <4>2. r[i] = IF i = 0 THEN zero ELSE SgrNext(params, r[i - 1])
        BY <2>1, <4>1 DEF ReadFold, zero
      <4> QED
        BY <4>1, <4>2
    <3> QED
      BY <3>1, <3>2
  <2>3. b = [i \in 0..m |-> IF i = 0 THEN zero ELSE SgrNext(params, b[i - 1])]
    <3> DEFINE d == [i \in 0..m |-> IF i = 0 THEN zero ELSE SgrNext(params, b[i - 1])]
    <3>1. \A i \in 0..m : b[i] = d[i]
      BY <2>2
    <3>2. DOMAIN b = 0..m /\ DOMAIN d = 0..m
      OBVIOUS
    <3> QED
      BY <3>1, <3>2
  <2> HIDE DEF b
  <2>4. ReadFold(style, params, m, b)
    BY <2>3 DEF ReadFold, zero
  <2> QED
    BY <2>4
<1> HIDE DEF P
<1>3. n \in P
  BY <1>1, <1>2, Numbers
<1> QED
  BY <1>3 DEF P

\* apply_sgr goes as many steps as there are parameters, and stops before when they
\* are used up.
LEMMA ReadsExist ==
  ASSUME NEW style, NEW params, Len(params) \in Nat, params # <<>>
  PROVE  \E r : Reads(style, params, r) /\ ApplySgr(style, params) = r[Len(params)].style
<1> DEFINE n == Len(params)
           r == CHOOSE b : ReadFold(style, params, n, b)
<1>1. ReadFold(style, params, n, r)
  BY ReadFoldExists
<1>2. ApplySgr(style, params) = r[n].style
  BY DEF ApplySgr, ReadFold, SgrNext, SgrStep, SgrColor
<1> HIDE DEF r
<1>3. Reads(style, params, r)
  <2>1. r[0] = [at |-> 1, style |-> style]
    BY <1>1 DEF ReadFold
  <2>2. ASSUME NEW i \in 1..n
        PROVE  r[i] = SgrNext(params, r[i - 1])
    <3>1. i \in 0..n /\ i # 0
      OBVIOUS
    <3> QED
      BY <1>1, <3>1 DEF ReadFold
  <2> QED
    BY <2>1, <2>2 DEF Reads
<1> QED
  BY <1>2, <1>3

\* A code gives a style.
LEMMA CodesGiveStyles ==
  ASSUME NEW style \in Style, NEW code \in Nat
  PROVE  ApplyCode(style, code) \in Style
<1>1. TurnsOn(code) \subseteq Attrs
  BY DEF TurnsOn, Attrs
<1>2. /\ code \in 30..37 => <<code - 30>> \in Seq(Nat)
      /\ code \in 90..97 => <<code - 82>> \in Seq(Nat)
      /\ code \in 40..47 => <<code - 40>> \in Seq(Nat)
      /\ code \in 100..107 => <<code - 92>> \in Seq(Nat)
  <2>1. \A n \in Nat : <<n>> \in Seq(Nat)
    OBVIOUS
  <2> QED
    BY <2>1
<1> DEFINE fg == CASE code \in 30..37 -> <<code - 30>> [] code = 39 -> Default
                   [] code \in 90..97 -> <<code - 82>> [] OTHER -> style.fg
           bg == CASE code \in 40..47 -> <<code - 40>> [] code = 49 -> Default
                   [] code \in 100..107 -> <<code - 92>> [] OTHER -> style.bg
           attrs == (style.attrs \cup TurnsOn(code)) \ TurnsOff(code)
<1>3. style.fg \in Seq(Nat) /\ style.bg \in Seq(Nat) /\ style.attrs \subseteq Attrs /\ Default \in Seq(Nat)
  BY DEF Style, Default
<1>4. fg \in Seq(Nat)
  BY <1>2, <1>3
<1>5. bg \in Seq(Nat)
  BY <1>2, <1>3
<1>6. attrs \in SUBSET Attrs
  BY <1>1, <1>3
<1> HIDE DEF fg, bg, attrs
<1>7. ApplyCode(style, code) = IF code = 0 THEN Plain ELSE [fg |-> fg, bg |-> bg, attrs |-> attrs]
  BY DEF ApplyCode, fg, bg, attrs
<1> QED
  BY <1>4, <1>5, <1>6, <1>7, BlankIsACell DEF Style

\* A colour is made of numbers, whatever is cut short (parse_extended_color).
LEMMA ColoursAreNumbers ==
  ASSUME NEW params \in Seq(Nat), NEW at \in Nat, at <= Len(params)
  PROVE  ExtendedColor(params, at).color \in Seq(Nat) /\ ExtendedColor(params, at).used \in Nat
<1> DEFINE byte(n) == IF n > 255 THEN 255 ELSE n
           given == Len(params) - at
           three == [k \in 1..3 |-> byte(params[at + 1 + k])]
<1>1. Len(params) \in Nat /\ \A i \in 1..Len(params) : params[i] \in Nat
  BY LenProperties, ElementOfSeq
<1>2. <<>> \in Seq(Nat) /\ \A n \in Nat : <<byte(n)>> \in Seq(Nat)
  OBVIOUS
<1>3. given >= 4 => three \in Seq(Nat)
  <2> SUFFICES ASSUME given >= 4 PROVE three \in Seq(Nat)
    OBVIOUS
  <2>1. \A k \in 1..3 : at + 1 + k \in 1..Len(params)
    BY <1>1
  <2>2. \A k \in 1..3 : byte(params[at + 1 + k]) \in Nat
    BY <1>1, <2>1
  <2> HIDE DEF byte
  <2>3. three \in [1..3 -> Nat]
    BY <2>2
  <2> QED
    BY <2>3, SeqDef
<1>4. given >= 2 => params[at + 2] \in Nat
  BY <1>1
<1>5. ExtendedColor(params, at) =
        IF given = 0 THEN [color |-> <<>>, used |-> 0]
        ELSE IF params[at + 1] = 5 /\ given >= 2 THEN [color |-> <<byte(params[at + 2])>>, used |-> 2]
        ELSE IF params[at + 1] = 2 /\ given >= 4 THEN [color |-> three, used |-> 4]
        ELSE [color |-> <<>>, used |-> 1]
  BY DEF ExtendedColor
<1>6. CASE given >= 2 /\ params[at + 1] = 5
  <2> DEFINE one == <<byte(params[at + 2])>>
  <2>1. one \in Seq(Nat)
    BY <1>2, <1>4, <1>6
  <2>2. ExtendedColor(params, at) = [color |-> one, used |-> 2]
    BY <1>1, <1>5, <1>6
  <2> HIDE DEF one
  <2> QED
    BY <2>1, <2>2
<1>7. CASE given >= 4 /\ params[at + 1] # 5 /\ params[at + 1] = 2
  <2>1. ExtendedColor(params, at) = [color |-> three, used |-> 4]
    BY <1>1, <1>5, <1>7
  <2> HIDE DEF three
  <2> QED
    BY <1>3, <1>7, <2>1
<1>8. CASE ~(given >= 2 /\ params[at + 1] = 5) /\ ~(given >= 4 /\ params[at + 1] # 5 /\ params[at + 1] = 2)
  BY <1>1, <1>2, <1>5, <1>8
<1> QED
  BY <1>6, <1>7, <1>8

\* An SGR sequence gives a style, whatever it says (apply_sgr).
LEMMA SgrGivesStyles ==
  ASSUME NEW style \in Style, NEW params \in Seq(Nat)
  PROVE  ApplySgr(style, params) \in Style
<1> DEFINE n == Len(params)
<1>1. n \in Nat /\ \A i \in 1..n : params[i] \in Nat
  BY LenProperties, ElementOfSeq
<1>2. CASE params = <<>>
  BY <1>2, BlankIsACell DEF ApplySgr
<1>3. CASE params # <<>>
  <2>1. PICK r : Reads(style, params, r) /\ ApplySgr(style, params) = r[n].style
    BY <1>1, <1>3, ReadsExist
  <2> DEFINE P == {k \in Nat : k <= n => r[k].style \in Style /\ r[k].at \in Nat \ {0}}
  <2>2. 0 \in P
    BY <2>1 DEF Reads
  <2>3. ASSUME NEW k \in Nat, k \in P
        PROVE  k + 1 \in P
    <3> SUFFICES ASSUME k + 1 <= n
                 PROVE  r[k + 1].style \in Style /\ r[k + 1].at \in Nat \ {0}
      OBVIOUS
    <3> DEFINE pen == r[k].style
               at == r[k].at
    <3>1. pen \in Style /\ at \in Nat \ {0}
      BY <1>1, <2>3
    <3>2. r[k + 1] = SgrNext(params, r[k])
      <4>1. k + 1 \in 1..n /\ (k + 1) - 1 = k
        BY <1>1
      <4> QED
        BY <2>1, <4>1 DEF Reads
    <3>3. CASE at > n
      BY <3>1, <3>2, <3>3 DEF SgrNext
    <3>4. CASE ~(at > n)
      <4>1. r[k + 1] = SgrStep(params, pen, at)
        BY <3>2, <3>4 DEF SgrNext
      <4>2. at \in 1..n /\ params[at] \in Nat
        BY <1>1, <3>1, <3>4
      <4> HIDE DEF pen, at
      <4>3. ApplyCode(pen, params[at]) \in Style
        BY <3>1, <4>2, CodesGiveStyles
      <4>4. ASSUME NEW ground \in {"fg", "bg"}
            PROVE  SgrColor(params, pen, at, ground).style \in Style /\ SgrColor(params, pen, at, ground).at \in Nat \ {0}
        <5> DEFINE color == ExtendedColor(params, at).color
                   used == ExtendedColor(params, at).used
        <5>1. color \in Seq(Nat) /\ used \in Nat
          BY <4>2, ColoursAreNumbers
        <5> HIDE DEF color, used
        <5>2. [pen EXCEPT ![ground] = color] \in Style
          BY <3>1, <5>1 DEF Style
        <5> QED
          BY <3>1, <5>1, <5>2 DEF SgrColor, color, used
      <4> QED
        BY <3>1, <4>1, <4>3, <4>4 DEF SgrStep
    <3> QED
      BY <3>3, <3>4
  <2> HIDE DEF P
  <2>4. n \in P
    BY <1>1, <2>2, <2>3, Numbers
  <2> QED
    BY <1>1, <2>1, <2>4 DEF P
<1> QED
  BY <1>2, <1>3

\* A command of an SGR sequence is read whole wherever it stands: the code, or the
\* colour with its numbers, and the next step begins behind it.
LEMMA CommandsAreReadWhole ==
  ASSUME NEW command \in SgrCommands, NEW params \in Seq(Nat), NEW i \in Nat, i + Len(command) <= Len(params),
         \A k \in 1..Len(command) : params[i + k] = command[k], NEW pen
  PROVE  SgrStep(params, pen, i + 1) = [at |-> i + 1 + Len(command), style |-> Meaning(pen, command)]
<1> DEFINE at == i + 1
           byte(n) == IF n > 255 THEN 255 ELSE n
           ground == IF command[1] = 38 THEN "fg" ELSE "bg"
           given == Len(params) - at
<1>1. Len(params) \in Nat /\ command \in Seq(Nat) /\ Len(command) \in Nat
      /\ \A k \in 1..Len(command) : command[k] \in Nat
  BY SgrAssumption, LenProperties, ElementOfSeq
<1>2. \A n \in Nat : Min({255, n}) = byte(n)
  <2> TAKE n \in Nat
  <2>1. CASE n > 255
    <3>1. 255 \in {255, n} /\ \A y \in {255, n} : 255 =< y
      BY <2>1
    <3>2. \A x \in {255, n} : (\A y \in {255, n} : x =< y) => x = 255
      BY <2>1
    <3> QED
      BY <2>1, <3>1, <3>2 DEF Min
  <2>2. CASE n <= 255
    <3>1. n \in {255, n} /\ \A y \in {255, n} : n =< y
      BY <2>2
    <3>2. \A x \in {255, n} : (\A y \in {255, n} : x =< y) => x = n
      BY <2>2
    <3> QED
      BY <2>2, <3>1, <3>2 DEF Min
  <2> QED
    BY <2>1, <2>2
<1>3. CASE Len(command) = 1 /\ command[1] \notin {38, 48}
  <2>1. params[at] = command[1]
    BY <1>1, <1>3
  <2>2. SgrStep(params, pen, at) = [at |-> at + 1, style |-> ApplyCode(pen, command[1])]
    BY <1>3, <2>1 DEF SgrStep
  <2> QED
    BY <1>3, <2>2 DEF Meaning
<1>4. ASSUME command[1] \in {38, 48}, Len(command) >= 3, NEW color, NEW used \in Nat, color # <<>>,
             ExtendedColor(params, at) = [color |-> color, used |-> used],
             Meaning(pen, command) = [pen EXCEPT ![ground] = color], used = Len(command) - 1
      PROVE  SgrStep(params, pen, at) = [at |-> at + Len(command), style |-> Meaning(pen, command)]
  <2>1. params[at] = command[1]
    BY <1>1, <1>4
  <2>2. SgrStep(params, pen, at) = SgrColor(params, pen, at, ground)
    <3>1. CASE command[1] = 38
      BY <2>1, <3>1 DEF SgrStep
    <3>2. CASE command[1] = 48
      BY <2>1, <3>2 DEF SgrStep
    <3> QED
      BY <1>4, <3>1, <3>2
  <2>5. ExtendedColor(params, at).color = color /\ ExtendedColor(params, at).used = used
    <3> HIDE DEF ground, at
    <3>1. [color |-> color, used |-> used].color = color /\ [color |-> color, used |-> used].used = used
      OBVIOUS
    <3> QED
      BY ONLY <1>4, <3>1
  <2>3. SgrColor(params, pen, at, ground) = [at |-> at + 1 + used, style |-> [pen EXCEPT ![ground] = color]]
    <3> HIDE DEF ground, at
    <3> QED
      BY <1>4, <2>5 DEF SgrColor
  <2>4. at + 1 + used = at + Len(command)
    BY <1>1, <1>4
  <2> QED
    BY <1>4, <2>2, <2>3, <2>4
<1>5. CASE Len(command) = 3 /\ command[1] \in {38, 48} /\ command[2] = 5
  <2> DEFINE one == <<byte(command[3])>>
  <2>1. given >= 2 /\ params[at + 1] = 5 /\ params[at + 2] = command[3] /\ command[3] \in Nat
    <3>1. params[i + 2] = command[2] /\ params[i + 3] = command[3] /\ command[3] \in Nat
      BY <1>1, <1>5
    <3>2. at + 1 = i + 2 /\ at + 2 = i + 3
      OBVIOUS
    <3>3. given >= 2
      BY <1>1, <1>5
    <3> QED
      BY <1>5, <3>1, <3>2, <3>3
  <2>2. ExtendedColor(params, at) = [color |-> one, used |-> 2]
    BY <1>1, <2>1 DEF ExtendedColor
  <2>3. [k \in 1..(Len(command) - 2) |-> Min({255, command[k + 2]})] = one
    <3> DEFINE f == [k \in 1..1 |-> Min({255, command[k + 2]})]
    <3>1. f[1] = byte(command[3]) /\ DOMAIN f = 1..1
      <4>1. Min({255, command[3]}) = byte(command[3])
        BY <1>2, <2>1
      <4>2. f[1] = Min({255, command[1 + 2]}) /\ 1 + 2 = 3
        OBVIOUS
      <4> HIDE DEF byte
      <4> QED
        BY <4>1, <4>2
    <3>2. one[1] = byte(command[3]) /\ DOMAIN one = 1..1
      OBVIOUS
    <3>3. f = one
      <4> HIDE DEF byte
      <4>1. f = [k \in 1..1 |-> byte(command[3])]
        BY <3>1
      <4>2. one = [k \in 1..1 |-> byte(command[3])]
        OBVIOUS
      <4> QED
        BY <4>1, <4>2
    <3>4. Len(command) - 2 = 1
      BY <1>5
    <3> QED
      BY <3>3, <3>4
  <2>4. Meaning(pen, command) = [pen EXCEPT ![ground] = one]
    <3> HIDE DEF one
    <3>1. Len(command) # 1
      BY <1>5
    <3>2. Meaning(pen, command) = [pen EXCEPT ![ground] = [k \in 1..(Len(command) - 2) |-> Min({255, command[k + 2]})]]
      BY <3>1 DEF Meaning
    <3> QED
      BY <2>3, <3>2
  <2>5. one # <<>>
    OBVIOUS
  <2> HIDE DEF one, ground
  <2>6. 2 \in Nat /\ 2 = Len(command) - 1 /\ Len(command) >= 3
    BY <1>5
  <2> QED
    BY <1>4, <1>5, <2>2, <2>4, <2>5, <2>6
<1>6. CASE Len(command) = 5 /\ command[1] \in {38, 48} /\ command[2] = 2
  <2> DEFINE three == [k \in 1..3 |-> byte(params[at + 1 + k])]
  <2>1. /\ given >= 4 /\ params[at + 1] = 2
        /\ \A k \in 1..3 : params[at + 1 + k] = command[k + 2] /\ command[k + 2] \in Nat
    <3>1. \A k \in 1..3 : k + 2 \in 1..Len(command) /\ at + 1 + k = i + (k + 2)
      BY <1>6
    <3>2. \A k \in 1..3 : params[at + 1 + k] = command[k + 2] /\ command[k + 2] \in Nat
      BY <1>1, <3>1
    <3>3. 2 \in 1..Len(command) /\ at + 1 = i + 2
      BY <1>6
    <3>4. params[at + 1] = 2
      BY <1>6, <3>3
    <3>5. given >= 4
      BY <1>1, <1>6
    <3> QED
      BY <3>2, <3>4, <3>5
  <2>2. ExtendedColor(params, at) = [color |-> three, used |-> 4]
    BY <1>1, <2>1 DEF ExtendedColor
  <2>3. [k \in 1..(Len(command) - 2) |-> Min({255, command[k + 2]})] = three
    <3>1. \A k \in 1..3 : Min({255, command[k + 2]}) = byte(params[at + 1 + k])
      <4> TAKE k \in 1..3
      <4>1. params[at + 1 + k] = command[k + 2] /\ command[k + 2] \in Nat
        BY <2>1
      <4>2. Min({255, command[k + 2]}) = byte(command[k + 2])
        BY <1>2, <4>1
      <4> QED
        BY <4>1, <4>2
    <3>2. [k \in 1..3 |-> Min({255, command[k + 2]})] = three
      BY <3>1
    <3>3. Len(command) - 2 = 3
      BY <1>6
    <3> QED
      BY <3>2, <3>3
  <2>4. Meaning(pen, command) = [pen EXCEPT ![ground] = three]
    <3> HIDE DEF three
    <3>1. Len(command) # 1
      BY <1>6
    <3>2. Meaning(pen, command) = [pen EXCEPT ![ground] = [k \in 1..(Len(command) - 2) |-> Min({255, command[k + 2]})]]
      BY <3>1 DEF Meaning
    <3> QED
      BY <2>3, <3>2
  <2>5. three # <<>>
    <3>1. DOMAIN three = 1..3 /\ 1 \in 1..3
      OBVIOUS
    <3>2. DOMAIN <<>> = {}
      OBVIOUS
    <3> HIDE DEF three
    <3> QED
      BY <3>1, <3>2
  <2> HIDE DEF three, ground
  <2>6. 4 \in Nat /\ 4 = Len(command) - 1 /\ Len(command) >= 3
    BY <1>6
  <2> QED
    BY <1>4, <1>6, <2>2, <2>4, <2>5, <2>6
<1> QED
  BY SgrAssumption, <1>3, <1>5, <1>6

\* Two commands are read one after the other, for every style and all commands.
LEMMA CommandsFollowEachOther ==
  ASSUME NEW p \in SgrCommands, NEW q \in SgrCommands, NEW style
  PROVE  ApplySgr(style, p \o q) = Meaning(Meaning(style, p), q)
<1> DEFINE params == p \o q
           m == Len(p)
           n == Len(params)
           mid == Meaning(style, p)
           end == Meaning(mid, q)
<1>1. p \in Seq(Nat) /\ q \in Seq(Nat)
  BY SgrAssumption
<1>2. m \in Nat /\ Len(q) \in Nat /\ m > 0 /\ Len(q) > 0
  <2>1. Len(p) \in {1, 3, 5} /\ Len(q) \in {1, 3, 5}
    BY SgrAssumption
  <2> QED
    BY <2>1
<1>3. /\ params \in Seq(Nat) /\ n = m + Len(q)
      /\ \A k \in 1..m : params[k] = p[k]
      /\ \A k \in 1..Len(q) : params[m + k] = q[k]
  <2>1. params \in Seq(Nat) /\ n = m + Len(q)
        /\ \A k \in 1..(Len(p) + Len(q)) : params[k] = IF k <= Len(p) THEN p[k] ELSE q[k - Len(p)]
    BY <1>1, ConcatProperties
  <2>2. \A k \in 1..m : k \in 1..(Len(p) + Len(q)) /\ k <= Len(p)
    BY <1>2
  <2>3. \A k \in 1..Len(q) : m + k \in 1..(Len(p) + Len(q)) /\ ~(m + k <= Len(p)) /\ (m + k) - Len(p) = k
    BY <1>2
  <2> HIDE DEF params, m
  <2>4. \A k \in 1..Len(q) : params[m + k] = q[(m + k) - Len(p)]
    BY <2>1, <2>3
  <2> QED
    BY <2>1, <2>2, <2>3, <2>4
<1> HIDE DEF params, mid, end
<1>4. n \in Nat /\ n >= 2 /\ params # <<>>
  BY <1>2, <1>3
<1>5. PICK r : Reads(style, params, r) /\ ApplySgr(style, params) = r[n].style
  BY <1>4, ReadsExist
<1> HIDE DEF n, m
<1>6. r[0].at = 1 /\ r[0].style = style
  BY <1>5 DEF Reads
<1>7. r[1] = [at |-> m + 1, style |-> mid]
  <2>1. r[1] = SgrNext(params, r[1 - 1]) /\ 1 - 1 = 0
    <3>1. 1 \in 1..n
      BY <1>4
    <3> QED
      BY <1>5, <3>1 DEF Reads, n
  <2>2. ~(1 > Len(params))
    BY <1>4 DEF n
  <2>3. r[1] = SgrStep(params, style, 0 + 1)
    BY <1>6, <2>1, <2>2 DEF SgrNext
  <2>4. 0 + Len(p) <= Len(params) /\ \A k \in 1..Len(p) : params[0 + k] = p[k]
    BY <1>2, <1>3 DEF m, n
  <2>5. SgrStep(params, style, 0 + 1) = [at |-> 0 + 1 + Len(p), style |-> Meaning(style, p)]
    <3> DEFINE i == 0
    <3>1. i \in Nat /\ i + Len(p) <= Len(params) /\ \A k \in 1..Len(p) : params[i + k] = p[k]
      BY <2>4
    <3> HIDE DEF i
    <3>2. SgrStep(params, style, i + 1) = [at |-> i + 1 + Len(p), style |-> Meaning(style, p)]
      BY <1>3, <3>1, CommandsAreReadWhole
    <3> QED
      BY <3>2 DEF i
  <2>6. 0 + 1 + Len(p) = m + 1
    BY <1>2 DEF m
  <2> QED
    BY <2>3, <2>5, <2>6 DEF mid
<1>8. r[2] = [at |-> n + 1, style |-> end]
  <2>1. r[2] = SgrNext(params, r[1])
    <3>1. 2 \in 1..n /\ 2 - 1 = 1
      BY <1>4
    <3> QED
      BY <1>5, <3>1 DEF Reads, n
  <2>2. ~(m + 1 > Len(params))
    BY <1>2, <1>3 DEF n
  <2>3. r[2] = SgrStep(params, mid, m + 1)
    BY <1>7, <2>1, <2>2 DEF SgrNext
  <2>4. m + Len(q) <= Len(params) /\ \A k \in 1..Len(q) : params[m + k] = q[k]
    BY <1>2, <1>3 DEF n
  <2>5. SgrStep(params, mid, m + 1) = [at |-> m + 1 + Len(q), style |-> Meaning(mid, q)]
    BY <1>2, <1>3, <2>4, CommandsAreReadWhole
  <2>6. m + 1 + Len(q) = n + 1
    BY <1>2, <1>3
  <2> QED
    BY <2>3, <2>5, <2>6 DEF end
<1> DEFINE P == {k \in Nat : k + 2 <= n => r[k + 2] = r[2]}
<1>9. 0 \in P
  OBVIOUS
<1>10. ASSUME NEW k \in Nat, k \in P
       PROVE  k + 1 \in P
  <2> SUFFICES ASSUME (k + 1) + 2 <= n
               PROVE  r[(k + 1) + 2] = r[2]
    OBVIOUS
  <2>1. r[k + 2] = r[2]
    BY <1>4, <1>10
  <2>2. r[k + 3] = SgrNext(params, r[k + 2])
    <3>1. k + 3 \in 1..n /\ (k + 3) - 1 = k + 2
      BY <1>4
    <3> QED
      BY <1>5, <3>1 DEF Reads, n
  <2>3. r[2].at > Len(params)
    BY <1>4, <1>8 DEF n
  <2>4. (k + 1) + 2 = k + 3
    OBVIOUS
  <2> QED
    BY <2>1, <2>2, <2>3, <2>4 DEF SgrNext
<1> HIDE DEF P
<1>11. n - 2 \in Nat /\ (n - 2) + 2 = n
  BY <1>4
<1>12. n - 2 \in P
  BY <1>9, <1>10, <1>11, Numbers
<1>13. r[n] = r[2]
  BY <1>11, <1>12 DEF P
<1> QED
  BY <1>5, <1>8, <1>13 DEF params, mid, end

\* An SGR sequence does what its commands do one after another, for every style the
\* cursor has and all commands (apply_sgr, parse_extended_color).
THEOREM SgrAlwaysReadsLeftToRight == Spec => []SgrReadsLeftToRight
<1>1. SgrReadsLeftToRight
  BY CommandsFollowEachOther DEF SgrReadsLeftToRight
<1> QED
  BY <1>1, PTL

-----------------------------------------------------------------------------
(* Types.                                                                     *)

\* No element, or one.
Single(s) == s = <<>> \/ \E x : s = <<x>>

\* Every cursor there is writes in a style, and there is one of each at most.
Pens ==
  /\ Inked(cursor)
  /\ Single(saved) /\ (saved # <<>> => Inked(saved[1]))
  /\ Single(alternate) /\ (alternate # <<>> => Inked(alternate[1].cursor))

\* A cursor that is moved, or whose flags are set, writes as it did.
LEMMA MovedCursorsAreInked ==
  ASSUME NEW c, IsCursor(c), Inked(c), NEW x, NEW y, NEW v \in BOOLEAN, NEW p \in BOOLEAN
  PROVE  /\ Inked([c EXCEPT !.col = x, !.row = y, !.pending = p])
         /\ Inked([c EXCEPT !.col = x, !.row = y]) /\ Inked([c EXCEPT !.row = x, !.col = y, !.pending = p])
         /\ Inked([c EXCEPT !.pending = p]) /\ Inked([c EXCEPT !.visible = v])
<1>1. PICK S : c \in Cursors(S)
  BY DEF IsCursor
<1> QED
  BY <1>1 DEF Cursors, Inked

\* So does one that set_cursor moves.
LEMMA AtIsInked ==
  ASSUME Shape, Inked(cursor), NEW col, NEW row
  PROVE  Inked(At(col, row))
BY MovedCursorsAreInked DEF At, Shape

\* And one whose modes are set.
LEMMA ModesKeepInk ==
  ASSUME NEW new, NEW now, IsCursor(now), Inked(now), SetModes(new, now)
  PROVE  Inked(cursor')
<1>1. cursor' = [now EXCEPT !.visible = "CURSOR_VISIBLE" \in new] /\ ("CURSOR_VISIBLE" \in new) \in BOOLEAN
  BY DEF SetModes
<1> DEFINE v == "CURSOR_VISIBLE" \in new
<1>2. v \in BOOLEAN /\ cursor' = [now EXCEPT !.visible = v]
  BY <1>1
<1> HIDE DEF v
<1>3. FALSE \in BOOLEAN
  OBVIOUS
<1>4. Inked([now EXCEPT !.visible = v])
  BY <1>2, <1>3, MovedCursorsAreInked
<1> QED
  BY <1>2, <1>4

\* A new cursor writes plainly.
LEMMA HomeIsInked == IsCursor(HomeCursor) /\ Inked(HomeCursor)
<1>1. HomeCursor \in Cursors({Plain, TRUE, FALSE})
  BY DEF HomeCursor, Cursors
<1>2. Inked(HomeCursor)
  BY BlankIsACell DEF Inked, HomeCursor
<1> QED
  BY <1>1, <1>2 DEF IsCursor

\* Characters, marks and erasing leave a cursor that writes as it did.
LEMMA WritersKeepInk ==
  ASSUME Shape, Inked(cursor), PrintChar \/ Mark \/ EraseInDisplay \/ EraseInLine \/ EraseChars
  PROVE  Inked(cursor')
<1>1. CASE PrintChar
  <2>1. PICK char : Write(char)
    BY <1>1 DEF PrintChar
  <2>2. cursor' = cursor \/ \E x, y : \E p \in BOOLEAN : cursor' = [cursor EXCEPT !.row = x, !.col = y, !.pending = p]
    <3>1. CASE Panic
      BY <3>1 DEF Panic
    <3>2. CASE ~Panic
      BY <2>1, <3>2 DEF Write
    <3> QED
      BY <3>1, <3>2
  <2>3. ASSUME NEW x, NEW y, NEW p \in BOOLEAN, cursor' = [cursor EXCEPT !.row = x, !.col = y, !.pending = p]
        PROVE  Inked(cursor')
    <3>1. TRUE \in BOOLEAN /\ IsCursor(cursor)
      BY DEF Shape
    <3>2. Inked([cursor EXCEPT !.row = x, !.col = y, !.pending = p])
      BY <3>1, MovedCursorsAreInked
    <3> QED
      BY <2>3, <3>2
  <2> QED
    BY <2>2, <2>3
<1>2. CASE ~PrintChar
  <2>1. cursor' = cursor
    BY <1>2 DEF Mark, Combine, EraseInDisplay, EraseInLine, EraseChars, Erase, Panic
  <2> QED
    BY <2>1
<1> QED
  BY <1>1, <1>2

\* A resize leaves the cursors that there are (resize, basic_resize).
LEMMA ResizeKeepsInk ==
  ASSUME Shape, Pens, Resize
  PROVE  Pens'
<1>1. saved' = saved
  BY DEF Resize
<1>2. PICK c, r : BasicResize(c, r) \/ (alternate = <<>> /\ ReflowResize(c, r))
  BY DEF Resize
<1>3. CASE BasicResize(c, r)
  <2>1. ASSUME NEW old, IsCursor(old), Inked(old)
        PROVE  Inked(Clamped(old, c, r))
    <3>1. TRUE \in BOOLEAN
      OBVIOUS
    <3> QED
      BY <2>1, <3>1, MovedCursorsAreInked DEF Clamped
  <2>2. Inked(cursor')
    BY <1>3, <2>1 DEF BasicResize, Shape, Pens
  <2>3. CASE alternate = <<>>
    <3>1. alternate' = <<>>
      BY <1>3, <2>3 DEF BasicResize
    <3> QED
      BY <1>1, <2>2, <3>1 DEF Pens, Single
  <2>4. CASE alternate # <<>>
    <3> DEFINE back == [visible |-> ResizedRows(alternate[1].visible, c, r),
                        cursor |-> Clamped(alternate[1].cursor, c, r),
                        region |-> [top |-> Clamp(alternate[1].region.top, r),
                                    bottom |-> Clamp(alternate[1].region.bottom, r)]]
    <3>1. DOMAIN alternate = {1} /\ IsCursor(alternate[1].cursor) /\ Inked(alternate[1].cursor)
      BY <2>4 DEF Shape, Pens
    <3>2. alternate' = [i \in {1} |-> back]
      BY <1>3, <3>1 DEF BasicResize
    <3>3. Inked(back.cursor)
      BY <2>1, <3>1
    <3> HIDE DEF back
    <3>4. alternate' = <<back>>
      BY <3>2
    <3>5. alternate'[1] = back
      BY <3>4
    <3> QED
      BY <1>1, <2>2, <3>3, <3>4, <3>5 DEF Pens, Single
  <2> QED
    BY <2>3, <2>4
<1>4. CASE alternate = <<>> /\ ReflowResize(c, r)
  <2>1. PICK x, y : cursor' = [cursor EXCEPT !.col = x, !.row = y, !.pending = FALSE]
    BY <1>4 DEF ReflowResize
  <2>2. FALSE \in BOOLEAN
    OBVIOUS
  <2>3. Inked(cursor')
    BY <2>1, <2>2, MovedCursorsAreInked DEF Shape, Pens
  <2>4. alternate' = <<>>
    BY <1>4 DEF ReflowResize
  <2> QED
    BY <1>1, <2>3, <2>4 DEF Pens, Single
<1> QED
  BY <1>2, <1>3, <1>4

\* Every step leaves every cursor writing in a style.
LEMMA StepsKeepPens ==
  ASSUME Shape, Pens, [Next]_vars
  PROVE  Pens'
<1>1. ASSUME UNCHANGED <<saved, alternate>>, Inked(cursor')
      PROVE  Pens'
  BY <1>1 DEF Pens
<1>2. CASE PrintChar \/ Mark \/ EraseInDisplay \/ EraseInLine \/ EraseChars
  <2>1. UNCHANGED <<saved, alternate>>
    BY <1>2 DEF PrintChar, Write, Mark, Combine, EraseInDisplay, EraseInLine, EraseChars, Erase, Panic
  <2>2. Inked(cursor')
    BY <1>2, WritersKeepInk DEF Pens
  <2> QED
    BY <1>1, <2>1, <2>2
<1>3. CASE Backspace \/ CarriageReturn \/ LineFeed \/ ReverseIndex \/ CursorMovement \/ CursorPosition \/ SetMargins
  <2>1. UNCHANGED <<saved, alternate>> /\ \E col, row : cursor' = At(col, row)
    BY <1>3 DEF Backspace, CarriageReturn, LineFeed, ReverseIndex, CursorMovement, CursorPosition, SetMargins,
                SetCursor, others
  <2>2. Inked(cursor')
    BY <2>1, AtIsInked DEF Pens
  <2> QED
    BY <1>1, <2>1, <2>2
<1>4. CASE Tab
  <2>1. UNCHANGED <<saved, alternate>> /\ (cursor' = cursor \/ \E col, row : cursor' = At(col, row))
    BY <1>4 DEF Tab, Panic, SetCursor, others
  <2>2. Inked(cursor')
    BY <2>1, AtIsInked DEF Pens
  <2> QED
    BY <1>1, <2>1, <2>2
<1>5. CASE TabStop \/ Scroll \/ SelectCharset \/ UNCHANGED vars
  <2>1. UNCHANGED <<saved, alternate, cursor>>
    BY <1>5 DEF TabStop, Scroll, SelectCharset, vars
  <2> QED
    BY <2>1 DEF Pens
<1>6. CASE SaveCursor
  <2>1. saved' = <<cursor>> /\ UNCHANGED <<alternate, cursor>>
    BY <1>6 DEF SaveCursor
  <2>2. saved'[1] = cursor
    BY <2>1
  <2> QED
    BY <2>1, <2>2 DEF Pens, Single
<1>7. CASE RestoreCursor
  <2>1. saved' = <<>> /\ alternate' = alternate /\ Inked(cursor')
    BY <1>7 DEF RestoreCursor, Pens
  <2> QED
    BY <2>1 DEF Pens, Single
<1>8. CASE PrivateMode
  <2>1. UNCHANGED <<saved, alternate>>
    BY <1>8 DEF PrivateMode
  <2>2. PICK new, now : /\ SetModes(new, now)
                        /\ \/ \E col, row : now = At(col, row)
                           \/ now = [cursor EXCEPT !.pending = FALSE]
                           \/ now = cursor
    BY <1>8 DEF PrivateMode
  <2>3. IsCursor(now) /\ Inked(now)
    <3>1. ASSUME NEW col, NEW row, now = At(col, row) PROVE IsCursor(now) /\ Inked(now)
      BY <3>1, AtFits, AtIsInked DEF Pens
    <3>2. CASE now = [cursor EXCEPT !.pending = FALSE]
      <4>1. PICK T : cursor \in Cursors(T) /\ FALSE \in T
        BY OneMore DEF Shape
      <4>2. now \in Cursors(T)
        BY <3>2, <4>1 DEF Cursors
      <4>3. FALSE \in BOOLEAN
        OBVIOUS
      <4>4. Inked(now)
        BY <3>2, <4>3, MovedCursorsAreInked DEF Shape, Pens
      <4> QED
        BY <4>2, <4>4 DEF IsCursor
    <3>3. CASE now = cursor
      BY <3>3 DEF Shape, Pens
    <3> QED
      BY <2>2, <3>1, <3>2, <3>3
  <2>4. Inked(cursor')
    BY <2>2, <2>3, ModesKeepInk
  <2> QED
    BY <1>1, <2>1, <2>4
<1>9. CASE EnterAlternate
  <2>1. saved' = saved
    BY <1>9 DEF EnterAlternate
  <2>2. CASE alternate = <<>>
    <3> DEFINE back == [visible |-> visible, cursor |-> cursor, region |-> region]
    <3>1. alternate' = <<back>> /\ back.cursor = cursor /\ \E new : SetModes(new, HomeCursor)
      BY <1>9, <2>2 DEF EnterAlternate
    <3> HIDE DEF back
    <3>2. alternate'[1] = back
      BY <3>1
    <3>3. Inked(cursor')
      BY <3>1, HomeIsInked, ModesKeepInk
    <3> QED
      BY <2>1, <3>1, <3>2, <3>3 DEF Pens, Single
  <2>3. CASE alternate # <<>>
    <3>1. alternate' = alternate /\ \E new : SetModes(new, cursor)
      BY <1>9, <2>3 DEF EnterAlternate
    <3>2. Inked(cursor')
      BY <3>1, ModesKeepInk DEF Shape, Pens
    <3> QED
      BY <1>1, <2>1, <3>1, <3>2
  <2> QED
    BY <2>2, <2>3
<1>10. CASE LeaveAlternate
  <2>1. saved' = saved /\ alternate' = <<>>
    BY <1>10 DEF LeaveAlternate
  <2>2. PICK new, now : SetModes(new, now) /\ now = IF alternate = <<>> THEN cursor ELSE alternate[1].cursor
    BY <1>10 DEF LeaveAlternate
  <2>3. IsCursor(now) /\ Inked(now)
    BY <2>2 DEF Shape, Pens
  <2>4. Inked(cursor')
    BY <2>2, <2>3, ModesKeepInk
  <2> QED
    BY <2>1, <2>4 DEF Pens, Single
<1>11. CASE SelectGraphicRendition
  <2>1. UNCHANGED <<saved, alternate>>
    BY <1>11 DEF SelectGraphicRendition, others
  <2>2. PICK params \in SgrLists : cursor' = [cursor EXCEPT !.style = ApplySgr(cursor.style, params)]
    BY <1>11 DEF SelectGraphicRendition
  <2>3. ApplySgr(cursor.style, params) \in Style
    BY SgrAssumption, SgrGivesStyles DEF Pens, Inked
  <2> DEFINE s == ApplySgr(cursor.style, params)
  <2> HIDE DEF s
  <2>4. PICK S : cursor \in Cursors(S)
    BY DEF Shape, IsCursor
  <2>5. cursor' = [cursor EXCEPT !.style = s] /\ s \in Style
    BY <2>2, <2>3 DEF s
  <2>6. Inked(cursor')
    BY <2>4, <2>5 DEF Cursors, Inked, Pens
  <2> QED
    BY <1>1, <2>1, <2>6
<1>12. CASE Resize
  BY <1>12, ResizeKeepsInk
<1> QED
  BY <1>2, <1>3, <1>4, <1>5, <1>6, <1>7, <1>8, <1>9, <1>10, <1>11, <1>12 DEF Next

\* The rest of what TypeOK says.
Books ==
  /\ repertoire \in Repertoires /\ <<cols, rows>> \in Sizes
  /\ modes \subseteq Flags \cup {"ALTERNATE_SCREEN"}
  /\ tabs \subseteq 0..(cols - 1)
  /\ charsets.g \in [1..2 -> Charsets] /\ charsets.active \in 1..2
  /\ panicked \in BOOLEAN
  /\ typed \in Seq(Glyphs) /\ Len(typed) <= MaxTyped

\* A size is a pair.
LEMMA SizesArePairs ==
  ASSUME NEW size \in Sizes
  PROVE  <<size[1], size[2]>> = size
<1>1. size \in Nat \X Nat
  BY TerminalAssumption
<1> QED
  BY <1>1

\* One more character, if there is room for one.
LEMMA TypingAGlyph ==
  ASSUME typed \in Seq(Glyphs), NEW char \in Glyphs, Len(typed) < MaxTyped
  PROVE  Append(typed, char) \in Seq(Glyphs) /\ Len(Append(typed, char)) <= MaxTyped
<1>1. Len(typed) \in Nat /\ MaxTyped \in Nat
  BY LenProperties, TerminalAssumption
<1>2. Append(typed, char) \in Seq(Glyphs) /\ Len(Append(typed, char)) = Len(typed) + 1
  BY AppendProperties
<1> QED
  BY <1>1, <1>2

\* Every step keeps the books.
LEMMA StepsKeepBooks ==
  ASSUME Shape, Books, [Next]_vars
  PROVE  Books'
<1>1. ASSUME UNCHANGED <<repertoire, cols, rows, modes, tabs, charsets, panicked, typed>>
      PROVE  Books'
  BY <1>1 DEF Books
<1>2. CASE PrintChar \/ Mark
  <2>1. UNCHANGED <<repertoire, cols, rows, modes, tabs, charsets>>
    <3>1. CASE PrintChar
      BY <3>1 DEF PrintChar, Write, Panic, geometry, settings
    <3>2. CASE Mark
      BY <3>2 DEF Mark, Combine, Panic, geometry, settings
    <3> QED
      BY <1>2, <3>1, <3>2
  <2>2. /\ Len(typed) < MaxTyped
        /\ \/ panicked' = TRUE /\ typed' = typed
           \/ panicked' = panicked /\ \E char \in Glyphs : typed' = Append(typed, char)
    <3>1. CASE PrintChar
      <4>1. PICK char \in Narrow \cup Broad : Write(Glyph(char))
        BY <3>1 DEF PrintChar
      <4>2. Glyph(char) \in Glyphs
        BY GlyphsArePrinted
      <4>3. Panic \/ (panicked' = panicked /\ typed' = Append(typed, Glyph(char)))
        BY <4>1 DEF Write
      <4> QED
        BY <3>1, <4>2, <4>3 DEF PrintChar, Panic
    <3>2. CASE Mark
      <4>1. PICK char \in Zero : \E col, row : Combine(char, col, row)
        BY <3>2 DEF Mark
      <4>2. char \in Glyphs
        BY DEF Glyphs, Characters
      <4>3. Panic \/ (panicked' = panicked /\ typed' = Append(typed, char))
        BY <4>1 DEF Combine
      <4> QED
        BY <3>2, <4>2, <4>3 DEF Mark, Panic
    <3> QED
      BY <1>2, <3>1, <3>2
  <2>3. typed' \in Seq(Glyphs) /\ Len(typed') <= MaxTyped /\ panicked' \in BOOLEAN
    BY <2>2, TypingAGlyph DEF Books
  <2> QED
    BY <2>1, <2>3 DEF Books
<1>3. CASE EraseInDisplay \/ EraseInLine \/ EraseChars \/ Tab
  <2>1. UNCHANGED <<repertoire, cols, rows, modes, tabs, charsets, typed>> /\ (panicked' = panicked \/ panicked' = TRUE)
    BY <1>3 DEF EraseInDisplay, EraseInLine, EraseChars, Tab, Erase, SetCursor, others, Panic, geometry, settings
  <2> QED
    BY <2>1 DEF Books
<1>4. CASE Backspace \/ CarriageReturn \/ LineFeed \/ ReverseIndex \/ CursorMovement \/ CursorPosition
           \/ SelectGraphicRendition
  <2>1. UNCHANGED <<repertoire, cols, rows, modes, tabs, charsets, panicked, typed>>
    BY <1>4 DEF Backspace, CarriageReturn, LineFeed, ReverseIndex, CursorMovement, CursorPosition,
                SelectGraphicRendition, SetCursor, others, geometry, settings
  <2> QED
    BY <1>1, <2>1
<1>5. CASE Scroll \/ SaveCursor \/ RestoreCursor \/ SetMargins \/ UNCHANGED vars
  <2>1. UNCHANGED <<repertoire, cols, rows, modes, tabs, charsets, panicked, typed>>
    BY <1>5 DEF Scroll, SaveCursor, RestoreCursor, SetMargins, vars, geometry, settings
  <2> QED
    BY <1>1, <2>1
<1>6. CASE TabStop
  <2>1. UNCHANGED <<repertoire, cols, rows, modes, charsets, panicked, typed>>
    BY <1>6 DEF TabStop, geometry
  <2>2. tabs' \subseteq 0..(cols - 1)
    BY <1>6 DEF TabStop, Books
  <2> QED
    BY <2>1, <2>2 DEF Books
<1>7. CASE SelectCharset
  <2>1. UNCHANGED <<repertoire, cols, rows, modes, tabs, panicked, typed>>
    BY <1>7 DEF SelectCharset, geometry
  <2>2. charsets'.g \in [1..2 -> Charsets] /\ charsets'.active \in 1..2
    <3>1. CASE \E slot \in 1..2, set \in Charsets : charsets' = [charsets EXCEPT !.g[slot] = set]
      BY <3>1 DEF Books
    <3>2. CASE \E slot \in 1..2 : charsets' = [charsets EXCEPT !.active = slot]
      BY <3>2 DEF Books
    <3> QED
      BY <1>7, <3>1, <3>2 DEF SelectCharset
  <2> QED
    BY <2>1, <2>2 DEF Books
<1>8. CASE PrivateMode
  <2>1. UNCHANGED <<repertoire, cols, rows, tabs, charsets, panicked, typed>>
    BY <1>8 DEF PrivateMode, geometry
  <2>2. modes' \subseteq Flags \cup {"ALTERNATE_SCREEN"}
    BY <1>8 DEF PrivateMode, SetModes, Books
  <2> QED
    BY <2>1, <2>2 DEF Books
<1>9. CASE EnterAlternate \/ LeaveAlternate
  <2>1. UNCHANGED <<repertoire, cols, rows, tabs, charsets, panicked, typed>>
    BY <1>9 DEF EnterAlternate, LeaveAlternate, geometry
  <2>2. modes' \subseteq modes \cup {"CURSOR_VISIBLE", "ALTERNATE_SCREEN"}
    BY <1>9 DEF EnterAlternate, LeaveAlternate, SetModes
  <2> QED
    BY <2>1, <2>2 DEF Books, Flags
<1>10. CASE Resize
  <2>1. UNCHANGED <<repertoire, modes, charsets, panicked, typed>>
    BY <1>10 DEF Resize
  <2>2. PICK size \in Sizes : cols' = size[1] /\ rows' = size[2] /\ tabs' = ResizedTabs(size[1])
    BY <1>10 DEF Resize
  <2> DEFINE c == size[1]
  <2>3. <<cols', rows'>> \in Sizes /\ c \in Nat
    BY <2>2, SizesArePairs, SizesHaveRoom
  <2> HIDE DEF c
  <2>4. ResizedTabs(c) \subseteq 0..(c - 1)
    <3>1. cols \in Nat
      BY DEF Shape
    <3>2. \A x \in cols..(c - 1) : x \in 0..(c - 1)
      BY <2>3, <3>1
    <3> QED
      BY <3>2 DEF ResizedTabs, DefaultStops
  <2> QED
    BY <2>1, <2>2, <2>3, <2>4 DEF Books, c
<1> QED
  BY <1>2, <1>3, <1>4, <1>5, <1>6, <1>7, <1>8, <1>9, <1>10 DEF Next

\* A new grid has all of it.
LEMMA BooksAtFirst == Init => Books /\ Pens
<1> SUFFICES ASSUME Init PROVE Books /\ Pens
  OBVIOUS
<1>1. <<cols, rows>> \in Sizes
  BY SizesArePairs DEF Init
<1>2. tabs \subseteq 0..(cols - 1)
  BY DEF Init, DefaultStops
<1>3. charsets.g \in [1..2 -> Charsets] /\ charsets.active \in 1..2
  <2>1. <<"Ascii", "Ascii">> \in [1..2 -> Charsets]
    BY DEF Charsets
  <2> QED
    BY <2>1 DEF Init
<1>4. typed \in Seq(Glyphs) /\ Len(typed) <= MaxTyped
  BY TerminalAssumption DEF Init
<1>5. repertoire \in Repertoires /\ modes \subseteq Flags /\ panicked \in BOOLEAN
  BY DEF Init, Flags
<1>6. Pens
  BY HomeIsInked DEF Init, Pens, Single
<1> QED
  BY <1>1, <1>2, <1>3, <1>4, <1>5, <1>6 DEF Books

\* The invariant behind TypeOK: the shape, the pens, the books, and a content of
\* rows of any kind.
Typed == Shape /\ Pens /\ Books /\ Kept(Lines)

\* It is inductive.
LEMMA TypedHolds == Spec => []Typed
<1>1. Init => Typed
  BY ShapeAtFirst, BooksAtFirst, LinesAreClosed, ContentAtFirst DEF Typed, Closed
<1>2. Typed /\ [Next]_vars => Typed'
  <2> SUFFICES ASSUME Typed, [Next]_vars PROVE Typed'
    OBVIOUS
  <2>1. Shape'
    BY EveryStep, MovesKeepShape, SavingKeepsShape, SetMarginsKeepsShape, EnterKeepsShape,
       LeaveKeepsShape, ResizeKeepsShape DEF Typed
  <2>2. Pens' /\ Books'
    BY StepsKeepPens, StepsKeepBooks DEF Typed
  <2>3. Kept(Lines)'
    <3>1. CASE Resize
      <4>1. \A w \in Nat \ {0} : WholeLine(w) \subseteq Lines \cap Line(w)
        BY LinesAreRows DEF WholeLine
      <4> QED
        BY <3>1, <4>1, LinesAreClosed, ResizeKeepsContent DEF Typed
    <3>2. CASE ~Resize
      BY <3>2, LinesAreClosed, StepsKeepContent DEF Typed, Pens
    <3> QED
      BY <3>1, <3>2
  <2> QED
    BY <2>1, <2>2, <2>3 DEF Typed
<1> QED
  BY <1>1, <1>2, PTL DEF Spec

\* A screen of rows is a rectangle.
LEMMA ScreensAreRectangles ==
  ASSUME NEW G, NEW c, NEW r, NEW lines \in Screen(G, c, r)
  PROVE  Rectangle(lines, c, r)
<1>1. Len(lines) = r /\ \A i \in 1..r : lines[i] \in Line(c)
  BY RowsOfAScreen
<1>2. \A l \in Line(c) : DOMAIN l.cells = 0..(c - 1)
  BY DEF Line
<1> QED
  BY <1>1, <1>2 DEF Rectangle

\* A cursor that writes in a style has its type.
LEMMA CursorsHaveTheirType ==
  ASSUME NEW c, IsCursor(c), Inked(c)
  PROVE  CursorType(c)
<1>1. c.style \in Style
  BY DEF Inked
<1>2. DOMAIN c.style = {"fg", "bg", "attrs"} /\ c.style.attrs \subseteq Attrs
  BY <1>1 DEF Style
<1> QED
  BY <1>2, CursorIsPlace DEF CursorType, Inked

\* At most one of something.
LEMMA SinglesAreShort ==
  ASSUME NEW s, Single(s)
  PROVE  Len(s) <= 1 /\ \A i \in DOMAIN s : s # <<>> /\ i = 1
<1>1. CASE s = <<>>
  BY <1>1
<1>2. CASE \E x : s = <<x>>
  BY <1>2
<1> QED
  BY <1>1, <1>2 DEF Single

\* Both screens have the size of the pane, the scrollback its limit and every variable
\* its type, for panes of every size and applications of every kind (Grid, TerminalState).
THEOREM TerminalTypes == Spec => []TypeOK
<1>1. Typed => TypeOK
  <2> SUFFICES ASSUME Typed PROVE TypeOK
    OBVIOUS
  <2>1. Rectangle(visible, cols, rows) /\ Len(scrollback) <= MaxLines
    BY ScreensAreRectangles DEF Typed, Kept
  <2>2. /\ Len(alternate) <= 1
        /\ \A i \in DOMAIN alternate : /\ Rectangle(alternate[i].visible, cols, rows)
                                       /\ CursorType(alternate[i].cursor)
    <3>1. Len(alternate) <= 1 /\ \A i \in DOMAIN alternate : alternate # <<>> /\ i = 1
      BY SinglesAreShort DEF Typed, Pens
    <3>2. alternate # <<>> => /\ Rectangle(alternate[1].visible, cols, rows)
                              /\ CursorType(alternate[1].cursor)
      BY ScreensAreRectangles, CursorsHaveTheirType DEF Typed, Kept, Pens, Shape
    <3> QED
      BY <3>1, <3>2
  <2>3. CursorType(cursor) /\ Len(saved) <= 1 /\ \A i \in DOMAIN saved : CursorType(saved[i])
    <3>1. Len(saved) <= 1 /\ \A i \in DOMAIN saved : saved # <<>> /\ i = 1
      BY SinglesAreShort DEF Typed, Pens
    <3>2. saved # <<>> => CursorType(saved[1])
      BY CursorsHaveTheirType DEF Typed, Pens, Shape
    <3> QED
      BY <3>1, <3>2, CursorsHaveTheirType DEF Typed, Pens, Shape
  <2> QED
    BY <2>1, <2>2, <2>3 DEF Typed, Books, TypeOK
<1> QED
  BY <1>1, TypedHolds, PTL

-----------------------------------------------------------------------------
(* Pairs.                                                                     *)

\* A program keeps its repertoire, and without the operation for it never shows
\* the alternate screen.
LEMMA RepertoiresStay ==
  ASSUME [Next]_vars
  PROVE  /\ repertoire' = repertoire
         /\ Resize => "RESIZE" \in repertoire
         /\ "ALT" \notin repertoire /\ alternate = <<>> => alternate' = <<>>
<1> DEFINE Stays == "ALT" \notin repertoire /\ alternate = <<>> => alternate' = <<>>
<1>1. CASE PrintChar \/ Mark \/ EraseInDisplay \/ EraseInLine \/ EraseChars \/ Tab
  <2>1. UNCHANGED <<repertoire, alternate>>
    BY <1>1 DEF PrintChar, Mark, EraseInDisplay, EraseInLine, EraseChars, Tab, Write, Combine, Erase, Panic,
                SetCursor, others
  <2> QED
    BY <1>1, <2>1 DEF Resize, Uses
<1>2. CASE Backspace \/ CarriageReturn \/ LineFeed \/ ReverseIndex \/ CursorMovement \/ CursorPosition
           \/ SelectGraphicRendition
  <2>1. UNCHANGED <<repertoire, alternate>>
    BY <1>2 DEF Backspace, CarriageReturn, LineFeed, ReverseIndex, CursorMovement, CursorPosition,
                SelectGraphicRendition, SetCursor, others
  <2> QED
    BY <2>1 DEF Resize, Uses
<1>3. CASE TabStop \/ SaveCursor \/ RestoreCursor \/ Scroll \/ SetMargins \/ PrivateMode \/ SelectCharset
           \/ UNCHANGED vars
  <2>1. UNCHANGED <<repertoire, alternate>>
    BY <1>3 DEF TabStop, SaveCursor, RestoreCursor, Scroll, SetMargins, PrivateMode, SelectCharset, vars
  <2> QED
    BY <2>1 DEF Resize, Uses
<1>4. CASE EnterAlternate \/ LeaveAlternate
  <2>1. repertoire' = repertoire /\ "ALT" \in repertoire
    BY <1>4 DEF EnterAlternate, LeaveAlternate, Uses
  <2> QED
    BY <2>1 DEF Resize, Uses
<1>5. CASE Resize
  <2>1. repertoire' = repertoire /\ "RESIZE" \in repertoire
    BY <1>5 DEF Resize, Uses
  <2>2. PICK c, r : BasicResize(c, r) \/ ReflowResize(c, r)
    BY <1>5 DEF Resize
  <2>3. alternate = <<>> => alternate' = <<>>
    <3>1. CASE BasicResize(c, r)
      <4>1. PICK new : alternate' = [i \in DOMAIN alternate |-> new[i]]
        <5> DEFINE new == [i \in DOMAIN alternate |->
                            [visible |-> ResizedRows(alternate[i].visible, c, r),
                             cursor |-> Clamped(alternate[i].cursor, c, r),
                             region |-> [top |-> Clamp(alternate[i].region.top, r),
                                         bottom |-> Clamp(alternate[i].region.bottom, r)]]]
        <5>1. alternate' = new /\ new = [i \in DOMAIN alternate |-> new[i]]
          BY <3>1 DEF BasicResize
        <5> QED
          BY <5>1
      <4> QED
        BY <4>1
    <3>2. CASE ReflowResize(c, r)
      BY <3>2 DEF ReflowResize
    <3> QED
      BY <2>2, <3>1, <3>2
  <2> QED
    BY <2>1, <2>3
<1> QED
  BY <1>1, <1>2, <1>3, <1>4, <1>5 DEF Next

\* What holds until a pane is resized that shows the alternate screen: a tail has its
\* lead, and a lead has its tail but in the last two columns, where a broad
\* character found no room.
Unsevered ==
  \/ {"ALT", "RESIZE"} \subseteq repertoire
  \/ Kept(Paired(2)) /\ ("ALT" \in repertoire \/ alternate = <<>>)

\* It is inductive.
LEMMA UnseveredHolds == Spec => []Unsevered
<1>1. 2 \in 0..2
  OBVIOUS
<1>2. Closed(Paired(2)) /\ Emptied(Paired(2))
  BY <1>1, PairedAreClosed, EmptyingTheEdge
<1>3. Init => Unsevered
  <2> SUFFICES ASSUME Init PROVE Unsevered
    OBVIOUS
  <2>1. Kept(Paired(2))
    BY <1>2, ContentAtFirst DEF Closed
  <2>2. alternate = <<>>
    BY DEF Init
  <2> QED
    BY <2>1, <2>2 DEF Unsevered
<1>4. Typed /\ Unsevered /\ [Next]_vars => Unsevered'
  <2> SUFFICES ASSUME Typed, Unsevered, [Next]_vars, ~({"ALT", "RESIZE"} \subseteq repertoire)
               PROVE  Unsevered'
    BY RepertoiresStay DEF Unsevered
  <2>1. Kept(Paired(2)) /\ ("ALT" \in repertoire \/ alternate = <<>>)
    BY DEF Unsevered
  <2>2. "ALT" \in repertoire' \/ alternate' = <<>>
    BY <2>1, RepertoiresStay
  <2>3. CASE Resize
    <3>1. alternate = <<>>
      BY <2>1, <2>3, RepertoiresStay
    <3>2. \A w \in Nat \ {0} : WholeLine(w) \subseteq Paired(2) \cap Line(w)
      <4>1. 2 \in Nat
        OBVIOUS
      <4> QED
        BY <4>1, WholeRowsArePaired
    <3>3. Kept(Paired(2))'
      BY <1>2, <2>1, <2>3, <3>1, <3>2, ResizeKeepsContent DEF Typed
    <3> QED
      BY <2>2, <3>3 DEF Unsevered
  <2>4. CASE ~Resize
    <3>1. Kept(Paired(2))'
      BY <1>2, <2>1, <2>4, StepsKeepContent DEF Typed, Pens
    <3> QED
      BY <2>2, <3>1 DEF Unsevered
  <2> QED
    BY <2>3, <2>4
<1> QED
  BY <1>3, <1>4, TypedHolds, PTL DEF Spec

\* Rows that are paired have no tail alone.
LEMMA PairedRowsHaveNoOrphans ==
  ASSUME NEW e \in Nat, NEW l \in Paired(e)
  PROVE  \A c \in DOMAIN l.cells : IsA(l, c, "tail") => IsA(l, c - 1, "lead")
<1>1. PICK w \in Nat \ {0} : l \in PairedLine(w, e)
  BY DEF Paired
<1>2. DOMAIN l.cells = 0..(w - 1)
  BY <1>1 DEF PairedLine, Line
<1>3. \A c \in 0..(w - 1) : l.cells[c].kind = "tail" => c > 0 /\ l.cells[c - 1].kind = "lead"
  BY <1>1 DEF PairedLine
<1>4. \A c \in 0..(w - 1) : c > 0 => c - 1 \in 0..(w - 1)
  OBVIOUS
<1> QED
  BY <1>2, <1>3, <1>4 DEF IsA

\* For every size and every sequence of operations, the second half of a broad
\* character follows its first half on both screens and in the scrollback, unless
\* the application uses the alternate screen and its pane is resized (write_char,
\* erase_range, Row::resize, reflow).
THEOREM TailsFollowTheirLeads == Spec => []OnlyCutsOrphanTails
<1>1. Typed /\ Unsevered => OnlyCutsOrphanTails
  <2> SUFFICES ASSUME Typed, Kept(Paired(2)) PROVE NoOrphanTails
    BY DEF Unsevered, OnlyCutsOrphanTails
  <2> DEFINE G == Paired(2)
             back == IF alternate = <<>> THEN <<>> ELSE alternate[1].visible
  <2>1. ASSUME NEW lines \in Screen(G, cols, rows)
        PROVE  lines \in Seq(G)
    <3> DEFINE S == G \cap Line(cols)
    <3>1. lines \in Seq(S) /\ S \subseteq G
      BY RowsOfAScreen
    <3> HIDE DEF S, G
    <3> QED
      BY <3>1, SeqMonotonic
  <2>2. visible \in Seq(G) /\ scrollback \in Seq(G) /\ back \in Seq(G)
    <3>1. <<>> \in Seq(G)
      OBVIOUS
    <3> HIDE DEF G
    <3>2. visible \in Screen(G, cols, rows) /\ scrollback \in Seq(G)
          /\ (alternate # <<>> => alternate[1].visible \in Screen(G, cols, rows))
      BY DEF Kept, G
    <3> QED
      BY <2>1, <3>1, <3>2
  <2> HIDE DEF G, back
  <2>3. visible \o scrollback \in Seq(G)
    BY <2>2, ConcatProperties
  <2>4. (visible \o scrollback) \o back \in Seq(G)
    BY ONLY <2>2, <2>3, ConcatProperties
  <2>5. AllLines = (visible \o scrollback) \o back
    BY DEF AllLines, back
  <2>6. \A line \in ToSet(AllLines) : line \in G
    <3> DEFINE all == AllLines
    <3>1. all \in Seq(G)
      BY <2>4, <2>5
    <3> HIDE DEF all
    <3>2. \A i \in DOMAIN all : all[i] \in G
      BY <3>1, LenProperties, ElementOfSeq
    <3> QED
      BY <3>2 DEF ToSet, all
  <2>7. 2 \in Nat
    OBVIOUS
  <2> QED
    BY <2>6, <2>7, PairedRowsHaveNoOrphans DEF NoOrphanTails, G
<1> QED
  BY <1>1, TypedHolds, UnseveredHolds, PTL

\* A concatenation begins with its first part.
LEMMA FrontOfAConcat ==
  ASSUME NEW S, NEW s \in Seq(S), NEW t \in Seq(S), NEW i \in DOMAIN s
  PROVE  i \in DOMAIN (s \o t) /\ (s \o t)[i] = s[i]
<1>1. Len(s) \in Nat /\ Len(t) \in Nat /\ DOMAIN s = 1..Len(s)
  BY LenProperties
<1>2. s \o t \in Seq(S) /\ Len(s \o t) = Len(s) + Len(t)
      /\ \A k \in 1..(Len(s) + Len(t)) : (s \o t)[k] = IF k <= Len(s) THEN s[k] ELSE t[k - Len(s)]
  BY ConcatProperties
<1> DEFINE all == s \o t
<1> HIDE DEF all
<1>3. DOMAIN all = 1..(Len(s) + Len(t)) /\ \A k \in 1..(Len(s) + Len(t)) : k <= Len(s) => all[k] = s[k]
  BY <1>2, LenProperties DEF all
<1>4. i \in 1..(Len(s) + Len(t)) /\ i <= Len(s)
  BY <1>1
<1> QED
  BY <1>3, <1>4 DEF all

\* A screen of whole pairs is one of whole rows.
LEMMA WholePairsAreWholeRows ==
  ASSUME Typed, NoOrphanTails, PairsAreWhole
  PROVE  visible \in Screen(Paired(0), cols, rows)
<1>1. cols \in Nat \ {0} /\ rows \in Nat \ {0}
  BY DEF Typed, Shape
<1>2. visible \in Seq(Lines \cap Line(cols)) /\ Len(visible) = rows /\ DOMAIN visible = 1..rows
      /\ \A i \in 1..rows : visible[i] \in Line(cols)
  BY RowsOfAScreen DEF Typed, Kept
<1>3. ASSUME NEW i \in 1..rows
      PROVE  visible[i] \in Paired(0) \cap Line(cols)
  <2> DEFINE l == visible[i]
  <2>1. l \in ToSet(AllLines)
    <3> DEFINE back == IF alternate = <<>> THEN <<>> ELSE alternate[1].visible
               old == visible \o scrollback
               all == old \o back
    <3>1. back \in Seq(Lines) /\ scrollback \in Seq(Lines)
      <4>1. <<>> \in Seq(Lines)
        OBVIOUS
      <4>2. ASSUME NEW lines \in Screen(Lines, cols, rows)
            PROVE  lines \in Seq(Lines)
        <5> DEFINE S == Lines \cap Line(cols)
        <5>1. lines \in Seq(S) /\ S \subseteq Lines
          BY RowsOfAScreen
        <5> HIDE DEF S
        <5> QED
          BY <5>1, SeqMonotonic
      <4> QED
        BY <4>1, <4>2 DEF Typed, Kept
    <3> DEFINE S == Lines \cap Line(cols)
    <3>2. visible \in Seq(S) /\ S \subseteq Lines
      BY <1>2
    <3> HIDE DEF S
    <3>3. visible \in Seq(Lines)
      BY <3>2, SeqMonotonic
    <3>4. visible \in Seq(Lines)
      BY <3>2, SeqMonotonic
    <3>5. old \in Seq(Lines)
      BY <3>1, <3>4, ConcatProperties
    <3>6. i \in DOMAIN old /\ old[i] = visible[i]
      BY <1>2, <3>1, <3>4, FrontOfAConcat
    <3> HIDE DEF back, old
    <3>7. i \in DOMAIN all /\ all[i] = old[i]
      BY <3>1, <3>5, <3>6, FrontOfAConcat
    <3>9. AllLines = all
      BY DEF AllLines, old, back
    <3> HIDE DEF all
    <3> QED
      BY <3>6, <3>7, <3>9 DEF ToSet
  <2>2. \A c \in 0..(cols - 1) : IsA(l, c, "lead") => IsA(l, c + 1, "tail")
    BY <1>2 DEF PairsAreWhole
  <2>3. l \in Line(cols)
    BY <1>2
  <2> HIDE DEF l
  <2>4. DOMAIN l.cells = 0..(cols - 1)
    BY <2>3 DEF Line
  <2>5. \A c \in 0..(cols - 1) : IsA(l, c, "tail") => IsA(l, c - 1, "lead")
    BY <2>1, <2>4 DEF NoOrphanTails
  <2>6. l \in PairedLine(cols, 0)
    <3> SUFFICES ASSUME NEW c \in 0..(cols - 1)
                 PROVE  /\ l.cells[c].kind = "tail" => c > 0 /\ l.cells[c - 1].kind = "lead"
                        /\ l.cells[c].kind = "lead" =>
                             (c + 1 < cols /\ l.cells[c + 1].kind = "tail") \/ c + 0 >= cols
      BY <2>3 DEF PairedLine
    <3>1. ASSUME l.cells[c].kind = "tail"
          PROVE  c > 0 /\ l.cells[c - 1].kind = "lead"
      <4>1. IsA(l, c - 1, "lead")
        BY <2>4, <2>5, <3>1 DEF IsA
      <4> QED
        BY <2>4, <4>1 DEF IsA
    <3>2. ASSUME l.cells[c].kind = "lead"
          PROVE  c + 1 < cols /\ l.cells[c + 1].kind = "tail"
      <4>1. IsA(l, c + 1, "tail")
        BY <2>2, <2>4, <3>2 DEF IsA
      <4>2. c + 1 \in 0..(cols - 1) /\ l.cells[c + 1].kind = "tail"
        BY <2>4, <4>1 DEF IsA
      <4> QED
        BY <1>1, <4>2
    <3> QED
      BY <3>1, <3>2
  <2>7. 0 \in Nat
    OBVIOUS
  <2>8. l \in Paired(0) /\ l \in Line(cols)
    BY <1>1, <2>6, <2>7, PairedOfAWidth
  <2> QED
    BY <2>8 DEF l
<1> DEFINE S == Paired(0) \cap Line(cols)
<1>4. \A i \in 1..rows : visible[i] \in S
  BY <1>3
<1>5. visible \in Seq(S)
  <2> DEFINE T == Lines \cap Line(cols)
  <2>1. visible \in Seq(T)
    BY <1>2
  <2> HIDE DEF S, T
  <2>2. visible \in [1..rows -> T]
    BY <1>2, <2>1, LenProperties
  <2>3. visible \in [1..rows -> S]
    BY <1>4, <2>2
  <2> QED
    BY <1>1, <2>3, SeqDef
<1> QED
  BY <1>2, <1>5 DEF Screen

\* On a screen of whole rows all pairs are whole.
LEMMA WholeRowsHaveWholePairs ==
  ASSUME NEW lines \in Screen(Paired(0), cols, rows), NEW i \in DOMAIN lines, NEW c \in 0..(cols - 1),
         cols \in Nat \ {0}, IsA(lines[i], c, "lead")
  PROVE  IsA(lines[i], c + 1, "tail")
<1> DEFINE l == lines[i]
<1>1. l \in Paired(0) /\ l \in Line(cols)
  BY RowsOfAScreen
<1> HIDE DEF l
<1>2. l \in PairedLine(cols, 0)
  <2>1. 0 \in Nat
    OBVIOUS
  <2> QED
    BY <1>1, <2>1, PairedOfAWidth
<1>3. DOMAIN l.cells = 0..(cols - 1)
  BY <1>1 DEF Line
<1>4. l.cells[c].kind = "lead" => (c + 1 < cols /\ l.cells[c + 1].kind = "tail") \/ c + 0 >= cols
  BY <1>2 DEF PairedLine
<1>5. c + 1 < cols /\ l.cells[c + 1].kind = "tail"
  <2>1. l.cells[c].kind = "lead" /\ ~(c + 0 >= cols)
    BY DEF IsA, l
  <2> QED
    BY <1>4, <2>1
<1>6. c + 1 \in 0..(cols - 1)
  BY <1>5
<1> QED
  BY <1>3, <1>5, <1>6 DEF IsA, l

\* From a screen of whole pairs only a resize, the way back from the alternate screen
\* or a broad character that finds no room leads to one with a half: writing,
\* erasing, marking and scrolling leave the pairs whole (clear_wide_at, erase_range).
THEOREM PairsAreTornAtEdges == Spec => OnlyEdgesTearPairs
<1> DEFINE A == NoOrphanTails /\ PairsAreWhole
                  => \/ PairsAreWhole' \/ Resize \/ LeaveAlternate
                     \/ typed' # typed /\ Last(typed') \in Broad
<1>1. Typed /\ [Next]_vars => A
  <2> SUFFICES ASSUME Typed, [Next]_vars, NoOrphanTails, PairsAreWhole, ~Resize, ~LeaveAlternate,
                      ~(typed' # typed /\ Last(typed') \in Broad)
               PROVE  PairsAreWhole'
    OBVIOUS
  <2>1. visible \in Screen(Paired(0), cols, rows)
    BY WholePairsAreWholeRows
  <2>2. \A char \in Broad : typed' # Append(typed, char)
    <3> SUFFICES ASSUME NEW char \in Broad, typed' = Append(typed, char) PROVE FALSE
      OBVIOUS
    <3>1. typed \in Seq(Glyphs) /\ char \in Glyphs
      BY DEF Typed, Books, Glyphs, Characters
    <3>2. Append(typed, char) # typed /\ Last(Append(typed, char)) = char
      <4>1. Len(typed) \in Nat /\ Len(Append(typed, char)) = Len(typed) + 1
            /\ Append(typed, char)[Len(typed) + 1] = char
        BY <3>1, LenProperties, AppendProperties
      <4> QED
        BY <4>1 DEF Last
    <3> QED
      BY <3>2
  <2>3. 0 \in 0..2
    OBVIOUS
  <2>4. visible' \in Screen(Paired(0), cols, rows) /\ UNCHANGED <<cols, rows>>
    BY <2>1, <2>2, <2>3, PairedAreClosed, StepsKeepScreens DEF Typed, Pens
  <2>5. cols \in Nat \ {0}
    BY DEF Typed, Shape
  <2>6. \A i \in DOMAIN visible' : \A c \in 0..(cols - 1) :
          IsA(visible'[i], c, "lead") => IsA(visible'[i], c + 1, "tail")
    BY <2>4, <2>5, WholeRowsHaveWholePairs
  <2> QED
    BY <2>4, <2>6 DEF PairsAreWhole, IsA
<1>2. [][A]_vars => OnlyEdgesTearPairs
  BY DEF OnlyEdgesTearPairs
<1> QED
  BY <1>1, <1>2, TypedHolds, PTL DEF Spec

-----------------------------------------------------------------------------
(* Text.                                                                      *)

\* Nothing is flattened to nothing.
LEMMA FlattenNone == FlattenSeq(<<>>) = <<>>
<1>1. Len(<<>>) = 0
  OBVIOUS
<1> QED
  BY <1>1 DEF FlattenSeq

\* One more sequence comes last.
LEMMA FlattenMore ==
  ASSUME NEW S, NEW seqs \in Seq(Seq(S)), NEW s \in Seq(S)
  PROVE  FlattenSeq(Append(seqs, s)) = FlattenSeq(seqs) \o s
<1> DEFINE n == Len(seqs)
           more == Append(seqs, s)
<1>1. n \in Nat /\ DOMAIN seqs = 1..n
  BY LenProperties
<1>2. more \in Seq(Seq(S)) /\ Len(more) = n + 1 /\ (\A i \in 1..n : more[i] = seqs[i]) /\ more[n + 1] = s
  BY AppendProperties
<1> HIDE DEF n, more
<1>3. PICK q : Flattens(more, q) /\ FlattenSeq(more) = q[n + 1]
  <2>1. Len(more) \in Nat \ {0}
    BY <1>1, <1>2
  <2> QED
    BY <1>2, <2>1, FlattensExist
<1>4. CASE n = 0
  <2>1. seqs = <<>>
    BY <1>4, EmptySeq DEF n
  <2>2. FlattenSeq(seqs) \o s = s
    BY <2>1, FlattenNone, ConcatEmptySeq
  <2>3. q[1] = more[1] /\ more[1] = s
    BY <1>2, <1>3, <1>4 DEF Flattens
  <2> QED
    BY <1>3, <1>4, <2>2, <2>3 DEF more
<1>5. CASE n # 0
  <2>1. PICK r : Flattens(seqs, r) /\ FlattenSeq(seqs) = r[n]
    BY <1>1, <1>5, FlattensExist DEF n
  <2> DEFINE P == {k \in Nat : k + 1 <= n => q[k + 1] = r[k + 1]}
  <2>2. 0 \in P
    <3>1. q[1] = more[1] /\ r[1] = seqs[1] /\ more[1] = seqs[1]
      BY <1>1, <1>2, <1>3, <1>5, <2>1 DEF Flattens
    <3> QED
      BY <3>1
  <2>3. ASSUME NEW k \in Nat, k \in P
        PROVE  k + 1 \in P
    <3> SUFFICES ASSUME (k + 1) + 1 <= n
                 PROVE  q[(k + 1) + 1] = r[(k + 1) + 1]
      OBVIOUS
    <3> DEFINE m == k + 2
    <3>1. m \in 2..n /\ m \in 2..(n + 1) /\ m \in 1..n /\ m - 1 = k + 1 /\ q[k + 1] = r[k + 1] /\ m = (k + 1) + 1
      BY <1>1, <2>3
    <3> HIDE DEF m
    <3>2. q[m] = q[m - 1] \o more[m]
      BY <1>2, <1>3, <3>1 DEF Flattens
    <3>3. r[m] = r[m - 1] \o seqs[m]
      BY <2>1, <3>1 DEF Flattens, n
    <3> QED
      BY <1>2, <3>1, <3>2, <3>3
  <2> HIDE DEF P
  <2>4. n - 1 \in P /\ n - 1 \in Nat /\ (n - 1) + 1 = n
    <3>1. n - 1 \in Nat /\ (n - 1) + 1 = n
      BY <1>1, <1>5
    <3> QED
      BY <2>2, <2>3, <3>1, Numbers
  <2>5. q[n] = r[n]
    BY <1>1, <2>4 DEF P
  <2>6. n + 1 \in 2..Len(more) /\ (n + 1) - 1 = n
    BY <1>1, <1>2, <1>5
  <2>7. q[n + 1] = q[n] \o more[n + 1]
    BY <1>3, <2>6 DEF Flattens
  <2> QED
    BY <1>2, <1>3, <2>1, <2>5, <2>7 DEF more
<1> QED
  BY <1>4, <1>5

\* What is put behind a longer sequence.
LEMMA AppendBehind ==
  ASSUME NEW T, NEW a \in Seq(T), NEW d \in Seq(T), NEW e \in T
  PROVE  a \o Append(d, e) = Append(a \o d, e)
<1> DEFINE last == <<e>>
<1>1. last \in Seq(T) /\ a \o d \in Seq(T)
  BY ConcatProperties
<1>2. Append(d, e) = d \o last /\ Append(a \o d, e) = (a \o d) \o last
  BY <1>1, AppendIsConcat
<1> HIDE DEF last
<1>3. (a \o d) \o last = a \o (d \o last)
  BY <1>1, ConcatAssociative
<1> QED
  BY <1>2, <1>3

\* One behind the other.
LEMMA FlattenConcat ==
  ASSUME NEW S, NEW a \in Seq(Seq(S)), NEW b \in Seq(Seq(S))
  PROVE  FlattenSeq(a \o b) = FlattenSeq(a) \o FlattenSeq(b)
<1> DEFINE P == {k \in Nat : \A c \in Seq(Seq(S)) : Len(c) = k => FlattenSeq(a \o c) = FlattenSeq(a) \o FlattenSeq(c)}
<1>1. FlattenSeq(a) \in Seq(S)
  BY FlattenKeeps
<1>2. 0 \in P
  <2> SUFFICES ASSUME NEW c \in Seq(Seq(S)), Len(c) = 0
               PROVE  FlattenSeq(a \o c) = FlattenSeq(a) \o FlattenSeq(c)
    OBVIOUS
  <2>1. c = <<>>
    BY EmptySeq
  <2>2. a \o c = a /\ FlattenSeq(a) \o <<>> = FlattenSeq(a)
    BY <1>1, <2>1, ConcatEmptySeq
  <2> QED
    BY <2>1, <2>2, FlattenNone
<1>3. ASSUME NEW k \in Nat, k \in P
      PROVE  k + 1 \in P
  <2> SUFFICES ASSUME NEW c \in Seq(Seq(S)), Len(c) = k + 1
               PROVE  FlattenSeq(a \o c) = FlattenSeq(a) \o FlattenSeq(c)
    OBVIOUS
  <2>1. c # <<>>
    BY EmptySeq
  <2>2. PICK d \in Seq(Seq(S)), e \in Seq(S) : c = Append(d, e)
    BY <2>1, SequenceEmptyOrAppend
  <2>3. Len(d) = k
    <3>1. Len(d) \in Nat /\ Len(c) = Len(d) + 1
      BY <2>2, AppendProperties, LenProperties
    <3> QED
      BY <3>1
  <2>4. FlattenSeq(a \o d) = FlattenSeq(a) \o FlattenSeq(d)
    BY <1>3, <2>3
  <2>5. a \o d \in Seq(Seq(S)) /\ FlattenSeq(d) \in Seq(S)
    BY FlattenKeeps, ConcatProperties
  <2>6. a \o c = Append(a \o d, e)
    BY <2>2, AppendBehind
  <2>7. FlattenSeq(a \o c) = (FlattenSeq(a) \o FlattenSeq(d)) \o e /\ FlattenSeq(c) = FlattenSeq(d) \o e
    BY <2>2, <2>4, <2>5, <2>6, FlattenMore
  <2>8. (FlattenSeq(a) \o FlattenSeq(d)) \o e = FlattenSeq(a) \o (FlattenSeq(d) \o e)
    <3> DEFINE x == FlattenSeq(a)
               y == FlattenSeq(d)
    <3>1. x \in Seq(S) /\ y \in Seq(S) /\ e \in Seq(S)
      BY <1>1, <2>5
    <3> HIDE DEF x, y
    <3>2. (x \o y) \o e = x \o (y \o e)
      BY ONLY <3>1, ConcatAssociative
    <3> QED
      BY <3>2 DEF x, y
  <2> QED
    BY <2>7, <2>8
<1> HIDE DEF P
<1>4. Len(b) \in P
  BY <1>2, <1>3, Numbers, LenProperties
<1> QED
  BY <1>4 DEF P

\* What a function gives for each member of a sequence, one behind the other.
Gives(f, T, S) == f \in [T -> Seq(S)]
Each(f, s) == [i \in DOMAIN s |-> f[s[i]]]
Gather(f, s) == FlattenSeq(Each(f, s))

\* The sequences that are gathered.
LEMMA Gathered ==
  ASSUME NEW T, NEW S, NEW f, Gives(f, T, S), NEW s \in Seq(T)
  PROVE  Each(f, s) \in Seq(Seq(S)) /\ Len(Each(f, s)) = Len(s) /\ \A i \in 1..Len(s) : Each(f, s)[i] = f[s[i]]
<1> DEFINE m == Len(s)
           e == Each(f, s)
<1>1. m \in Nat /\ DOMAIN s = 1..m /\ \A i \in 1..m : s[i] \in T
  BY LenProperties, ElementOfSeq
<1> HIDE DEF m
<1>2. e = [i \in 1..m |-> f[s[i]]]
  BY <1>1 DEF Each
<1>4. e \in [1..m -> Seq(S)] /\ \A i \in 1..m : e[i] = f[s[i]]
  BY <1>1, <1>2 DEF Gives
<1> HIDE DEF e
<1>5. e \in Seq(Seq(S))
  BY <1>1, <1>4, SeqDef
<1>6. Len(e) = m
  BY <1>1, <1>4, <1>5, LenProperties
<1> QED
  BY <1>4, <1>5, <1>6 DEF m, e

\* Nothing gives nothing.
LEMMA GatheringNone ==
  ASSUME NEW T, NEW S, NEW f, Gives(f, T, S)
  PROVE  Gather(f, <<>>) = <<>>
<1>1. Each(f, <<>>) = <<>>
  BY DEF Each
<1> QED
  BY <1>1, FlattenNone DEF Gather

\* What is gathered is a sequence.
LEMMA GatheringKeeps ==
  ASSUME NEW T, NEW S, NEW f, Gives(f, T, S), NEW s \in Seq(T)
  PROVE  Gather(f, s) \in Seq(S)
BY Gathered, FlattenKeeps DEF Gather

\* One member gives what the function gives.
LEMMA GatheringOne ==
  ASSUME NEW T, NEW S, NEW f, Gives(f, T, S), NEW x \in T
  PROVE  Gather(f, <<x>>) = f[x]
<1> DEFINE s == <<x>>
           e == Each(f, s)
<1>1. s \in Seq(T) /\ Len(s) = 1 /\ s[1] = x
  OBVIOUS
<1> HIDE DEF s
<1>2. Len(e) = 1 /\ e[1] = f[x]
  BY <1>1, Gathered
<1> HIDE DEF e
<1>3. PICK r : Flattens(e, r) /\ FlattenSeq(e) = r[1]
  <2>1. Len(e) \in Nat \ {0}
    BY <1>2
  <2> QED
    BY <1>2, <2>1, FlattensExist
<1>4. r[1] = f[x]
  BY <1>2, <1>3 DEF Flattens
<1> QED
  BY <1>3, <1>4 DEF s, e, Gather

\* One part behind the other.
LEMMA GatheringBoth ==
  ASSUME NEW T, NEW S, NEW f, Gives(f, T, S), NEW s \in Seq(T), NEW t \in Seq(T)
  PROVE  Gather(f, s \o t) = Gather(f, s) \o Gather(f, t)
<1> DEFINE m == Len(s)
           n == Len(t)
           u == s \o t
           a == Each(f, s)
           b == Each(f, t)
           c == Each(f, u)
<1>1. /\ u \in Seq(T) /\ Len(u) = m + n /\ m \in Nat /\ n \in Nat
      /\ \A i \in 1..(m + n) : u[i] = IF i <= m THEN s[i] ELSE t[i - m]
  BY ConcatProperties, LenProperties
<1>2. a \in Seq(Seq(S)) /\ Len(a) = m /\ \A i \in 1..m : a[i] = f[s[i]]
  BY Gathered
<1>3. b \in Seq(Seq(S)) /\ Len(b) = n /\ \A i \in 1..n : b[i] = f[t[i]]
  BY Gathered
<1> HIDE DEF m, n, u
<1>4. c \in Seq(Seq(S)) /\ Len(c) = m + n /\ \A i \in 1..(m + n) : c[i] = f[u[i]]
  <2>1. u \in Seq(T)
    BY <1>1
  <2>2. c \in Seq(Seq(S)) /\ Len(c) = Len(u) /\ \A i \in 1..Len(u) : c[i] = f[u[i]]
    BY <2>1, Gathered
  <2>3. Len(u) = m + n
    BY <1>1
  <2> QED
    BY <2>2, <2>3
<1> HIDE DEF a, b, c
<1>5. /\ a \o b \in Seq(Seq(S)) /\ Len(a \o b) = m + n
      /\ \A i \in 1..(m + n) : (a \o b)[i] = IF i <= m THEN a[i] ELSE b[i - m]
  <2>1. a \in Seq(Seq(S)) /\ b \in Seq(Seq(S))
    BY <1>2, <1>3
  <2>2. /\ a \o b \in Seq(Seq(S)) /\ Len(a \o b) = Len(a) + Len(b)
        /\ \A i \in 1..(Len(a) + Len(b)) : (a \o b)[i] = IF i <= Len(a) THEN a[i] ELSE b[i - Len(a)]
    BY <2>1, ConcatProperties
  <2> QED
    BY <1>2, <1>3, <2>2
<1>6. ASSUME NEW i \in 1..(m + n)
      PROVE  (a \o b)[i] = c[i]
  <2>1. CASE i <= m
    <3>1. i \in 1..m
      BY <1>1, <2>1
    <3>2. (a \o b)[i] = a[i] /\ u[i] = s[i]
      BY <1>1, <1>5, <2>1
    <3>3. a[i] = f[s[i]] /\ c[i] = f[u[i]]
      BY <1>2, <1>4, <3>1
    <3> QED
      BY <3>2, <3>3
  <2>2. CASE ~(i <= m)
    <3>1. i - m \in 1..n
      BY <1>1, <2>2
    <3>2. (a \o b)[i] = b[i - m] /\ u[i] = t[i - m]
      BY <1>1, <1>5, <2>2
    <3>3. b[i - m] = f[t[i - m]] /\ c[i] = f[u[i]]
      BY <1>3, <1>4, <3>1
    <3> QED
      BY <3>2, <3>3
  <2> QED
    BY <2>1, <2>2
<1>7. a \o b = c
  <2> DEFINE d == a \o b
             Q == Seq(S)
  <2>1. d \in Seq(Q) /\ c \in Seq(Q) /\ Len(d) = Len(c) /\ \A i \in 1..Len(d) : d[i] = c[i]
    BY <1>4, <1>5, <1>6
  <2> HIDE DEF d, Q
  <2>2. d = c
    BY <2>1, SeqEqual
  <2> QED
    BY <2>2 DEF d
<1>8. FlattenSeq(a \o b) = FlattenSeq(a) \o FlattenSeq(b)
  BY <1>2, <1>3, FlattenConcat
<1> QED
  BY <1>7, <1>8 DEF a, b, c, u, Gather

\* Members that give nothing may be left out at the end.
LEMMA GatheringTheFirst ==
  ASSUME NEW T, NEW S, NEW f, Gives(f, T, S), NEW s \in Seq(T), NEW k \in 0..Len(s),
         \A i \in (k + 1)..Len(s) : f[s[i]] = <<>>
  PROVE  Gather(f, s) = Gather(f, SubSeq(s, 1, k))
<1> DEFINE n == Len(s)
           P == {d \in Nat : k + d <= n => Gather(f, SubSeq(s, 1, k + d)) = Gather(f, SubSeq(s, 1, k))}
<1>1. n \in Nat /\ k \in Nat /\ k <= n
  BY LenProperties
<1>2. ASSUME NEW d \in Nat, k + d <= n
      PROVE  SubSeq(s, 1, k + d) \in Seq(T)
  <2>1. \A i \in 1..(k + d) : s[i] \in T
    BY <1>1, <1>2, ElementOfSeq
  <2> QED
    BY <1>1, <2>1, SubSeqProperties
<1>3. 0 \in P
  BY <1>1
<1>4. ASSUME NEW d \in Nat, d \in P
      PROVE  d + 1 \in P
  <2> SUFFICES ASSUME k + (d + 1) <= n
               PROVE  Gather(f, SubSeq(s, 1, k + (d + 1))) = Gather(f, SubSeq(s, 1, k))
    OBVIOUS
  <2> DEFINE m == k + (d + 1)
             front == SubSeq(s, 1, k + d)
  <2>1. m \in 1..n /\ m - 1 = k + d /\ 1 \in 1..n /\ k + d <= n /\ m \in (k + 1)..n
    BY <1>1
  <2>2. Gather(f, front) = Gather(f, SubSeq(s, 1, k)) /\ front \in Seq(T)
    BY <1>2, <1>4, <2>1
  <2>3. SubSeq(s, 1, m) = SubSeq(s, 1, m - 1) \o <<s[m]>>
    BY <2>1, SubSeqRecursiveSecond
  <2>4. s[m] \in T /\ f[s[m]] = <<>>
    BY <2>1, ElementOfSeq
  <2>5. SubSeq(s, 1, m) = front \o <<s[m]>>
    BY <2>1, <2>3
  <2> HIDE DEF front, m
  <2> DEFINE last == <<s[m]>>
  <2>6. last \in Seq(T)
    BY <2>4
  <2> HIDE DEF last
  <2>7. Gather(f, front \o last) = Gather(f, front) \o Gather(f, last)
    BY <2>2, <2>6, GatheringBoth
  <2>8. Gather(f, last) = <<>> /\ Gather(f, front) \in Seq(S)
    BY <2>2, <2>4, GatheringOne, GatheringKeeps DEF last
  <2>9. Gather(f, front) \o <<>> = Gather(f, front)
    BY <2>8, ConcatEmptySeq
  <2> QED
    BY <2>2, <2>5, <2>7, <2>8, <2>9 DEF m, last
<1> HIDE DEF P
<1>5. n - k \in P /\ k + (n - k) = n
  <2>1. n - k \in Nat /\ k + (n - k) = n
    BY <1>1
  <2> QED
    BY <1>3, <1>4, <2>1, Numbers
<1>6. SubSeq(s, 1, n) = s
  BY SubSeqFull DEF n
<1>7. Gather(f, SubSeq(s, 1, n)) = Gather(f, SubSeq(s, 1, k))
  BY <1>5 DEF P
<1> QED
  BY <1>6, <1>7

\* What a character, a cell and a row give to a text (Grid::row_text).
Letter == [char \in Glyphs |-> IF char = Space THEN <<>> ELSE <<char>>]
CellText == [cell \in Cell |-> TextIn(cell)]
RowText(l) == TextOf(CellsOf(l))
LineText == [l \in Lines |-> RowText(l)]

\* A text without spaces, of characters, of cells and of rows.
LEMMA TextsAreGathered ==
  /\ Gives(Letter, Glyphs, Glyphs) /\ Gives(CellText, Cell, Glyphs) /\ Gives(LineText, Lines, Glyphs)
  /\ \A text \in Seq(Glyphs) : WithoutSpaces(text) = Gather(Letter, text)
  /\ \A cells \in Seq(Cell) : TextOf(cells) = Gather(CellText, cells)
  /\ \A lines \in Seq(Lines) : Text(lines) = Gather(LineText, lines)
<1>1. Gives(Letter, Glyphs, Glyphs)
  BY EmptySeq DEF Gives, Letter
<1>2. ASSUME NEW text \in Seq(Glyphs)
      PROVE  WithoutSpaces(text) = Gather(Letter, text)
  <2>1. \A i \in DOMAIN text : text[i] \in Glyphs
    BY LenProperties, ElementOfSeq
  <2>2. [i \in DOMAIN text |-> IF text[i] = Space THEN <<>> ELSE <<text[i]>>] = [i \in DOMAIN text |-> Letter[text[i]]]
    BY <2>1 DEF Letter
  <2> QED
    BY <2>2 DEF WithoutSpaces, Gather, Each
<1>3. Gives(CellText, Cell, Glyphs)
  <2>1. ASSUME NEW cell \in Cell
        PROVE  TextIn(cell) \in Seq(Glyphs)
    <3>1. cell.text \in Seq(Glyphs)
      BY DEF Cell
    <3>2. WithoutSpaces(cell.text) \in Seq(Glyphs)
      BY <1>1, <1>2, <3>1, GatheringKeeps
    <3> QED
      BY <3>2, EmptySeq DEF TextIn
  <2> QED
    BY <2>1 DEF Gives, CellText
<1>4. ASSUME NEW cells \in Seq(Cell)
      PROVE  TextOf(cells) = Gather(CellText, cells)
  <2>1. \A i \in DOMAIN cells : cells[i] \in Cell
    BY LenProperties, ElementOfSeq
  <2>2. [i \in DOMAIN cells |-> TextIn(cells[i])] = [i \in DOMAIN cells |-> CellText[cells[i]]]
    BY <2>1 DEF CellText
  <2> QED
    BY <2>2 DEF TextOf, Gather, Each
<1>5. Gives(LineText, Lines, Glyphs)
  <2>1. ASSUME NEW l \in Lines
        PROVE  RowText(l) \in Seq(Glyphs)
    <3>1. PICK w \in Nat \ {0} : l \in Line(w)
      BY DEF Lines
    <3>2. CellsOf(l) \in Seq(Cell)
      BY <3>1, CellsOfALine
    <3> QED
      BY <1>3, <1>4, <3>2, GatheringKeeps DEF RowText
  <2> QED
    BY <2>1 DEF Gives, LineText
<1>6. ASSUME NEW lines \in Seq(Lines)
      PROVE  Text(lines) = Gather(LineText, lines)
  <2>1. \A i \in DOMAIN lines : lines[i] \in Lines
    BY LenProperties, ElementOfSeq
  <2>2. [i \in DOMAIN lines |-> TextOf(CellsOf(lines[i]))] = [i \in DOMAIN lines |-> LineText[lines[i]]]
    BY <2>1 DEF LineText, RowText
  <2> QED
    BY <2>2 DEF Text, Gather, Each
<1> QED
  BY <1>1, <1>2, <1>3, <1>4, <1>5, <1>6

\* The text of characters.
LEMMA LettersBoth ==
  ASSUME NEW s \in Seq(Glyphs), NEW t \in Seq(Glyphs)
  PROVE  /\ WithoutSpaces(s) \in Seq(Glyphs)
         /\ WithoutSpaces(s \o t) = WithoutSpaces(s) \o WithoutSpaces(t)
<1>1. Gives(Letter, Glyphs, Glyphs) /\ s \o t \in Seq(Glyphs)
  BY TextsAreGathered, ConcatProperties
<1>2. Gather(Letter, s) \in Seq(Glyphs)
  BY <1>1, GatheringKeeps
<1>3. Gather(Letter, s \o t) = Gather(Letter, s) \o Gather(Letter, t)
  BY <1>1, GatheringBoth
<1> QED
  BY <1>1, <1>2, <1>3, TextsAreGathered

\* The text of cells.
LEMMA CellsBoth ==
  ASSUME NEW s \in Seq(Cell), NEW t \in Seq(Cell)
  PROVE  /\ TextOf(s) \in Seq(Glyphs)
         /\ TextOf(s \o t) = TextOf(s) \o TextOf(t)
<1>1. Gives(CellText, Cell, Glyphs) /\ s \o t \in Seq(Cell)
  BY TextsAreGathered, ConcatProperties
<1>2. Gather(CellText, s) \in Seq(Glyphs) /\ Gather(CellText, s \o t) = Gather(CellText, s) \o Gather(CellText, t)
  BY <1>1, GatheringKeeps, GatheringBoth
<1> QED
  BY <1>1, <1>2, TextsAreGathered

\* The text of rows.
LEMMA LinesBoth ==
  ASSUME NEW s \in Seq(Lines), NEW t \in Seq(Lines)
  PROVE  /\ Text(s) \in Seq(Glyphs)
         /\ Text(s \o t) = Text(s) \o Text(t)
<1>1. Gives(LineText, Lines, Glyphs) /\ s \o t \in Seq(Lines)
  BY TextsAreGathered, ConcatProperties
<1>2. Gather(LineText, s) \in Seq(Glyphs) /\ Gather(LineText, s \o t) = Gather(LineText, s) \o Gather(LineText, t)
  BY <1>1, GatheringKeeps, GatheringBoth
<1> QED
  BY <1>1, <1>2, TextsAreGathered

\* Nothing has no text.
LEMMA NoText == TextOf(<<>>) = <<>> /\ Text(<<>>) = <<>> /\ WithoutSpaces(<<>>) = <<>>
<1>1. <<>> \in Seq(Cell) /\ <<>> \in Seq(Lines) /\ <<>> \in Seq(Glyphs)
  OBVIOUS
<1>2. Gather(CellText, <<>>) = <<>> /\ Gather(LineText, <<>>) = <<>> /\ Gather(Letter, <<>>) = <<>>
  BY TextsAreGathered, GatheringNone
<1> QED
  BY <1>1, <1>2, TextsAreGathered

\* One cell, and one row.
LEMMA OneCellText ==
  ASSUME NEW cell \in Cell
  PROVE  TextOf(<<cell>>) = TextIn(cell)
<1>1. <<cell>> \in Seq(Cell)
  OBVIOUS
<1>2. Gather(CellText, <<cell>>) = CellText[cell]
  BY TextsAreGathered, GatheringOne
<1> QED
  BY <1>1, <1>2, TextsAreGathered DEF CellText

\* One row.
LEMMA OneRowText ==
  ASSUME NEW l \in Lines
  PROVE  Text(<<l>>) = RowText(l)
<1>1. <<l>> \in Seq(Lines)
  OBVIOUS
<1>2. Gather(LineText, <<l>>) = LineText[l]
  BY TextsAreGathered, GatheringOne
<1> QED
  BY <1>1, <1>2, TextsAreGathered DEF LineText

\* Cells at the end that have no text, and rows.
LEMMA FirstCellsText ==
  ASSUME NEW cells \in Seq(Cell), NEW k \in 0..Len(cells),
         \A i \in (k + 1)..Len(cells) : TextIn(cells[i]) = <<>>
  PROVE  TextOf(cells) = TextOf(SubSeq(cells, 1, k))
<1>1. Len(cells) \in Nat /\ \A i \in 1..Len(cells) : cells[i] \in Cell
  BY LenProperties, ElementOfSeq
<1>2. \A i \in (k + 1)..Len(cells) : CellText[cells[i]] = <<>>
  BY <1>1 DEF CellText
<1>3. SubSeq(cells, 1, k) \in Seq(Cell)
  BY <1>1, SomeRows
<1>4. Gather(CellText, cells) = Gather(CellText, SubSeq(cells, 1, k))
  BY <1>2, TextsAreGathered, GatheringTheFirst
<1> QED
  BY <1>3, <1>4, TextsAreGathered

\* Rows at the end that have no text.
LEMMA FirstRowsText ==
  ASSUME NEW lines \in Seq(Lines), NEW k \in 0..Len(lines),
         \A i \in (k + 1)..Len(lines) : RowText(lines[i]) = <<>>
  PROVE  Text(lines) = Text(SubSeq(lines, 1, k))
<1>1. Len(lines) \in Nat /\ \A i \in 1..Len(lines) : lines[i] \in Lines
  BY LenProperties, ElementOfSeq
<1>2. \A i \in (k + 1)..Len(lines) : LineText[lines[i]] = <<>>
  BY <1>1 DEF LineText
<1>3. SubSeq(lines, 1, k) \in Seq(Lines)
  BY <1>1, SomeRows
<1>4. Gather(LineText, lines) = Gather(LineText, SubSeq(lines, 1, k))
  BY <1>2, TextsAreGathered, GatheringTheFirst
<1> QED
  BY <1>3, <1>4, TextsAreGathered

\* A blank cell has no text, a character its own.
LEMMA BlankHasNoText ==
  ASSUME NEW cell \in Cell, IsBlank(cell)
  PROVE  TextIn(cell) = <<>>
<1>1. <<Space>> \in Seq(Glyphs) /\ Space \in Glyphs
  BY DEF Glyphs
<1>2. Gather(Letter, <<Space>>) = Letter[Space]
  BY <1>1, TextsAreGathered, GatheringOne
<1>3. WithoutSpaces(<<Space>>) = <<>>
  BY <1>1, <1>2, TextsAreGathered DEF Letter
<1> QED
  BY <1>3 DEF IsBlank, TextIn

\* Some first cells of a row.
LEMMA SomeCells ==
  ASSUME NEW w \in Nat \ {0}, NEW l \in Line(w), NEW k \in 0..w
  PROVE  /\ SubSeq(CellsOf(l), 1, k) \in Seq(Cell) /\ Len(SubSeq(CellsOf(l), 1, k)) = k
         /\ \A i \in 1..k : SubSeq(CellsOf(l), 1, k)[i] = l.cells[i - 1]
<1> DEFINE cells == CellsOf(l)
<1>1. cells \in Seq(Cell) /\ Len(cells) = w /\ \A i \in 1..w : cells[i] = l.cells[i - 1]
  BY CellsOfALine
<1>2. \A i \in 1..w : cells[i] \in Cell
  BY <1>1, ElementOfSeq
<1> HIDE DEF cells
<1>3. /\ SubSeq(cells, 1, k) \in Seq(Cell)
      /\ Len(SubSeq(cells, 1, k)) = IF 1 <= k THEN k - 1 + 1 ELSE 0
      /\ \A i \in 1..(k - 1 + 1) : SubSeq(cells, 1, k)[i] = cells[1 + i - 1]
  BY <1>2, SubSeqProperties
<1>4. \A i \in 1..k : i \in 1..w /\ i \in 1..(k - 1 + 1) /\ 1 + i - 1 = i
  OBVIOUS
<1> QED
  BY <1>1, <1>3, <1>4 DEF cells

\* The text of a row that is blank from some column on.
LEMMA FrontText ==
  ASSUME NEW w \in Nat \ {0}, NEW l \in Line(w), NEW k \in 0..w,
         \A c \in k..(w - 1) : TextIn(l.cells[c]) = <<>>
  PROVE  RowText(l) = TextOf(SubSeq(CellsOf(l), 1, k))
<1> DEFINE cells == CellsOf(l)
<1>1. cells \in Seq(Cell) /\ Len(cells) = w /\ \A i \in 1..w : cells[i] = l.cells[i - 1]
  BY CellsOfALine
<1>2. ASSUME NEW i \in (k + 1)..w
      PROVE  TextIn(cells[i]) = <<>>
  <2>1. i \in 1..w /\ i - 1 \in k..(w - 1)
    OBVIOUS
  <2> QED
    BY <1>1, <2>1
<1> HIDE DEF cells
<1>3. TextOf(cells) = TextOf(SubSeq(cells, 1, k))
  BY <1>1, <1>2, FirstCellsText
<1> QED
  BY <1>3 DEF RowText, cells

\* A blank row has no text.
BlankFrom(l, k, w) == \A c \in k..(w - 1) : IsBlank(l.cells[c])
LEMMA BlankRowText ==
  ASSUME NEW w \in Nat \ {0}, NEW l \in Line(w), BlankFrom(l, 0, w)
  PROVE  RowText(l) = <<>>
<1>1. \A c \in 0..(w - 1) : TextIn(l.cells[c]) = <<>>
  BY BlankHasNoText DEF BlankFrom, Line
<1>2. RowText(l) = TextOf(SubSeq(CellsOf(l), 1, 0))
  BY <1>1, FrontText
<1>3. SubSeq(CellsOf(l), 1, 0) = <<>>
  BY SubSeqEmpty
<1> QED
  BY <1>2, <1>3, NoText

\* The cells of a row after a character was written where it was blank.
LEMMA PutOnBlank ==
  ASSUME NEW w \in Nat \ {0}, NEW l \in Line(w), NEW at \in Nat, NEW char \in Glyphs \ Zero, NEW style \in Style,
         at + Width(char) <= w, BlankFrom(l, at, w)
  PROVE  LET p == Put(l, at, char, style)
         IN  /\ p \in Line(w)
             /\ \A c \in 0..(at - 1) : p.cells[c] = l.cells[c]
             /\ p.cells[at].kind # "tail" /\ p.cells[at].text = <<char>>
             /\ Width(char) = 2 => p.cells[at + 1].kind = "tail"
             /\ BlankFrom(p, at + Width(char), w)
<1> DEFINE p == Put(l, at, char, style)
           broad == Width(char) = 2
           k1 == ClearWideAt(l, at)
           k2 == ClearWideAt(k1, at + 1)
           k == IF broad THEN k2 ELSE k1
           first == [text |-> <<char>>, kind |-> IF broad THEN "lead" ELSE "single", style |-> style]
           second == [Blank EXCEPT !.kind = "tail", !.style = style]
           f == [c \in 0..(w - 1) |-> IF c = at THEN first
                                      ELSE IF broad /\ c = at + 1 THEN second ELSE k.cells[c]]
<1>1. /\ Width(char) = 1 \/ Width(char) = 2
      /\ at \in 0..(w - 1) /\ (broad => at + 1 \in 0..(w - 1))
  BY DEF Width
<1>2. DOMAIN l.cells = 0..(w - 1) /\ \A c \in 0..(w - 1) : l.cells[c] \in Cell
  BY DEF Line
<1>3. \A c \in at..(w - 1) : c \in 0..(w - 1) /\ l.cells[c].kind = "single"
  BY DEF BlankFrom, IsBlank
<1> DEFINE g == [c \in 0..(w - 1) |-> IF c = at THEN [l.cells[c] EXCEPT !.kind = "single"] ELSE l.cells[c]]
<1>4. k1 = [l EXCEPT !.cells = g]
  <2>1. ~IsA(l, at, "lead") /\ ~IsA(l, at, "tail")
    BY <1>1, <1>3 DEF IsA
  <2> QED
    BY <1>2, <2>1 DEF ClearWideAt
<1>5. k1.cells = g /\ DOMAIN k1.cells = 0..(w - 1) /\ \A c \in 0..(w - 1) : c # at => k1.cells[c] = l.cells[c]
  <2>1. k1.cells = g
    BY <1>4 DEF Line
  <2> QED
    BY <2>1
<1> HIDE DEF k1, g
<1> DEFINE h == [c \in 0..(w - 1) |-> IF c = at + 1 THEN [k1.cells[c] EXCEPT !.kind = "single"] ELSE k1.cells[c]]
<1>6. ASSUME broad
      PROVE  k2 = [k1 EXCEPT !.cells = h]
  <2>1. at + 1 \in at..(w - 1) /\ at + 1 \in 0..(w - 1) /\ at + 1 # at
    BY <1>1, <1>6
  <2>2. k1.cells[at + 1].kind = "single"
    BY <1>3, <1>5, <2>1
  <2>3. ~IsA(k1, at + 1, "lead") /\ ~IsA(k1, at + 1, "tail")
    BY <2>2 DEF IsA
  <2> QED
    BY <1>5, <2>3 DEF ClearWideAt
<1>7. \A c \in 0..(w - 1) : c # at /\ ~(broad /\ c = at + 1) => k.cells[c] = l.cells[c]
  <2>1. CASE broad
    <3>1. k2.cells = h
      <4>1. k1 \in Line(w)
        BY <1>1, ClearedCells DEF k1
      <4> QED
        BY <1>6, <2>1, <4>1 DEF Line
    <3> HIDE DEF k2
    <3>2. \A c \in 0..(w - 1) : c # at + 1 => h[c] = k1.cells[c]
      OBVIOUS
    <3> QED
      BY <1>5, <2>1, <3>1, <3>2
  <2>2. CASE ~broad
    BY <1>5, <2>2
  <2> QED
    BY <2>1, <2>2
<1>8. p = [l EXCEPT !.cells = f]
  BY <1>2 DEF Put, k1
<1>9. p \in Line(w)
  BY PutKinds
<1>10. p.cells = f
  BY <1>8 DEF Line
<1> HIDE DEF p, k, broad
<1>11. f[at] = first /\ (broad => f[at + 1] = second)
  <2>1. broad => at + 1 # at
    BY <1>1
  <2> QED
    BY <1>1, <2>1
<1>12. /\ first.kind # "tail" /\ first.text = <<char>> /\ second.kind = "tail"
  BY DEF Blank
<1>13. \A c \in 0..(w - 1) : c # at /\ ~(broad /\ c = at + 1) => f[c] = l.cells[c]
  BY <1>7
<1> HIDE DEF f, first, second
<1>14. \A c \in 0..(at - 1) : p.cells[c] = l.cells[c]
  <2>1. \A c \in 0..(at - 1) : c \in 0..(w - 1) /\ c # at /\ c # at + 1
    BY <1>1
  <2> QED
    BY <1>10, <1>13, <2>1
<1>15. ASSUME NEW c \in (at + Width(char))..(w - 1)
       PROVE  IsBlank(p.cells[c])
  <2>1. c \in 0..(w - 1) /\ c \in at..(w - 1) /\ c # at /\ ~(broad /\ c = at + 1)
    BY <1>1 DEF broad
  <2>2. IsBlank(l.cells[c])
    BY <2>1 DEF BlankFrom
  <2> QED
    BY <1>10, <1>13, <2>1, <2>2
<1> QED
  BY <1>9, <1>10, <1>11, <1>12, <1>14, <1>15 DEF p, broad, BlankFrom

\* Writing a character where a row is blank puts it behind the row's text.
OneLetter(char) == WithoutSpaces(<<char>>)
LEMMA PutAddsText ==
  ASSUME NEW w \in Nat \ {0}, NEW l \in Line(w), NEW at \in Nat, NEW char \in Glyphs \ Zero, NEW style \in Style,
         at + Width(char) <= w, BlankFrom(l, at, w)
  PROVE  RowText(Put(l, at, char, style)) = RowText(l) \o OneLetter(char)
<1> DEFINE p == Put(l, at, char, style)
           m == at + 1
           front == SubSeq(CellsOf(l), 1, at)
           cells == CellsOf(p)
           cell == p.cells[at]
<1>1. /\ p \in Line(w)
      /\ \A c \in 0..(at - 1) : p.cells[c] = l.cells[c]
      /\ cell.kind # "tail" /\ cell.text = <<char>>
      /\ Width(char) = 2 => p.cells[at + 1].kind = "tail"
      /\ BlankFrom(p, at + Width(char), w)
  BY PutOnBlank
<1> HIDE DEF p
<1>2. (Width(char) = 1 \/ Width(char) = 2) /\ m \in 1..w /\ at \in 0..w /\ m \in 0..w /\ at \in 0..(w - 1)
  BY DEF Width
<1>3. RowText(l) = TextOf(front)
  <2>1. \A c \in at..(w - 1) : TextIn(l.cells[c]) = <<>>
    BY BlankHasNoText DEF BlankFrom, Line
  <2> QED
    BY <1>2, <2>1, FrontText
<1>4. RowText(p) = TextOf(SubSeq(cells, 1, m))
  <2>1. ASSUME NEW c \in m..(w - 1)
        PROVE  TextIn(p.cells[c]) = <<>>
    <3>1. CASE c >= at + Width(char)
      <4>1. c \in 0..(w - 1) /\ p.cells[c] \in Cell /\ IsBlank(p.cells[c])
        BY <1>1, <1>2, <3>1 DEF BlankFrom, Line
      <4> QED
        BY <4>1, BlankHasNoText
    <3>2. CASE ~(c >= at + Width(char))
      <4>1. Width(char) = 2 /\ c = at + 1
        BY <1>2, <3>2
      <4> QED
        BY <1>1, <4>1 DEF TextIn
    <3> QED
      BY <3>1, <3>2
  <2> HIDE DEF m
  <2> QED
    BY <1>1, <1>2, <2>1, FrontText
<1>5. cell \in Cell
  BY <1>1, <1>2 DEF Line
<1>6. /\ front \in Seq(Cell) /\ Len(front) = at
      /\ \A i \in 1..at : front[i] = l.cells[i - 1]
  BY <1>2, SomeCells
<1>7. /\ SubSeq(cells, 1, m) \in Seq(Cell) /\ Len(SubSeq(cells, 1, m)) = m
      /\ \A i \in 1..m : SubSeq(cells, 1, m)[i] = p.cells[i - 1]
  <2> HIDE DEF m
  <2> QED
    BY <1>1, <1>2, SomeCells
<1> DEFINE s == SubSeq(cells, 1, m)
           last == <<cell>>
           t == front \o last
<1>8. last \in Seq(Cell) /\ Len(last) = 1 /\ last[1] = cell
  BY <1>5
<1> HIDE DEF front, last
<1>9. /\ t \in Seq(Cell) /\ Len(t) = Len(front) + Len(last)
      /\ \A i \in 1..(Len(front) + Len(last)) : t[i] = IF i <= Len(front) THEN front[i] ELSE last[i - Len(front)]
  BY <1>6, <1>8, ConcatProperties
<1> HIDE DEF s, t, cell
<1>10. s \in Seq(Cell) /\ Len(s) = m /\ \A i \in 1..m : s[i] = p.cells[i - 1]
  BY <1>7 DEF s
<1>11. ASSUME NEW i \in 1..m
       PROVE  s[i] = t[i]
  <2>1. CASE i <= at
    <3>1. i \in 1..at /\ i - 1 \in 0..(at - 1) /\ i \in 1..(at + 1)
      BY <1>2, <2>1
    <3>2. t[i] = front[i] /\ front[i] = l.cells[i - 1]
      BY <1>6, <1>8, <1>9, <2>1, <3>1
    <3> QED
      BY <1>1, <1>10, <3>1, <3>2
  <2>2. CASE ~(i <= at)
    <3>1. i = at + 1 /\ i - at = 1 /\ i \in 1..(at + 1) /\ i - 1 = at
      BY <1>2, <2>2
    <3>2. t[i] = cell
      BY <1>6, <1>8, <1>9, <2>2, <3>1
    <3> QED
      BY <1>10, <3>1, <3>2 DEF cell
  <2> QED
    BY <2>1, <2>2
<1>12. s = t
  <2>1. Len(s) = Len(t) /\ \A i \in 1..Len(s) : s[i] = t[i]
    BY <1>2, <1>6, <1>8, <1>9, <1>10, <1>11
  <2> QED
    BY <1>9, <1>10, <2>1, SeqEqual
<1>13. TextOf(t) = TextOf(front) \o TextOf(last)
  BY <1>6, <1>8, CellsBoth DEF t
<1>14. TextOf(last) = WithoutSpaces(<<char>>)
  <2>1. TextOf(last) = TextIn(cell)
    BY <1>5, OneCellText DEF last
  <2> QED
    BY <1>1, <2>1 DEF TextIn, cell
<1> QED
  BY <1>3, <1>4, <1>12, <1>13, <1>14 DEF s, p, OneLetter

\* Texts are put together in either order.
LEMMA TextsAssociate ==
  ASSUME NEW x \in Seq(Glyphs), NEW y \in Seq(Glyphs), NEW z \in Seq(Glyphs)
  PROVE  (x \o y) \o z = x \o (y \o z)
BY ConcatAssociative

\* Nothing before or behind a text.
LEMMA TextsAlone ==
  ASSUME NEW x \in Seq(Glyphs)
  PROVE  x \o <<>> = x /\ <<>> \o x = x
BY ConcatEmptySeq

\* The text of a row is a text.
LEMMA RowTextIsText ==
  ASSUME NEW w \in Nat \ {0}, NEW l \in Line(w)
  PROVE  l \in Lines /\ RowText(l) \in Seq(Glyphs)
<1>1. l \in Lines
  BY DEF Lines
<1>2. CellsOf(l) \in Seq(Cell)
  BY CellsOfALine
<1>3. TextOf(CellsOf(l)) \in Seq(Glyphs)
  BY <1>2, CellsBoth
<1> QED
  BY <1>1, <1>3 DEF RowText

\* Rows that say the same up to a column and nothing from there on.
LEMMA SameFrontText ==
  ASSUME NEW w \in Nat \ {0}, NEW l \in Line(w), NEW k \in Line(w), NEW at \in 0..w,
         \A c \in 0..(at - 1) : l.cells[c] = k.cells[c],
         \A c \in at..(w - 1) : TextIn(l.cells[c]) = <<>>,
         \A c \in at..(w - 1) : TextIn(k.cells[c]) = <<>>
  PROVE  RowText(l) = RowText(k)
<1> DEFINE s == SubSeq(CellsOf(l), 1, at)
           t == SubSeq(CellsOf(k), 1, at)
<1>1. RowText(l) = TextOf(s) /\ RowText(k) = TextOf(t)
  BY FrontText
<1>2. s \in Seq(Cell) /\ Len(s) = at /\ \A i \in 1..at : s[i] = l.cells[i - 1]
  BY SomeCells
<1>3. t \in Seq(Cell) /\ Len(t) = at /\ \A i \in 1..at : t[i] = k.cells[i - 1]
  BY SomeCells
<1> HIDE DEF s, t
<1>4. \A i \in 1..at : i - 1 \in 0..(at - 1)
  OBVIOUS
<1>5. \A i \in 1..at : s[i] = t[i]
  BY <1>2, <1>3, <1>4
<1>6. s = t
  BY <1>2, <1>3, <1>5, SeqEqual
<1> QED
  BY <1>1, <1>6

\* The flag of a row is not part of its text.
LEMMA FlagHasNoText ==
  ASSUME NEW w \in Nat \ {0}, NEW l \in Line(w), NEW b \in BOOLEAN
  PROVE  RowText([l EXCEPT !.wrapped = b]) = RowText(l)
<1>1. [l EXCEPT !.wrapped = b].cells = l.cells
  BY DEF Line
<1> QED
  BY <1>1 DEF RowText, CellsOf

\* The text of a screen, before a row, in it and behind it.
Above(lines, i) == SubSeq(lines, 1, i - 1)
Below(lines, i, r) == SubSeq(lines, i + 1, r)
AroundRow(lines, i, r, p, q) ==
  /\ p \in Seq(Lines) /\ Len(p) = i - 1 /\ \A j \in 1..(i - 1) : p[j] = lines[j]
  /\ q \in Seq(Lines) /\ Len(q) = r - i /\ \A j \in 1..(r - i) : q[j] = lines[i + j]
  /\ Text(lines) = (Text(p) \o RowText(lines[i])) \o Text(q)
LEMMA PartsOfAScreen ==
  ASSUME NEW c \in Nat \ {0}, NEW r \in Nat \ {0}, NEW lines \in Screen(Lines, c, r), NEW i \in 1..r
  PROVE  AroundRow(lines, i, r, Above(lines, i), Below(lines, i, r))
<1> DEFINE p == SubSeq(lines, 1, i - 1)
           q == SubSeq(lines, i + 1, r)
           one == <<lines[i]>>
<1>1. lines \in Seq(Lines) /\ Len(lines) = r /\ \A j \in 1..r : lines[j] \in Lines /\ lines[j] \in Line(c)
  <2>1. lines \in Seq(Lines \cap Line(c)) /\ Len(lines) = r /\ \A j \in 1..r : lines[j] \in Lines /\ lines[j] \in Line(c)
    BY RowsOfAScreen
  <2>2. Lines \cap Line(c) \subseteq Lines
    OBVIOUS
  <2>3. lines \in Seq(Lines)
    BY <2>1, <2>2, SeqMonotonic
  <2> QED
    BY <2>1, <2>3
<1>2. p \in Seq(Lines) /\ Len(p) = i - 1 /\ \A j \in 1..(i - 1) : p[j] = lines[j]
  <2>1. \A j \in 1..(i - 1) : lines[j] \in Lines
    BY <1>1
  <2>2. /\ p \in Seq(Lines) /\ Len(p) = IF 1 <= i - 1 THEN (i - 1) - 1 + 1 ELSE 0
        /\ \A j \in 1..((i - 1) - 1 + 1) : p[j] = lines[1 + j - 1]
    BY <2>1, SubSeqProperties
  <2>3. (i - 1) - 1 + 1 = i - 1 /\ \A j \in 1..(i - 1) : 1 + j - 1 = j
    OBVIOUS
  <2> HIDE DEF p
  <2> QED
    BY <2>2, <2>3
<1>3. q \in Seq(Lines) /\ Len(q) = r - i /\ \A j \in 1..(r - i) : q[j] = lines[i + j]
  <2>1. \A j \in (i + 1)..r : lines[j] \in Lines
    BY <1>1
  <2>2. /\ q \in Seq(Lines) /\ Len(q) = IF i + 1 <= r THEN r - (i + 1) + 1 ELSE 0
        /\ \A j \in 1..(r - (i + 1) + 1) : q[j] = lines[(i + 1) + j - 1]
    BY <2>1, SubSeqProperties
  <2>3. r - (i + 1) + 1 = r - i /\ \A j \in 1..(r - i) : (i + 1) + j - 1 = i + j
    OBVIOUS
  <2> HIDE DEF q
  <2> QED
    BY <2>2, <2>3
<1>4. SubSeq(lines, 1, i) = p \o one
  <2>1. 1 \in 1..Len(lines) /\ i \in 1..Len(lines)
    BY <1>1
  <2> QED
    BY <1>1, <2>1, SubSeqRecursiveSecond
<1>5. lines = (p \o one) \o q
  <2>1. 1 \in 1..(Len(lines) + 1) /\ i \in (1 - 1)..Len(lines) /\ r \in i..Len(lines)
    BY <1>1
  <2>2. SubSeq(lines, 1, i) \o SubSeq(lines, i + 1, r) = SubSeq(lines, 1, r)
    BY <1>1, <2>1, ConcatAdjacentSubSeq
  <2>3. SubSeq(lines, 1, r) = lines
    BY <1>1, SubSeqFull
  <2> QED
    BY <1>4, <2>2, <2>3
<1>6. one \in Seq(Lines) /\ Text(one) = RowText(lines[i])
  BY <1>1, OneRowText
<1> HIDE DEF p, q, one
<1>7. p \o one \in Seq(Lines)
  BY <1>2, <1>6, ConcatProperties
<1>8. Text((p \o one) \o q) = Text(p \o one) \o Text(q) /\ Text(p \o one) = Text(p) \o Text(one)
  BY <1>2, <1>3, <1>6, <1>7, LinesBoth
<1> QED
  BY <1>2, <1>3, <1>5, <1>6, <1>8 DEF p, q, Above, Below, AroundRow

\* A row that says more, where nothing is said behind it.
NothingBelow(lines, i, r) == \A j \in (i + 1)..r : RowText(lines[j]) = <<>>
Adding(lines, i, r, l, x) == RowText(l) = RowText(lines[i]) \o x /\ (x = <<>> \/ NothingBelow(lines, i, r))
WithRow(lines, i, l) == [lines EXCEPT ![i] = l]
LEMMA RowGainsText ==
  ASSUME NEW c \in Nat \ {0}, NEW r \in Nat \ {0}, NEW lines \in Screen(Lines, c, r), NEW i \in 1..r, NEW l \in Line(c),
         NEW x \in Seq(Glyphs), Adding(lines, i, r, l, x)
  PROVE  Text(WithRow(lines, i, l)) = Text(lines) \o x
<1> DEFINE m == [lines EXCEPT ![i] = l]
           p == Above(lines, i)
           q == Below(lines, i, r)
           p2 == Above(m, i)
           q2 == Below(m, i, r)
           old == RowText(lines[i])
<1>0. RowText(l) = RowText(lines[i]) \o x /\ (x = <<>> \/ NothingBelow(lines, i, r))
  BY DEF Adding
<1>1. lines[i] \in Line(c) /\ l \in Lines /\ old \in Seq(Glyphs)
  BY RowsOfAScreen, RowTextIsText
<1>2. m \in Screen(Lines, c, r)
  BY <1>1, RowGivesAScreen
<1>3. m[i] = l /\ \A j \in 1..r : j # i => m[j] = lines[j]
  <2>1. DOMAIN lines = 1..r
    BY RowsOfAScreen
  <2> QED
    BY <2>1
<1>4. /\ p \in Seq(Lines) /\ Len(p) = i - 1 /\ \A j \in 1..(i - 1) : p[j] = lines[j]
      /\ q \in Seq(Lines) /\ Len(q) = r - i /\ \A j \in 1..(r - i) : q[j] = lines[i + j]
      /\ Text(lines) = (Text(p) \o old) \o Text(q)
  <2>1. AroundRow(lines, i, r, p, q)
    BY PartsOfAScreen
  <2> QED
    BY <2>1 DEF AroundRow
<1> HIDE DEF m
<1>5. /\ p2 \in Seq(Lines) /\ Len(p2) = i - 1 /\ \A j \in 1..(i - 1) : p2[j] = m[j]
      /\ q2 \in Seq(Lines) /\ Len(q2) = r - i /\ \A j \in 1..(r - i) : q2[j] = m[i + j]
      /\ Text(m) = (Text(p2) \o RowText(m[i])) \o Text(q2)
  <2>1. AroundRow(m, i, r, p2, q2)
    BY <1>2, PartsOfAScreen
  <2> QED
    BY <2>1 DEF AroundRow
<1> HIDE DEF p, q, p2, q2, old
<1>6. p2 = p
  <2>1. \A j \in 1..(i - 1) : j \in 1..r /\ j # i
    OBVIOUS
  <2>2. Len(p) = Len(p2) /\ \A j \in 1..Len(p) : p[j] = p2[j]
    BY <1>3, <1>4, <1>5, <2>1
  <2> QED
    BY <1>4, <1>5, <2>2, SeqEqual
<1>7. q2 = q
  <2>1. \A j \in 1..(r - i) : i + j \in 1..r /\ i + j # i
    OBVIOUS
  <2>2. Len(q) = Len(q2) /\ \A j \in 1..Len(q) : q[j] = q2[j]
    BY <1>3, <1>4, <1>5, <2>1
  <2> QED
    BY <1>4, <1>5, <2>2, SeqEqual
<1>8. Text(p) \in Seq(Glyphs) /\ Text(q) \in Seq(Glyphs)
  BY <1>4, LinesBoth
<1> DEFINE a == Text(p)
           b == Text(q)
<1>9. Text(m) = (a \o (old \o x)) \o b /\ Text(lines) = (a \o old) \o b
  BY <1>0, <1>3, <1>4, <1>5, <1>6, <1>7 DEF old
<1>10. a \in Seq(Glyphs) /\ b \in Seq(Glyphs)
  BY <1>8
<1> HIDE DEF a, b
<1>11. a \o old \in Seq(Glyphs) /\ a \o (old \o x) = (a \o old) \o x
  BY <1>1, <1>10, TextsAssociate, ConcatProperties
<1>12. CASE x = <<>>
  <2>1. (a \o old) \o x = a \o old
    BY <1>11, <1>12, TextsAlone
  <2>2. (a \o old) \o b \in Seq(Glyphs)
    BY <1>10, <1>11, ConcatProperties
  <2>3. ((a \o old) \o b) \o x = (a \o old) \o b
    BY <1>12, <2>2, TextsAlone
  <2> QED
    BY <1>9, <1>11, <2>1, <2>3 DEF m, WithRow
<1>13. CASE NothingBelow(lines, i, r)
  <2>1. b = <<>>
    <3>1. ASSUME NEW j \in (0 + 1)..Len(q)
          PROVE  RowText(q[j]) = <<>>
      <4>1. j \in 1..(r - i) /\ i + j \in (i + 1)..r
        BY <1>4, <3>1
      <4>2. q[j] = lines[i + j]
        BY <1>4, <4>1
      <4>3. RowText(lines[i + j]) = <<>>
        BY <1>13, <4>1 DEF NothingBelow
      <4> QED
        BY <4>2, <4>3
    <3>2. 0 \in 0..Len(q)
      BY <1>4
    <3>3. Text(q) = Text(SubSeq(q, 1, 0))
      BY <1>4, <3>1, <3>2, FirstRowsText
    <3>4. SubSeq(q, 1, 0) = <<>>
      BY SubSeqEmpty
    <3> QED
      BY <3>3, <3>4, NoText DEF b
  <2>2. (a \o old) \o x \in Seq(Glyphs)
    BY <1>11, ConcatProperties
  <2>3. ((a \o old) \o x) \o b = (a \o old) \o x /\ (a \o old) \o b = a \o old
    BY <1>11, <2>1, <2>2, TextsAlone
  <2> QED
    BY <1>9, <1>11, <2>3 DEF m, WithRow
<1> QED
  BY <1>0, <1>12, <1>13

\* Rows read from the last to the first.
LEMMA Reversing ==
  ASSUME NEW S, NEW s \in Seq(S)
  PROVE  /\ Reverse(s) \in Seq(S) /\ Len(Reverse(s)) = Len(s)
         /\ \A i \in 1..Len(s) : Reverse(s)[i] = s[Len(s) - i + 1]
<1> DEFINE n == Len(s)
           r == [i \in 1..n |-> s[n - i + 1]]
<1>1. n \in Nat /\ \A i \in 1..n : s[i] \in S
  BY LenProperties, ElementOfSeq
<1>2. Reverse(s) = r
  BY DEF Reverse
<1> HIDE DEF n
<1>3. \A i \in 1..n : n - i + 1 \in 1..n
  BY <1>1
<1>4. r \in [1..n -> S]
  BY <1>1, <1>3
<1>5. \A i \in 1..n : r[i] = s[n - i + 1]
  OBVIOUS
<1> HIDE DEF r
<1>6. r \in Seq(S)
  BY <1>1, <1>4, SeqDef
<1>7. Len(r) = n
  BY <1>1, <1>4, <1>6, LenProperties
<1> QED
  BY <1>2, <1>5, <1>6, <1>7 DEF n

\* A row that is pushed comes last in the history; rows that have no room give way
\* in front.
GivesWay(old, new, row, dropped) ==
  /\ dropped \in Seq(Lines) /\ dropped \o Reverse(new) = Reverse(old) \o <<row>>
  /\ Len(new) < MaxLines => Len(old) < MaxLines /\ dropped = <<>>
LEMMA PushedComesLast ==
  ASSUME NEW old \in Seq(Lines), NEW row \in Lines
  PROVE  \E dropped : GivesWay(old, PushRow(old, row, MaxLines), row, dropped)
<1> DEFINE new == PushRow(old, row, MaxLines)
           n == Len(old) + 1
           k == Min({MaxLines, n})
           one == <<row>>
           all == one \o old
           full == Reverse(old) \o one
           dropped == SubSeq(full, 1, n - k)
           kept == Reverse(new)
<1>1. MaxLines \in Nat /\ n \in Nat /\ n > 0 /\ Len(old) = n - 1
  BY LenProperties, TerminalAssumption
<1>2. one \in Seq(Lines) /\ Len(one) = 1 /\ one[1] = row
  OBVIOUS
<1>3. k \in Nat /\ k <= MaxLines /\ k <= n /\ (k < MaxLines => k = n)
  <2>1. CASE n <= MaxLines
    <3>1. \A y \in {MaxLines, n} : n =< y
      BY <1>1, <2>1
    <3> QED
      BY <1>1, <2>1, <3>1 DEF Min
  <2>2. CASE MaxLines <= n
    <3>1. \A y \in {MaxLines, n} : MaxLines =< y
      BY <1>1, <2>2
    <3> QED
      BY <1>1, <2>2, <3>1 DEF Min
  <2> QED
    BY <1>1, <2>1, <2>2
<1>4. new = SubSeq(all, 1, k)
  BY DEF PushRow
<1>5. Reverse(old) \in Seq(Lines) /\ Len(Reverse(old)) = n - 1 /\ \A i \in 1..(n - 1) : Reverse(old)[i] = old[n - i]
  <2>1. /\ Reverse(old) \in Seq(Lines) /\ Len(Reverse(old)) = Len(old)
        /\ \A i \in 1..Len(old) : Reverse(old)[i] = old[Len(old) - i + 1]
    BY Reversing
  <2>2. Len(old) = n - 1 /\ \A i \in 1..(n - 1) : Len(old) - i + 1 = n - i
    BY <1>1
  <2> HIDE DEF n
  <2> QED
    BY <2>1, <2>2
<1> HIDE DEF one, new, k, n
<1>6. all \in Seq(Lines) /\ Len(all) = n /\ \A i \in 1..n : all[i] = IF i <= 1 THEN row ELSE old[i - 1]
  <2>1. /\ all \in Seq(Lines) /\ Len(all) = Len(one) + Len(old)
        /\ \A i \in 1..(Len(one) + Len(old)) : all[i] = IF i <= Len(one) THEN one[i] ELSE old[i - Len(one)]
    BY <1>2, ConcatProperties
  <2>2. Len(one) + Len(old) = n /\ \A i \in 1..n : i <= 1 => i = 1
    BY <1>1, <1>2
  <2> HIDE DEF all
  <2> QED
    BY <1>2, <2>1, <2>2
<1>7. full \in Seq(Lines) /\ Len(full) = n /\ \A i \in 1..n : full[i] = IF i <= n - 1 THEN old[n - i] ELSE row
  <2> DEFINE ro == Reverse(old)
  <2>1. ro \in Seq(Lines) /\ Len(ro) = n - 1 /\ \A i \in 1..(n - 1) : ro[i] = old[n - i]
    BY <1>5
  <2> HIDE DEF ro
  <2>2. /\ ro \o one \in Seq(Lines) /\ Len(ro \o one) = Len(ro) + Len(one)
        /\ \A i \in 1..(Len(ro) + Len(one)) : (ro \o one)[i] = IF i <= Len(ro) THEN ro[i] ELSE one[i - Len(ro)]
    BY <1>2, <2>1, ConcatProperties
  <2>3. Len(ro) + Len(one) = n /\ \A i \in 1..n : (i <= n - 1 => i \in 1..(n - 1)) /\ (~(i <= n - 1) => i - (n - 1) = 1)
    BY <1>1, <1>2, <2>1
  <2>4. \A i \in 1..n : (ro \o one)[i] = IF i <= n - 1 THEN old[n - i] ELSE row
    BY <1>2, <2>1, <2>2, <2>3
  <2> QED
    BY <2>2, <2>3, <2>4 DEF ro
<1> HIDE DEF all, full
<1>8. new \in Seq(Lines) /\ Len(new) = k /\ \A i \in 1..k : new[i] = all[i]
  <2>1. \A i \in 1..k : all[i] \in Lines
    BY <1>1, <1>3, <1>6, ElementOfSeq
  <2>2. /\ SubSeq(all, 1, k) \in Seq(Lines) /\ Len(SubSeq(all, 1, k)) = IF 1 <= k THEN k - 1 + 1 ELSE 0
        /\ \A i \in 1..(k - 1 + 1) : SubSeq(all, 1, k)[i] = all[1 + i - 1]
    BY <1>3, <2>1, SubSeqProperties
  <2>3. k - 1 + 1 = k /\ \A i \in 1..k : 1 + i - 1 = i
    BY <1>3
  <2> QED
    BY <1>3, <1>4, <2>2, <2>3
<1>9. kept \in Seq(Lines) /\ Len(kept) = k /\ \A i \in 1..k : kept[i] = new[k - i + 1]
  BY <1>8, Reversing
<1>10. dropped \in Seq(Lines) /\ Len(dropped) = n - k /\ \A i \in 1..(n - k) : dropped[i] = full[i]
  <2> DEFINE d == n - k
  <2>1. d \in Nat /\ d <= n
    BY <1>1, <1>3
  <2> HIDE DEF d
  <2>2. \A i \in 1..d : full[i] \in Lines
    BY <1>1, <1>7, <2>1, ElementOfSeq
  <2>3. /\ SubSeq(full, 1, d) \in Seq(Lines) /\ Len(SubSeq(full, 1, d)) = IF 1 <= d THEN d - 1 + 1 ELSE 0
        /\ \A i \in 1..(d - 1 + 1) : SubSeq(full, 1, d)[i] = full[1 + i - 1]
    BY <2>1, <2>2, SubSeqProperties
  <2>4. d - 1 + 1 = d /\ \A i \in 1..d : 1 + i - 1 = i
    BY <2>1
  <2> QED
    BY <2>1, <2>3, <2>4 DEF d
<1> HIDE DEF dropped, kept
<1>11. dropped \o kept = full
  <2> DEFINE t == dropped \o kept
  <2>1. /\ t \in Seq(Lines) /\ Len(t) = Len(dropped) + Len(kept)
        /\ \A i \in 1..(Len(dropped) + Len(kept)) : t[i] = IF i <= Len(dropped) THEN dropped[i] ELSE kept[i - Len(dropped)]
    BY <1>9, <1>10, ConcatProperties
  <2>2. Len(t) = n
    BY <1>1, <1>3, <1>9, <1>10, <2>1
  <2> HIDE DEF t
  <2>3. ASSUME NEW i \in 1..n
        PROVE  t[i] = full[i]
    <3>1. CASE i <= n - k
      <4>1. i \in 1..(n - k) /\ i <= Len(dropped)
        BY <1>1, <1>3, <1>10, <3>1
      <4> QED
        BY <1>10, <2>1, <2>2, <4>1
    <3>2. CASE ~(i <= n - k)
      <4> DEFINE j == i - (n - k)
      <4>1. j \in 1..k /\ k - j + 1 \in 1..k /\ k - j + 1 = n - i + 1 /\ ~(i <= Len(dropped)) /\ i - Len(dropped) = j
        BY <1>1, <1>3, <1>10, <3>2
      <4>2. t[i] = kept[j] /\ kept[j] = new[k - j + 1] /\ new[k - j + 1] = all[k - j + 1]
        BY <1>8, <1>9, <2>1, <2>2, <4>1
      <4>6. k - j + 1 = n - i + 1
        BY <4>1
      <4>7. t[i] = all[k - j + 1]
        BY <4>2
      <4>3. t[i] = all[n - i + 1] /\ n - i + 1 \in 1..n
        BY <1>1, <4>6, <4>7
      <4>4. (n - i + 1 <= 1) <=> ~(i <= n - 1)
        BY <1>1
      <4>5. (n - i + 1) - 1 = n - i
        BY <1>1
      <4> HIDE DEF j
      <4> QED
        BY <1>6, <1>7, <4>3, <4>4, <4>5
    <3> QED
      BY <3>1, <3>2
  <2>4. t = full
    BY <1>7, <2>1, <2>2, <2>3, SeqEqual
  <2> QED
    BY <2>4 DEF t
<1>12. Len(new) < MaxLines => Len(old) < MaxLines /\ dropped = <<>>
  <2> SUFFICES ASSUME k < MaxLines
               PROVE  Len(old) < MaxLines /\ dropped = <<>>
    BY <1>8
  <2>1. k = n /\ Len(dropped) = 0 /\ Len(old) < MaxLines
    BY <1>1, <1>3, <1>10
  <2> QED
    BY <1>10, <2>1, EmptySeq
<1>13. GivesWay(old, new, row, dropped)
  BY <1>10, <1>11, <1>12 DEF GivesWay, kept, full, one
<1> QED
  BY <1>13 DEF new

\* Nothing is written behind a place of a screen.
Rest(lines, row, end, c, r) ==
  /\ BlankFrom(lines[row + 1], end, c)
  /\ \A j \in (row + 2)..r : BlankFrom(lines[j], 0, c)

\* A scrollback and a screen have what is left of a text.
Leaves(buffer, lines, text, gone) ==
  /\ gone \in Seq(Glyphs) /\ text = gone \o Text(Reverse(buffer) \o lines)
  /\ Len(buffer) < MaxLines => gone = <<>>
Told(buffer, lines, text) == \E gone : Leaves(buffer, lines, text, gone)

\* What a screen says is a text.
LEMMA ScreenTextIsText ==
  ASSUME NEW c \in Nat \ {0}, NEW r \in Nat \ {0}, NEW lines \in Screen(Lines, c, r)
  PROVE  lines \in Seq(Lines) /\ Text(lines) \in Seq(Glyphs)
<1>1. /\ lines \in Seq(Lines \cap Line(c)) /\ Len(lines) = r /\ DOMAIN lines = 1..r
      /\ \A i \in 1..r : lines[i] \in Lines
  BY RowsOfAScreen
<1>2. lines \in Seq(Lines)
  BY <1>1
<1> QED
  BY <1>2, LinesBoth

\* A screen that gains some text tells it.
LEMMA TellingMore ==
  ASSUME NEW c \in Nat \ {0}, NEW r \in Nat \ {0}, NEW lines \in Screen(Lines, c, r), NEW more \in Screen(Lines, c, r),
         NEW buffer \in Seq(Lines), NEW text \in Seq(Glyphs), NEW x \in Seq(Glyphs),
         Text(more) = Text(lines) \o x, Told(buffer, lines, text)
  PROVE  Told(buffer, more, text \o x)
<1>1. PICK gone : Leaves(buffer, lines, text, gone)
  BY DEF Told
<1> DEFINE above == Reverse(buffer)
           a == Text(above)
           b == Text(lines)
<1>2. above \in Seq(Lines) /\ lines \in Seq(Lines) /\ more \in Seq(Lines) /\ b \in Seq(Glyphs)
  BY Reversing, ScreenTextIsText
<1>3. a \in Seq(Glyphs)
  BY <1>2, LinesBoth
<1>4. Text(above \o lines) = a \o b
  BY <1>2, LinesBoth
<1>5. Text(above \o more) = a \o (b \o x)
  BY <1>2, LinesBoth
<1>6. gone \in Seq(Glyphs) /\ text = gone \o Text(above \o lines) /\ (Len(buffer) < MaxLines => gone = <<>>)
  BY <1>1 DEF Leaves
<1> HIDE DEF a, b
<1>7. a \o (b \o x) = (a \o b) \o x
  BY <1>2, <1>3, TextsAssociate
<1>8. a \o b \in Seq(Glyphs)
  BY <1>2, <1>3, ConcatProperties
<1>9. gone \o ((a \o b) \o x) = (gone \o (a \o b)) \o x
  BY <1>6, <1>8, TextsAssociate
<1>10. Leaves(buffer, more, text \o x, gone)
  BY <1>4, <1>5, <1>6, <1>7, <1>9 DEF Leaves
<1> QED
  BY <1>10 DEF Told

\* And one that says the same.
LEMMA TellingTheSame ==
  ASSUME NEW c \in Nat \ {0}, NEW r \in Nat \ {0}, NEW lines \in Screen(Lines, c, r), NEW more \in Screen(Lines, c, r),
         NEW buffer \in Seq(Lines), NEW text \in Seq(Glyphs),
         Text(more) = Text(lines), Told(buffer, lines, text)
  PROVE  Told(buffer, more, text)
<1> DEFINE x == <<>>
<1>1. x \in Seq(Glyphs) /\ Text(lines) \in Seq(Glyphs)
  BY EmptySeq, ScreenTextIsText
<1>2. Text(lines) \o x = Text(lines) /\ text \o x = text
  BY <1>1, TextsAlone
<1> HIDE DEF x
<1>3. Text(more) = Text(lines) \o x
  BY <1>2
<1>4. Told(buffer, more, text \o x)
  BY <1>1, <1>3, TellingMore
<1> QED
  BY <1>2, <1>4

\* A line that says the same.
LEMMA SameRowTells ==
  ASSUME NEW c \in Nat \ {0}, NEW r \in Nat \ {0}, NEW lines \in Screen(Lines, c, r), NEW i \in 1..r, NEW l \in Line(c),
         NEW buffer \in Seq(Lines), NEW text \in Seq(Glyphs),
         RowText(l) = RowText(lines[i]), Told(buffer, lines, text)
  PROVE  WithRow(lines, i, l) \in Screen(Lines, c, r) /\ Told(buffer, WithRow(lines, i, l), text)
<1> DEFINE x == <<>>
           more == WithRow(lines, i, l)
<1>1. lines[i] \in Line(c) /\ l \in Lines
  BY RowsOfAScreen, LinesAreRows
<1>2. more \in Screen(Lines, c, r)
  BY <1>1, RowGivesAScreen DEF WithRow
<1>3. x \in Seq(Glyphs) /\ RowText(lines[i]) \in Seq(Glyphs) /\ Text(lines) \in Seq(Glyphs) /\ x = <<>>
  BY <1>1, EmptySeq, ScreenTextIsText, RowTextIsText
<1>4. RowText(lines[i]) \o x = RowText(lines[i]) /\ Text(lines) \o x = Text(lines)
  BY <1>3, TextsAlone
<1> HIDE DEF x
<1>5. RowText(l) = RowText(lines[i]) \o x
  BY <1>4
<1>6. Text(WithRow(lines, i, l)) = Text(lines) \o x
  <2>1. Adding(lines, i, r, l, x)
    BY <1>3, <1>5 DEF Adding
  <2>2. x \in Seq(Glyphs)
    BY <1>3
  <2> QED
    BY <2>1, <2>2, RowGainsText
<1>7. Text(more) = Text(lines)
  BY <1>4, <1>6
<1> HIDE DEF more
<1>8. Told(buffer, more, text)
  BY <1>2, <1>7, TellingTheSame
<1> QED
  BY <1>2, <1>8 DEF more

\* The flag of a row (soft wraps).
LEMMA WrapTells ==
  ASSUME NEW c \in Nat \ {0}, NEW r \in Nat \ {0}, NEW lines \in Screen(Lines, c, r), NEW row \in 0..(r - 1),
         NEW buffer \in Seq(Lines), NEW text \in Seq(Glyphs), NEW end, Rest(lines, row, end, c, r), Told(buffer, lines, text)
  PROVE  LET m == [lines EXCEPT ![row + 1].wrapped = TRUE]
         IN  m \in Screen(Lines, c, r) /\ Told(buffer, m, text) /\ Rest(m, row, end, c, r)
<1> DEFINE i == row + 1
           l == [lines[i] EXCEPT !.wrapped = TRUE]
           m == [lines EXCEPT ![i] = l]
<1>1. i \in 1..r /\ DOMAIN lines = 1..r /\ lines[i] \in Line(c)
  <2>1. i \in 1..r
    OBVIOUS
  <2> QED
    BY <2>1, RowsOfAScreen
<1>2. l \in Line(c) /\ l.cells = lines[i].cells
  BY <1>1, FlagGivesALine
<1>3. RowText(l) = RowText(lines[i])
  BY <1>1, FlagHasNoText
<1>4. m \in Screen(Lines, c, r) /\ Told(buffer, m, text)
  <2> HIDE DEF i, l
  <2> QED
    BY <1>1, <1>2, <1>3, SameRowTells DEF m, WithRow
<1>5. m[i] = l /\ \A j \in (i + 1)..r : m[j] = lines[j]
  BY <1>1
<1>6. Rest(m, row, end, c, r)
  BY <1>2, <1>5 DEF Rest, BlankFrom
<1>7. m = [lines EXCEPT ![row + 1].wrapped = TRUE]
  OBVIOUS
<1> QED
  BY <1>4, <1>6, <1>7

\* A last column that is empty is emptied (a broad character that finds no room).
LEMMA EmptyingTells ==
  ASSUME NEW c \in Nat \ {0}, NEW r \in Nat \ {0}, NEW lines \in Screen(Lines, c, r), NEW row \in 0..(r - 1),
         NEW buffer \in Seq(Lines), NEW text \in Seq(Glyphs), Rest(lines, row, c - 1, c, r), Told(buffer, lines, text)
  PROVE  LET m == [lines EXCEPT ![row + 1].cells[c - 1] = Blank]
         IN  m \in Screen(Lines, c, r) /\ Told(buffer, m, text) /\ Rest(m, row, c - 1, c, r)
<1> DEFINE i == row + 1
           e == c - 1
           l == [lines[i] EXCEPT !.cells[e] = Blank]
           m == [lines EXCEPT ![i] = l]
<1>1. i \in 1..r /\ DOMAIN lines = 1..r /\ lines[i] \in Line(c) /\ e \in 0..(c - 1)
  <2>1. i \in 1..r /\ e \in 0..(c - 1)
    OBVIOUS
  <2> HIDE DEF i, e
  <2> QED
    BY <2>1, RowsOfAScreen
<1>2. l \in Line(c) /\ \A k \in 0..(c - 1) : l.cells[k] = IF k = e THEN Blank ELSE lines[i].cells[k]
  <2> HIDE DEF i, e
  <2> QED
    BY <1>1, BlankIsACell, CellGivesALine
<1>3. IsBlank(lines[i].cells[e]) /\ IsBlank(l.cells[e]) /\ IsBlank(Blank)
  <2>1. IsBlank(Blank)
    BY DEF IsBlank, Blank
  <2>2. IsBlank(lines[i].cells[e])
    BY <1>1 DEF Rest, BlankFrom
  <2> QED
    BY <1>1, <1>2, <2>1, <2>2
<1>4. RowText(l) = RowText(lines[i])
  <2>1. lines[i].cells[e] \in Cell /\ l.cells[e] \in Cell
    BY <1>1, <1>2 DEF Line
  <2>2. TextIn(lines[i].cells[e]) = <<>> /\ TextIn(l.cells[e]) = <<>>
    BY <1>3, <2>1, BlankHasNoText
  <2> DEFINE old == lines[i]
  <2>3. /\ \A k \in 0..(e - 1) : l.cells[k] = old.cells[k]
        /\ \A k \in e..(c - 1) : TextIn(l.cells[k]) = <<>>
        /\ \A k \in e..(c - 1) : TextIn(old.cells[k]) = <<>>
    <3>1. \A k \in 0..(e - 1) : k \in 0..(c - 1) /\ k # e
      OBVIOUS
    <3>2. \A k \in e..(c - 1) : k = e
      OBVIOUS
    <3> HIDE DEF e, l, old
    <3> QED
      BY <1>2, <2>2, <3>1, <3>2 DEF old
  <2>4. old \in Line(c) /\ e \in 0..c
    BY <1>1
  <2> HIDE DEF l, old, e
  <2>5. RowText(l) = RowText(old)
    BY <1>2, <2>3, <2>4, SameFrontText
  <2> QED
    BY <2>5 DEF old
<1>5. m \in Screen(Lines, c, r) /\ Told(buffer, m, text)
  <2> HIDE DEF i, l
  <2> QED
    BY <1>1, <1>2, <1>4, SameRowTells DEF m, WithRow
<1>6. m[i] = l /\ \A j \in (i + 1)..r : m[j] = lines[j]
  BY <1>1
<1>7. Rest(m, row, e, c, r)
  <2>1. \A k \in e..(c - 1) : k = e
    OBVIOUS
  <2>2. BlankFrom(l, e, c)
    BY <1>3, <2>1 DEF BlankFrom
  <2>3. \A j \in (row + 2)..r : j \in (i + 1)..r
    OBVIOUS
  <2> HIDE DEF m, l, e
  <2> QED
    BY <1>6, <2>2, <2>3 DEF Rest
<1>8. m = [lines EXCEPT ![row + 1].cells[c - 1] = Blank]
  OBVIOUS
<1> QED
  BY <1>5, <1>7, <1>8

\* A character that is put where nothing is written yet comes last in the text.
LEMMA PuttingTells ==
  ASSUME NEW c \in Nat \ {0}, NEW r \in Nat \ {0}, NEW lines \in Screen(Lines, c, r), NEW row \in 0..(r - 1),
         NEW buffer \in Seq(Lines), NEW text \in Seq(Glyphs), NEW at \in Nat, NEW char \in Glyphs \ Zero, NEW style \in Style,
         at + Width(char) <= c, Rest(lines, row, at, c, r), Told(buffer, lines, text)
  PROVE  LET m == [lines EXCEPT ![row + 1] = Put(lines[row + 1], at, char, style)]
         IN  /\ Told(buffer, m, text \o OneLetter(char))
             /\ Rest(m, row, at + Width(char), c, r)
<1> DEFINE i == row + 1
           l == Put(lines[i], at, char, style)
           old == lines[i]
           x == OneLetter(char)
           m == WithRow(lines, i, l)
<1>1. i \in 1..r /\ DOMAIN lines = 1..r /\ old \in Line(c)
  <2>1. i \in 1..r
    OBVIOUS
  <2> QED
    BY <2>1, RowsOfAScreen
<1>2. BlankFrom(old, at, c) /\ \A j \in (row + 2)..r : BlankFrom(lines[j], 0, c)
  BY DEF Rest
<1> HIDE DEF old
<1>3. Put(old, at, char, style) \in Line(c) /\ BlankFrom(Put(old, at, char, style), at + Width(char), c)
  BY <1>1, <1>2, PutOnBlank
<1>4. RowText(Put(old, at, char, style)) = RowText(old) \o x
  BY <1>1, <1>2, PutAddsText
<1>5. x \in Seq(Glyphs)
  <2>1. <<char>> \in Seq(Glyphs)
    OBVIOUS
  <2> HIDE DEF x
  <2> QED
    BY <2>1, LettersBoth DEF x, OneLetter
<1>6. l = Put(old, at, char, style)
  BY DEF old
<1>7. NothingBelow(lines, i, r)
  <2> USE DEF NothingBelow
  <2> TAKE j \in (i + 1)..r
  <2>1. j \in 1..r /\ j \in (row + 2)..r
    BY <1>1
  <2>2. lines[j] \in Line(c) /\ BlankFrom(lines[j], 0, c)
    BY <1>2, <2>1, RowsOfAScreen
  <2> QED
    BY <2>2, BlankRowText
<1> HIDE DEF l, x
<1>8. l \in Line(c) /\ RowText(l) = RowText(lines[i]) \o x /\ l \in Lines
  BY <1>3, <1>4, <1>6, LinesAreRows DEF old
<1>9. m \in Screen(Lines, c, r)
  BY <1>1, <1>8, RowGivesAScreen DEF WithRow
<1>10. m[i] = l /\ \A j \in (i + 1)..r : m[j] = lines[j]
  BY <1>1 DEF WithRow
<1>11. Text(WithRow(lines, i, l)) = Text(lines) \o x
  <2> HIDE DEF i, m
  <2>1. Adding(lines, i, r, l, x)
    BY <1>7, <1>8 DEF Adding
  <2>2. i \in 1..r /\ l \in Line(c)
    BY <1>1, <1>8
  <2> QED
    BY <1>5, <2>1, <2>2, RowGainsText
<1> HIDE DEF m
<1>12. Told(buffer, m, text \o x)
  BY <1>5, <1>9, <1>11, TellingMore DEF m
<1>13. Rest(m, row, at + Width(char), c, r)
  <2>1. \A j \in (row + 2)..r : j \in (i + 1)..r
    OBVIOUS
  <2>2. m[row + 1] = l
    BY <1>10
  <2> QED
    BY <1>2, <1>3, <1>6, <1>10, <2>1, <2>2 DEF Rest
<1>14. m = [lines EXCEPT ![row + 1] = Put(lines[row + 1], at, char, style)]
  BY DEF m, l, WithRow
<1> QED
  BY <1>12, <1>13, <1>14 DEF x

\* A line that scrolls off the top of the whole screen.
OneUp(lines, next, r, c) ==
  /\ next \in Screen(Lines, c, r) /\ next[r] = NewRow(c)
  /\ Text(next) = Text(SubSeq(lines, 2, r))
LEMMA ScrolledByOne ==
  ASSUME Shape, region = FullRegion(rows), NEW lines \in Screen(Lines, cols, rows)
  PROVE  OneUp(lines, ScrolledUp(lines, 1), rows, cols)
<1> DEFINE next == ScrolledUp(lines, 1)
           rest == SubSeq(lines, 2, rows)
           one == <<NewRow(cols)>>
           blank == NewScreen(cols, 1)
<1>1. /\ cols \in Nat \ {0} /\ rows \in Nat \ {0} /\ region.top = 0 /\ region.bottom = rows - 1
  BY FullRegionFits DEF Shape
<1>2. Moving(1) = 1
  <2> DEFINE n == rows - 1 - 0 + 1
  <2>1. n = rows /\ \A y \in {1, n} : 1 =< y
    BY <1>1
  <2> HIDE DEF n
  <2>2. Min({1, n}) = 1
    BY <2>1 DEF Min
  <2> QED
    BY <1>1, <2>2 DEF Moving, n
<1>3. next \in Screen(Lines, cols, rows)
  BY LinesAreClosed, ScrollingKeepsScreens DEF Closed
<1>4. lines \in Seq(Lines) /\ Len(lines) = rows
  <2>1. lines \in Seq(Lines)
    BY <1>1, ScreenTextIsText
  <2> QED
    BY <2>1, RowsOfAScreen
<1>5. rest \in Seq(Lines) /\ Len(rest) = rows - 1
  BY <1>1, <1>4, SomeRows
<1>6. NewRow(cols) \in Line(cols) /\ NewRow(cols) \in Lines
  BY <1>1, NewRowIsALine, LinesAreRows
<1>7. blank = one
  BY DEF NewScreen
<1>8. one \in Seq(Lines) /\ Len(one) = 1 /\ one[1] = NewRow(cols)
  BY <1>6
<1>9. next = rest \o one
  <2>1. SubSeq(lines, 1, 0) = <<>> /\ SubSeq(lines, rows + 1, rows) = <<>>
    BY <1>1, <1>4, SubSeqEmpty
  <2>2. /\ region.top + Moving(1) + 1 = 2 /\ region.bottom + 1 = rows /\ region.bottom + 2 = rows + 1
    BY <1>1, <1>2
  <2>3. next = SubSeq(lines, 1, 0) \o rest \o blank \o SubSeq(lines, rows + 1, rows)
    BY <1>1, <1>2, <1>4, <2>2 DEF ScrolledUp
  <2> HIDE DEF rest, one, blank, next
  <2>4. rest \o one \in Seq(Lines)
    BY <1>5, <1>8, ConcatProperties
  <2>5. <<>> \o rest = rest /\ (rest \o one) \o <<>> = rest \o one
    BY <1>5, <2>4, ConcatEmptySeq
  <2> QED
    BY <1>7, <2>1, <2>3, <2>5
<1> HIDE DEF rest, one, next, blank
<1>10. next[rows] = NewRow(cols)
  <2>1. Len(rest) + 1 = rows /\ rows \in 1..(Len(rest) + Len(one)) /\ ~(rows <= Len(rest)) /\ rows - Len(rest) = 1
    BY <1>1, <1>5, <1>8
  <2>2. (rest \o one)[rows] = one[rows - Len(rest)]
    BY <1>5, <1>8, <2>1, ConcatProperties
  <2> QED
    BY <1>8, <1>9, <2>1, <2>2
<1>11. Text(next) = Text(rest)
  <2>1. RowText(NewRow(cols)) = <<>>
    <3>1. BlankFrom(NewRow(cols), 0, cols)
      BY DEF BlankFrom, NewRow, IsBlank, Blank
    <3> QED
      BY <1>1, <1>6, <3>1, BlankRowText
  <2>2. Text(one) = <<>>
    BY <1>6, <2>1, OneRowText DEF one
  <2>3. Text(next) = Text(rest) \o Text(one)
    BY <1>5, <1>8, <1>9, LinesBoth
  <2>4. Text(rest) \in Seq(Glyphs)
    BY <1>5, LinesBoth
  <2> QED
    BY <2>2, <2>3, <2>4, TextsAlone
<1> QED
  BY <1>3, <1>10, <1>11 DEF OneUp, next, rest

\* And goes to the scrollback.
LEMMA CapturedOne ==
  ASSUME Shape, region = FullRegion(rows), alternate = <<>>, NEW lines \in Screen(Lines, cols, rows)
  PROVE  Captured(lines, 1) = PushRow(scrollback, lines[1], MaxLines)
<1> DEFINE first == SubSeq(lines, 1, 1)
<1>1. /\ cols \in Nat \ {0} /\ rows \in Nat \ {0} /\ region.top = 0 /\ region.bottom = rows - 1
  BY FullRegionFits DEF Shape
<1>2. Moving(1) = 1
  <2> DEFINE n == rows - 1 - 0 + 1
  <2>1. n = rows /\ \A y \in {1, n} : 1 =< y
    BY <1>1
  <2> HIDE DEF n
  <2>2. Min({1, n}) = 1
    BY <2>1 DEF Min
  <2> QED
    BY <1>1, <2>2 DEF Moving, n
<1>3. lines \in Seq(Lines) /\ Len(lines) = rows
  <2>1. lines \in Seq(Lines)
    BY <1>1, ScreenTextIsText
  <2> QED
    BY <2>1, RowsOfAScreen
<1>4. first \in Seq(Lines) /\ Len(first) = 1 /\ first[1] = lines[1] /\ DOMAIN first = 1..1
  <2>1. first \in Seq(Lines) /\ Len(first) = 1
    BY <1>1, <1>3, SomeRows
  <2> QED
    BY <1>1, <1>3, <2>1, SubSeqProperties
<1>5. Captured(lines, 1) = PushAll(scrollback, first)
  BY <1>2 DEF Captured, PushAll
<1> HIDE DEF first
<1>6. PICK p : Pushes(scrollback, first, p) /\ p[Len(first)] = PushAll(scrollback, first)
  <2>1. Len(first) \in Nat /\ DOMAIN first = 1..Len(first)
    BY <1>4
  <2> QED
    BY <2>1, PushesExist
<1>7. p[0] = scrollback /\ \A k \in 1..1 : p[k] = PushRow(p[k - 1], first[k], MaxLines)
  BY <1>4, <1>6 DEF Pushes
<1>8. p[1] = PushRow(scrollback, lines[1], MaxLines)
  BY <1>4, <1>7
<1> QED
  BY <1>4, <1>5, <1>6, <1>8

\* What a row and the history above it have of a text, before and after the row is
\* pushed.
LEMMA PushingTells ==
  ASSUME NEW old \in Seq(Lines), NEW row \in Lines, NEW rest \in Seq(Lines), NEW lines \in Seq(Lines), NEW next \in Seq(Lines),
         Text(lines) = RowText(row) \o Text(rest), Text(next) = Text(rest),
         NEW text \in Seq(Glyphs), Told(old, lines, text)
  PROVE  Told(PushRow(old, row, MaxLines), next, text)
<1> DEFINE new == PushRow(old, row, MaxLines)
           one == <<row>>
           above == Reverse(old)
           behind == Reverse(new)
<1>1. PICK gone : Leaves(old, lines, text, gone)
  BY DEF Told
<1>2. PICK dropped : GivesWay(old, new, row, dropped)
  BY PushedComesLast
<1>3. /\ gone \in Seq(Glyphs) /\ text = gone \o Text(above \o lines) /\ (Len(old) < MaxLines => gone = <<>>)
      /\ dropped \in Seq(Lines) /\ dropped \o behind = above \o one
      /\ Len(new) < MaxLines => Len(old) < MaxLines /\ dropped = <<>>
  BY <1>1, <1>2 DEF Leaves, GivesWay
<1>4. one \in Seq(Lines) /\ new \in Seq(Lines)
  BY PushingARow
<1>5. above \in Seq(Lines) /\ behind \in Seq(Lines)
  <2> HIDE DEF new
  <2> QED
    BY <1>4, Reversing
<1> DEFINE a == Text(above)
           w == RowText(row)
           b == Text(rest)
           d == Text(dropped)
           n == Text(behind)
<1>6. Text(one) = w /\ Text(one) \in Seq(Glyphs)
  BY <1>4, OneRowText, LinesBoth
<1> HIDE DEF new, one, above, behind
<1>7. a \in Seq(Glyphs) /\ w \in Seq(Glyphs) /\ b \in Seq(Glyphs) /\ d \in Seq(Glyphs) /\ n \in Seq(Glyphs)
  BY <1>3, <1>5, <1>6, LinesBoth
<1>8. d \o n = a \o w
  <2>1. Text(dropped \o behind) = d \o n
    BY <1>3, <1>5, LinesBoth
  <2>2. Text(above \o one) = a \o Text(one)
    BY <1>4, <1>5, LinesBoth
  <2> QED
    BY <1>3, <1>6, <2>1, <2>2
<1>9. Text(above \o lines) = a \o (w \o b) /\ Text(behind \o next) = n \o b
  <2>1. Text(above \o lines) = a \o Text(lines)
    BY <1>5, LinesBoth
  <2>2. Text(behind \o next) = n \o Text(next)
    BY <1>5, LinesBoth
  <2> QED
    BY <2>1, <2>2
<1>10. (dropped = <<>> => d = <<>>)
  BY NoText
<1> HIDE DEF a, w, b, d, n
<1>11. a \o (w \o b) = (a \o w) \o b
  BY <1>7, TextsAssociate
<1>12. (d \o n) \o b = d \o (n \o b)
  BY <1>7, TextsAssociate
<1>13. n \o b \in Seq(Glyphs) /\ gone \o d \in Seq(Glyphs)
  BY <1>3, <1>7, ConcatProperties
<1>14. gone \o (d \o (n \o b)) = (gone \o d) \o (n \o b)
  <2> DEFINE z == n \o b
  <2>1. z \in Seq(Glyphs) /\ gone \in Seq(Glyphs) /\ d \in Seq(Glyphs)
    BY <1>3, <1>7, <1>13
  <2> HIDE DEF z
  <2>2. gone \o (d \o z) = (gone \o d) \o z
    BY <2>1, TextsAssociate
  <2> QED
    BY <2>2 DEF z
<1>15. text = (gone \o d) \o Text(behind \o next)
  BY <1>3, <1>8, <1>9, <1>11, <1>12, <1>14
<1>16. ASSUME Len(new) < MaxLines
       PROVE  gone \o d = <<>>
  <2>1. gone = <<>> /\ d = <<>> /\ gone \o d = gone
    BY <1>3, <1>10, <1>16, TextsAlone
  <2> QED
    BY <2>1
<1>17. Leaves(new, next, text, gone \o d)
  BY <1>13, <1>15, <1>16 DEF Leaves, behind
<1> QED
  BY <1>17 DEF Told, new

\* A line that scrolls off takes its text to the scrollback (scroll_up_in_region).
LEMMA ScrollingTells ==
  ASSUME Shape, region = FullRegion(rows), alternate = <<>>, scrollback \in Seq(Lines),
         NEW lines \in Screen(Lines, cols, rows), NEW text \in Seq(Glyphs), Told(scrollback, lines, text)
  PROVE  LET next == ScrolledUp(lines, 1)
         IN  /\ next \in Screen(Lines, cols, rows)
             /\ Told(Captured(lines, 1), next, text) /\ Rest(next, rows - 1, 0, cols, rows)
<1> DEFINE next == ScrolledUp(lines, 1)
           rest == SubSeq(lines, 2, rows)
           row == lines[1]
           new == PushRow(scrollback, row, MaxLines)
<1>1. cols \in Nat \ {0} /\ rows \in Nat \ {0} /\ 1 \in 1..rows
  BY DEF Shape
<1>2. next \in Screen(Lines, cols, rows) /\ next[rows] = NewRow(cols) /\ Text(next) = Text(rest)
  BY ScrolledByOne DEF OneUp
<1>3. Captured(lines, 1) = new
  BY CapturedOne
<1>4. row \in Lines /\ row \in Line(cols)
  BY <1>1, RowsOfAScreen
<1>5. lines \in Seq(Lines) /\ next \in Seq(Lines)
  <2> HIDE DEF next
  <2> QED
    BY <1>1, <1>2, ScreenTextIsText
<1>6. AroundRow(lines, 1, rows, Above(lines, 1), Below(lines, 1, rows))
  BY <1>1, PartsOfAScreen
<1>7. Above(lines, 1) = <<>> /\ Below(lines, 1, rows) = rest
  <2>1. SubSeq(lines, 1, 0) = <<>>
    BY <1>5, SubSeqEmpty
  <2> QED
    BY <2>1 DEF Above, Below
<1>8. rest \in Seq(Lines) /\ Text(lines) = (Text(<<>>) \o RowText(row)) \o Text(rest)
  BY <1>6, <1>7 DEF AroundRow
<1>9. Text(<<>>) \o RowText(row) = RowText(row)
  <2>1. RowText(row) \in Seq(Glyphs)
    BY <1>1, <1>4, RowTextIsText
  <2>2. Text(<<>>) = <<>>
    BY NoText
  <2> HIDE DEF row
  <2> QED
    BY <2>1, <2>2, TextsAlone
<1> HIDE DEF next, rest, row
<1>10. Told(new, next, text)
  <2>1. Text(lines) = RowText(row) \o Text(rest)
    BY <1>8, <1>9
  <2> QED
    BY <1>2, <1>4, <1>5, <1>8, <2>1, PushingTells
<1>11. Rest(next, rows - 1, 0, cols, rows)
  <2>1. BlankFrom(NewRow(cols), 0, cols)
    BY DEF BlankFrom, NewRow, IsBlank, Blank
  <2>2. (rows - 1) + 1 = rows /\ (rows - 1 + 2)..rows = {}
    BY <1>1
  <2> QED
    BY <1>2, <2>1, <2>2 DEF Rest
<1> QED
  BY <1>2, <1>3, <1>10, <1>11 DEF next

\* Nothing is written behind a place further on.
LEMMA RestShrinks ==
  ASSUME NEW lines, NEW row, NEW c \in Nat, NEW r, NEW from \in Nat, NEW to \in Nat, from <= to, Rest(lines, row, from, c, r)
  PROVE  Rest(lines, row, to, c, r)
<1>1. \A k \in to..(c - 1) : k \in from..(c - 1)
  OBVIOUS
<1> QED
  BY <1>1 DEF Rest, BlankFrom

\* Nor in the next row.
LEMMA RestBelow ==
  ASSUME NEW lines, NEW row \in Nat, NEW c \in Nat, NEW r \in Nat, NEW end, row + 1 < r, Rest(lines, row, end, c, r)
  PROVE  Rest(lines, row + 1, 0, c, r)
<1>1. (row + 1) + 1 \in (row + 2)..r /\ \A j \in ((row + 1) + 2)..r : j \in (row + 2)..r
  OBVIOUS
<1> QED
  BY <1>1 DEF Rest

\* A program that writes lines and does nothing else, on a pane of two columns or more.
OnlyWrites == repertoire \subseteq {"PRINT", "LF", "CHARSET"} /\ cols > 1

\* Where the text ends; a pending wrap leaves the cursor on its last character.
EndCol == IF cursor.pending THEN cols ELSE cursor.col

\* The inductive invariant of such a program: on the whole of the primary screen, with
\* nothing written behind the cursor, the history tells what was typed.
Story ==
  /\ alternate = <<>> /\ region = FullRegion(rows) /\ "AUTO_WRAP" \in modes /\ CursorFits
  /\ Rest(visible, cursor.row, EndCol, cols, rows)
  /\ Told(scrollback, visible, WithoutSpaces(typed))
Writing == OnlyWrites => Story

\* One more character.
LEMMA OneMoreLetter ==
  ASSUME NEW text \in Seq(Glyphs), NEW char \in Glyphs
  PROVE  WithoutSpaces(Append(text, char)) = WithoutSpaces(text) \o OneLetter(char)
<1> DEFINE one == <<char>>
<1>1. one \in Seq(Glyphs) /\ Append(text, char) = text \o one
  BY AppendIsConcat
<1> HIDE DEF one
<1>2. WithoutSpaces(text \o one) = WithoutSpaces(text) \o WithoutSpaces(one)
  BY <1>1, LettersBoth
<1> QED
  BY <1>1, <1>2 DEF one, OneLetter

\* write_char puts its character behind all that is written, whether it wraps and
\* scrolls or not.
LEMMA WriteTells ==
  ASSUME Typed, cols > 1, Story, NEW char \in Glyphs \ Zero, Write(char)
  PROVE  Story'
<1>1. CASE Panic
  BY <1>1 DEF Panic, Story, EndCol, CursorFits, geometry, content, settings
<1>2. CASE ~Panic
  <2> DEFINE autoWrap == "AUTO_WRAP" \in modes
             width == Width(char)
             resolves == cursor.pending /\ autoWrap
             col == IF ~cursor.pending THEN cursor.col ELSE IF autoWrap THEN 0 ELSE cols - 1
             noRoom == width = 2 /\ col + 1 >= cols
             givesUp == noRoom /\ (cols = 1 \/ ~autoWrap)
             wraps == resolves \/ (noRoom /\ ~givesUp)
             row == IF wraps THEN NextRow ELSE cursor.row
             filled == IF noRoom /\ ~resolves THEN Reset(visible, cursor.row, col) ELSE visible
             marked == IF wraps THEN SoftWrap(filled) ELSE filled
             scrolls == wraps /\ AtBottom
             moved == IF scrolls THEN ScrolledUp(marked, 1) ELSE marked
             at == IF wraps THEN 0 ELSE col
             right == at + width
             put == Put(moved[row + 1], at, char, cursor.style)
             S == Screen(Lines, cols, rows)
             text == WithoutSpaces(typed)
             buffer == IF scrolls THEN Captured(marked, 1) ELSE scrollback
             newCol == IF givesUp THEN at ELSE Clamp(right, cols)
             waits == ~givesUp /\ right >= cols
             from == cursor.row
  <2>1. /\ ~(from >= rows \/ col >= cols)
        /\ visible' = IF ~givesUp THEN [moved EXCEPT ![row + 1] = put]
                      ELSE IF resolves THEN Reset(moved, row, 0) ELSE moved
        /\ scrollback' = buffer
        /\ cursor' = [cursor EXCEPT !.row = row, !.col = newCol, !.pending = waits]
        /\ typed' = Append(typed, char)
    BY <1>2 DEF Write
  <2>2. UNCHANGED <<cols, rows, region, modes, alternate>>
    BY <1>2 DEF Write, geometry, settings
  <2>3. /\ alternate = <<>> /\ region = FullRegion(rows) /\ autoWrap
        /\ cursor.col < cols /\ from < rows /\ Rest(visible, from, EndCol, cols, rows)
        /\ Told(scrollback, visible, text)
    BY DEF Story, CursorFits
  <2>4. /\ cols \in Nat \ {0} /\ rows \in Nat \ {0} /\ cursor.col \in Nat /\ from \in Nat
        /\ region.bottom = rows - 1 /\ IsCursor(cursor) /\ Shape /\ cursor.style \in Style /\ cursor.pending \in BOOLEAN
    BY <2>3, CursorIsPlace, FullRegionFits DEF Typed, Shape, Pens, Inked
  <2>5. visible \in S /\ scrollback \in Seq(Lines) /\ typed \in Seq(Glyphs) /\ text \in Seq(Glyphs)
    BY LettersBoth DEF Typed, Kept, Books
  <2>6. /\ ~givesUp /\ width \in 1..2 /\ col \in Nat /\ col < cols
        /\ ~cursor.pending => col = cursor.col /\ EndCol = col
        /\ resolves <=> cursor.pending
    BY <2>1, <2>3, <2>4 DEF Width, EndCol
  <2>8. AtBottom <=> from = rows - 1
    BY <2>4 DEF AtBottom
  <2> HIDE DEF col, width, autoWrap, text, from
  <2>7. at \in Nat /\ right <= cols /\ (noRoom => col = cols - 1) /\ from \in 0..(rows - 1)
    BY <2>3, <2>4, <2>6
  <2>9. /\ filled \in S /\ Told(scrollback, filled, text) /\ Rest(filled, from, EndCol, cols, rows)
    <3>1. CASE noRoom /\ ~resolves
      <4>1. Rest(visible, from, cols - 1, cols, rows)
        BY <2>3, <2>6, <2>7, <3>1
      <4>2. filled = [visible EXCEPT ![from + 1].cells[cols - 1] = Blank]
        BY <2>7, <3>1 DEF Reset, from
      <4>3. EndCol = cols - 1
        BY <2>6, <2>7, <3>1
      <4> HIDE DEF filled
      <4> QED
        BY <2>3, <2>4, <2>5, <2>7, <4>1, <4>2, <4>3, EmptyingTells
    <3>2. CASE ~(noRoom /\ ~resolves)
      BY <2>3, <2>5, <3>2
    <3> QED
      BY <3>1, <3>2
  <2> HIDE DEF filled
  <2>10. marked \in S /\ Told(scrollback, marked, text) /\ Rest(marked, from, EndCol, cols, rows)
    <3>1. CASE wraps
      <4> DEFINE m == [filled EXCEPT ![from + 1].wrapped = TRUE]
      <4>1. m \in S /\ Told(scrollback, m, text) /\ Rest(m, from, EndCol, cols, rows)
        BY <2>4, <2>5, <2>7, <2>9, WrapTells
      <4> QED
        BY <3>1, <4>1 DEF SoftWrap, from
    <3>2. CASE ~wraps
      BY <2>9, <3>2
    <3> QED
      BY <3>1, <3>2
  <2> HIDE DEF marked
  <2>11. /\ moved \in S /\ Told(buffer, moved, text) /\ Rest(moved, row, at, cols, rows)
         /\ row \in 0..(rows - 1) /\ buffer \in Seq(Lines)
    <3>1. CASE scrolls
      <4> DEFINE next == ScrolledUp(marked, 1)
      <4>1. next \in S /\ Told(Captured(marked, 1), next, text) /\ Rest(next, rows - 1, 0, cols, rows)
        BY <2>3, <2>4, <2>5, <2>10, ScrollingTells
      <4>2. Captured(marked, 1) \in Seq(Lines)
        BY <2>4, <2>10, CapturingKeepsRows, LinesAreClosed DEF Typed, Kept
      <4>3. row = rows - 1 /\ at = 0 /\ moved = next /\ buffer = Captured(marked, 1)
        BY <2>8, <3>1 DEF NextRow, from
      <4> HIDE DEF next, row, at, moved, buffer
      <4> QED
        BY <2>4, <4>1, <4>2, <4>3
    <3>2. CASE wraps /\ ~AtBottom
      <4>1. row = from + 1 /\ row < rows /\ at = 0 /\ moved = marked /\ buffer = scrollback
        BY <2>4, <2>7, <2>8, <3>2 DEF NextRow, from
      <4>2. Rest(marked, from + 1, 0, cols, rows)
        BY <2>4, <2>7, <2>8, <2>10, <4>1, RestBelow
      <4> HIDE DEF row, at, moved, buffer
      <4> QED
        BY <2>4, <2>5, <2>10, <4>1, <4>2
    <3>3. CASE ~wraps
      <4>1. row = from /\ at = col /\ moved = marked /\ buffer = scrollback
        BY <3>3 DEF from
      <4>2. EndCol = col
        BY <2>6, <3>3
      <4> HIDE DEF row, at, moved, buffer
      <4> QED
        BY <2>5, <2>7, <2>10, <4>1, <4>2
    <3> QED
      BY <3>1, <3>2, <3>3
  <2> DEFINE m == [moved EXCEPT ![row + 1] = Put(moved[row + 1], at, char, cursor.style)]
  <2>12. visible' = m /\ newCol = Clamp(right, cols) /\ waits \in BOOLEAN /\ (waits <=> right >= cols)
    BY <2>1, <2>6
  <2>13. right = at + Width(char)
    BY DEF width
  <2> HIDE DEF moved, row, at, buffer, newCol, waits
  <2>14. Told(buffer, m, text \o OneLetter(char)) /\ Rest(m, row, right, cols, rows)
    BY <2>4, <2>5, <2>7, <2>11, <2>13, PuttingTells
  <2> HIDE DEF m, right
  <2>15. PICK T : cursor \in Cursors(T) /\ waits \in T
    BY <2>4, OneMore
  <2>16. cursor'.row = row /\ cursor'.col = newCol /\ cursor'.pending = waits
    BY <2>1, <2>15 DEF Cursors
  <2>17. right \in Nat /\ right <= cols
    BY <2>6, <2>7 DEF right
  <2>18. EndCol' = right
    <3>1. CASE waits
      <4>1. cursor'.pending = TRUE /\ right = cols
        BY <2>4, <2>12, <2>16, <2>17, <3>1
      <4> QED
        BY <2>2, <4>1 DEF EndCol
    <3>2. CASE ~waits
      <4>1. cursor'.pending = FALSE /\ newCol = right
        BY <2>4, <2>12, <2>16, <2>17, <3>2 DEF Clamp
      <4> QED
        BY <2>16, <4>1 DEF EndCol
    <3> QED
      BY <3>1, <3>2
  <2>19. CursorFits'
    <3>1. newCol < cols
      BY <2>4, <2>12, Clamping
    <3> QED
      BY <2>2, <2>4, <2>11, <2>16, <3>1 DEF CursorFits
  <2>20. WithoutSpaces(typed') = text \o OneLetter(char)
    BY <2>1, <2>5, OneMoreLetter DEF text
  <2> QED
    BY <2>1, <2>2, <2>3, <2>12, <2>14, <2>16, <2>18, <2>19, <2>20 DEF Story, autoWrap
<1> QED
  BY <1>1, <1>2

\* A cursor that is sent to a place on the screen.
LEMMA AtThePlace ==
  ASSUME Shape, NEW col \in Nat, NEW row \in Nat, col < cols, row < rows
  PROVE  At(col, row).col = col /\ At(col, row).row = row /\ At(col, row).pending = FALSE
<1>1. Clamp(col, cols) = col /\ Clamp(row, rows) = row
  BY DEF Clamp, Shape
<1>2. PICK T : cursor \in Cursors(T)
  BY DEF Shape, IsCursor
<1> QED
  BY <1>1, <1>2 DEF At, Cursors

\* A line feed puts the cursor where nothing is written yet.
LEMMA LineFeedTells ==
  ASSUME Typed, Story, LineFeed
  PROVE  Story'
<1> DEFINE text == WithoutSpaces(typed)
           col == cursor.col
           row == cursor.row
<1>1. /\ alternate = <<>> /\ region = FullRegion(rows) /\ col < cols /\ row < rows
      /\ "AUTO_WRAP" \in modes /\ Rest(visible, row, EndCol, cols, rows) /\ Told(scrollback, visible, text)
  BY DEF Story, CursorFits
<1>2. /\ cols \in Nat \ {0} /\ rows \in Nat \ {0} /\ col \in Nat /\ row \in Nat
      /\ region.bottom = rows - 1 /\ Shape
  BY <1>1, CursorIsPlace, FullRegionFits DEF Typed, Shape
<1>3. visible \in Screen(Lines, cols, rows) /\ scrollback \in Seq(Lines) /\ text \in Seq(Glyphs)
  BY LettersBoth DEF Typed, Kept, Books
<1> HIDE DEF text, col, row
<1>4. CASE AtBottom /\ ScrollUp(1) /\ cursor' = At(cursor.col, cursor.row)
           /\ UNCHANGED <<repertoire, geometry, saved, settings, alternate, panicked, typed>>
  <2>1. visible' = ScrolledUp(visible, 1) /\ scrollback' = Captured(visible, 1)
        /\ UNCHANGED <<cols, rows, region, modes, alternate, typed>>
    BY <1>4 DEF ScrollUp, geometry, settings
  <2>2. row = rows - 1
    BY <1>2, <1>4 DEF AtBottom, row
  <2>3. Told(scrollback', visible', text) /\ Rest(visible', rows - 1, 0, cols, rows)
    BY <1>1, <1>2, <1>3, <2>1, ScrollingTells
  <2>4. cursor'.col = col /\ cursor'.row = row /\ cursor'.pending = FALSE
    BY <1>1, <1>2, <1>4, AtThePlace DEF col, row
  <2>5. EndCol' = col
    BY <2>4 DEF EndCol
  <2>6. Rest(visible', row, col, cols, rows)
    BY <1>2, <2>2, <2>3, RestShrinks
  <2> QED
    BY <1>1, <2>1, <2>3, <2>4, <2>5, <2>6 DEF Story, CursorFits, text
<1>5. CASE cursor.row + 1 < rows /\ SetCursor(cursor.col, cursor.row + 1)
  <2>1. cursor' = At(col, row + 1) /\ row + 1 < rows
        /\ UNCHANGED <<cols, rows, visible, scrollback, region, modes, alternate, typed>>
    BY <1>5 DEF SetCursor, others, geometry, content, settings, col, row
  <2>2. cursor'.col = col /\ cursor'.row = row + 1 /\ cursor'.pending = FALSE
    <3> DEFINE next == row + 1
    <3>1. next \in Nat /\ next < rows /\ cursor' = At(col, next)
      BY <1>2, <2>1
    <3> HIDE DEF next
    <3>2. At(col, next).col = col /\ At(col, next).row = next /\ At(col, next).pending = FALSE
      BY <1>1, <1>2, <3>1, AtThePlace
    <3> QED
      BY <3>1, <3>2 DEF next
  <2>3. EndCol' = col
    BY <2>2 DEF EndCol
  <2>4. Rest(visible, row + 1, 0, cols, rows)
    BY <1>1, <1>2, <2>1, RestBelow
  <2>5. Rest(visible, row + 1, col, cols, rows)
    BY <1>2, <2>4, RestShrinks
  <2> QED
    BY <1>1, <2>1, <2>2, <2>3, <2>5 DEF Story, CursorFits, text
<1> QED
  BY <1>4, <1>5 DEF LineFeed

\* Such a program does three things.
LEMMA OnlyThreeThings ==
  ASSUME repertoire \subseteq {"PRINT", "LF", "CHARSET"}, [Next]_vars
  PROVE  PrintChar \/ LineFeed \/ SelectCharset \/ UNCHANGED vars
<1>1. \A operation : Uses(operation) => operation \in {"PRINT", "LF", "CHARSET"}
  BY DEF Uses
<1> QED
  BY <1>1 DEF Next, Mark, Backspace, CarriageReturn, ReverseIndex, Tab, TabStop,
       CursorMovement, CursorPosition, SaveCursor, RestoreCursor, EraseInDisplay, EraseInLine,
       EraseChars, Scroll, SetMargins, PrivateMode, EnterAlternate, LeaveAlternate,
       SelectGraphicRendition, Resize

\* Each of them goes on with the story.
LEMMA WritingGoesOn ==
  ASSUME Typed, Writing, [Next]_vars
  PROVE  Writing'
<1> SUFFICES ASSUME OnlyWrites' PROVE Story'
  BY DEF Writing
<1>1. repertoire' = repertoire
  BY RepertoiresStay
<1>2. repertoire \subseteq {"PRINT", "LF", "CHARSET"}
  BY <1>1 DEF OnlyWrites
<1>3. PrintChar \/ LineFeed \/ SelectCharset \/ UNCHANGED vars
  BY <1>2, OnlyThreeThings
<1>4. cols' = cols
  BY <1>3 DEF PrintChar, Write, Panic, LineFeed, SetCursor, others, SelectCharset, vars, geometry
<1>5. cols > 1 /\ Story
  BY <1>1, <1>4 DEF OnlyWrites, Writing
<1>6. CASE PrintChar
  <2>1. PICK char \in Narrow \cup Broad : Write(Glyph(char))
    BY <1>6 DEF PrintChar
  <2> DEFINE glyph == Glyph(char)
  <2>2. glyph \in Glyphs \ Zero /\ Write(glyph)
    BY <2>1, GlyphsArePrinted
  <2> HIDE DEF glyph
  <2> QED
    BY <1>5, <2>2, WriteTells
<1>7. CASE LineFeed
  BY <1>5, <1>7, LineFeedTells
<1>8. CASE SelectCharset \/ UNCHANGED vars
  <2>1. UNCHANGED <<cols, rows, visible, scrollback, cursor, region, modes, alternate, typed>>
    BY <1>8 DEF SelectCharset, vars, geometry, content, settings
  <2> QED
    BY <1>5, <2>1 DEF Story, EndCol, CursorFits
<1> QED
  BY <1>3, <1>6, <1>7, <1>8

\* It begins with an empty page (Grid::new).
LEMMA StoryAtFirst == Init => Story
<1> SUFFICES ASSUME Init PROVE Story
  OBVIOUS
<1>1. Typed
  BY ShapeAtFirst, BooksAtFirst, LinesAreClosed, ContentAtFirst DEF Typed, Closed
<1>2. /\ cols \in Nat \ {0} /\ rows \in Nat \ {0} /\ visible \in Screen(Lines, cols, rows)
      /\ visible = NewScreen(cols, rows) /\ scrollback = <<>> /\ typed = <<>> /\ cursor = HomeCursor
      /\ alternate = <<>> /\ region = FullRegion(rows) /\ "AUTO_WRAP" \in modes
  BY <1>1 DEF Typed, Shape, Kept, Init
<1>3. cursor.row = 0 /\ cursor.col = 0 /\ cursor.pending = FALSE /\ CursorFits /\ EndCol = 0
  BY <1>2 DEF HomeCursor, CursorFits, EndCol
<1>4. \A i \in 1..rows : BlankFrom(visible[i], 0, cols)
  BY <1>2 DEF BlankFrom, NewScreen, NewRow, IsBlank, Blank
<1>5. Rest(visible, 0, 0, cols, rows)
  <2>1. 0 + 1 \in 1..rows /\ \A j \in (0 + 2)..rows : j \in 1..rows
    BY <1>2
  <2> QED
    BY <1>4, <2>1 DEF Rest
<1>6. visible \in Seq(Lines) /\ Len(visible) = rows
  <2>1. visible \in Seq(Lines)
    BY <1>2, ScreenTextIsText
  <2> QED
    BY <1>2, <2>1, RowsOfAScreen
<1>7. Text(visible) = <<>>
  <2>1. ASSUME NEW i \in 1..rows
        PROVE  RowText(visible[i]) = <<>>
    <3>1. visible[i] \in Line(cols)
      BY <1>2, RowsOfAScreen
    <3> QED
      BY <1>2, <1>4, <3>1, BlankRowText
  <2>2. \A i \in (0 + 1)..Len(visible) : RowText(visible[i]) = <<>>
    BY <1>2, <1>6, <2>1
  <2>3. 0 \in 0..Len(visible)
    BY <1>2, <1>6
  <2>4. Text(visible) = Text(SubSeq(visible, 1, 0))
    BY <1>6, <2>2, <2>3, FirstRowsText
  <2>5. SubSeq(visible, 1, 0) = <<>>
    BY <1>6, SubSeqEmpty
  <2> QED
    BY <2>4, <2>5, NoText
<1>8. Told(scrollback, visible, WithoutSpaces(typed))
  <2>1. Reverse(<<>>) = <<>>
    BY DEF Reverse
  <2>2. <<>> \o visible = visible
    BY <1>6, ConcatEmptySeq
  <2>3. WithoutSpaces(typed) = <<>>
    BY <1>2, NoText
  <2> DEFINE none == <<>>
  <2>4. none \in Seq(Glyphs) /\ none \o none = none
    BY EmptySeq, TextsAlone
  <2>5. Leaves(scrollback, visible, WithoutSpaces(typed), none)
    BY <1>2, <1>7, <2>1, <2>2, <2>3, <2>4 DEF Leaves
  <2> QED
    BY <2>5 DEF Told
<1> QED
  BY <1>2, <1>3, <1>5, <1>8 DEF Story

\* What is left of a text is its end.
LEMMA TheEndIsASuffix ==
  ASSUME NEW x \in Seq(Glyphs), NEW y \in Seq(Glyphs)
  PROVE  IsSuffix(y, x \o y)
<1> DEFINE z == x \o y
           m == Len(x)
           n == Len(y)
           a == Reverse(y)
           b == Reverse(z)
<1>1. z \in Seq(Glyphs) /\ Len(z) = m + n /\ m \in Nat /\ n \in Nat
  BY ConcatProperties, LenProperties
<1>2. \A i \in 1..n : z[m + i] = y[i]
  BY <1>1, ConcatProperties
<1>3. /\ a \in Seq(Glyphs) /\ Len(a) = n /\ \A i \in 1..n : a[i] = y[n - i + 1]
  BY Reversing
<1> HIDE DEF z
<1>4. /\ b \in Seq(Glyphs) /\ Len(b) = m + n /\ \A i \in 1..(m + n) : b[i] = z[m + n - i + 1]
  BY <1>1, Reversing
<1> HIDE DEF a, b, m, n
<1>5. \A i \in 1..n : a[i] = b[i]
  <2> TAKE i \in 1..n
  <2>1. i \in 1..(m + n) /\ n - i + 1 \in 1..n /\ m + n - i + 1 = m + (n - i + 1)
    BY <1>1
  <2>2. z[m + (n - i + 1)] = y[n - i + 1]
    BY <1>2, <2>1
  <2> QED
    BY <1>3, <1>4, <2>1, <2>2
<1>6. SubSeq(a, 1, Len(a)) = SubSeq(b, 1, Len(a))
  BY <1>1, <1>3, <1>4, <1>5
<1>7. IsPrefix(a, b)
  BY <1>1, <1>3, <1>4, <1>6 DEF IsPrefix
<1> QED
  BY <1>7 DEF IsSuffix, a, b, z

\* What a scrollback and a screen tell of a text is its end, and all of it while the
\* scrollback has room.
LEMMA TellingIsLeft ==
  ASSUME NEW buffer \in Seq(Lines), NEW lines \in Seq(Lines), NEW text, Told(buffer, lines, text)
  PROVE  LeftOf(Text(Reverse(buffer) \o lines), text, buffer)
<1> DEFINE all == Reverse(buffer) \o lines
           new == Text(all)
<1>1. PICK gone : Leaves(buffer, lines, text, gone)
  BY DEF Told
<1>2. /\ gone \in Seq(Glyphs) /\ text = gone \o new
      /\ Len(buffer) < MaxLines => gone = <<>>
  BY <1>1 DEF Leaves
<1>3. all \in Seq(Lines)
  BY Reversing, ConcatProperties
<1> HIDE DEF all
<1>4. new \in Seq(Glyphs)
  BY <1>3, LinesBoth
<1> HIDE DEF new
<1>5. IsSuffix(new, gone \o new)
  BY <1>2, <1>4, TheEndIsASuffix
<1>6. gone = <<>> => gone \o new = new
  BY <1>4, TextsAlone
<1> QED
  BY <1>2, <1>5, <1>6 DEF LeftOf, new, all

\* A program that only writes lines finds them all in the scrollback and on the
\* screen, in order and once, however they wrap and scroll (write_char,
\* advance_cursor_row_for_wrap, scroll_up_in_region, ScrollbackBuffer::push).
THEOREM OutputIsAlwaysKept == Spec => []OutputIsKept
<1>1. Init => Writing
  BY StoryAtFirst DEF Writing
<1>2. Typed /\ Writing => OutputIsKept
  <2> SUFFICES ASSUME Typed, OnlyWrites, Story
               PROVE  LeftOf(Text(History), WithoutSpaces(typed), scrollback)
    BY DEF Writing, OutputIsKept, OnlyWrites
  <2>1. History = Reverse(scrollback) \o visible
    BY DEF Story, History
  <2>2. scrollback \in Seq(Lines) /\ visible \in Seq(Lines)
    <3>1. cols \in Nat \ {0} /\ rows \in Nat \ {0}
      BY DEF Typed, Shape
    <3> QED
      BY <3>1, ScreenTextIsText DEF Typed, Kept
  <2>3. Told(scrollback, visible, WithoutSpaces(typed))
    BY DEF Story
  <2>4. LeftOf(Text(Reverse(scrollback) \o visible), WithoutSpaces(typed), scrollback)
    BY <2>2, <2>3, TellingIsLeft
  <2> QED
    BY <2>1, <2>4
<1> QED
  BY <1>1, <1>2, WritingGoesOn, TypedHolds, PTL DEF Spec

-----------------------------------------------------------------------------
(* Text and reflow.                                                        *)

\* A row that begins with some cells says what they say.
LEMMA RowOfSays ==
  ASSUME NEW w \in Nat \ {0}, NEW cells, WholeCells(cells), Len(cells) <= w, NEW b \in BOOLEAN
  PROVE  RowText(RowOf(cells, w, b)) = TextOf(cells)
<1> DEFINE l == RowOf(cells, w, b)
           k == Len(cells)
           front == SubSeq(CellsOf(l), 1, k)
<1>1. cells \in Seq(Cell)
  BY DEF WholeCells
<1>2. l \in Line(w)
  BY RowOfIsWhole DEF WholeLine
<1>3. k \in 0..w
  BY <1>1, LenProperties
<1>4. \A c \in 0..(w - 1) : l.cells[c] = IF c < k THEN cells[c + 1] ELSE Blank
  BY DEF RowOf
<1>5. TextIn(Blank) = <<>>
  <2>1. IsBlank(Blank)
    BY DEF IsBlank, Blank
  <2> QED
    BY <2>1, BlankIsACell, BlankHasNoText
<1> HIDE DEF l, k, front
<1>6. \A c \in k..(w - 1) : TextIn(l.cells[c]) = <<>>
  <2>1. \A c \in k..(w - 1) : c \in 0..(w - 1) /\ ~(c < k)
    BY <1>3
  <2> QED
    BY <1>4, <1>5, <2>1
<1>7. RowText(l) = TextOf(front)
  BY <1>2, <1>3, <1>6, FrontText DEF front
<1>8. front \in Seq(Cell) /\ Len(front) = k /\ \A i \in 1..k : front[i] = l.cells[i - 1]
  BY <1>2, <1>3, SomeCells DEF front
<1>9. front = cells
  <2>1. \A i \in 1..k : i - 1 \in 0..(w - 1) /\ i - 1 < k /\ (i - 1) + 1 = i
    BY <1>3
  <2>2. Len(front) = Len(cells) /\ \A i \in 1..Len(front) : front[i] = cells[i]
    BY <1>4, <1>8, <2>1 DEF k
  <2> QED
    BY <1>1, <1>8, <2>2, SeqEqual
<1> QED
  BY <1>7, <1>9 DEF l

\* What rewrap_line has written so far.
Saying(acc) == Text(acc.rows) \o TextOf(acc.line)

\* Putting down a row changes nothing of it.
LEMMA FlushSays ==
  ASSUME NEW w \in Nat \ {0}, NEW acc \in [rows : Seq(WholeLine(w)), line : Seq(Cell), skip : BOOLEAN],
         WholeCells(acc.line), Len(acc.line) <= w
  PROVE  Saying(Flush(acc, w)) = Saying(acc)
<1> DEFINE row == RowOf(acc.line, w, TRUE)
           rows0 == acc.rows
           one == <<row>>
<1>1. row \in WholeLine(w) /\ RowText(row) = TextOf(acc.line)
  BY RowOfIsWhole, RowOfSays
<1>2. WholeLine(w) \subseteq Lines
  BY LinesAreRows DEF WholeLine
<1>3. rows0 \in Seq(Lines) /\ row \in Lines
  BY <1>1, <1>2, SeqMonotonic
<1>4. Flush(acc, w).rows = Append(rows0, row) /\ Flush(acc, w).line = <<>>
  BY DEF Flush
<1> HIDE DEF row, rows0
<1>5. one \in Seq(Lines) /\ Append(rows0, row) = rows0 \o one
  BY <1>3, AppendIsConcat
<1>6. Text(one) = RowText(row)
  BY <1>3, OneRowText
<1> HIDE DEF one
<1>7. Text(rows0 \o one) = Text(rows0) \o RowText(row)
  BY <1>3, <1>5, <1>6, LinesBoth
<1>8. Text(rows0) \o RowText(row) \in Seq(Glyphs)
  <2>1. Text(rows0) \in Seq(Glyphs) /\ Text(one) \in Seq(Glyphs)
    BY <1>3, <1>5, LinesBoth
  <2> QED
    BY <1>6, <2>1, ConcatProperties
<1>9. Saying(Flush(acc, w)) = (Text(rows0) \o RowText(row)) \o <<>>
  BY <1>4, <1>5, <1>7, NoText DEF Saying
<1>10. Saying(acc) = Text(rows0) \o RowText(row)
  BY <1>1 DEF Saying, rows0
<1> QED
  BY <1>8, <1>9, <1>10, TextsAlone

\* Some more cells come last.
LEMMA AddSays ==
  ASSUME NEW w \in Nat \ {0}, NEW acc, Halfway(acc, w), NEW more, WholeCells(more),
         Len(acc.line) + Len(more) <= w
  PROVE  Saying(Add(acc, more, w)) = Saying(acc) \o TextOf(more)
<1> DEFINE line == acc.line \o more
           next == [acc EXCEPT !.line = line]
<1>1. /\ acc \in [rows : Seq(WholeLine(w)), line : Seq(Cell), skip : BOOLEAN] /\ WholeCells(acc.line)
      /\ Len(acc.line) < w /\ acc.line \in Seq(Cell) /\ more \in Seq(Cell)
  BY DEF Halfway, WholeCells
<1>2. WholeCells(line) /\ Len(line) = Len(acc.line) + Len(more) /\ line \in Seq(Cell)
  <2>1. WholeCells(line)
    BY <1>1, WholeConcat
  <2>2. line \in Seq(Cell)
    BY <2>1 DEF WholeCells
  <2>3. Len(line) = Len(acc.line) + Len(more)
    BY <1>1, ConcatProperties
  <2> QED
    BY <2>1, <2>2, <2>3
<1>3. TextOf(line) = TextOf(acc.line) \o TextOf(more)
  BY <1>1, CellsBoth
<1> HIDE DEF line
<1>4. /\ next \in [rows : Seq(WholeLine(w)), line : Seq(Cell), skip : BOOLEAN]
      /\ next.line = line /\ next.rows = acc.rows
  BY <1>1, <1>2
<1> HIDE DEF next
<1>5. Saying(next) = Saying(acc) \o TextOf(more)
  <2>1. acc.rows \in Seq(Lines)
    <3>1. WholeLine(w) \subseteq Lines
      BY LinesAreRows DEF WholeLine
    <3> QED
      BY <1>1, <3>1, SeqMonotonic
  <2>2. Text(acc.rows) \in Seq(Glyphs)
    BY <2>1, LinesBoth
  <2>3. TextOf(acc.line) \in Seq(Glyphs) /\ TextOf(more) \in Seq(Glyphs)
    BY <1>1, CellsBoth
  <2>4. Text(acc.rows) \o (TextOf(acc.line) \o TextOf(more)) = (Text(acc.rows) \o TextOf(acc.line)) \o TextOf(more)
    BY <2>2, <2>3, TextsAssociate
  <2> QED
    BY <1>3, <1>4, <2>4 DEF Saying
<1>6. Add(acc, more, w) = IF Len(line) >= w THEN Flush(next, w) ELSE next
  BY <1>4 DEF Add, Full, next, line
<1>7. Saying(Flush(next, w)) = Saying(next)
  <2>1. WholeCells(next.line) /\ Len(next.line) <= w
    BY <1>2, <1>4
  <2> QED
    BY <1>4, <2>1, FlushSays
<1> QED
  BY <1>5, <1>6, <1>7

\* The cells for which a line of some width has room: a broad character needs two columns.
RoomFor(w) == {cell \in Cell : w > 1 \/ cell.kind # "lead"}

\* What is put down cell by cell says what the cells say.
LEMMA RewrapStepSays ==
  ASSUME NEW w \in Nat \ {0}, NEW acc, Halfway(acc, w), ~acc.skip, NEW cell \in RoomFor(w)
  PROVE  ~RewrapStep(acc, cell, w).skip /\ Saying(RewrapStep(acc, cell, w)) = Saying(acc) \o TextIn(cell)
<1>1. cell \in Cell /\ cell.kind \in {"single", "lead", "tail"} /\ (w > 1 \/ cell.kind # "lead")
  BY DEF Cell, Kinds, RoomFor
<1>2. /\ acc \in [rows : Seq(WholeLine(w)), line : Seq(Cell), skip : BOOLEAN] /\ WholeCells(acc.line)
      /\ Len(acc.line) < w /\ Len(acc.line) \in Nat /\ acc.rows \in Seq(WholeLine(w)) /\ acc.line \in Seq(Cell)
  BY LenProperties DEF Halfway
<1>3. Saying(acc) \in Seq(Glyphs)
  <2>1. acc.rows \in Seq(Lines)
    <3>1. WholeLine(w) \subseteq Lines
      BY LinesAreRows DEF WholeLine
    <3> QED
      BY <1>2, <3>1, SeqMonotonic
  <2>2. Text(acc.rows) \in Seq(Glyphs) /\ TextOf(acc.line) \in Seq(Glyphs)
    BY <1>2, <2>1, LinesBoth, CellsBoth
  <2> QED
    BY <2>2, ConcatProperties DEF Saying
<1>4. CASE cell.kind = "tail"
  <2>1. RewrapStep(acc, cell, w) = acc /\ TextIn(cell) = <<>>
    BY <1>4 DEF RewrapStep, TextIn
  <2> QED
    BY <1>3, <2>1, TextsAlone
<1>5. CASE cell.kind = "lead"
  <2> DEFINE before == IF Len(acc.line) + 1 >= w THEN Flush(acc, w) ELSE acc
             tail == [Blank EXCEPT !.kind = "tail"]
             more == <<cell, tail>>
  <2>1. w > 1 /\ RewrapStep(acc, cell, w) = Add(before, more, w)
    BY <1>1, <1>5 DEF RewrapStep
  <2>2. tail \in Cell /\ tail.kind = "tail"
    BY BlankIsACell DEF Cell, Kinds
  <2> HIDE DEF tail
  <2>3. more \in Seq(Cell) /\ Len(more) = 2 /\ more[1].kind = "lead" /\ more[2].kind = "tail"
    BY <1>1, <1>5, <2>2
  <2>4. TextOf(more) = TextIn(cell)
    <3> DEFINE one == <<cell>>
               other == <<tail>>
    <3>1. one \in Seq(Cell) /\ other \in Seq(Cell) /\ more = one \o other
      BY <1>1, <2>2
    <3>2. TextOf(one) = TextIn(cell) /\ TextOf(other) = TextIn(tail)
      BY <1>1, <2>2, OneCellText
    <3>3. TextIn(tail) = <<>>
      BY <2>2 DEF TextIn
    <3> HIDE DEF one, other, more
    <3>4. TextOf(more) = TextIn(cell) \o <<>> /\ TextIn(cell) \in Seq(Glyphs)
      BY <3>1, <3>2, <3>3, CellsBoth
    <3> QED
      BY <3>4, TextsAlone
  <2> HIDE DEF more
  <2>5. WholeCells(more)
    <3>1. \A i \in 1..2 : i = 1 \/ i = 2
      OBVIOUS
    <3> QED
      BY <2>3, <3>1 DEF WholeCells
  <2>6. Halfway(before, w) /\ Len(before.line) + 2 <= w /\ ~before.skip /\ Saying(before) = Saying(acc)
    <3>1. CASE Len(acc.line) + 1 >= w
      <4>1. Halfway(Flush(acc, w), w) /\ Flush(acc, w).line = <<>> /\ ~Flush(acc, w).skip
        BY <1>2, FlushKeeps
      <4>2. Saying(Flush(acc, w)) = Saying(acc)
        BY <1>2, FlushSays
      <4> QED
        BY <2>1, <3>1, <4>1, <4>2
    <3>2. CASE ~(Len(acc.line) + 1 >= w)
      BY <1>2, <3>2
    <3> QED
      BY <3>1, <3>2
  <2> HIDE DEF before
  <2>7. Saying(Add(before, more, w)) = Saying(before) \o TextOf(more)
    BY <2>3, <2>5, <2>6, AddSays
  <2>8. ~Add(before, more, w).skip
    BY <2>6 DEF Add, Full, Flush
  <2> QED
    BY <2>1, <2>4, <2>6, <2>7, <2>8
<1>6. CASE cell.kind = "single"
  <2> DEFINE more == <<cell>>
  <2>1. RewrapStep(acc, cell, w) = Add(acc, more, w)
    BY <1>6 DEF RewrapStep
  <2>2. WholeCells(more) /\ Len(more) = 1
    BY <1>1, <1>6 DEF WholeCells
  <2>3. TextOf(more) = TextIn(cell)
    BY <1>1, OneCellText
  <2> HIDE DEF more
  <2>4. Saying(Add(acc, more, w)) = Saying(acc) \o TextOf(more)
    <3>1. Len(acc.line) + Len(more) <= w
      BY <1>2, <2>2
    <3> QED
      BY <2>2, <3>1, AddSays
  <2>5. ~Add(acc, more, w).skip
    BY DEF Add, Full, Flush
  <2> QED
    BY <2>1, <2>3, <2>4, <2>5
<1> QED
  BY <1>1, <1>4, <1>5, <1>6

\* The flag of a row is none of its text.
LEMMA LastFlagHasNoText ==
  ASSUME NEW lines \in Seq(Lines), NEW k \in 1..Len(lines)
  PROVE  Text([lines EXCEPT ![k].wrapped = FALSE]) = Text(lines)
<1> DEFINE n == Len(lines)
           last == [lines[k] EXCEPT !.wrapped = FALSE]
           new == [lines EXCEPT ![k] = last]
<1>1. n \in Nat /\ DOMAIN lines = 1..n /\ \A i \in 1..n : lines[i] \in Lines
  BY LenProperties, ElementOfSeq
<1>2. CellsOf(last) = CellsOf(lines[k])
  <2>1. lines[k] \in Lines
    BY <1>1
  <2>2. last.cells = lines[k].cells
    BY <2>1 DEF Lines, Line
  <2> QED
    BY <2>2 DEF CellsOf
<1> HIDE DEF last
<1>3. DOMAIN new = 1..n /\ \A i \in 1..n : new[i] = IF i = k THEN last ELSE lines[i]
  BY <1>1
<1> HIDE DEF new, n
<1>4. [i \in DOMAIN new |-> TextOf(CellsOf(new[i]))] = [i \in DOMAIN lines |-> TextOf(CellsOf(lines[i]))]
  BY <1>1, <1>2, <1>3
<1>5. [lines EXCEPT ![k].wrapped = FALSE] = new
  BY DEF new, last
<1> QED
  BY <1>4, <1>5 DEF Text

\* Wrapping a line again loses nothing of its text and adds nothing (rewrap_line).
LEMMA RewrapSays ==
  ASSUME NEW w \in Nat \ {0}, NEW cells \in Seq(RoomFor(w))
  PROVE  Text(RewrapLine(cells, w)) = TextOf(cells)
<1> DEFINE n == Len(cells)
           part(k) == SubSeq(cells, 1, k)
<1>1. n \in Nat /\ \A i \in 1..n : cells[i] \in RoomFor(w)
  BY LenProperties, ElementOfSeq
<1>2. RoomFor(w) \subseteq Cell /\ cells \in Seq(Cell)
  <2>1. RoomFor(w) \subseteq Cell
    BY DEF RoomFor
  <2> QED
    BY <2>1, SeqMonotonic
<1>3. PICK a : Rewraps(cells, w, a) /\ RewrapLine(cells, w) = Rewrapped(a[n], w)
  BY <1>1, RewrapsExist
<1> HIDE DEF n
<1>4. ASSUME NEW k \in 0..n
      PROVE  part(k) \in Seq(Cell)
  BY <1>1, <1>2, SomeRows DEF n
<1>5. ASSUME NEW k \in Nat, k + 1 <= n
      PROVE  part(k + 1) = part(k) \o <<cells[k + 1]>>
  <2>1. k + 1 \in 1..n /\ (k + 1) - 1 = k
    BY <1>1, <1>5
  <2> DEFINE m == k + 1
  <2> HIDE DEF m
  <2>2. m \in 1..Len(cells) /\ 1 \in 1..m
    BY <1>1, <2>1 DEF m, n
  <2>3. SubSeq(cells, 1, m) = SubSeq(cells, 1, m - 1) \o <<cells[m]>>
    BY <1>2, <2>2, SubSeqRecursiveSecond
  <2> QED
    BY <2>1, <2>3 DEF m
<1> HIDE DEF part
<1> DEFINE P == {k \in Nat : k <= n => Halfway(a[k], w) /\ ~a[k].skip /\ Saying(a[k]) = TextOf(part(k))}
<1>6. 0 \in P
  <2> DEFINE zero == [rows |-> <<>>, line |-> <<>>, skip |-> FALSE]
  <2>1. a[0] = zero
    BY <1>3 DEF Rewraps
  <2>2. WholeCells(<<>>) /\ Len(<<>>) = 0 /\ <<>> \in Seq(Cell) /\ <<>> \in Seq(WholeLine(w))
    BY EmptySeq DEF WholeCells
  <2>3. Halfway(zero, w) /\ ~zero.skip
    BY <2>2 DEF Halfway
  <2>4. Saying(zero) = <<>>
    <3>1. Saying(zero) = <<>> \o <<>> /\ <<>> \in Seq(Glyphs)
      BY NoText DEF Saying
    <3> QED
      BY <3>1, TextsAlone
  <2>5. TextOf(part(0)) = <<>>
    <3>1. part(0) = <<>>
      BY <1>2, SubSeqEmpty DEF part
    <3> QED
      BY <3>1, NoText
  <2> HIDE DEF zero
  <2> QED
    BY <2>1, <2>3, <2>4, <2>5
<1>7. ASSUME NEW k \in Nat, k \in P
      PROVE  k + 1 \in P
  <2> SUFFICES ASSUME k + 1 <= n
               PROVE  Halfway(a[k + 1], w) /\ ~a[k + 1].skip /\ Saying(a[k + 1]) = TextOf(part(k + 1))
    OBVIOUS
  <2>1. k + 1 \in 1..n /\ k \in 0..n /\ (k + 1) - 1 = k /\ Halfway(a[k], w) /\ ~a[k].skip /\ Saying(a[k]) = TextOf(part(k))
    BY <1>1, <1>7
  <2>2. a[k + 1] = RewrapStep(a[k], cells[k + 1], w)
    BY <1>3, <2>1 DEF Rewraps, n
  <2> DEFINE cell == cells[k + 1]
             acc == a[k]
             one == <<cell>>
  <2>3. cell \in RoomFor(w) /\ cell \in Cell
    BY <1>1, <1>2, <2>1
  <2>4. TextOf(part(k + 1)) = TextOf(part(k)) \o TextIn(cell)
    <3>1. part(k + 1) = part(k) \o one /\ part(k) \in Seq(Cell) /\ one \in Seq(Cell) /\ TextOf(one) = TextIn(cell)
      BY <1>4, <1>5, <2>1, <2>3, OneCellText
    <3> HIDE DEF one
    <3> QED
      BY <3>1, CellsBoth
  <2> HIDE DEF cell, acc
  <2>5. Halfway(acc, w) /\ ~acc.skip /\ a[k + 1] = RewrapStep(acc, cell, w)
    BY <2>1, <2>2 DEF cell, acc
  <2>6. Halfway(RewrapStep(acc, cell, w), w)
    BY <2>3, <2>5, RewrapStepKeeps
  <2>7. ~RewrapStep(acc, cell, w).skip /\ Saying(RewrapStep(acc, cell, w)) = Saying(acc) \o TextIn(cell)
    BY <2>3, <2>5, RewrapStepSays
  <2> QED
    BY <2>1, <2>4, <2>5, <2>6, <2>7 DEF acc
<1> HIDE DEF P
<1>8. n \in P
  BY <1>1, <1>6, <1>7, Numbers
<1> DEFINE done == a[n]
<1>9. Halfway(done, w) /\ Saying(done) = TextOf(cells)
  <2>1. Halfway(a[n], w) /\ Saying(a[n]) = TextOf(part(n))
    BY <1>1, <1>8 DEF P
  <2>2. part(n) = cells
    BY <1>2, SubSeqFull DEF part, n
  <2> QED
    BY <2>1, <2>2
<1> HIDE DEF done
<1> DEFINE row == RowOf(done.line, w, FALSE)
           one == <<row>>
           longer == Append(done.rows, row)
           new == IF done.line # <<>> \/ done.rows = <<>> THEN longer ELSE done.rows
<1>10. WholeCells(done.line) /\ done.line \in Seq(Cell) /\ Len(done.line) <= w /\ done.rows \in Seq(WholeLine(w))
  <2>1. WholeCells(done.line) /\ done.line \in Seq(Cell) /\ Len(done.line) < w /\ done.rows \in Seq(WholeLine(w))
    BY <1>9 DEF Halfway
  <2> QED
    BY <2>1, LenProperties
<1>11. row \in WholeLine(w) /\ RowText(row) = TextOf(done.line)
  BY <1>10, RowOfIsWhole, RowOfSays
<1>12. WholeLine(w) \subseteq Lines
  BY LinesAreRows DEF WholeLine
<1>13. done.rows \in Seq(Lines) /\ row \in Lines
  BY <1>10, <1>11, <1>12, SeqMonotonic
<1> HIDE DEF row
<1>14. one \in Seq(Lines) /\ longer = done.rows \o one /\ Text(one) = RowText(row)
  BY <1>13, AppendIsConcat, OneRowText
<1>15. longer \in Seq(Lines) /\ Len(longer) = Len(done.rows) + 1 /\ Len(done.rows) \in Nat
  BY <1>13, AppendProperties, LenProperties
<1> HIDE DEF one, longer
<1>16. Text(longer) = Saying(done)
  BY <1>11, <1>13, <1>14, LinesBoth DEF Saying
<1>17. new \in Seq(Lines) /\ Text(new) = Saying(done) /\ Len(new) \in Nat \ {0}
  <2>1. CASE done.line # <<>> \/ done.rows = <<>>
    BY <1>15, <1>16, <2>1
  <2>2. CASE ~(done.line # <<>> \/ done.rows = <<>>)
    <3>1. Saying(done) = Text(done.rows) \o <<>>
      BY <2>2, NoText DEF Saying
    <3>2. Text(done.rows) \in Seq(Glyphs)
      BY <1>13, LinesBoth
    <3>3. Saying(done) = Text(done.rows)
      BY <3>1, <3>2, TextsAlone
    <3>4. Len(done.rows) \in Nat \ {0}
      BY <1>13, <2>2, EmptySeq, LenProperties
    <3> QED
      BY <1>13, <2>2, <3>3, <3>4
  <2> QED
    BY <2>1, <2>2
<1>18. RewrapLine(cells, w) = [new EXCEPT ![Len(new)].wrapped = FALSE]
  BY <1>3 DEF Rewrapped, done, new, longer, row
<1> HIDE DEF new
<1> DEFINE k == Len(new)
<1>19. k \in 1..Len(new)
  BY <1>17
<1> HIDE DEF k
<1>20. Text([new EXCEPT ![k].wrapped = FALSE]) = Text(new)
  BY <1>17, <1>19, LastFlagHasNoText
<1> QED
  BY <1>9, <1>17, <1>18, <1>20 DEF k

\* Blanks cut off at the end are no text (trim_trailing_blank_cells).
LEMMA TrimSays ==
  ASSUME NEW cells \in Seq(Cell)
  PROVE  TextOf(TrimTrailingBlankCells(cells)) = TextOf(cells)
<1> DEFINE n == Len(cells)
           S == {0} \cup {i \in DOMAIN cells : ~IsBlank(cells[i])}
           m == Max(S)
<1>1. n \in Nat /\ DOMAIN cells = 1..n /\ \A i \in 1..n : cells[i] \in Cell
  BY LenProperties, ElementOfSeq
<1>2. S \in SUBSET (0..n) /\ S # {}
  BY <1>1
<1>3. \A i \in 1..n : i \notin S => IsBlank(cells[i])
  BY <1>1
<1> HIDE DEF S
<1>4. m \in S /\ \A y \in S : m >= y
  BY <1>1, <1>2, Greatest
<1>5. m \in 0..n
  BY <1>2, <1>4
<1> HIDE DEF m
<1>6. ASSUME NEW i \in (m + 1)..n
      PROVE  TextIn(cells[i]) = <<>>
  <2>1. i \in 1..n /\ ~(m >= i)
    BY <1>1, <1>5
  <2>2. IsBlank(cells[i]) /\ cells[i] \in Cell
    BY <1>1, <1>3, <1>4, <2>1
  <2> QED
    BY <2>2, BlankHasNoText
<1>7. TextOf(cells) = TextOf(SubSeq(cells, 1, m))
  BY <1>5, <1>6, FirstCellsText DEF n
<1> QED
  BY <1>7 DEF TrimTrailingBlankCells, m, S

\* What cells say, and rows.
CellsSay == [cells \in Seq(Cell) |-> TextOf(cells)]
RowsSay == [lines \in Seq(Lines) |-> Text(lines)]
LEMMA PartsSayTexts == Gives(CellsSay, Seq(Cell), Glyphs) /\ Gives(RowsSay, Seq(Lines), Glyphs)
<1>1. \A cells \in Seq(Cell) : TextOf(cells) \in Seq(Glyphs)
  BY CellsBoth
<1>2. \A lines \in Seq(Lines) : Text(lines) \in Seq(Glyphs)
  BY LinesBoth
<1>3. Gives(CellsSay, Seq(Cell), Glyphs)
  BY <1>1 DEF Gives, CellsSay
<1>4. Gives(RowsSay, Seq(Lines), Glyphs)
  BY <1>2 DEF Gives, RowsSay
<1> QED
  BY <1>3, <1>4

\* A line is lengthened by what the row says.
LEMMA JoinSays ==
  ASSUME NEW acc, Joined(acc, Cell), NEW row \in Lines
  PROVE  Gather(CellsSay, Join(acc, row).lines) = Gather(CellsSay, acc.lines) \o RowText(row)
<1> DEFINE cells == CellsOf(row)
           S == Seq(Cell)
           lines == acc.lines
           n == Len(lines)
           one == <<cells>>
<1>1. cells \in S
  BY CellsOfALine DEF Lines
<1>2. lines \in Seq(S) /\ n \in Nat /\ (acc.open => n > 0)
  <2>1. lines \in Seq(S) /\ (acc.open => lines # <<>>)
    BY DEF Joined
  <2> QED
    BY <2>1, LenProperties, EmptySeq
<1>3. CellsSay[cells] = RowText(row) /\ Gives(CellsSay, S, Glyphs)
  BY <1>1, PartsSayTexts DEF CellsSay, RowText
<1> HIDE DEF cells
<1>4. one \in Seq(S)
  BY <1>1
<1>5. Gather(CellsSay, one) = RowText(row)
  BY <1>1, <1>3, GatheringOne
<1>6. CASE acc.open
  <2> DEFINE last == lines[n]
             x == last \o cells
             front == SubSeq(lines, 1, n - 1)
             was == <<last>>
             is == <<x>>
  <2>1. last \in S
    BY <1>2, <1>6, ElementOfSeq
  <2>2. x \in S /\ TextOf(x) = TextOf(last) \o TextOf(cells)
    <3> HIDE DEF last
    <3> QED
      BY <1>1, <2>1, ConcatProperties, CellsBoth
  <2>3. lines = front \o was
    <3>1. n \in 1..Len(lines) /\ 1 \in 1..n
      BY <1>2, <1>6
    <3>2. SubSeq(lines, 1, n) = SubSeq(lines, 1, n - 1) \o <<lines[n]>>
      <4> HIDE DEF n
      <4> QED
        BY <1>2, <3>1, SubSeqRecursiveSecond
    <3>3. SubSeq(lines, 1, n) = lines
      BY <1>2, SubSeqFull
    <3> QED
      BY <3>2, <3>3
  <2>4. front \in Seq(S)
    <3> DEFINE m == n - 1
    <3>1. m \in Nat /\ m <= n /\ 1 <= m + 1
      BY <1>2, <1>6
    <3> HIDE DEF m
    <3>2. SubSeq(lines, 1, m) \in Seq(S)
      BY <1>2, <3>1, SomeRows
    <3> QED
      BY <3>2 DEF m
  <2>5. Join(acc, row).lines = front \o is
    BY <1>6 DEF Join, Front, Last, cells
  <2> HIDE DEF front, x, last
  <2>6. was \in Seq(S) /\ is \in Seq(S)
    BY <2>1, <2>2
  <2>7. Gather(CellsSay, was) = TextOf(last) /\ Gather(CellsSay, is) = TextOf(x)
    <3>1. Gather(CellsSay, was) = CellsSay[last] /\ Gather(CellsSay, is) = CellsSay[x]
      BY <1>3, <2>1, <2>2, GatheringOne
    <3> QED
      BY <2>1, <2>2, <3>1 DEF CellsSay
  <2> HIDE DEF was, is, S
  <2> DEFINE f == Gather(CellsSay, front)
             l == TextOf(last)
             c == TextOf(cells)
  <2>8. Gather(CellsSay, front \o is) = f \o TextOf(x)
    BY <1>3, <2>4, <2>6, <2>7, GatheringBoth
  <2>9. Gather(CellsSay, front \o was) = f \o l
    BY <1>3, <2>4, <2>6, <2>7, GatheringBoth
  <2>10. f \in Seq(Glyphs) /\ l \in Seq(Glyphs) /\ c \in Seq(Glyphs)
    BY <1>1, <1>3, <2>1, <2>4, GatheringKeeps, CellsBoth DEF S
  <2>11. c = RowText(row)
    BY DEF RowText, cells
  <2> HIDE DEF f, l, c
  <2>12. (f \o l) \o c = f \o (l \o c)
    BY <2>10, TextsAssociate
  <2> QED
    BY <2>2, <2>3, <2>5, <2>8, <2>9, <2>11, <2>12 DEF l, c
<1>7. CASE ~acc.open
  <2>1. Join(acc, row).lines = Append(lines, cells)
    BY <1>7 DEF Join, cells
  <2>2. Append(lines, cells) = lines \o one
    BY <1>1, <1>2, AppendIsConcat
  <2> HIDE DEF one, S
  <2>3. Gather(CellsSay, lines \o one) = Gather(CellsSay, lines) \o Gather(CellsSay, one)
    BY <1>2, <1>3, <1>4, GatheringBoth
  <2> QED
    BY <1>5, <2>1, <2>2, <2>3
<1> QED
  BY <1>6, <1>7

\* Rows joined to logical lines lose nothing (collect_logical_lines).
LEMMA CollectSays ==
  ASSUME NEW from \in Seq(Lines)
  PROVE  Gather(CellsSay, CollectLogicalLines(from)) = Text(from)
<1> DEFINE n == Len(from)
           part(k) == SubSeq(from, 1, k)
<1>1. n \in Nat /\ DOMAIN from = 1..n /\ \A k \in 1..n : from[k] \in Lines
  BY LenProperties, ElementOfSeq
<1>2. PICK r : Joins(from, r) /\ CollectLogicalLines(from) = r[n].lines
  BY <1>1, JoinsExist
<1> HIDE DEF n
<1>3. ASSUME NEW k \in Nat, k + 1 <= n
      PROVE  Text(part(k + 1)) = Text(part(k)) \o RowText(from[k + 1])
  <2> DEFINE m == k + 1
             front == SubSeq(from, 1, m - 1)
             l == from[m]
             one == <<l>>
  <2>1. m \in 1..n /\ m - 1 = k /\ 1 \in 1..m /\ m \in 1..Len(from)
    BY <1>1, <1>3 DEF n
  <2> HIDE DEF m
  <2>2. SubSeq(from, 1, m) = front \o one
    BY <2>1, SubSeqRecursiveSecond
  <2>3. l \in Lines
    BY <1>1, <2>1
  <2>4. front \in Seq(Lines)
    <3> DEFINE j == m - 1
    <3>1. j \in Nat /\ j <= Len(from)
      BY <1>1, <2>1 DEF n
    <3> HIDE DEF j
    <3>2. SubSeq(from, 1, j) \in Seq(Lines)
      BY <3>1, SomeRows
    <3> QED
      BY <3>2 DEF j
  <2> HIDE DEF l, front
  <2>5. one \in Seq(Lines) /\ Text(one) = RowText(l)
    BY <2>3, OneRowText
  <2> HIDE DEF one
  <2>6. Text(front \o one) = Text(front) \o RowText(l)
    BY <2>4, <2>5, LinesBoth
  <2>7. Text(SubSeq(from, 1, m)) = Text(SubSeq(from, 1, m - 1)) \o RowText(from[m])
    BY <2>2, <2>6 DEF front, l
  <2> QED
    BY <2>1, <2>7 DEF m
<1>4. part(0) = <<>> /\ part(n) = from
  BY SubSeqEmpty, SubSeqFull DEF n
<1>5. ASSUME NEW k \in 1..n
      PROVE  CellsOf(from[k]) \in Seq(Cell)
  BY <1>1, CellsOfALine DEF Lines
<1> HIDE DEF part
<1> DEFINE P == {k \in Nat : k <= n => Joined(r[k], Cell) /\ Gather(CellsSay, r[k].lines) = Text(part(k))}
<1>6. 0 \in P
  <2>1. Joined(NoLines, Cell) /\ NoLines.lines = <<>>
    BY EmptySeq DEF Joined, NoLines
  <2>2. Gather(CellsSay, <<>>) = <<>>
    BY PartsSayTexts, GatheringNone
  <2> QED
    BY <1>2, <1>4, <2>1, <2>2, NoText DEF Joins
<1>7. ASSUME NEW k \in Nat, k \in P
      PROVE  k + 1 \in P
  <2> SUFFICES ASSUME k + 1 <= n
               PROVE  Joined(r[k + 1], Cell) /\ Gather(CellsSay, r[k + 1].lines) = Text(part(k + 1))
    OBVIOUS
  <2> DEFINE acc == r[k]
             row == from[k + 1]
  <2>1. Joined(acc, Cell) /\ Gather(CellsSay, acc.lines) = Text(part(k)) /\ k + 1 \in 1..n /\ (k + 1) - 1 = k
    BY <1>1, <1>7
  <2>2. r[k + 1] = Join(acc, row)
    BY <1>2, <2>1 DEF Joins, n
  <2>3. row \in Lines /\ CellsOf(row) \in Seq(Cell) /\ Text(part(k + 1)) = Text(part(k)) \o RowText(row)
    BY <1>1, <1>3, <1>5, <2>1
  <2> HIDE DEF acc, row
  <2>4. Joined(Join(acc, row), Cell)
    BY <2>1, <2>3, JoinKeeps
  <2>5. Gather(CellsSay, Join(acc, row).lines) = Gather(CellsSay, acc.lines) \o RowText(row)
    BY <2>1, <2>3, JoinSays
  <2> QED
    BY <2>1, <2>2, <2>3, <2>4, <2>5
<1> HIDE DEF P
<1>8. n \in P
  BY <1>1, <1>6, <1>7, Numbers
<1>9. Gather(CellsSay, r[n].lines) = Text(part(n))
  BY <1>1, <1>8 DEF P
<1> QED
  BY <1>2, <1>4, <1>9

\* Groups of rows put one behind the other say what the groups say.
LEMMA FlattenSays ==
  ASSUME NEW groups \in Seq(Seq(Lines))
  PROVE  Text(FlattenSeq(groups)) = Gather(RowsSay, groups)
<1> DEFINE S == Seq(Lines)
           P == {k \in Nat : \A c \in Seq(S) : Len(c) = k => Text(FlattenSeq(c)) = Gather(RowsSay, c)}
<1>1. 0 \in P
  <2> SUFFICES ASSUME NEW c \in Seq(S), Len(c) = 0
               PROVE  Text(FlattenSeq(c)) = Gather(RowsSay, c)
    OBVIOUS
  <2>1. c = <<>>
    BY EmptySeq
  <2> QED
    BY <2>1, FlattenNone, NoText, PartsSayTexts, GatheringNone
<1>2. ASSUME NEW k \in Nat, k \in P
      PROVE  k + 1 \in P
  <2> SUFFICES ASSUME NEW c \in Seq(S), Len(c) = k + 1
               PROVE  Text(FlattenSeq(c)) = Gather(RowsSay, c)
    OBVIOUS
  <2> DEFINE front == SubSeq(c, 1, k)
             last == c[k + 1]
             one == <<last>>
  <2>1. front \in Seq(S) /\ Len(front) = k
    BY SomeRows
  <2>2. last \in S
    BY ElementOfSeq
  <2>3. c = front \o one
    <3> DEFINE m == k + 1
    <3>1. m \in 1..Len(c) /\ 1 \in 1..m /\ m - 1 = k /\ m = Len(c)
      OBVIOUS
    <3> HIDE DEF m
    <3>2. SubSeq(c, 1, m) = SubSeq(c, 1, m - 1) \o <<c[m]>>
      BY <3>1, SubSeqRecursiveSecond
    <3>3. SubSeq(c, 1, m) = c
      BY <3>1, SubSeqFull
    <3> QED
      BY <3>1, <3>2, <3>3 DEF m
  <2>4. Text(FlattenSeq(front)) = Gather(RowsSay, front)
    BY <1>2, <2>1
  <2> HIDE DEF front, last, P
  <2>5. Append(front, last) = front \o one
    BY <2>1, <2>2, AppendIsConcat
  <2>6. FlattenSeq(c) = FlattenSeq(front) \o last /\ FlattenSeq(front) \in Seq(Lines)
    <3>1. FlattenSeq(Append(front, last)) = FlattenSeq(front) \o last
      BY <2>1, <2>2, FlattenMore
    <3>2. FlattenSeq(front) \in Seq(Lines)
      BY <2>1, FlattenKeeps
    <3> QED
      BY <2>3, <2>5, <3>1, <3>2
  <2>7. Text(FlattenSeq(c)) = Text(FlattenSeq(front)) \o Text(last)
    BY <2>2, <2>6, LinesBoth
  <2>8. Gather(RowsSay, one) = Text(last) /\ one \in Seq(S)
    <3>1. Gather(RowsSay, one) = RowsSay[last]
      BY <2>2, PartsSayTexts, GatheringOne
    <3> QED
      BY <2>2, <3>1 DEF RowsSay
  <2> HIDE DEF one
  <2>9. Gather(RowsSay, front \o one) = Gather(RowsSay, front) \o Gather(RowsSay, one)
    BY <2>1, <2>8, PartsSayTexts, GatheringBoth
  <2> QED
    BY <2>3, <2>4, <2>7, <2>8, <2>9
<1> HIDE DEF P, S
<1>3. Len(groups) \in P
  <2>1. Len(groups) \in Nat
    BY LenProperties
  <2> QED
    BY <1>1, <1>2, <2>1, Numbers
<1> QED
  BY <1>3 DEF P, S

\* A row that is dropped at the end has no text.
LEMMA PaddingHasNoText ==
  ASSUME NEW l \in Lines, IsPadding(l)
  PROVE  RowText(l) = <<>>
<1>1. PICK w \in Nat \ {0} : l \in Line(w)
  BY DEF Lines
<1>2. BlankFrom(l, 0, w)
  BY <1>1 DEF BlankFrom, IsPadding, Line
<1> QED
  BY <1>1, <1>2, BlankRowText

\* A row that is new has no text, and many have none.
LEMMA NewRowsHaveNoText ==
  ASSUME NEW w \in Nat \ {0}, NEW k \in Nat
  PROVE  [i \in 1..k |-> NewRow(w)] \in Seq(Lines) /\ Text([i \in 1..k |-> NewRow(w)]) = <<>>
<1> DEFINE blank == NewRow(w)
           p == [i \in 1..k |-> blank]
<1>1. blank \in Lines
  <2>1. blank \in Line(w)
    BY NewRowIsALine
  <2> QED
    BY <2>1, LinesAreRows
<1>2. RowText(blank) = <<>>
  <2>1. IsPadding(blank)
    BY DEF IsPadding, EndsLine, NewRow, IsBlank, Blank
  <2> QED
    BY <1>1, <2>1, PaddingHasNoText
<1> HIDE DEF blank
<1>3. p \in [1..k -> Lines] /\ \A i \in 1..k : p[i] = blank
  BY <1>1
<1> HIDE DEF p
<1>4. p \in Seq(Lines)
  BY <1>3, SeqDef
<1>5. Len(p) = k
  BY <1>3, <1>4, LenProperties
<1>6. 0 \in 0..Len(p) /\ \A i \in (0 + 1)..Len(p) : RowText(p[i]) = <<>>
  BY <1>2, <1>3, <1>5
<1>7. Text(p) = Text(SubSeq(p, 1, 0))
  BY <1>4, <1>6, FirstRowsText
<1>8. SubSeq(p, 1, 0) = <<>>
  BY <1>4, SubSeqEmpty
<1>9. Text(p) = <<>>
  BY <1>7, <1>8, NoText
<1> QED
  BY <1>4, <1>9 DEF p, blank

\* The logical lines of rows, wrapped again, say what the rows say.
LEMMA WrappedAgain ==
  ASSUME NEW w \in Nat \ {0}, NEW old \in Seq(Lines),
         \A k \in 1..Len(old) : CellsOf(old[k]) \in Seq(RoomFor(w)),
         NEW wrapped, wrapped = [i \in DOMAIN CollectLogicalLines(old) |->
                                   RewrapLine(TrimTrailingBlankCells(CollectLogicalLines(old)[i]), w)]
  PROVE  FlattenSeq(wrapped) \in Seq(Lines) /\ Text(FlattenSeq(wrapped)) = Text(old)
<1> DEFINE lines == CollectLogicalLines(old)
           n == Len(lines)
           C == RoomFor(w)
<1>1. lines \in Seq(Seq(C))
  BY CollectKeeps
<1>2. Gather(CellsSay, lines) = Text(old)
  BY CollectSays
<1>3. wrapped = [i \in DOMAIN lines |-> RewrapLine(TrimTrailingBlankCells(lines[i]), w)]
  OBVIOUS
<1> HIDE DEF lines
<1>4. n \in Nat /\ DOMAIN lines = 1..n /\ \A i \in 1..n : lines[i] \in Seq(C)
  BY <1>1, LenProperties, ElementOfSeq
<1>5. C \subseteq Cell
  BY DEF RoomFor
<1> HIDE DEF C, n
<1>6. ASSUME NEW i \in 1..n
      PROVE  /\ lines[i] \in Seq(Cell) /\ RewrapLine(TrimTrailingBlankCells(lines[i]), w) \in Seq(Lines)
             /\ Text(RewrapLine(TrimTrailingBlankCells(lines[i]), w)) = TextOf(lines[i])
  <2> DEFINE cells == lines[i]
             t == TrimTrailingBlankCells(cells)
  <2>1. cells \in Seq(C)
    BY <1>4
  <2>2. cells \in Seq(Cell)
    BY <1>5, <2>1, SeqMonotonic
  <2> HIDE DEF cells
  <2>3. t \in Seq(C)
    BY <2>1, TrimKeeps
  <2>4. TextOf(t) = TextOf(cells)
    BY <2>2, TrimSays
  <2> HIDE DEF t
  <2>5. t \in Seq(RoomFor(w)) /\ t \in Seq(Cell)
    BY <1>5, <2>3, SeqMonotonic DEF C
  <2>6. Text(RewrapLine(t, w)) = TextOf(t)
    BY <2>5, RewrapSays
  <2>7. RewrapLine(t, w) \in Seq(WholeLine(w))
    BY <2>5, RewrapGivesWholeRows
  <2>8. WholeLine(w) \subseteq Lines
    BY LinesAreRows DEF WholeLine
  <2>9. RewrapLine(t, w) \in Seq(Lines)
    BY <2>7, <2>8, SeqMonotonic
  <2> QED
    BY <2>2, <2>4, <2>6, <2>9 DEF t, cells
<1>7. wrapped \in [1..n -> Seq(Lines)] /\ \A i \in 1..n : wrapped[i] = RewrapLine(TrimTrailingBlankCells(lines[i]), w)
  BY <1>3, <1>4, <1>6
<1>8. wrapped \in Seq(Seq(Lines))
  BY <1>4, <1>7, SeqDef
<1>9. DOMAIN wrapped = 1..n
  BY <1>7
<1>10. Each(RowsSay, wrapped) = Each(CellsSay, lines)
  <2>1. \A i \in 1..n : RowsSay[wrapped[i]] = Text(wrapped[i]) /\ CellsSay[lines[i]] = TextOf(lines[i])
    BY <1>6, <1>7 DEF RowsSay, CellsSay
  <2>2. \A i \in 1..n : RowsSay[wrapped[i]] = CellsSay[lines[i]]
    BY <1>6, <1>7, <2>1
  <2> QED
    BY <1>4, <1>9, <2>2 DEF Each
<1>11. Gather(RowsSay, wrapped) = Gather(CellsSay, lines)
  BY <1>10 DEF Gather
<1>12. Text(FlattenSeq(wrapped)) = Gather(RowsSay, wrapped)
  BY <1>8, FlattenSays
<1>13. FlattenSeq(wrapped) \in Seq(Lines)
  BY <1>8, FlattenKeeps
<1> QED
  BY <1>2, <1>11, <1>12, <1>13 DEF lines

\* There is room for each of the cells, and what reflow makes of a scrollback and a
\* screen.
Roomy(lines, w) == \A k \in 1..Len(lines) : CellsOf(lines[k]) \in Seq(RoomFor(w))
Reflows(old, new, above, shown, row, col, w, h) ==
  old = Reverse(above) \o shown /\ new = ReflowScreen(above, shown, row, col, w, h)

\* A reflow puts the text of the rows into the rows it makes, all of it and in order
\* (reflow).
LEMMA ReflowSays ==
  ASSUME NEW above \in Seq(Lines), NEW shown \in Seq(Lines), NEW row, NEW col,
         NEW w \in Nat \ {0}, NEW h \in Nat, NEW old \in Seq(Lines), Roomy(old, w),
         NEW new, Reflows(old, new, above, shown, row, col, w, h)
  PROVE  Text(new.scrollback \o new.visible) = Text(old)
<1> DEFINE lines == CollectLogicalLines(old)
           wrapped == [i \in DOMAIN lines |-> RewrapLine(TrimTrailingBlankCells(lines[i]), w)]
           reflowed == FlattenSeq(wrapped)
           n == Len(reflowed)
           C == {0} \cup {i \in DOMAIN reflowed : ~IsPadding(reflowed[i])}
           ending == Max(C)
           top == Max({0, ending - h})
           seen == SubSeq(reflowed, top + 1, ending)
           padding == [i \in 1..(h - Len(seen)) |-> NewRow(w)]
           gone == SubSeq(reflowed, 1, top)
<1>1. reflowed \in Seq(Lines) /\ Text(reflowed) = Text(old)
  <2>1. wrapped = [i \in DOMAIN CollectLogicalLines(old) |->
                     RewrapLine(TrimTrailingBlankCells(CollectLogicalLines(old)[i]), w)]
    OBVIOUS
  <2>2. \A k \in 1..Len(old) : CellsOf(old[k]) \in Seq(RoomFor(w))
    BY DEF Roomy
  <2> HIDE DEF wrapped
  <2> QED
    BY <2>1, <2>2, WrappedAgain
<1>2. new.visible = seen \o padding /\ new.scrollback = gone
  BY DEF Reflows, ReflowScreen
<1> HIDE DEF reflowed, n
<1>3. n \in Nat /\ DOMAIN reflowed = 1..n /\ \A i \in 1..n : reflowed[i] \in Lines
  BY <1>1, LenProperties, ElementOfSeq DEF n
<1>4. C \in SUBSET (0..n) /\ C # {}
  BY <1>3
<1>5. \A i \in 1..n : i \notin C => IsPadding(reflowed[i])
  BY <1>3
<1> HIDE DEF C
<1>6. ending \in C /\ \A y \in C : ending >= y
  BY <1>3, <1>4, Greatest
<1>7. ending \in 0..n
  BY <1>4, <1>6
<1> HIDE DEF ending
<1>8. Text(reflowed) = Text(SubSeq(reflowed, 1, ending))
  <2>1. ASSUME NEW i \in (ending + 1)..n
        PROVE  RowText(reflowed[i]) = <<>>
    <3>1. i \in 1..n /\ ~(ending >= i)
      BY <1>3, <1>7
    <3>2. IsPadding(reflowed[i]) /\ reflowed[i] \in Lines
      BY <1>3, <1>5, <1>6, <3>1
    <3> QED
      BY <3>2, PaddingHasNoText
  <2> QED
    BY <1>1, <1>7, <2>1, FirstRowsText DEF n
<1>9. top \in Nat /\ top <= ending
  <2> DEFINE k == ending - h
  <2>1. k \in Int /\ k <= ending /\ ending \in Nat
    BY <1>3, <1>7
  <2>2. CASE k >= 0
    <3>1. {0, k} \in SUBSET (0..k) /\ k \in Nat
      BY <2>1, <2>2
    <3> HIDE DEF k
    <3>2. Max({0, k}) \in {0, k}
      BY <3>1, Greatest
    <3> QED
      BY <2>1, <2>2, <3>2 DEF k
  <2>3. CASE k < 0
    <3> HIDE DEF k
    <3>1. 0 \in {0, k} /\ \A y \in {0, k} : 0 >= y
      BY <2>1, <2>3
    <3>2. \A x \in {0, k} : (\A y \in {0, k} : x >= y) => x = 0
      BY <2>1, <2>3
    <3>3. Max({0, k}) = 0
      BY <3>1, <3>2 DEF Max
    <3> QED
      BY <2>1, <2>3, <3>3 DEF k
  <2> QED
    BY <2>1, <2>2, <2>3
<1> HIDE DEF top
<1>10. gone \o seen = SubSeq(reflowed, 1, ending)
  <2>1. 1 \in 1..(Len(reflowed) + 1) /\ top \in (1 - 1)..Len(reflowed) /\ ending \in top..Len(reflowed)
    BY <1>3, <1>7, <1>9 DEF n
  <2> QED
    BY <1>1, <2>1, ConcatAdjacentSubSeq
<1>11. gone \in Seq(Lines)
  BY <1>1, <1>3, <1>7, <1>9, SomeRows DEF n
<1>12. seen \in Seq(Lines) /\ Len(seen) = ending - top
  <2> DEFINE m == top + 1
  <2>1. m \in Nat /\ m >= 1 /\ ending \in Nat /\ m <= ending + 1 /\ ending <= Len(reflowed)
    BY <1>3, <1>7, <1>9 DEF n
  <2> HIDE DEF m
  <2>2. SubSeq(reflowed, m, ending) \in Seq(Lines) /\ Len(SubSeq(reflowed, m, ending)) = ending - m + 1
    BY <1>1, <2>1, SomeRows
  <2>3. ending - m + 1 = ending - top
    BY <1>3, <1>7, <1>9 DEF m
  <2> QED
    BY <2>2, <2>3 DEF m
<1>13. ending - top <= h
  <2> DEFINE k == ending - h
  <2>1. k \in Int /\ ending \in Nat
    BY <1>3, <1>7
  <2>2. CASE k >= 0
    <3>1. {0, k} \in SUBSET (0..k) /\ k \in Nat
      BY <2>1, <2>2
    <3> HIDE DEF k
    <3>2. Max({0, k}) >= k
      BY <3>1, Greatest
    <3> QED
      BY <1>9, <2>1, <2>2, <3>2 DEF k, top
  <2>3. CASE k < 0
    BY <1>9, <2>1, <2>3
  <2> QED
    BY <2>1, <2>2, <2>3
<1> HIDE DEF gone, seen
<1>14. padding \in Seq(Lines) /\ Text(padding) = <<>>
  <2> DEFINE k == h - Len(seen)
  <2>1. k \in Nat
    BY <1>3, <1>7, <1>9, <1>12, <1>13
  <2> HIDE DEF k
  <2>2. [i \in 1..k |-> NewRow(w)] \in Seq(Lines) /\ Text([i \in 1..k |-> NewRow(w)]) = <<>>
    BY <2>1, NewRowsHaveNoText
  <2> QED
    BY <2>2 DEF k
<1> HIDE DEF padding
<1>15. Text(seen \o padding) = Text(seen) /\ seen \o padding \in Seq(Lines)
  <2>1. Text(seen \o padding) = Text(seen) \o <<>>
    BY <1>12, <1>14, LinesBoth
  <2>2. Text(seen) \in Seq(Glyphs)
    BY <1>12, LinesBoth
  <2>3. seen \o padding \in Seq(Lines)
    BY <1>12, <1>14, ConcatProperties
  <2> QED
    BY <2>1, <2>2, <2>3, TextsAlone
<1> DEFINE below == seen \o padding
<1> HIDE DEF below
<1>16. Text(gone \o below) = Text(gone) \o Text(below)
  <2>1. below \in Seq(Lines)
    BY <1>15 DEF below
  <2> QED
    BY <1>11, <2>1, LinesBoth
<1>17. Text(gone \o seen) = Text(gone) \o Text(seen)
  BY <1>11, <1>12, LinesBoth
<1> QED
  BY <1>1, <1>2, <1>8, <1>10, <1>15, <1>16, <1>17 DEF below

\* Rows pushed one after the other into an empty scrollback, and the rows below them,
\* tell what is left of their text (ScrollbackBuffer::push).
LEMMA PushingAllTells ==
  ASSUME NEW lines \in Seq(Lines), NEW shown \in Seq(Lines)
  PROVE  Told(PushAll(<<>>, lines), shown, Text(lines \o shown))
<1> DEFINE n == Len(lines)
           rest(k) == SubSeq(lines, k + 1, n) \o shown
           text == Text(lines \o shown)
<1>1. n \in Nat /\ DOMAIN lines = 1..n /\ \A k \in 1..n : lines[k] \in Lines
  BY LenProperties, ElementOfSeq
<1>2. PICK p : Pushes(<<>>, lines, p) /\ p[n] = PushAll(<<>>, lines)
  BY <1>1, PushesExist
<1>3. text \in Seq(Glyphs)
  <2>1. lines \o shown \in Seq(Lines)
    BY ConcatProperties
  <2> QED
    BY <2>1, LinesBoth
<1> HIDE DEF n
<1>4. rest(0) = lines \o shown /\ rest(n) = shown
  <2>1. SubSeq(lines, 0 + 1, n) = lines
    BY SubSeqFull DEF n
  <2>2. SubSeq(lines, n + 1, n) = <<>>
    BY <1>1, SubSeqEmpty
  <2>3. <<>> \o shown = shown
    BY ConcatEmptySeq
  <2> QED
    BY <2>1, <2>2, <2>3
<1>5. ASSUME NEW k \in 0..n
      PROVE  SubSeq(lines, k + 1, n) \in Seq(Lines) /\ rest(k) \in Seq(Lines)
  <2> DEFINE m == k + 1
  <2>1. m \in Nat /\ m >= 1 /\ m <= n + 1 /\ n <= Len(lines)
    BY <1>1 DEF n
  <2> HIDE DEF m
  <2>2. SubSeq(lines, m, n) \in Seq(Lines)
    BY <1>1, <2>1, SomeRows
  <2>3. SubSeq(lines, m, n) \o shown \in Seq(Lines)
    BY <2>2, ConcatProperties
  <2> QED
    BY <2>2, <2>3 DEF m
<1>6. ASSUME NEW k \in Nat, k + 1 <= n
      PROVE  Text(rest(k)) = RowText(lines[k + 1]) \o Text(rest(k + 1))
  <2> DEFINE m == k + 1
             row == lines[m]
             one == <<row>>
             behind == SubSeq(lines, m + 1, n)
             below == behind \o shown
  <2>1. m \in 1..n /\ m \in 0..n
    BY <1>1, <1>6
  <2> HIDE DEF m
  <2>2. SubSeq(lines, m, n) = one \o behind
    <3>1. n \in 1..Len(lines) /\ m \in 1..n
      BY <1>1, <2>1 DEF n
    <3> QED
      BY <3>1, SubSeqRecursiveFirst
  <2>3. row \in Lines /\ behind \in Seq(Lines) /\ below \in Seq(Lines)
    BY <1>1, <1>5, <2>1
  <2> HIDE DEF row, behind
  <2>4. one \in Seq(Lines) /\ Text(one) = RowText(row)
    BY <2>3, OneRowText
  <2> HIDE DEF one
  <2>5. (one \o behind) \o shown = one \o below
    BY <2>3, <2>4, ConcatAssociative
  <2> HIDE DEF below
  <2>6. Text(one \o below) = RowText(row) \o Text(below)
    BY <2>3, <2>4, LinesBoth
  <2>7. Text(SubSeq(lines, m, n) \o shown) = RowText(lines[m]) \o Text(SubSeq(lines, m + 1, n) \o shown)
    BY <2>2, <2>5, <2>6 DEF row, below, behind
  <2> QED
    BY <2>7 DEF m
<1>7. \A k \in 0..n : rest(k) \in Seq(Lines)
  BY <1>5
<1> HIDE DEF rest, text
<1> DEFINE P == {k \in Nat : k <= n => p[k] \in Seq(Lines) /\ Told(p[k], rest(k), text)}
<1>8. 0 \in P
  <2> DEFINE none == <<>>
  <2>1. p[0] = none /\ none \in Seq(Lines) /\ none \in Seq(Glyphs)
    BY <1>2 DEF Pushes
  <2>2. Reverse(none) \o rest(0) = rest(0)
    <3>1. Reverse(none) = <<>>
      BY DEF Reverse
    <3>2. rest(0) \in Seq(Lines)
      BY <1>1, <1>7
    <3> QED
      BY <3>1, <3>2, ConcatEmptySeq
  <2>3. text = none \o Text(rest(0))
    <3>1. text = Text(rest(0))
      BY <1>4 DEF text
    <3> QED
      BY <1>3, <3>1, TextsAlone
  <2> HIDE DEF none
  <2>4. Leaves(none, rest(0), text, none)
    <3>1. none = <<>>
      BY DEF none
    <3> QED
      BY <2>1, <2>2, <2>3, <3>1 DEF Leaves
  <2> QED
    BY <2>1, <2>4 DEF Told
<1>9. ASSUME NEW k \in Nat, k \in P
      PROVE  k + 1 \in P
  <2> SUFFICES ASSUME k + 1 <= n
               PROVE  p[k + 1] \in Seq(Lines) /\ Told(p[k + 1], rest(k + 1), text)
    OBVIOUS
  <2> DEFINE old == p[k]
             row == lines[k + 1]
             now == rest(k)
             next == rest(k + 1)
  <2>1. old \in Seq(Lines) /\ Told(old, now, text) /\ k + 1 \in 1..n /\ (k + 1) - 1 = k /\ k \in 0..n /\ k + 1 \in 0..n
    BY <1>1, <1>9
  <2>2. p[k + 1] = PushRow(old, row, MaxLines)
    BY <1>2, <2>1 DEF Pushes, n
  <2>3. row \in Lines /\ now \in Seq(Lines) /\ next \in Seq(Lines)
    BY <1>1, <1>7, <2>1
  <2>4. Text(now) = RowText(row) \o Text(next)
    BY <1>6
  <2> HIDE DEF old, row, now, next
  <2>5. PushRow(old, row, MaxLines) \in Seq(Lines)
    BY <2>1, <2>3, PushingARow
  <2>6. Told(PushRow(old, row, MaxLines), next, text)
    BY <1>3, <2>1, <2>3, <2>4, PushingTells
  <2> QED
    BY <2>2, <2>5, <2>6 DEF next
<1> HIDE DEF P
<1>10. n \in P
  BY <1>1, <1>8, <1>9, Numbers
<1>11. Told(p[n], rest(n), text)
  BY <1>1, <1>10 DEF P
<1> QED
  BY <1>2, <1>4, <1>11 DEF text

\* A reflow moves text, it loses none and swaps none: what goes is what the scrollback
\* has no room for. Broad characters need two columns (reflow, rewrap_line,
\* collect_logical_lines).
THEOREM ReflowAlwaysKeepsText == Spec => ReflowKeepsText
<1> DEFINE A == cols' # cols /\ alternate = <<>>
                  => \A old \in {History}, new \in {Text(History')} :
                       \/ cols' = 1 /\ \E i \in DOMAIN old : \E c \in DOMAIN old[i].cells : IsA(old[i], c, "lead")
                       \/ LeftOf(new, Text(old), scrollback')
<1>1. Typed /\ [Next]_vars => A
  <2> SUFFICES ASSUME Typed, [Next]_vars, cols' # cols, alternate = <<>>,
                      ~(cols' = 1 /\ \E i \in DOMAIN History : \E c \in DOMAIN History[i].cells : IsA(History[i], c, "lead"))
               PROVE  LeftOf(Text(History'), Text(History), scrollback')
    OBVIOUS
  <2>1. Resize
    <3>1. SaveCursor \/ RestoreCursor \/ SetMargins \/ Moves => cols' = cols
      BY DEF SaveCursor, RestoreCursor, SetMargins, Moves, geometry
    <3>2. LeaveAlternate \/ EnterAlternate => cols' = cols
      BY DEF LeaveAlternate, EnterAlternate, geometry
    <3> QED
      BY <3>1, <3>2, EveryStep DEF Typed
  <2>2. PICK size \in Sizes :
          /\ IF alternate # <<>> \/ size[1] = cols THEN BasicResize(size[1], size[2]) ELSE ReflowResize(size[1], size[2])
          /\ cols' = size[1] /\ rows' = size[2]
    BY <2>1 DEF Resize
  <2> DEFINE c == size[1]
             r == size[2]
  <2>3. c \in Nat \ {0} /\ r \in Nat /\ cols' = c /\ ReflowResize(c, r)
    BY <2>2, SizesHaveRoom
  <2>4. cols \in Nat \ {0} /\ rows \in Nat \ {0}
    BY DEF Typed, Shape
  <2> HIDE DEF c, r
  <2> DEFINE old == Reverse(scrollback) \o visible
             new == ReflowScreen(scrollback, visible, cursor.row, cursor.col, c, r)
  <2>5. History = old
    BY DEF History
  <2>6. scrollback \in Seq(Lines) /\ visible \in Seq(Lines)
    BY <2>4, ScreenTextIsText DEF Typed, Kept
  <2>7. old \in Seq(Lines)
    BY <2>6, Reversing, ConcatProperties
  <2>8. visible' = new.visible /\ scrollback' = PushAll(<<>>, new.scrollback) /\ alternate' = <<>>
    BY <2>3 DEF ReflowResize, PushAll
  <2>9. new.visible \in Seq(Lines) /\ new.scrollback \in Seq(Lines)
    <3>1. new.visible \in Seq(WholeLine(c)) /\ new.scrollback \in Seq(WholeLine(c))
      BY <2>3, <2>6, ReflowGivesWholeRows
    <3>2. WholeLine(c) \subseteq Lines
      BY <2>3, LinesAreRows DEF WholeLine
    <3> HIDE DEF new
    <3> QED
      BY <3>1, <3>2, SeqMonotonic
  <2> HIDE DEF old
  <2>10. ASSUME NEW k \in 1..Len(old)
         PROVE  CellsOf(old[k]) \in Seq(RoomFor(c))
    <3> DEFINE l == old[k]
               cells == CellsOf(l)
    <3>1. k \in DOMAIN old /\ l \in Lines
      BY <2>7, LenProperties, ElementOfSeq
    <3>2. PICK w \in Nat \ {0} : l \in Line(w)
      BY <3>1 DEF Lines
    <3>3. /\ cells \in Seq(Cell) /\ Len(cells) = w /\ \A i \in 1..w : cells[i] = l.cells[i - 1]
          /\ DOMAIN l.cells = 0..(w - 1)
      BY <3>2, CellsOfALine DEF Line
    <3>4. c > 1 \/ \A i \in 0..(w - 1) : l.cells[i].kind # "lead"
      <4>1. c > 1 \/ c = 1
        BY <2>3
      <4>2. c = 1 => ~(\E i \in DOMAIN old : \E j \in DOMAIN old[i].cells : IsA(old[i], j, "lead"))
        BY <2>3, <2>5
      <4>3. c = 1 => \A i \in DOMAIN l.cells : ~IsA(l, i, "lead")
        BY <3>1, <4>2
      <4> QED
        BY <3>3, <4>1, <4>3 DEF IsA
    <3> HIDE DEF l, cells
    <3>5. \A i \in 1..w : cells[i] \in RoomFor(c)
      <4>1. \A i \in 1..w : cells[i] \in Cell /\ i - 1 \in 0..(w - 1)
        BY <3>3, ElementOfSeq
      <4> QED
        BY <3>3, <3>4, <4>1 DEF RoomFor
    <3>6. cells \in Seq(RoomFor(c))
      <4>1. cells = [i \in 1..w |-> cells[i]]
        BY <3>3
      <4> DEFINE T == RoomFor(c)
      <4>2. \A i \in 1..w : cells[i] \in T
        BY <3>5
      <4> HIDE DEF T
      <4>3. cells \in [1..w -> T]
        BY <4>1, <4>2
      <4>4. cells \in Seq(T)
        BY <3>2, <4>3, SeqDef
      <4> QED
        BY <4>4 DEF T
    <3> QED
      BY <3>6 DEF cells, l
  <2>11. Text(new.scrollback \o new.visible) = Text(old)
    <3>1. Roomy(old, c)
      BY <2>10 DEF Roomy
    <3>2. Reflows(old, new, scrollback, visible, cursor.row, cursor.col, c, r)
      BY DEF Reflows, old
    <3> HIDE DEF new
    <3> QED
      BY <2>3, <2>6, <2>7, <3>1, <3>2, ReflowSays
  <2> HIDE DEF new
  <2> DEFINE above == new.scrollback
             shown == new.visible
             buffer == PushAll(<<>>, above)
  <2>12. above \in Seq(Lines) /\ shown \in Seq(Lines)
    BY <2>9
  <2> HIDE DEF above, shown
  <2>13. Told(buffer, shown, Text(above \o shown))
    BY <2>12, PushingAllTells
  <2>14. buffer \in Seq(Lines)
    <3>1. <<>> \in Seq(Lines) /\ Len(<<>>) = 0 /\ 0 <= MaxLines
      BY TerminalAssumption
    <3> QED
      BY <2>12, <3>1, PushingRows
  <2> HIDE DEF buffer
  <2>15. LeftOf(Text(Reverse(buffer) \o shown), Text(above \o shown), buffer)
    BY <2>12, <2>13, <2>14, TellingIsLeft
  <2>16. History' = Reverse(buffer) \o shown /\ scrollback' = buffer
    BY <2>8 DEF History, buffer, above, shown
  <2> QED
    BY <2>5, <2>11, <2>15, <2>16 DEF above, shown
<1>2. [][A]_vars => ReflowKeepsText
  BY DEF ReflowKeepsText
<1> QED
  BY <1>1, <1>2, TypedHolds, PTL DEF Spec
================================================================================

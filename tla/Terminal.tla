------------------------------- MODULE Terminal -------------------------------
(***************************************************************************)
(* The terminal emulator behind a pane (grid.rs, terminal.rs, tabstops.rs, *)
(* scrollback.rs, modes.rs): the two screens, the cursor, the scroll       *)
(* region, the modes, the tab stops and the scrollback, under the          *)
(* characters and the control sequences an application sends and the       *)
(* resizes of its pane.                                                    *)
(*                                                                         *)
(* Columns and rows are counted from 0 as in the code; row r of the screen *)
(* is visible[r + 1].                                                      *)
(***************************************************************************)
EXTENDS Reflow

CONSTANTS
  Graphics,     \* what DEC Special Graphics makes of the characters it maps
  Sizes,        \* <<columns, rows>> a pane may be given
  MaxLines,     \* rows the scrollback keeps, 10 000
  SgrCommands,  \* whole commands of SGR sequences: a code, or a colour with its numbers
  SgrLists,     \* parameters of SGR sequences, whole and cut short
  Counts,       \* parameters of the other sequences, 0 for an omitted one
  Repertoires,  \* sets of operations an application may confine itself to
  MaxTyped      \* bound of the model: characters that are printed

ASSUME TerminalAssumption ==
  /\ Sizes # {} /\ Sizes \subseteq Nat \X Nat
  /\ \A size \in Sizes : size[1] > 0 /\ size[2] > 0
  /\ MaxLines \in Nat /\ Counts \subseteq Nat /\ MaxTyped \in Nat
  /\ DOMAIN Graphics \subseteq Narrow
  /\ \A char \in DOMAIN Graphics : Graphics[char] \notin Broad \cup Zero

\* Parameters are numbers; 38 and 48 begin a colour of the palette (5) or an RGB one (2).
ASSUME SgrAssumption ==
  /\ SgrLists \subseteq Seq(Nat) /\ SgrCommands \subseteq Seq(Nat)
  /\ \A command \in SgrCommands :
       \/ Len(command) = 1 /\ command[1] \notin {38, 48}
       \/ Len(command) = 3 /\ command[1] \in {38, 48} /\ command[2] = 5
       \/ Len(command) = 5 /\ command[1] \in {38, 48} /\ command[2] = 2

Operations == {"PRINT", "MARK", "BS", "TAB", "CR", "LF", "RI", "MOVE", "CUP", "ED",
               "EL", "ECH", "STOPS", "DECSTBM", "SCROLL", "DECSC", "DECRC", "MODE",
               "ALT", "SGR", "CHARSET", "RESIZE"}
Flags == {"ORIGIN", "AUTO_WRAP", "CURSOR_VISIBLE", "MOUSE_REPORT_CLICK"}
Charsets == {"Ascii", "DecSpecialGraphics"}

VARIABLES
  repertoire,  \* the operations of this behaviour
  cols, rows,  \* Grid::cols, Grid::rows
  visible,     \* Grid::visible
  scrollback,  \* Grid::scrollback, the newest row first
  cursor,      \* Grid::cursor
  saved,       \* Grid::saved_cursor: no cursor, or one
  region,      \* Grid::scroll_region
  modes,       \* Grid::modes and TerminalState::modes, always set together
  alternate,   \* Grid::alternate: nothing, or the primary screen that waits
  tabs,        \* columns with a tab stop
  charsets,    \* TerminalState::charset_g0, charset_g1, active_charset
  panicked,    \* an index was out of range
  typed        \* auxiliary: the characters printed

geometry == <<cols, rows>>
content == <<visible, scrollback>>
settings == <<region, modes, tabs, charsets>>
vars == <<repertoire, geometry, content, cursor, saved, settings, alternate, panicked, typed>>

\* All but the cursor.
others == <<repertoire, geometry, content, saved, settings, alternate, panicked, typed>>
\* All but what a character or a scroll changes.
untouched == <<repertoire, geometry, saved, settings, alternate, panicked>>

-----------------------------------------------------------------------------
FullRegion(r) == [top |-> 0, bottom |-> r - 1]
NewScreen(c, r) == [i \in 1..r |-> NewRow(c)]
HomeCursor == [col |-> 0, row |-> 0, style |-> Plain, visible |-> TRUE, pending |-> FALSE]

\* TabStops::new and the new columns of TabStops::resize.
DefaultStops(from, to) == {c \in from..(to - 1) : c % 8 = 0}

Init ==
  /\ repertoire \in Repertoires
  /\ \E size \in Sizes : cols = size[1] /\ rows = size[2]
  /\ visible = NewScreen(cols, rows) /\ scrollback = <<>>
  /\ cursor = HomeCursor /\ saved = <<>>
  /\ region = FullRegion(rows)
  /\ modes = {"AUTO_WRAP", "CURSOR_VISIBLE"}
  /\ alternate = <<>>
  /\ tabs = DefaultStops(0, cols)
  /\ charsets = [g |-> <<"Ascii", "Ascii">>, active |-> 1]
  /\ panicked = FALSE /\ typed = <<>>

Uses(operation) == operation \in repertoire /\ ~panicked

Panic == panicked' = TRUE /\ UNCHANGED <<cursor, repertoire, geometry, content, saved, settings, alternate, typed>>

\* min(n, limit - 1)
Clamp(n, limit) == IF n \in 0..(limit - 1) THEN n ELSE limit - 1
Less(n, k) == IF n > k THEN n - k ELSE 0

\* param: an omitted or zero parameter stands for the default.
Param(n) == IF n = 0 THEN 1 ELSE n

\* set_cursor
At(col, row) ==
  [cursor EXCEPT !.col = Clamp(col, cols), !.row = Clamp(row, rows), !.pending = FALSE]
SetCursor(col, row) == cursor' = At(col, row) /\ UNCHANGED others

-----------------------------------------------------------------------------
(* Scrolling, always within the current region. *)

\* scroll_up_in_region and scroll_down_in_region, the rows that are left.
Moving(n) == Min({n, region.bottom - region.top + 1})
ScrolledUp(lines, n) ==
  SubSeq(lines, 1, region.top) \o SubSeq(lines, region.top + Moving(n) + 1, region.bottom + 1)
    \o NewScreen(cols, Moving(n)) \o SubSeq(lines, region.bottom + 2, Len(lines))
ScrolledDown(lines, n) ==
  SubSeq(lines, 1, region.top) \o NewScreen(cols, Moving(n))
    \o SubSeq(lines, region.top + 1, region.bottom + 1 - Moving(n))
    \o SubSeq(lines, region.bottom + 2, Len(lines))

\* Mutant: the alternate screen's rows are captured too.
Captured_AnyScreen(lines, n) ==
  IF region = FullRegion(rows)
    THEN FoldLeft(LAMBDA buffer, row : PushRow(buffer, row, MaxLines), scrollback,
                  SubSeq(lines, 1, Moving(n)))
    ELSE scrollback

\* The rows scroll_up_in_region takes off the top go to the scrollback when
\* the region is the whole of the primary screen.
Captured(lines, n) ==
  IF alternate = <<>> /\ region = FullRegion(rows)
    THEN FoldLeft(LAMBDA buffer, row : PushRow(buffer, row, MaxLines), scrollback,
                  SubSeq(lines, 1, Moving(n)))
    ELSE scrollback

ScrollUp(n) ==
  /\ visible' = ScrolledUp(visible, n)
  /\ scrollback' = Captured(visible, n)
ScrollDown(n) == visible' = ScrolledDown(visible, n) /\ UNCHANGED scrollback

-----------------------------------------------------------------------------
(* Characters. *)

\* print: the active character set.
Glyph(char) ==
  IF charsets.g[charsets.active] = "DecSpecialGraphics" /\ char \in DOMAIN Graphics
    THEN Graphics[char] ELSE char

\* advance_cursor_row_for_wrap: the row of the cursor, and whether it scrolls.
AtBottom == cursor.row = region.bottom
NextRow == IF AtBottom \/ cursor.row + 1 >= rows THEN cursor.row ELSE cursor.row + 1
SoftWrap(lines) == [lines EXCEPT ![cursor.row + 1].wrapped = TRUE]
Reset(lines, row, col) == [lines EXCEPT ![row + 1].cells[col] = Blank]

\* write_char, for a character that takes columns. A pending wrap comes first;
\* a broad character that does not fit leaves a blank and wraps, or gives up.
Write(char) ==
  LET autoWrap == "AUTO_WRAP" \in modes
      width == Width(char)
      resolves == cursor.pending /\ autoWrap
      col == IF ~cursor.pending THEN cursor.col ELSE IF autoWrap THEN 0 ELSE cols - 1
      noRoom == width = 2 /\ col + 1 >= cols
      givesUp == noRoom /\ (cols = 1 \/ ~autoWrap)
      wraps == resolves \/ (noRoom /\ ~givesUp)
      row == IF wraps THEN NextRow ELSE cursor.row
      filled == IF noRoom /\ ~resolves THEN Reset(visible, cursor.row, col) ELSE visible
      marked == IF wraps THEN SoftWrap(filled) ELSE filled
      scrolls == wraps /\ AtBottom
      moved == IF scrolls THEN ScrolledUp(marked, 1) ELSE marked
      at == IF wraps THEN 0 ELSE col
      right == at + width
  IN IF cursor.row >= rows \/ col >= cols THEN Panic
     ELSE /\ visible' = IF ~givesUp
                          THEN [moved EXCEPT ![row + 1] = Put(moved[row + 1], at, char, cursor.style)]
                          ELSE IF resolves THEN Reset(moved, row, 0) ELSE moved
          /\ scrollback' = IF scrolls THEN Captured(marked, 1) ELSE scrollback
          /\ cursor' = [cursor EXCEPT !.row = row,
                                      !.col = IF givesUp THEN at ELSE Clamp(right, cols),
                                      !.pending = ~givesUp /\ right >= cols]
          /\ typed' = Append(typed, char)
          /\ UNCHANGED <<repertoire, geometry, saved, settings, alternate, panicked>>

PrintChar ==
  /\ Uses("PRINT") /\ Len(typed) < MaxTyped
  /\ \E char \in Narrow \cup Broad : Write(Glyph(char))

\* combine_with_previous: the cell in front of the cursor, though the cursor may
\* still be on the character it wrote last.
Combine(char, col, row) ==
  IF row >= rows \/ col >= cols THEN Panic
  ELSE /\ visible' = [visible EXCEPT ![row + 1].cells[col].text = Append(visible[row + 1].cells[col].text, char)]
       /\ typed' = Append(typed, char)
       /\ UNCHANGED <<repertoire, geometry, scrollback, cursor, saved, settings, alternate, panicked>>

Mark ==
  /\ Uses("MARK") /\ Len(typed) < MaxTyped
  /\ \E char \in Zero :
       \/ cursor.col > 0 /\ Combine(char, cursor.col - 1, cursor.row)
       \/ cursor.col = 0 /\ cursor.row > 0 /\ Combine(char, cols - 1, cursor.row - 1)

-----------------------------------------------------------------------------
(* The cursor. *)

Backspace == Uses("BS") /\ cursor.col > 0 /\ SetCursor(cursor.col - 1, cursor.row)
CarriageReturn == Uses("CR") /\ SetCursor(0, cursor.row)

\* LF, VT, FF and IND. Below the region the last row is the end.
LineFeed ==
  /\ Uses("LF")
  /\ \/ /\ AtBottom /\ ScrollUp(1)
        /\ cursor' = At(cursor.col, cursor.row)
        /\ UNCHANGED <<repertoire, geometry, saved, settings, alternate, panicked, typed>>
     \/ ~AtBottom /\ cursor.row + 1 < rows /\ SetCursor(cursor.col, cursor.row + 1)

\* RI
ReverseIndex ==
  /\ Uses("RI")
  /\ \/ /\ cursor.row = region.top /\ ScrollDown(1)
        /\ cursor' = At(cursor.col, cursor.row)
        /\ UNCHANGED <<repertoire, geometry, saved, settings, alternate, panicked, typed>>
     \/ cursor.row # region.top /\ cursor.row > 0 /\ SetCursor(cursor.col, cursor.row - 1)

\* The n-th stop on one side of the cursor, or the edge: HT, CHT and CBT, with
\* TabStops::next_stop and prev_stop.
Stops(side, upto) == Cardinality({c \in tabs \cap side : c \in upto})
Tab ==
  /\ Uses("TAB")
  /\ \E n \in {Param(k) : k \in Counts}, c \in 0..(cols - 1) :
       \/ LET right == (cursor.col + 1)..(cols - 1)
          IN /\ \/ c \in tabs \cap right /\ Stops(right, 0..c) = n
                \/ c = cols - 1 /\ Stops(right, right) < n
             /\ SetCursor(c, cursor.row)
       \/ LET left == 0..(cursor.col - 1)
          IN /\ \/ c \in tabs \cap left /\ Stops(left, c..cols) = n
                \/ c = 0 /\ Stops(left, left) < n
             /\ IF cursor.col > cols THEN Panic ELSE SetCursor(c, cursor.row)

\* HTS and TBC.
TabStop ==
  /\ Uses("STOPS")
  /\ \/ tabs' = tabs \cup ({cursor.col} \cap 0..(cols - 1))
     \/ tabs' = tabs \ {cursor.col}
     \/ tabs' = {}
  /\ UNCHANGED <<repertoire, geometry, content, cursor, saved, region, modes, charsets, alternate, panicked, typed>>

\* CUU, CUD, CUF, CUB, CNL, CPL, CHA and VPA: relative to the screen, never to
\* the region.
CursorMovement ==
  /\ Uses("MOVE")
  /\ \E n \in {Param(k) : k \in Counts} :
       \/ SetCursor(cursor.col, Less(cursor.row, n))
       \/ SetCursor(cursor.col, cursor.row + n)
       \/ SetCursor(cursor.col + n, cursor.row)
       \/ SetCursor(Less(cursor.col, n), cursor.row)
       \/ SetCursor(0, cursor.row + n)
       \/ SetCursor(0, Less(cursor.row, n))
       \/ SetCursor(n - 1, cursor.row)
       \/ SetCursor(cursor.col, n - 1)

\* CUP and HVP: relative to the region, and kept in it, with DECOM.
CursorPosition ==
  /\ Uses("CUP")
  /\ \E r, c \in {Param(k) : k \in Counts} :
       IF "ORIGIN" \in modes
         THEN SetCursor(c - 1, Clamp(region.top + r - 1, region.bottom + 1))
         ELSE SetCursor(c - 1, r - 1)

\* DECSC and DECRC: the cursor is taken back as it was, whatever the size now.
SaveCursor ==
  /\ Uses("DECSC") /\ saved' = <<cursor>>
  /\ UNCHANGED <<repertoire, geometry, content, cursor, settings, alternate, panicked, typed>>
RestoreCursor ==
  /\ Uses("DECRC") /\ saved # <<>>
  /\ cursor' = saved[1] /\ saved' = <<>>
  /\ UNCHANGED <<repertoire, geometry, content, settings, alternate, panicked, typed>>

-----------------------------------------------------------------------------
(* Erasing and scrolling. *)

Span(row, from, to) == [row |-> row, from |-> from, to |-> to]
WholeRows(these) == {Span(row, 0, cols - 1) : row \in these}

\* The spans of the erase functions, one for a row; a span that ends before it
\* begins is skipped.
Erase(spans) ==
  LET real == {s \in spans : s.from <= s.to}
  IN IF \E s \in real : s.row >= rows \/ s.to >= cols THEN Panic
     ELSE /\ visible' = [i \in DOMAIN visible |->
                           IF \E s \in real : s.row + 1 = i
                             THEN LET s == CHOOSE s \in real : s.row + 1 = i
                                  IN EraseRange(visible[i], s.from, s.to)
                             ELSE visible[i]]
          /\ UNCHANGED <<repertoire, geometry, scrollback, cursor, saved, settings, alternate, panicked, typed>>

ToTheRight == Span(cursor.row, cursor.col, cols - 1)
ToTheLeft == Span(cursor.row, 0, cursor.col)

EraseInDisplay ==
  /\ Uses("ED")
  /\ \/ Erase({ToTheRight} \cup WholeRows((cursor.row + 1)..(rows - 1)))
     \/ Erase({ToTheLeft} \cup WholeRows(0..(cursor.row - 1)))
     \/ Erase(WholeRows(0..(rows - 1)))

EraseInLine ==
  /\ Uses("EL")
  /\ \/ Erase({ToTheRight})
     \/ Erase({ToTheLeft})
     \/ Erase(WholeRows({cursor.row}))

\* Mutant: the count is not clamped to the line.
EraseChars_Unclamped ==
  /\ Uses("ECH")
  /\ \E n \in {Param(k) : k \in Counts} :
       Erase({Span(cursor.row, cursor.col, cursor.col + n - 1)})

EraseChars ==
  /\ Uses("ECH")
  /\ \E n \in {Param(k) : k \in Counts} :
       Erase({Span(cursor.row, cursor.col, Clamp(cursor.col + n - 1, cols))})

\* SU and SD.
Scroll ==
  /\ Uses("SCROLL")
  /\ \E n \in {Param(k) : k \in Counts} : ScrollUp(n) \/ ScrollDown(n)
  /\ UNCHANGED <<repertoire, geometry, cursor, saved, settings, alternate, panicked, typed>>

\* DECSTBM: margins that do not fit are ignored.
SetMargins ==
  /\ Uses("DECSTBM")
  /\ \E t, b \in Counts :
       LET top == Param(t)
           bottom == IF b = 0 THEN rows ELSE b
       IN /\ bottom <= rows /\ top < bottom
          /\ region' = [top |-> top - 1, bottom |-> bottom - 1]
  /\ cursor' = At(0, 0)
  /\ UNCHANGED <<repertoire, geometry, content, saved, modes, tabs, charsets, alternate, panicked, typed>>

-----------------------------------------------------------------------------
(* Modes, styles and character sets. *)

\* Grid::set_modes keeps the cursor's visibility in step.
SetModes(new, now) ==
  /\ modes' = new
  /\ cursor' = [now EXCEPT !.visible = "CURSOR_VISIBLE" \in new]

\* apply_private_mode: DECOM homes the cursor, DECAWM forgets a pending wrap.
PrivateMode ==
  /\ Uses("MODE")
  /\ \E flag \in Flags :
       \/ SetModes(modes \cup {flag},
                   CASE flag = "ORIGIN" -> At(0, region.top)
                     [] flag = "AUTO_WRAP" -> [cursor EXCEPT !.pending = FALSE]
                     [] OTHER -> cursor)
       \/ SetModes(modes \ {flag}, IF flag = "ORIGIN" THEN At(0, 0) ELSE cursor)
  /\ UNCHANGED <<repertoire, geometry, content, saved, region, tabs, charsets, alternate, panicked, typed>>

\* Mode 1049 set: the primary screen waits; a second time only shows the cursor.
EnterAlternate ==
  /\ Uses("ALT")
  /\ IF alternate = <<>>
       THEN /\ alternate' = <<[visible |-> visible, cursor |-> cursor, region |-> region]>>
            /\ visible' = NewScreen(cols, rows) /\ region' = FullRegion(rows)
            /\ SetModes(modes \cup {"CURSOR_VISIBLE", "ALTERNATE_SCREEN"}, HomeCursor)
       ELSE /\ SetModes(modes \cup {"CURSOR_VISIBLE", "ALTERNATE_SCREEN"}, cursor)
            /\ UNCHANGED <<alternate, visible, region>>
  /\ UNCHANGED <<repertoire, geometry, scrollback, saved, tabs, charsets, panicked, typed>>

\* Mode 1049 reset: the visibility is the restored cursor's.
LeaveAlternate ==
  LET back == IF alternate = <<>> THEN [visible |-> visible, cursor |-> cursor, region |-> region]
              ELSE alternate[1]
      shows == IF back.cursor.visible THEN {"CURSOR_VISIBLE"} ELSE {}
  IN /\ Uses("ALT")
     /\ visible' = back.visible /\ region' = back.region
     /\ alternate' = <<>>
     /\ SetModes((modes \ {"CURSOR_VISIBLE", "ALTERNATE_SCREEN"}) \cup shows, back.cursor)
     /\ UNCHANGED <<repertoire, geometry, scrollback, saved, tabs, charsets, panicked, typed>>

SelectGraphicRendition ==
  /\ Uses("SGR")
  /\ \E params \in SgrLists : cursor' = [cursor EXCEPT !.style = ApplySgr(cursor.style, params)]
  /\ UNCHANGED others

\* ESC ( and ESC ), SO and SI.
SelectCharset ==
  /\ Uses("CHARSET")
  /\ \/ \E slot \in 1..2, set \in Charsets : charsets' = [charsets EXCEPT !.g[slot] = set]
     \/ \E slot \in 1..2 : charsets' = [charsets EXCEPT !.active = slot]
  /\ UNCHANGED <<repertoire, geometry, content, cursor, saved, region, modes, tabs, alternate, panicked, typed>>

-----------------------------------------------------------------------------
(* Resizes. *)

ResizedRows(lines, c, r) ==
  [i \in 1..r |-> IF i <= Len(lines) THEN ResizeRow(lines[i], c) ELSE NewRow(c)]

\* TabStops::resize
ResizedTabs(c) == (tabs \cap 0..(c - 1)) \cup DefaultStops(cols, c)

\* Mutant: the rows are forgotten.
Clamped_ColumnsOnly(at, c, r) == [at EXCEPT !.col = Clamp(at.col, c)]

Clamped(at, c, r) == [at EXCEPT !.col = Clamp(at.col, c), !.row = Clamp(at.row, r)]

\* Mutant: the waiting screen keeps its margins.
BasicResize_KeepsMargins(c, r) ==
  /\ visible' = ResizedRows(visible, c, r)
  /\ cursor' = Clamped(cursor, c, r)
  /\ alternate' = [i \in DOMAIN alternate |->
       [visible |-> ResizedRows(alternate[i].visible, c, r),
        cursor |-> Clamped(alternate[i].cursor, c, r),
        region |-> alternate[i].region]]
  /\ UNCHANGED scrollback

\* basic_resize: rows are cut or padded, the waiting primary screen with them.
BasicResize(c, r) ==
  /\ visible' = ResizedRows(visible, c, r)
  /\ cursor' = Clamped(cursor, c, r)
  /\ alternate' = [i \in DOMAIN alternate |->
       [visible |-> ResizedRows(alternate[i].visible, c, r),
        cursor |-> Clamped(alternate[i].cursor, c, r),
        region |-> [top |-> Clamp(alternate[i].region.top, r),
                    bottom |-> Clamp(alternate[i].region.bottom, r)]]]
  /\ UNCHANGED scrollback

ReflowResize(c, r) ==
  LET new == ReflowScreen(scrollback, visible, cursor.row, cursor.col, c, r)
  IN /\ visible' = new.visible
     /\ scrollback' = FoldLeft(LAMBDA buffer, row : PushRow(buffer, row, MaxLines), <<>>, new.scrollback)
     /\ cursor' = [cursor EXCEPT !.col = Clamp(new.col, c), !.row = Clamp(new.row, r),
                                 !.pending = FALSE]
     /\ UNCHANGED alternate

Resize ==
  /\ Uses("RESIZE")
  /\ \E size \in Sizes :
       LET c == size[1]
           r == size[2]
       IN /\ IF alternate # <<>> \/ c = cols THEN BasicResize(c, r) ELSE ReflowResize(c, r)
          /\ cols' = c /\ rows' = r
          /\ region' = FullRegion(r)
          /\ tabs' = ResizedTabs(c)
  /\ UNCHANGED <<repertoire, saved, modes, charsets, panicked, typed>>

-----------------------------------------------------------------------------
Next ==
  \/ PrintChar \/ Mark
  \/ Backspace \/ CarriageReturn \/ LineFeed \/ ReverseIndex \/ Tab \/ TabStop
  \/ CursorMovement \/ CursorPosition \/ SaveCursor \/ RestoreCursor
  \/ EraseInDisplay \/ EraseInLine \/ EraseChars \/ Scroll \/ SetMargins
  \/ PrivateMode \/ EnterAlternate \/ LeaveAlternate
  \/ SelectGraphicRendition \/ SelectCharset \/ Resize

Spec == Init /\ [][Next]_vars
-----------------------------------------------------------------------------
(* Properties. *)

Rectangle(lines, c, r) == Len(lines) = r /\ \A i \in 1..r : DOMAIN lines[i].cells = 0..(c - 1)
CursorType(c) ==
  /\ c.col \in Nat /\ c.row \in Nat /\ c.visible \in BOOLEAN /\ c.pending \in BOOLEAN
  /\ DOMAIN c.style = {"fg", "bg", "attrs"} /\ c.style.attrs \subseteq Attrs

\* Both screens have the size of the pane, tab stops are columns, and the
\* scrollback holds no more than it may.
TypeOK ==
  /\ repertoire \in Repertoires /\ <<cols, rows>> \in Sizes
  /\ Rectangle(visible, cols, rows)
  /\ \A i \in DOMAIN alternate :
       /\ Rectangle(alternate[i].visible, cols, rows)
       /\ CursorType(alternate[i].cursor)
  /\ Len(alternate) <= 1 /\ Len(saved) <= 1
  /\ CursorType(cursor) /\ \A i \in DOMAIN saved : CursorType(saved[i])
  /\ modes \subseteq Flags \cup {"ALTERNATE_SCREEN"}
  /\ tabs \subseteq 0..(cols - 1)
  /\ Len(scrollback) <= MaxLines
  /\ charsets.g \in [1..2 -> Charsets] /\ charsets.active \in 1..2
  /\ panicked \in BOOLEAN /\ Len(typed) <= MaxTyped

\* The margins of both screens are rows of the screen, in order, whatever is
\* resized while one of them waits: scrolling computes bottom - top + 1 with
\* unsigned numbers and drains that many rows.
Fits(area) == 0 <= area.top /\ area.top <= area.bottom /\ area.bottom < rows
MarginsFit == Fits(region) /\ \A i \in DOMAIN alternate : Fits(alternate[i].region)

\* The cursor is on the screen, and only a cursor that was saved before can take
\* it off: everything else clamps to the size the screen has now.
CursorFits == cursor.col < cols /\ cursor.row < rows
OnlyRestoringLeavesTheScreen ==
  [][CursorFits => CursorFits' \/ RestoreCursor \/ LeaveAlternate]_vars

\* The emulator indexes out of its rows only from a cursor that is off screen.
PanicNeedsAStaleCursor == panicked => ~CursorFits

AllLines == visible \o scrollback
  \o (IF alternate = <<>> THEN <<>> ELSE alternate[1].visible)

\* "This cell is the trailing (second) column of a wide character": never one without
\* its first half, or a renderer skips it and the columns behind it move.
NoOrphanTails ==
  \A line \in ToSet(AllLines) : \A c \in DOMAIN line.cells :
    IsA(line, c, "tail") => IsA(line, c - 1, "lead")

\* Only a pane that is resized while the alternate screen is shown may leave one:
\* its rows are cut, a first half stays alone at the edge, and what is written
\* around it later takes it for a pair.
OnlyCutsOrphanTails == {"ALT", "RESIZE"} \subseteq repertoire \/ NoOrphanTails

\* A first half loses its second half only where a broad character finds no room
\* at the edge, or a resize cuts there; writing and erasing over one half of
\* a pair clear both.
PairsAreWhole ==
  \A i \in DOMAIN visible : \A c \in 0..(cols - 1) :
    IsA(visible[i], c, "lead") => IsA(visible[i], c + 1, "tail")
OnlyEdgesTearPairs ==
  [][NoOrphanTails /\ PairsAreWhole
       => \/ PairsAreWhole' \/ Resize \/ LeaveAlternate
          \/ typed' # typed /\ Last(typed') \in Broad]_vars

\* The text of some rows without the spaces, as Grid::row_text reads them.
WithoutSpaces(text) ==
  FlattenSeq([i \in DOMAIN text |-> IF text[i] = Space THEN <<>> ELSE <<text[i]>>])
TextIn(cell) == IF cell.kind = "tail" THEN <<>> ELSE WithoutSpaces(cell.text)
TextOf(cells) == FlattenSeq([i \in DOMAIN cells |-> TextIn(cells[i])])
Text(lines) == FlattenSeq([i \in DOMAIN lines |-> TextOf(CellsOf(lines[i]))])
History == Reverse(scrollback) \o (IF alternate = <<>> THEN visible ELSE alternate[1].visible)

\* What is left of a text: all of it, but for rows the scrollback gave up.
LeftOf(new, old, buffer) == IsSuffix(new, old) /\ (Len(buffer) < MaxLines => new = old)

\* A program that only writes lines finds them all in the scrollback and on
\* the screen, in order and once, however they wrap and scroll.
OutputIsKept ==
  repertoire \subseteq {"PRINT", "LF", "CHARSET"} /\ cols > 1
    => LeftOf(Text(History), WithoutSpaces(typed), scrollback)

\* A reflow moves text, it loses none and swaps none: all that may go is what
\* the scrollback has no room for. Broad characters need two columns.
ReflowKeepsText ==
  [][cols' # cols /\ alternate = <<>>
       => \A old \in {History}, new \in {Text(History')} :
            \/ cols' = 1 /\ \E i \in DOMAIN old : \E c \in DOMAIN old[i].cells : IsA(old[i], c, "lead")
            \/ LeftOf(new, Text(old), scrollback')]_vars

\* While an application shows the alternate screen, nothing it prints, scrolls
\* or erases reaches the primary screen or the scrollback; only a resize
\* reaches the primary screen, and it puts nothing into the scrollback.
PrimaryWaits ==
  [][alternate # <<>> /\ alternate' # <<>>
       => UNCHANGED scrollback /\ (UNCHANGED alternate \/ Resize)]_vars

\* What one whole command of an SGR sequence does.
Meaning(style, command) ==
  IF Len(command) = 1 THEN ApplyCode(style, command[1])
  ELSE [style EXCEPT ![IF command[1] = 38 THEN "fg" ELSE "bg"] =
          [k \in 1..(Len(command) - 2) |-> Min({255, command[k + 2]})]]

\* An SGR sequence does what its commands do one after another: nothing of
\* a colour is read again as a code, and no code is taken for a colour.
SgrReadsLeftToRight ==
  "SGR" \in repertoire =>
    \A p, q \in SgrCommands :
      ApplySgr(cursor.style, p \o q) = Meaning(Meaning(cursor.style, p), q)

-----------------------------------------------------------------------------
(* What the code says of itself and does not do.                             *)

\* The cell at c is one half of a pair, and the cell at col the other.
OtherHalf(line, c, col) ==
  \/ c = col + 1 /\ IsA(line, col, "lead") /\ IsA(line, c, "tail")
  \/ c = col - 1 /\ IsA(line, col, "tail") /\ IsA(line, c, "lead")
\* "If the cell is a leading wide cell: clear the trailing continuation cell":
\* a narrow character that needs no wrap takes one cell, and of those beside it
\* only the other half of a pair it breaks.
WritingClearsOnlyHalves ==
  [][typed' # typed /\ Last(typed') \notin Broad \cup Zero /\ ~cursor.pending
       => LET old == visible[cursor.row + 1]
              new == visible'[cursor.row + 1]
          IN \A c \in DOMAIN old.cells :
               new.cells[c] = old.cells[c] \/ c = cursor.col \/ OtherHalf(old, c, cursor.col)]_vars
=============================================================================

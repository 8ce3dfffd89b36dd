-------------------------------- MODULE Reflow --------------------------------
(***************************************************************************)
(* The reflow of a screen and its scrollback to another width (reflow.rs): *)
(* soft-wrapped rows are joined into logical lines, the lines wrapped      *)
(* again, and the cursor is put where its offset in its line has gone.     *)
(*                                                                         *)
(* Rows are sequences here, the oldest first.                              *)
(***************************************************************************)
EXTENDS Cells

\* A row after which a new logical line begins.
EndsLine(row) == ~row.wrapped

\* collect_logical_lines
CollectLogicalLines(rows) ==
  LET join(acc, row) ==
        [lines |-> IF acc.open
                     THEN Front(acc.lines) \o <<Last(acc.lines) \o CellsOf(row)>>
                     ELSE Append(acc.lines, CellsOf(row)),
         open |-> row.wrapped]
  IN FoldLeft(join, [lines |-> <<>>, open |-> FALSE], rows).lines

\* Mutant: one cell too many.
TrimTrailingBlankCells_OneMore(cells) ==
  SubSeq(cells, 1, Max({0} \cup {i \in DOMAIN cells : ~IsBlank(cells[i])}) - 1)

\* trim_trailing_blank_cells
TrimTrailingBlankCells(cells) ==
  SubSeq(cells, 1, Max({0} \cup {i \in DOMAIN cells : ~IsBlank(cells[i])}))

\* A row of the new width that begins with these cells.
RowOf(cells, cols, wrapped) ==
  [cells |-> [c \in 0..(cols - 1) |-> IF c < Len(cells) THEN cells[c + 1] ELSE Blank],
   wrapped |-> wrapped]

\* rewrap_line. The tails are made anew; a lead in a grid of one column is
\* replaced by a blank, and the cell behind it is dropped whatever it is.
RewrapLine(cells, cols) ==
  LET flush(acc) == [acc EXCEPT !.rows = Append(acc.rows, RowOf(acc.line, cols, TRUE)),
                                !.line = <<>>]
      full(acc) == IF Len(acc.line) >= cols THEN flush(acc) ELSE acc
      add(acc, more) == full([acc EXCEPT !.line = acc.line \o more])
      step(acc, cell) ==
        CASE acc.skip -> [acc EXCEPT !.skip = FALSE]
          [] ~acc.skip /\ cell.kind = "tail" -> acc
          [] ~acc.skip /\ cell.kind = "lead" /\ cols = 1 ->
               [add(acc, <<Blank>>) EXCEPT !.skip = TRUE]
          [] ~acc.skip /\ cell.kind = "lead" /\ cols > 1 ->
               add(IF Len(acc.line) + 1 >= cols THEN flush(acc) ELSE acc,
                   <<cell, [Blank EXCEPT !.kind = "tail"]>>)
          [] OTHER -> add(acc, <<cell>>)
      after[i \in 0..Len(cells)] ==
        IF i = 0 THEN [rows |-> <<>>, line |-> <<>>, skip |-> FALSE]
        ELSE step(after[i - 1], cells[i])
      done == after[Len(cells)]
      rows == IF done.line # <<>> \/ done.rows = <<>>
                THEN Append(done.rows, RowOf(done.line, cols, FALSE)) ELSE done.rows
  IN [rows EXCEPT ![Len(rows)].wrapped = FALSE]

\* cursor_offset_in_lines: the number of the line the row at position "at"
\* belongs to, and the cells of that line before the cursor. A row that is
\* not there gives the first line.
CursorOffsetInLines(rows, at, col) ==
  LET starts == {i \in DOMAIN rows : i = 1 \/ EndsLine(rows[i - 1])}
      start == Max({i \in starts : i <= at})
      before == FoldLeft(LAMBDA n, row : n + Len(CellsOf(row)), 0, SubSeq(rows, start, at - 1))
  IN IF at \notin DOMAIN rows THEN [line |-> 1, offset |-> 0]
     ELSE [line |-> Cardinality({i \in starts : i <= at}), offset |-> before + col]

\* cursor_from_offset, in a line wrapped to rows of the same width. Behind the
\* line's end the column is what the offset leaves over.
CursorFromOffset(lineRows, offset, cols) ==
  LET row == offset \div cols
  IN IF row < lineRows THEN [row |-> row, col |-> offset % cols]
     ELSE [row |-> lineRows - 1, col |-> Min({cols - 1, offset - lineRows * cols})]

\* A row that is dropped at the end of the result.
IsPadding(row) == EndsLine(row) /\ \A c \in DOMAIN row.cells : IsBlank(row.cells[c])

\* reflow. The cursor row is counted from 0 at the top of the screen.
ReflowScreen(scrollback, visible, row, col, cols, rows) ==
  LET old == Reverse(scrollback) \o visible
      at == CursorOffsetInLines(old, Len(scrollback) + row + 1, col)
      lines == CollectLogicalLines(old)
      wrapped == [i \in DOMAIN lines |-> RewrapLine(TrimTrailingBlankCells(lines[i]), cols)]
      place == CursorFromOffset(Len(wrapped[at.line]), at.offset, cols)
      cursorRow == Len(FlattenSeq(SubSeq(wrapped, 1, at.line - 1))) + place.row
      reflowed == FlattenSeq(wrapped)
      content == Max({0} \cup {i \in DOMAIN reflowed : ~IsPadding(reflowed[i])})
      above == Max({0, content - rows})
      shown == SubSeq(reflowed, above + 1, content)
  IN [scrollback |-> SubSeq(reflowed, 1, above),
      visible |-> shown \o [i \in 1..(rows - Len(shown)) |-> NewRow(cols)],
      row |-> IF cursorRow >= above THEN Min({cursorRow - above, rows - 1}) ELSE 0,
      col |-> IF cursorRow >= above THEN Min({place.col, cols - 1}) ELSE 0]
=============================================================================

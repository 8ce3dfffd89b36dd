------------------------------- MODULE Frames -------------------------------
(***************************************************************************)
(* Frames and the messages that carry them (pane.rs, render/diff.rs,       *)
(* render/mod.rs, teamucks/src/client.rs).                                 *)
(*                                                                         *)
(* A pane is abstracted to one row of Width cells and a cursor column; a   *)
(* cell's grapheme and style are one value.  The threshold of the diff,    *)
(* "more than half of the row changed: resend the row", works row by row,  *)
(* so one row keeps all of it.                                             *)
(***************************************************************************)
EXTENDS Integers, FiniteSets, SequencesExt

CONSTANTS
  Width,    \* columns of the pane's row
  Values,   \* what a cell may show
  Blank,    \* what every cell shows at first
  NoFrame,  \* Option::None of Pane::last_frame
  Chunks    \* the chunks of output the children may write

ASSUME FramesAssumption ==
  /\ Width \in Nat \ {0}
  /\ Blank \in Values

Cells == 1..Width

\* What snapshot_current captures: the cells in row-major order, the cursor.
Frame == [cells : [Cells -> Values], cursor : Cells]

BlankFrame == [cells |-> [i \in Cells |-> Blank], cursor |-> 1]

ASSUME NoFrameAssumption == NoFrame \notin Frame

\* A chunk of a child's output: it writes one cell and leaves the cursor
\* somewhere.  What the bytes were is the emulator's business.
Chunk == [cell : Cells, value : Values, cursor : Cells]

ASSUME ChunksAssumption == Chunks \subseteq Chunk

\* Pane::feed.
Feed(frame, chunk) ==
  [cells |-> [frame.cells EXCEPT ![chunk.cell] = chunk.value],
   cursor |-> chunk.cursor]

-----------------------------------------------------------------------------
\* The variants of ServerMessage the actor sends.
Handshake == [type |-> "HandshakeResponse"]
FullFrame(frame) == [type |-> "FullFrame", cells |-> frame.cells]
FrameDiff(cells) == [type |-> "FrameDiff", cells |-> cells]
CursorUpdate(column) == [type |-> "CursorUpdate", cursor |-> column]

ServerMessage ==
  {Handshake}
    \cup {FullFrame(f) : f \in Frame}
    \cup {FrameDiff(d) : d \in UNION {[S -> Values] : S \in SUBSET Cells}}
    \cup {CursorUpdate(i) : i \in Cells}

Changed(prev, current) ==
  {i \in Cells : prev.cells[i] # current.cells[i]}

\* The cells render::diff::compute_diff resends: the changed ones, or the whole
\* row (LineChange) once more than half of it changed.
Resent(prev, current) ==
  IF 2 * Cardinality(Changed(prev, current)) > Width
  THEN Cells
  ELSE Changed(prev, current)

\* Mutant: the cursor is compared before the cells.
ComputeDiff_CursorFirst(last, current) ==
  IF last # NoFrame /\ last.cursor # current.cursor
  THEN CursorUpdate(current.cursor)
  ELSE LET resent == IF last = NoFrame THEN Cells ELSE Resent(last, current)
       IN  FrameDiff([i \in resent |-> current.cells[i]])

\* Pane::compute_diff: a cursor move travels alone or not at all.
ComputeDiff(last, current) ==
  LET resent == IF last = NoFrame THEN Cells ELSE Resent(last, current)
  IN  IF resent = {} /\ last.cursor # current.cursor
      THEN CursorUpdate(current.cursor)
      ELSE FrameDiff([i \in resent |-> current.cells[i]])

-----------------------------------------------------------------------------
\* Where writing cell i leaves the host terminal's cursor; in the last column
\* it waits for the next character.
After(i) == IF i = Width THEN Width ELSE i + 1

\* What the host terminal shows after the output writer has rendered msg.
\* Only the cells of a frame and CursorUpdate move the host's cursor.
Render(screen, msg) ==
  CASE msg.type = "FullFrame" ->
         [cells |-> msg.cells, cursor |-> Width]
    [] msg.type = "FrameDiff" /\ DOMAIN msg.cells # {} ->
         [cells |-> [i \in Cells |-> IF i \in DOMAIN msg.cells
                                     THEN msg.cells[i]
                                     ELSE screen.cells[i]],
          cursor |-> After(Max(DOMAIN msg.cells))]
    [] msg.type = "CursorUpdate" ->
         [screen EXCEPT !.cursor = msg.cursor]
    [] OTHER -> screen

\* The screen once every message of queue, oldest first, is rendered.
RenderAll(screen, queue) == FoldLeft(Render, screen, queue)
=============================================================================

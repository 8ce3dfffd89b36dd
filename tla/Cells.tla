-------------------------------- MODULE Cells --------------------------------
(***************************************************************************)
(* Cells and rows of the terminal emulator (cell.rs, row.rs, the parts of  *)
(* grid.rs that work on one row) and the styles SGR sequences give them    *)
(* (style.rs, terminal.rs).                                                *)
(***************************************************************************)
EXTENDS Integers, SequencesExt, FiniteSetsExt

CONSTANTS
  Narrow,  \* characters of one column
  Broad,   \* characters of two columns
  Zero     \* characters of no column: marks put on what is there

Space == " "
Characters == Narrow \cup Broad \cup Zero

ASSUME CharactersAssumption ==
  /\ Space \notin Broad \cup Zero
  /\ Narrow \cap Broad = {} /\ Narrow \cap Zero = {} /\ Broad \cap Zero = {}

\* UnicodeWidthChar::width
Width(char) == IF char \in Broad THEN 2 ELSE IF char \in Zero THEN 0 ELSE 1

-----------------------------------------------------------------------------
(* Styles. A colour is a sequence of numbers whose length tells its kind:   *)
(* none for the default, one for an entry of the palette, three for RGB.    *)

Attrs == {"BOLD", "DIM", "ITALIC", "UNDERLINE", "BLINK", "INVERSE", "HIDDEN",
          "STRIKETHROUGH", "CURLY_UNDERLINE", "DOTTED_UNDERLINE",
          "DASHED_UNDERLINE", "HYPERLINK"}
Default == <<>>
Plain == [fg |-> Default, bg |-> Default, attrs |-> {}]

\* The attribute a code turns on.
TurnsOn(code) ==
  CASE code = 1 -> {"BOLD"} [] code = 2 -> {"DIM"} [] code = 3 -> {"ITALIC"}
    [] code = 4 -> {"UNDERLINE"} [] code = 5 -> {"BLINK"} [] code = 7 -> {"INVERSE"}
    [] code = 8 -> {"HIDDEN"} [] code = 9 -> {"STRIKETHROUGH"}
    [] code = 21 -> {"CURLY_UNDERLINE"} [] OTHER -> {}

\* The attributes a code turns off.
TurnsOff(code) ==
  CASE code = 22 -> {"BOLD", "DIM"} [] code = 23 -> {"ITALIC"}
    [] code = 24 -> {"UNDERLINE", "CURLY_UNDERLINE", "DOTTED_UNDERLINE", "DASHED_UNDERLINE"}
    [] code = 25 -> {"BLINK"} [] code = 27 -> {"INVERSE"} [] code = 28 -> {"HIDDEN"}
    [] code = 29 -> {"STRIKETHROUGH"} [] OTHER -> {}

\* The codes that stand for themselves.
ApplyCode(style, code) ==
  IF code = 0 THEN Plain
  ELSE [fg |-> CASE code \in 30..37 -> <<code - 30>> [] code = 39 -> Default
                 [] code \in 90..97 -> <<code - 82>> [] OTHER -> style.fg,
        bg |-> CASE code \in 40..47 -> <<code - 40>> [] code = 49 -> Default
                 [] code \in 100..107 -> <<code - 92>> [] OTHER -> style.bg,
        attrs |-> (style.attrs \cup TurnsOn(code)) \ TurnsOff(code)]

\* Mutant: blue is left behind.
ExtendedColor_LeavesBlue(params, i) ==
  LET given == Len(params) - i
      byte(n) == IF n > 255 THEN 255 ELSE n
  IN IF given = 0 THEN [color |-> <<>>, used |-> 0]
     ELSE IF params[i + 1] = 5 /\ given >= 2
       THEN [color |-> <<byte(params[i + 2])>>, used |-> 2]
     ELSE IF params[i + 1] = 2 /\ given >= 4
       THEN [color |-> [k \in 1..3 |-> byte(params[i + 1 + k])], used |-> 3]
     ELSE [color |-> <<>>, used |-> 1]

\* parse_extended_color: the colour after a 38 or 48 at i, <<>> if there is
\* none, and how many parameters it takes with it.
ExtendedColor(params, i) ==
  LET given == Len(params) - i
      byte(n) == IF n > 255 THEN 255 ELSE n
  IN IF given = 0 THEN [color |-> <<>>, used |-> 0]
     ELSE IF params[i + 1] = 5 /\ given >= 2
       THEN [color |-> <<byte(params[i + 2])>>, used |-> 2]
     ELSE IF params[i + 1] = 2 /\ given >= 4
       THEN [color |-> [k \in 1..3 |-> byte(params[i + 1 + k])], used |-> 4]
     ELSE [color |-> <<>>, used |-> 1]

\* apply_sgr: the codes in turn; read[n] is the style after n of them and the
\* place of the next one.
ApplySgr(style, params) ==
  LET extended(pen, at, ground) ==
        LET found == ExtendedColor(params, at)
        IN [at |-> at + 1 + found.used,
            style |-> IF found.color = <<>> THEN pen ELSE [pen EXCEPT ![ground] = found.color]]
      step(pen, at) ==
        CASE params[at] = 38 -> extended(pen, at, "fg")
          [] params[at] = 48 -> extended(pen, at, "bg")
          [] OTHER -> [at |-> at + 1, style |-> ApplyCode(pen, params[at])]
      read[n \in 0..Len(params)] ==
        IF n = 0 THEN [at |-> 1, style |-> style]
        ELSE IF read[n - 1].at > Len(params) THEN read[n - 1]
        ELSE step(read[n - 1].style, read[n - 1].at)
  IN IF params = <<>> THEN Plain ELSE read[Len(params)].style

-----------------------------------------------------------------------------
(* Cells and rows. *)

\* The first half of a broad character is a lead, the second its tail.
Kinds == {"single", "lead", "tail"}

\* Cell::default and Cell::reset.
Blank == [text |-> <<Space>>, kind |-> "single", style |-> Plain]

\* The emulator's notion of an empty cell: a style alone does not fill it.
IsBlank(cell) == cell.text = <<Space>> /\ cell.kind = "single"

\* Row::new
NewRow(cols) == [cells |-> [c \in 0..(cols - 1) |-> Blank], wrapped |-> FALSE]

\* Row::resize keeps the flag, and cuts a broad character in two.
ResizeRow(row, cols) ==
  [row EXCEPT !.cells =
     [c \in 0..(cols - 1) |-> IF c \in DOMAIN row.cells THEN row.cells[c] ELSE Blank]]

IsA(row, col, kind) == col \in DOMAIN row.cells /\ row.cells[col].kind = kind

\* Mutant: the second half stays when the first is overwritten.
ClearWideAt_KeepsTheTail(row, col) ==
  [row EXCEPT !.cells =
     [c \in DOMAIN row.cells |->
        IF c = col - 1 /\ IsA(row, col, "tail") THEN Blank
        ELSE IF c = col THEN [row.cells[c] EXCEPT !.kind = "single"]
        ELSE row.cells[c]]]

\* Grid::clear_wide_at: the other half goes, this one is a single cell now.
ClearWideAt(row, col) ==
  [row EXCEPT !.cells =
     [c \in DOMAIN row.cells |->
        IF (c = col + 1 /\ IsA(row, col, "lead")) \/ (c = col - 1 /\ IsA(row, col, "tail"))
          THEN Blank
        ELSE IF c = col THEN [row.cells[c] EXCEPT !.kind = "single"]
        ELSE row.cells[c]]]

\* Mutant: the left edge is not looked at.
EraseRange_KeepsTheLead(row, from, to) ==
  [row EXCEPT !.cells =
     [c \in DOMAIN row.cells |->
        IF c \in from..to \/ (from <= to /\ c = to + 1 /\ IsA(row, to, "lead"))
          THEN Blank ELSE row.cells[c]]]

\* Grid::erase_range, with the halves that stick out; the flag stays.
EraseRange(row, from, to) ==
  [row EXCEPT !.cells =
     [c \in DOMAIN row.cells |->
        IF \/ c \in from..to
           \/ from <= to /\ c = from - 1 /\ IsA(row, from, "tail")
           \/ from <= to /\ c = to + 1 /\ IsA(row, to, "lead")
          THEN Blank ELSE row.cells[c]]]

\* The part of write_char that writes the character once its place is known.
Put(row, col, char, style) ==
  LET broad == Width(char) = 2
      cleared == IF broad THEN ClearWideAt(ClearWideAt(row, col), col + 1)
                          ELSE ClearWideAt(row, col)
  IN [row EXCEPT !.cells =
        [c \in DOMAIN row.cells |->
           IF c = col
             THEN [text |-> <<char>>, kind |-> IF broad THEN "lead" ELSE "single", style |-> style]
           ELSE IF broad /\ c = col + 1
             THEN [Blank EXCEPT !.kind = "tail", !.style = style]
           ELSE cleared.cells[c]]]

\* The cells of a row as a sequence.
CellsOf(row) == [i \in 1..Cardinality(DOMAIN row.cells) |-> row.cells[i - 1]]

\* Mutant: nothing is evicted.
PushRow_Unbounded(buffer, row, maxLines) == <<row>> \o buffer

\* Mutant: a full buffer takes no more.
PushRow_DropsTheNewest(buffer, row, maxLines) ==
  IF Len(buffer) >= maxLines THEN buffer ELSE <<row>> \o buffer

\* ScrollbackBuffer::push: the newest row first, the oldest gives way.
PushRow(buffer, row, maxLines) ==
  SubSeq(<<row>> \o buffer, 1, Min({maxLines, Len(buffer) + 1}))
=============================================================================

------------------------------ MODULE MCTerminal ------------------------------
(* Small instances of Terminal: screens of one to three columns and two or      *)
(* three rows, one narrow character, a broad one and a mark.                    *)
EXTENDS Terminal

\* 'q' is a line in the special graphics.
LineDrawing == [char \in {"q"} |-> "-"]

SmallSizes == {<<1, 2>>, <<2, 3>>, <<3, 2>>}

\* Codes and colours, and a colour that is cut short.
SomeCommands == {<<0>>, <<1>>, <<2>>, <<22>>, <<31>>, <<38, 5, 1>>, <<48, 2, 1, 0, 300>>, <<38, 2, 22, 0, 1>>}
SomeSgr == {<<>>, <<38, 5>>, <<38, 2, 1>>} \cup SomeCommands

\* What kinds of programs send.
SmallRepertoires == {
  {"PRINT", "LF"},                                    \* a log
  {"PRINT", "LF", "CR", "RESIZE"},                    \* a shell
  {"PRINT", "CUP", "EL", "ECH"},                      \* line editors
  {"PRINT", "ED", "MOVE", "BS"},
  {"PRINT", "LF", "RI", "DECSTBM", "SCROLL"},         \* a pager
  {"PRINT", "MODE"},
  {"CUP", "MODE", "DECSTBM", "SCROLL"},
  {"PRINT", "DECSC", "DECRC", "RESIZE"},              \* a status line
  {"MARK", "CUP", "DECSC", "DECRC", "RESIZE", "ED", "EL", "ECH", "TAB"},
  {"PRINT", "LF", "ALT"},                             \* an editor
  {"PRINT", "ALT", "RESIZE"},
  {"LF", "ALT", "DECSTBM", "RESIZE"},
  {"MODE", "DECSC", "DECRC", "ALT", "RESIZE"},
  {"TAB", "STOPS", "MOVE", "RESIZE"},
  {"PRINT", "MARK", "CHARSET"},
  {"SGR"}}

\* A program that writes over what it wrote.
LineEditor == {{"PRINT", "CUP"}}
=============================================================================

\* A broad character that finds no room over the second half of another.
SPECIFICATION Spec
CONSTANTS
  Narrow = {"q"}
  Broad = {"W"}
  Zero = {"^"}
  Graphics <- LineDrawing
  Sizes <- SmallSizes
  MaxLines = 2
  SgrCommands <- SomeCommands
  SgrLists <- SomeSgr
  Counts = {0, 2}
  Repertoires <- LineEditor
  MaxTyped = 4
PROPERTY
  WritingClearsOnlyHalves
CHECK_DEADLOCK FALSE

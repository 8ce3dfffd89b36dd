\* Programs of several kinds on small screens.
SPECIFICATION Spec
CONSTANTS
  Narrow = {"q"}
  Broad = {"W"}
  Zero = {"^"}
  Graphics <- LineDrawing
  Sizes <- SmallSizes
  MaxLines = 2
  SgrCommands <- SomeCommands
  SgrLists <- SomeSgr
  Counts = {0, 2}
  Repertoires <- SmallRepertoires
  MaxTyped = 3
INVARIANTS
  TypeOK
  MarginsFit
  PanicNeedsAStaleCursor
  OnlyCutsOrphanTails
  OutputIsKept
  SgrReadsLeftToRight
PROPERTIES
  OnlyRestoringLeavesTheScreen
  OnlyEdgesTearPairs
  ReflowKeepsText
  PrimaryWaits
CHECK_DEADLOCK FALSE

\* Five kinds of input, byte by byte, with limits that are reached.
SPECIFICATION Spec
CONSTANTS
  Alphabets <- SmallAlphabets
  MaxParams = 2
  MaxNumber = 90
  MaxIntermediates = 2
  MaxString = 3
  Probes <- SomeProbes
  MaxHeard = 6
CHECK_DEADLOCK FALSE
INVARIANTS
  TextIsDecoded
  SequencesMeanWhatTheySay
  NothingIsLeftOver

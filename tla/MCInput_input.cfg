\* Keys, a timer that may be late, and a mouse whose releases may go unseen.
SPECIFICATION Spec
CONSTANTS
  Unit = 24
  MinCols = 5
  MinRows = 2
  Keys <- FewKeys
  PrefixKeys <- SomePrefixes
  Layouts <- TwoLayouts
  Places <- SomePlaces
  UsedButtons = {0, 2}
  Held <- NoneOrCtrl
  MaxTyped = 4
INVARIANTS
  KeysHaveOneFate
  DragsEndWithTheButtons
PROPERTY
  OnlyEscapeEndsResizeMode

\* Files that are right, wrong in one place or in several, missing and unreadable.
SPECIFICATION ConfigSpec
CONSTANTS
  Files <- ManyFiles
  Defaults <- StandardConfig
  Characters <- ManyCharacters
  FunctionWords <- ManyFunctionWords
  Lower <- SmallSpelling
  GoodColours = {"#ff0000", "#7aa2f7", "#3b4261"}
  CutColours = {"#_cut"}
INVARIANT
  FileIsHonouredOrRefused

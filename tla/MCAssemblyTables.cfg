SPECIFICATION Spec
CONSTANTS
  Nums      <- MCNums
  Strings   <- MCStrings
  Pointers  <- MCPointers
  Unescape  <- MCUnescape
  BadEscape = BadEscape
  FileName  = "f"
  Sources   <- TableSources
  Garbage   = {0}
  Lines     <- InitializedLines
  ChildRoom = 3
  CountSize = 3
  Cuts      = FALSE
INVARIANTS ConstantsKept
PROPERTIES CompleteIsLoaded

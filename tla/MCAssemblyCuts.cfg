SPECIFICATION Spec
CONSTANTS
  Nums      <- MCNums
  Strings   <- MCStrings
  Pointers  <- MCPointers
  Unescape  <- MCUnescape
  BadEscape = BadEscape
  FileName  = "f"
  Sources   <- DeepSources
  Garbage   = {255}
  Lines     <- AnyLines
  ChildRoom = 2
  CountSize = 256
  Cuts      = TRUE
INVARIANTS TypeOK InStep CutNeverRuns LoadedKeepsBlocks
PROPERTIES CompleteIsLoaded

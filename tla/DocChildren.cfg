SPECIFICATION Spec
CONSTANTS
  Nums      <- MCNums
  Strings   <- MCStrings
  Pointers  <- MCPointers
  Unescape  <- MCUnescape
  BadEscape = BadEscape
  FileName  = "f"
  Sources   <- ThreeChildren
  Garbage   = {0}
  Lines     <- InitializedLines
  ChildRoom = 2
  CountSize = 256
  Cuts      = FALSE
INVARIANT NestedFunctionsAreInserted

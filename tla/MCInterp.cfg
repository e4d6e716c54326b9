SPECIFICATION Spec
CONSTANTS
  Nums     <- MCNums
  Strings  <- MCStrings
  Pointers <- MCPointers
  Libs     <- MCLibs
  FullNames <- MCFullNames
  LongNums <- MCLongNums
  MaxDepth = 3
  Programs <- OpcodeAndCallPrograms
INVARIANTS TypeOK CallChain CheckedNeverWild
PROPERTIES ImplementsCallStack ForwardProgramsEnd

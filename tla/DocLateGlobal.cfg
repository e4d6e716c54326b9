SPECIFICATION Spec
CONSTANTS
  Nums     <- DocNums
  Strings  <- DocStrings
  Pointers <- DocPointers
  Libs     <- DocLibs
  FullNames = {}
  LongNums = {}
  MaxDepth = 2
  Programs <- LateGlobal
PROPERTY GlobalsAreReachable

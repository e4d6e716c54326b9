SPECIFICATION Spec
CONSTANTS
  Nums     <- SampleNums
  Strings  <- SampleStrings
  Pointers <- SamplePointers
  Libs     <- SampleLibs
  FullNames = {}
  LongNums = {}
  MaxDepth = 2
  Programs <- Samples
PROPERTIES SamplesReturnWhatTheySay

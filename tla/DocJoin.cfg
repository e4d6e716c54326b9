SPECIFICATION Spec
CONSTANTS
  Programs <- ThreadPrograms
  Regs     <- MCRegs
  Globals  <- MCGlobals
  MaxThreads = 3
INVARIANTS JoinsAnswer

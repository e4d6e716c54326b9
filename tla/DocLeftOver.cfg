SPECIFICATION Spec
CONSTANTS
  NULL = NULL
  Regs      = {r1, r2}
  Buffers   = {b1, b2, b3}
  Addresses = {p1, p2}
  Texts     <- MCTexts
  Numbers   <- MCNumbers
  Usable    <- MCUsable
  Leftover  <- MCLeftover
  MaxFile  = 2
  MaxText  = 2
  MaxOpens = 2
SYMMETRY Interchangeable
INVARIANTS NothingLeftOver

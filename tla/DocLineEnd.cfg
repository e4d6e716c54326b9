SPECIFICATION Spec
CONSTANTS
  Words <- MCWords
  AtoI <- MCAtoI
  Konst <- MCKonst
  Malformed <- MCMalformed
  Hashed <- MCHashed
  Shortened <- MCShortened
  EntryOf <- MCEntryOf
  Nums <- MCNums
  Strings <- MCStrings
  Pointers <- MCPointers
  Writings <- PlainLines
INVARIANT LinesAreInstructions

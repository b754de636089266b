\* Two files, segments of two symbols, reads of up to four; collections and memory may fail.
SPECIFICATION FairInputSpec
CONSTANTS
  a = a
  b = b
  stdin = stdin
  file = file
  w1 = w1
  w2 = w2
  Eof = Eof
  BadSymbol = BadSymbol
  Symbols = {a, b}
  Walkers = {w1, w2}
  Iports <- MCIports
  Stdin = stdin
  Slots = 2
  Files <- MCFiles
  Statements <- MCStatements
  Programs <- MCPrograms
  Makes <- MCMakes
  Primitives <- MCPrimitives
  SegmentSize = 4
  SegmentRoom = 2
INVARIANTS InputTypeOK ReadsAccounted
PROPERTIES ReadsInOrder InputEnds

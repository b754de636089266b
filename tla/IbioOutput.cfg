\* Two ports; strings of two runes; collections and memory may fail at any time.
SPECIFICATION FairOutputSpec
CONSTANTS
  a = a
  b = b
  out = out
  err = err
  NoString = NoString
  BadRune = BadRune
  Runes = {a, b, BadRune}
  Ports <- MCPorts
  Statements <- MCStatements
  Programs <- MCPrograms
  Primitives <- MCPrimitives
  SegmentSize = 3
  BufferRoom = 2
INVARIANTS OutputTypeOK LinksExact CountsExact AceServes
PROPERTIES PostsInTime WritesInOrder ProgramEnds EveryoneLeaves

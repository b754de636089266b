\* A write on a port that is closed, and a collection.
SPECIFICATION OutputSpec
CONSTANTS
  a = a
  b = b
  out = out
  err = err
  NoString = NoString
  BadRune = BadRune
  Runes = {a, b, BadRune}
  Ports <- MCPorts
  Statements <- MCStatements
  Programs <- MCPrograms
  Primitives <- MCPrimitives
  SegmentSize = 3
  BufferRoom = 2
INVARIANT BlockerFollowed

\* The read process keeps its string builder across a collection.
SPECIFICATION HeapSpec
CONSTANTS
  Workers = {iport}
  Writers = {}
  Readers = {iport}
  NumSegments = 4
INVARIANTS StringNurseryOurs

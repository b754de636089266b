\* A write process, the ACE pool and the collector: an oport, a string builder and
\* the heap, each with a segment before and after a collection.
SPECIFICATION HeapSpec
CONSTANTS
  Workers = {ace, oport1}
  Writers = {oport1}
  Readers = {}
  NumSegments = 5
INVARIANTS HeapTypeOK GlobalNurseriesOurs QueueAlive SameOport

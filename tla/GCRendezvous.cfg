\* Safety, liveness and the refinement on four processes beside the main one.
SPECIFICATION FairSpec
CONSTANT Workers = {ace, iport, oport1, oport2}
INVARIANTS TypeOK CollectorAlone CountersExact ToldTheTruth
PROPERTIES NoStragglers CollectionEnds StoppedRunsAgain Implements

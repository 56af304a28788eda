CONSTANTS
  Instances = {i1, i2}
  NumTopics = 2
  NumRetries = 2
  Wanted <- MCWanted
  ForeignShapes <- MCForeignShapes
SPECIFICATION FairSpec
INVARIANT TypeOK
INVARIANT StartedOnConformingTopics
PROPERTY EveryStartEnds

\* Every image of sides up to six.  With a side of 1 the main place waits for ever.
CONSTANT MaxSide = 6
CHECK_DEADLOCK FALSE
SPECIFICATION FairTSpec
INVARIANTS
    ImageWhole
PROPERTY EndsBySides

SPECIFICATION FairSpec
CONSTANT NumPids = 4
CHECK_DEADLOCK FALSE
INVARIANT TwoPkillsSuffice
PROPERTY LoopEnds

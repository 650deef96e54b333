SPECIFICATION FairSpec
CONSTANTS
    Writer = {w1, w2}
    Client = {k1}
    MaxSteps = 2
    MaxFailures = 1
INVARIANTS TypeOK NumbersUnique InOrder NoneSkipped
PROPERTIES StreamEnds OrphansCollected

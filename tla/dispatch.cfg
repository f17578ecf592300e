SPECIFICATION FairSpec
CONSTANTS
    Connections = {c1, c2}
    Keys = {k1}
    NoKey = noKey
    NoQueue = noQueue
    NoConn = noConn
    MaxRequests = 3
    MaxAsking = 1
    MaxPanics = 1
    First = c1
    Offers <- MCOffers
INVARIANTS TypeOK ConflictsInOrder ClosedLeavesNothing
PROPERTIES EveryRequestEnds ProcessorReturns
CHECK_DEADLOCK FALSE

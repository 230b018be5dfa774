SPECIFICATION FairSpec
CONSTANTS
    ClientUnits = 1
    ServerUnits = 2
    MaxQueue = 1
CHECK_DEADLOCK FALSE
INVARIANTS
    ReplyComplete
PROPERTIES
    ImplementsPipe
    EndsTogether

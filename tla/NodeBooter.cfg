SPECIFICATION FairSpec
CONSTANTS
    Nodes = {n1}
    Workers = {w1, w2}
    MaxRetries = 1
    Kinds = {"hostname", "ip", "nodePort"}
    NoNode = NoNode
    MaxFaults = 2
    MaxDNSErrors = 1
    MaxUpdates = 1
    MaxDeletes = 1
    MaxCrashes = 1
CHECK_DEADLOCK FALSE
INVARIANTS
    ControllerIsPrepared
PROPERTIES
    EventuallyDeployed
    TaintRemoved

SPECIFICATION FairSpec
CONSTANTS
    Services = {a}
    NoPod = NoPod
    None = None
    PodStates <- MCPodStates
    PodNext <- MCPodNext
    EventStates <- MCEventStates
    InitPods <- MCInitPods
    MaxBreaks = 1
    MaxChanges = 2
    MaxInFlight = 1
CHECK_DEADLOCK FALSE
INVARIANTS
    ReadyMeansRan
PROPERTIES
    ImplementsFeed
    DownReturns
    HandlerEnds

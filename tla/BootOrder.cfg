SPECIFICATION FairBootSpec
CONSTANTS
    s1 = s1
    s2 = s2
    Services = {s1, s2}
    Composes <- MCComposes
    OneShot = {s1}
    MaxBreaks = 1
    MaxFlaps = 1
CHECK_DEADLOCK FALSE
INVARIANTS
    DependencyOrder
PROPERTIES
    AllBoot

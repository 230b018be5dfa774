SPECIFICATION FairSpec
CONSTANTS
    Namespaces = {n1, n2}
    Volumes = {1, 2}
    None = None
    MaxCalls = 1
    MaxTries = 2
    MaxUpsets = 1
CHECK_DEADLOCK FALSE
INVARIANTS
    OwnVolumeIsKept
    NoSurplusVolume
PROPERTIES
    StolenVolumeComesBack
    GivenUpIsDeleted

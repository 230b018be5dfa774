SPECIFICATION FairSpec
CONSTANTS
    Namespaces = {n1}
    Volumes = {1, 2}
    None = None
    MaxCalls = 1
    MaxTries = 2
    MaxUpsets = 0
CHECK_DEADLOCK FALSE
PROPERTIES
    ClaimBinds

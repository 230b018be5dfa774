SPECIFICATION FairSpec
CONSTANTS
    Users = {u1, u2}
    Returning = {u1}
    Calls = {c1, c2}
    Specs = {s1}
    Fixed = Fixed
    NoPod = NoPod
    NoUser = NoUser
    MaxSandboxes = 1
    MaxCalls = 2
    MaxUpsets = 1
CHECK_DEADLOCK FALSE
INVARIANTS
    CapUnlessBlind
    MadeInOrder
    SuccessMeansUsable
PROPERTIES
    CallsReturn

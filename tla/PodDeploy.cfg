SPECIFICATION FairSpec
CONSTANTS
    Names = {n1}
    Bodies = {b1, b2}
    Images = {i1, i2}
    Calls = {c1, c2}
    NoPod = NoPod
    MaxRestarts = 2
    MaxCrashes = 2
CHECK_DEADLOCK FALSE
INVARIANTS
    DeployAloneConverges
PROPERTIES
    UnchangedPodSurvives
    AloneReturns

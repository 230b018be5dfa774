SPECIFICATION FairLogsSpec
CONSTANTS
    a = a
    b = b
    Services <- MCServices
    Commands <- MCCommands
    ChanCap = 1
    Second = 2
CHECK_DEADLOCK FALSE
INVARIANTS
    PrintedOnce
    NoGap
    AllPrinted
PROPERTIES
    Returns
    TailedAgain

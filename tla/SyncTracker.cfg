SPECIFICATION FairSpec
CONSTANTS
    Conns = {c1, c2}
    Attempts = {a1, a2}
    Pods = {p1}
    None = None
    MaxLosses = 1
    MaxRestarts = 1
CHECK_DEADLOCK FALSE
INVARIANTS
    NoSendOnClosedResult
    ReadyOnlyAfterSync
    ServedStreamIsCurrent
    AnswerOnItsWay
    OnlyLateCallsAreOrphaned
PROPERTIES
    BootsUnlessOrphaned

SPECIFICATION Spec
CONSTANTS
    MaxTurns = 1
    MaxText = 2
    MaxNotices = 0
    MaxFaults = 0
    Faulty = {}
    OtherTurns = FALSE
    SlowReply = FALSE
INVARIANTS
    ViewGapless
CHECK_DEADLOCK FALSE

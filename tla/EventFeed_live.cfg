SPECIFICATION Spec
CONSTANTS
    MaxTurns = 2
    MaxText = 0
    MaxNotices = 0
    MaxFaults = 1
    Faulty = {"drop", "reload", "giveUp", "refetch"}
    OtherTurns = TRUE
    SlowReply = TRUE
PROPERTIES
    StreamSettles
    EveryTurnEnds
CHECK_DEADLOCK FALSE

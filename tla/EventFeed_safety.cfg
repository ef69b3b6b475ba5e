SPECIFICATION Spec
CONSTANTS
    MaxTurns = 2
    MaxText = 2
    MaxNotices = 0
    MaxFaults = 1
    Faulty = {"drop", "reload", "publish", "crash"}
    OtherTurns = FALSE
    SlowReply = TRUE
INVARIANTS
    FeedTypeOK
    ViewFaithful
    NothingSkipped
    EndedViewFinal
CHECK_DEADLOCK FALSE

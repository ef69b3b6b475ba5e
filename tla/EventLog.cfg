SPECIFICATION LogSpec
CONSTANTS
    MaxTurns = 2
    MaxText = 2
    MaxNotices = 1
    MaxFaults = 2
    Faulty = {"db", "publish", "crash", "shutdown", "cutShort"}
INVARIANTS
    TypeOK
    TextsKept
    EndSurvives
PROPERTIES
    FinalStays
CHECK_DEADLOCK FALSE

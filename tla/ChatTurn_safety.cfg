SPECIFICATION Spec
CONSTANTS
    Turns = {t1, t2, t3, t4}
    Msgs = {m1}
    Reqs = {r1, r2, r3}
    NoTurn = NoTurn
    NoMsg = NoMsg
    NoReq = NoReq
    MaxFaults = 1
SYMMETRY Symmetry
CHECK_DEADLOCK FALSE
INVARIANTS
    TypeOK
    OneTurnPerChat
    SlotExcludesTurns
    SessionNotStolen
    MessageConservation
    RowsSettled
    StopBeforePromptHonoured
    SteeringExclusive
PROPERTIES
    PromiseKept

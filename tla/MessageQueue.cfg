SPECIFICATION FairSpec
CONSTANTS
    Ops = {p1, p2, p3}
    m1 = m1
    Msgs = {m1, m2}
    NoOp = NoOp
    NoMsg = NoMsg
    Stored <- OneStored
    MaxFaults = 1
CHECK_DEADLOCK FALSE
INVARIANTS
    TypeOK
    MessagesIntact
PROPERTIES
    Linearizable
    CallsReturn

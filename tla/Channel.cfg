SPECIFICATION ChannelSpec
CONSTANTS
    Members = {a, b}
    User = User
    MaxMessages = 2
    MaxQueued = 1
    MaxMishaps = 1
CHECK_DEADLOCK FALSE
INVARIANTS
    ChannelTypeOK
    NoLostWakeup
    NothingOutlivesItsTurn
    RevokedNotPrompted
PROPERTIES
    MessagesReachMembers
    QueueDrains

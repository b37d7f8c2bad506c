SPECIFICATION Spec
CONSTANTS
    Kinds = {"plain", "throws", "large"}
    Window = 1
    MaxSends <- TwoAndOne
    MayReset = TRUE
    Stoppable = {"dialler"}
INVARIANTS
    TypeOK
    WriteBufferStable
    QueueMoves
PROPERTIES
    ImplementsChannel
    ChannelLives
CHECK_DEADLOCK FALSE

SPECIFICATION FairStreamSpec
CONSTANTS
    Clients = {c1}
    Chunks <- MCChunks
    Limit = 3
    FrameMax = 2
    QueueCap = 1
    MaxUnits = 6
INVARIANTS
    StreamIInv
    NoLostWakeup
    HistoryInOrder
    NothingSilentlyLost
    AlternateDelivered
PROPERTIES
    CatchesUp

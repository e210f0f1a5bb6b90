SPECIFICATION StreamSpec
CONSTANTS
    Clients = {c1}
    Chunks <- MCChunks
    Limit = 2
    FrameMax = 1
    QueueCap = 1
    MaxUnits = 5
INVARIANTS
    OutputInOrderOnce

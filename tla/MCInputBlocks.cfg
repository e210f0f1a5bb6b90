SPECIFICATION ReadingSpec
CONSTANTS
    Instances = {a}
    NoInstance = NoInstance
    MaxStarts = 2
    MaxRequests = 2
    PipeCap = 1
PROPERTY MessagesNotBlocked
CHECK_DEADLOCK FALSE

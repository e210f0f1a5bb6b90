SPECIFICATION FairSpec
CONSTANTS
    Instances = {a}
    NoInstance = NoInstance
    MaxStarts = 3
    MaxRequests = 1
    PipeCap = 1
INVARIANT SupervisorIInv
INVARIANT ShutdownMissesNothing
PROPERTY ConnectionKept
PROPERTY EventsNotStolen
PROPERTY ControllerReturns
PROPERTY StopEnds
CHECK_DEADLOCK FALSE

SPECIFICATION DaemonSpec
CONSTANTS
    MaxRuns = 2
    EventCap = 1
    CleanupChoices = {TRUE, FALSE}
    StopCodes = {"unknown", "manual_kill", "restarting"}
INVARIANTS
    DaemonIInv
    OneProgramAtATime
    KillSuppressesCleanup
    UnexpectedMeansUnasked
PROPERTIES
    ExitAccounted
    KillEndsRun
    KeepsPromise
CHECK_DEADLOCK FALSE

SPECIFICATION SystemSpec
CONSTANTS
    MaxRuns = 3
    EventCap = 1
    CleanupChoices = {FALSE}
    StopCodes = {"manual_stop", "manual_kill", "restarting"}
    Threads = {t1, t2, t3}
    Commands = {FALSE}
    StopCommands = {TRUE, FALSE}
    AutoRestarts = {TRUE, FALSE}
    MaxRequests = 4
    MaxCrashes = 0
    MaxTimeouts = 1
SYMMETRY ThreadSymmetry
CHECK_DEADLOCK FALSE
INVARIANTS
    ControllerIInv
    NoLostProgram
    NoPhantomProgram
    StopCancelsRestart

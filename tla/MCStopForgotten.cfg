SPECIFICATION SystemSpec
CONSTANTS
    MaxRuns = 2
    EventCap = 1
    CleanupChoices = {FALSE}
    StopCodes = {"manual_stop", "manual_kill", "restarting"}
    Threads = {t1, t2}
    Commands = {FALSE}
    StopCommands = {TRUE, FALSE}
    AutoRestarts = {TRUE}
    MaxRequests = 2
    MaxCrashes = 1
    MaxTimeouts = 0
CHECK_DEADLOCK FALSE
INVARIANT StopCancelsRestart

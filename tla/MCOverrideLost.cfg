SPECIFICATION SystemSpec
CONSTANTS
    MaxRuns = 2
    EventCap = 1
    CleanupChoices = {FALSE}
    StopCodes = {"manual_stop", "manual_kill", "restarting"}
    Threads = {t1, t2}
    Commands = {TRUE, FALSE}
    StopCommands = {TRUE, FALSE}
    AutoRestarts = {TRUE, FALSE}
    MaxRequests = 3
    MaxCrashes = 0
    MaxTimeouts = 0
CHECK_DEADLOCK FALSE
INVARIANT OverrideIsUsed

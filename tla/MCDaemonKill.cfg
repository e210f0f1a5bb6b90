SPECIFICATION DaemonSpec
CONSTANTS
    MaxRuns = 1
    EventCap = 1
    CleanupChoices = {TRUE, FALSE}
    StopCodes = {"unknown", "manual_stop"}
INVARIANTS
    KillStopsCleanup
CHECK_DEADLOCK FALSE

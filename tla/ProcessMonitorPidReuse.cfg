\* The kernel may hand out the pid just reaped.
SPECIFICATION FairSpec
CONSTANTS
    c1 = c1
    c2 = c2
    p1 = p1
    p2 = p2
    p3 = p3
    NoCmd = NoCmd
    Cmd <- MCCmd
    Pid <- MCPid
    Limit = 2
    Window = 1
    MaxTime = 2
    Adjustments <- NoAdjustments
    ReuseReaped = TRUE
    MayFail = FALSE
PROPERTIES
    Restarted
CHECK_DEADLOCK FALSE

\* Start-up with services exiting at any time.
SPECIFICATION WSpec
CONSTANTS
    weston = weston
    rdpClient = rdpClient
    pulse = pulse
    p1 = p1
    p2 = p2
    p3 = p3
    p4 = p4
    NoCmd = NoCmd
    Cmd <- MCCmd
    Services <- MCServices
    Pid <- MCPid
    Limit = 1
    Window = 1
    MaxTime = 1
    Adjustments <- NoAdjustments
    ReuseReaped = FALSE
    MayFail = TRUE
INVARIANTS
    WestonReadyFirst
PROPERTIES
    StartupEnds
    EarlyExitsRestarted
CHECK_DEADLOCK FALSE

\* The restart promise, with Weston free to exit before it is ready.
SPECIFICATION WSpec
CONSTANTS
    weston = weston
    rdpClient = rdpClient
    pulse = pulse
    p1 = p1
    p2 = p2
    p3 = p3
    p4 = p4
    NoCmd = NoCmd
    Cmd <- MCCmd
    Services <- MCServices
    Pid <- MCPid
    Limit = 1
    Window = 1
    MaxTime = 1
    Adjustments <- NoAdjustments
    ReuseReaped = FALSE
    MayFail = FALSE
PROPERTIES
    ServicesRestarted
CHECK_DEADLOCK FALSE

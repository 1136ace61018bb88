\* The kernel does not hand out the pid just reaped: liveness and refinement.
SPECIFICATION FairSpec
CONSTANTS
    c1 = c1
    c2 = c2
    p1 = p1
    p2 = p2
    p3 = p3
    NoCmd = NoCmd
    Cmd <- MCCmd
    Pid <- MCPid
    Limit = 2
    Window = 1
    MaxTime = 2
    Adjustments <- NoAdjustments
    ReuseReaped = FALSE
    MayFail = TRUE
INVARIANTS
    NothingUntracked
    EndsOnlyWhenAllAbandoned
PROPERTIES
    ImplementsSupervisor
CHECK_DEADLOCK FALSE

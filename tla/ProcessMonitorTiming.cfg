\* The wall clock can be set back and forward while services exit.
SPECIFICATION TimedSpec
CONSTANTS
    c1 = c1
    c2 = c2
    p1 = p1
    p2 = p2
    p3 = p3
    NoCmd = NoCmd
    Cmd <- MCCmd
    Pid <- MCPid
    Limit = 2
    Window = 2
    MaxTime = 4
    MaxElapsed = 3
    Adjustments <- BackAndForth
    ReuseReaped = TRUE
    MayFail = FALSE
SYMMETRY Symmetry
INVARIANTS
    AbandonedOnlyAfterBurst
    NoRestartStorm
CHECK_DEADLOCK FALSE

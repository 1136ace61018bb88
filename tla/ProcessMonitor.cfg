\* Every interleaving of exits, reaping, relaunching, clock jumps, pid reuse
\* and fork failures.
SPECIFICATION Spec
CONSTANTS
    c1 = c1
    c2 = c2
    p1 = p1
    p2 = p2
    p3 = p3
    NoCmd = NoCmd
    Cmd <- MCCmd
    Pid <- MCPid
    Limit = 2
    Window = 1
    MaxTime = 3
    Adjustments <- BackAndForth
    ReuseReaped = TRUE
    MayFail = TRUE
SYMMETRY Symmetry
INVARIANTS
    TypeOK
    TrackedAreReal
    OneInstance
CHECK_DEADLOCK FALSE

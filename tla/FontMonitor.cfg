SPECIFICATION Spec
CONSTANTS
    Path <- MCPath
    Roots <- MCRoots
    Mount <- MCMount
    X11 = "X11"
    Trees <- MCTrees
    Inode = {1, 2, 3, 4, 5, 6}
    Wd = {1, 2, 3, 4, 5, 6, 7, 8}
    MaxFaults = 3
INVARIANTS
    TypeOK
    BeliefIsTrue
    NoPathLeft
    NothingMissed
    ListedExact
    TrackedExact
    StopCleans
PROPERTIES
    Settles
CHECK_DEADLOCK FALSE

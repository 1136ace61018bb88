\* Syncs, deletes, closes and reconnects; each application owns its links.
SPECIFICATION Spec
CONSTANTS
    a1 = a1
    a2 = a2
    l1 = l1
    l2 = l2
    l3 = l3
    App <- MCApp
    Link <- MCLink
    Offer <- OwnLinks
    Hints <- ProtocolHints
    NoApp = NoApp
    NoFile = NoFile
    NoEntry = NoEntry
    MaxPdus = 1
    BadNames = TRUE
    FsMayFail = FALSE
INVARIANTS
    SyncExact
    NothingOrphaned

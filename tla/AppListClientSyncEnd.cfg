\* A SYNC_END whose update is refused.
SPECIFICATION Spec
CONSTANTS
    a1 = a1
    a2 = a2
    l1 = l1
    l2 = l2
    l3 = l3
    App <- MCApp
    Link <- MCLink
    Offer <- Relaunched
    Hints <- ProtocolHints
    NoApp = NoApp
    NoFile = NoFile
    NoEntry = NoEntry
    MaxPdus = 1
    BadNames = FALSE
    FsMayFail = FALSE
INVARIANTS
    SyncRemovesUnreported

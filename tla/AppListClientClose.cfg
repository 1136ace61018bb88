\* RemoveAppProvider beside the channel; files that fail to write or delete, two applications with one description.
SPECIFICATION RSpec
CONSTANTS
    a1 = a1
    a2 = a2
    l1 = l1
    l2 = l2
    l3 = l3
    App <- MCApp
    Link <- MCLink
    Offer <- SharedLink
    Hints <- ProtocolHints
    NoApp = NoApp
    NoFile = NoFile
    NoEntry = NoEntry
    MaxPdus = 2
    BadNames = FALSE
    FsMayFail = TRUE
INVARIANTS
    TypeOK
    HandlersHaveDB
PROPERTIES
    ClosedIsQuiet
    RemovalComplete

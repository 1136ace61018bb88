\* Three opens, with every failure, a client that comes, goes and answers; PDUs of every shape, of which the odd ones are sent and not followed.
SPECIFICATION Spec
CONSTANTS
    MaxString = 512
    NoPdu = NoPdu
    Pdus <- MCPdus
    ClientMessages <- MCMessages
    MaxOpens = 3
    MaxMessages = 2
INVARIANTS
    TypeOK
    NoCallOnClosed
    NoChannelLeaked
    FirstReadIsReady
    EndsForCause
    FillsItsStream
    ReadBack
    OnlyLongStringsRefused
CONSTRAINT
    OddPdusGoNoFurther
PROPERTIES
    CloseReturns
    Served
CHECK_DEADLOCK FALSE

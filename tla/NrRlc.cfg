\* SNs 0..3 and SDUs of 3 bytes: up to three segments.
CONSTANTS
    Window = 2
    SduSize = 3
    RxMax = 5
    TxMax = 9
    MaxSdus = 4
    Grants = {3, 5}
    PollPdu = 2
    Sn12 = TRUE
    UmRxMax = 6
    UmTxMax = 6
    UmMaxSdus = 5
    UmGrants = {2, 3, 6}
    ChanMax = 2
SPECIFICATION RlcSpec
CHECK_DEADLOCK FALSE
INVARIANTS
    RxConsistent
    TxConsistent
    UmConsistent
    NothingNewDiscarded
    StatusExact
    NoByteTwice
    UmDeliveredIntact
PROPERTIES
    UmRxSizeFollows

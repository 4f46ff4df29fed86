CONSTANTS
    Window = 2
    SduSize = 2
    RxMax = 10
    TxMax = 6
    MaxSdus = 4
    Grants = {3, 6}
    PollPdu = 0
    ChanMax = 2
    CtrlMax = 1
    MaxLoss = 1
    Reorder = TRUE
    LongPoll = FALSE
    LongReassembly = TRUE
SPECIFICATION LinkSpec
VIEW LinkView
CHECK_DEADLOCK FALSE
INVARIANTS
    DeliveredOnceIntact
    AckedIsDelivered
    NoByteLost
    WindowsAligned

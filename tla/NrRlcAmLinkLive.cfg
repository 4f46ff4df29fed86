CONSTANTS
    Window = 2
    SduSize = 2
    RxMax = 10
    TxMax = 6
    MaxSdus = 3
    Grants = {3, 6}
    PollPdu = 0
    ChanMax = 2
    CtrlMax = 2
    MaxLoss = 1
    Reorder = FALSE
    LongPoll = TRUE
    LongReassembly = TRUE
SPECIFICATION LinkFairSpec
CHECK_DEADLOCK FALSE
INVARIANT NoSilentWait
PROPERTY AllAcked

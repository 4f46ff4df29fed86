CONSTANTS
    Window = 2
    SduSize = 2
    RxMax = 8
SPECIFICATION RxSpec
CHECK_DEADLOCK FALSE
INVARIANT ReceptionReturns

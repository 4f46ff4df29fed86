CONSTANTS
  Producers = {p1, p2, p3}
  Consumer = c
  Items = {a, b}
  ReqThreads = {gtp}
  MacThreads = {mac1}
  RlcThread = rlcq
  IndThread = ind
  TimerThread = timer
  Free = free
  Item = item
  None = none
  Size = 3
SPECIFICATION L2Spec
CHECK_DEADLOCK FALSE
INVARIANTS NoLostWakeup NoDeadlock
PROPERTIES ImplementsFifo QueuesDrain

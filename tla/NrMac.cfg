SPECIFICATION MacSpec
CHECK_DEADLOCK FALSE
CONSTANTS
  Pids = {0, 1}
  NoFeedbackSets <- DisabledSets
  RoundMax = 2
  Frames = 4
  SlotsPerFrame = 2
  UlSlots = {1}
  FbTimes <- FeedbackTimes
  MinFb = 1
  PucchSize = 2
  CsiTimes = {3}
  Simultaneous = TRUE
  Busy = {5}
  MaxLate = 2
  MaxFaults = 1
  RaWindow = 2
  CrTimer = 5
  Msg3RoundMax = 2
  FailTimeout = 2
  FailGrace = 1
  RelDelay = 1
  SlotsPerMs = 2
  MaxLen = 4
  UlPids = {0, 1}
  UlRoundMax = 2
  DtxThreshold = 2
  MaxInFlight = 2
  MaxUlFaults = 1
INVARIANTS ListsConsistent UlOncePerBlock CuInformed
PROPERTIES ListIsSequence AckMeansReceived FeedbackComes RaEnds UlFailureEnds

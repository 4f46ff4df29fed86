CONSTANTS
  Len_thr = 2
  NumTasks = 2
  ActorClients = {c1, c2}
  ActorOwner = owner
  TimeClients = {t1, t2}
  SamplesPerMs = 2
  Chunks = {3}
  Block = 2
  MaxSamples = 6
  MaxFailures = 1
  OneShot = {1}
  Periodic = {2}
  Duration = 2
  MaxClock = 5
  MaxSends = 1
  Produced = {1, 2}
  MaxTimestamp = 4
SPECIFICATION ThreadsSpec
CHECK_DEADLOCK FALSE
INVARIANT PushedTaskHasFunc

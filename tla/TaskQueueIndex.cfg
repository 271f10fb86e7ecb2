SPECIFICATION Spec
CONSTANTS
  None = None
  NoKey = NoKey
  Worker = W
  Callers = {c1}
  u1 = u1
  u2 = u2
  wantKey = wantKey
  salesKey = salesKey
  Auth <- MCAuth
  DedupKey <- MCKeys
  Task <- MixedTasks
  Dates = {1, 2, 3, 4}
  DrainKinds <- NoDrain
  DirectTasks <- NoDirect
  MaxQueueLen = 1
  MaxUserQueueSize = 1
  MaxFaults = 0
  MaxCrashes = 1
INVARIANT TypeOK
INVARIANT StoredIsQueued
 
INVARIANT KeyHasTaskUnlessThrottled
PROPERTY PicksMostUrgent

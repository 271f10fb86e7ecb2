SPECIFICATION Spec
CONSTANTS
  None = None
  NoKey = NoKey
  Worker = W
  Callers = {c1}
  u1 = u1
  u2 = u2
  wantKey = wantKey
  salesKey = salesKey
  Auth <- MCAuth
  DedupKey <- MCKeys
  Task <- WantTasks
  Dates = {1, 2, 3, 4}
  DrainKinds <- NoDrain
  DirectTasks <- NoDirect
  MaxQueueLen = 9
  MaxUserQueueSize = 1
  MaxFaults = 0
  MaxCrashes = 0
PROPERTY RetryKept

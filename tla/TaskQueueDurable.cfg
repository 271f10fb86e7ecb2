SPECIFICATION Spec
CONSTANTS
  None = None
  NoKey = NoKey
  Worker = W
  Callers = {c1}
  u1 = u1
  u2 = u2
  wantKey = wantKey
  salesKey = salesKey
  Auth <- MCAuth
  DedupKey <- MCKeys
  Task <- UrgentTasks
  Dates = {1, 2, 3}
  DrainKinds <- DrainWants
  DirectTasks <- WantDirect
  MaxQueueLen = 1
  MaxUserQueueSize = 1
  MaxFaults = 1
  MaxCrashes = 1
INVARIANT QueueInv
PROPERTY Durable

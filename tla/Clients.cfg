CONSTANTS
  Machines = {m1, m2}
  Tokens = {t1, t2}
  Owner = Owner
  Nobody = Nobody
  MaxLoginMove = 4
  Records = {r1, r2}
  Keys = {k1, k2}
  Callers = {c1, c2}
  WorkerPoolLimit = 2
  Attempts = 2
  MaxCacheMove = 4
  Copies <- MCCopies
  ReleaseOf <- MCReleaseOf
  Orgs = {"shelves", "crate"}
  Shelved <- MCShelved
  Queries <- MCQueries
  Rows = 2
  MaxTerminalMove = 3
SPECIFICATION ClientsSpec
INVARIANT ClientsTypeOK
INVARIANT NothingMissing
INVARIANT WindowShowsCursor
PROPERTY AttemptsKept
PROPERTY Landed
PROPERTY SavesForward
PROPERTY AnswersCome
CHECK_DEADLOCK FALSE

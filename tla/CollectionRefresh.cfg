SPECIFICATION FairSpec
CONSTANTS
  None = None
  PageSize = 1
  Releases = 2
  InitiallyOwned = 3
  MaxRecords = 4
  MaxRounds = 2
  MaxMishaps = 1
INVARIANT TypeOK
PROPERTY DeletesOnlyRemoved
PROPERTY RefreshMirrorsCollection
PROPERTY ImportEnds

SPECIFICATION FairSpec
CONSTANTS
  None = None
  MaxRelease = 2
  MaxList = 2
  PageSize = 1
  Types = {"ONE_BY_ONE", "EN_MASSE", "DATE_BOUNDED"}
  Configs <- MCConfigs
  Starts <- MCStarts
  MaxMoves = 2
INVARIANT TypeOK
 
 
PROPERTY WantsConverge

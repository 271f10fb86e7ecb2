SPECIFICATION FairSpec
CONSTANTS
  None = None
  MaxRecord = 1
  MaxVal = 4
  RangeWidth = 10
  Pile = 1
  Default = 2
  Offers <- MCOffers
  Owned <- MCOwned
  Purchase <- MCPurchase
  Edits <- MCEdits
  Rules <- MCRules
  Strange = {3}
  MaxMoves = 3
INVARIANT TypeOK
INVARIANT LastChangeWins
INVARIANT StoredFollows
PROPERTY RecordsConverge

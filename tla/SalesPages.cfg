SPECIFICATION Spec
CONSTANTS
  User = {a1}
  None = None
  PageSize = 1
  Week = 2
  InitiallyListed = 1
  MaxListings = 4
  MaxDays = 2
  MaxSyncs = 2
  Mixed = TRUE
  MaxForced = 0
  MaxAdmin = 0
  MaxDelists = 0
  MaxAdds = 1
  MaxFaults = 1
INVARIANT TypeOK
 

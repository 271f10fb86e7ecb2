SPECIFICATION Spec
CONSTANTS
  User = {a1}
  None = None
  PageSize = 1
  Week = 2
  InitiallyListed = 2
  MaxListings = 3
  MaxDays = 0
  MaxSyncs = 2
  Mixed = FALSE
  MaxForced = 1
  MaxAdmin = 2
  MaxDelists = 1
  MaxAdds = 1
  MaxFaults = 0
 
PROPERTY TimestampsAdvance
 

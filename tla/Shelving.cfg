SPECIFICATION Spec
CONSTANTS
  Record <- MCRecordAll
  Attr <- MCAttr
  Folder = {1, 2}
  Orgs <- MCOrgs
  MaxChange = 2
INVARIANT TypeOK
INVARIANT NoOverfill
INVARIANT WellShelved
INVARIANT MovesLead
PROPERTY Finishes
CHECK_DEADLOCK FALSE

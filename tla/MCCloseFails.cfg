SPECIFICATION Spec
CONSTANTS
  Key <- MCKey
  Value <- OneValue
  v1 = v1
  v2 = v2
  None = None
  Tombstone = Tombstone
  Absent = Absent
  Limit = 2
  ExitOnError = TRUE
  Faults <- CloseOnly
  MaxLog = 2
  MaxTableId = 2
INVARIANTS
  DurableView

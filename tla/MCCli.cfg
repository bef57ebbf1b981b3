SPECIFICATION Spec
CONSTANTS
  Key <- MCKey
  Value <- OneValue
  v1 = v1
  v2 = v2
  None = None
  Tombstone = Tombstone
  Absent = Absent
  Limit = 1
  ExitOnError = TRUE
  Faults <- FailStop
  MaxLog = 3
  MaxTableId = 3
INVARIANTS
  RInv
  RoomInMemtable
PROPERTIES
  ImplementsKVStore

SPECIFICATION Spec
CONSTANTS
  Key <- MCKey
  Value <- TwoValues
  v1 = v1
  v2 = v2
  None = None
  Tombstone = Tombstone
  Absent = Absent
  Limit = 2
  ExitOnError = FALSE
  Faults <- Benign
  MaxLog = 2
  MaxTableId = 3
SYMMETRY Symmetry
INVARIANTS
  TypeOK
  DurableView
  AnswersTrue
  ListMatchesDisk
  CompactLeavesLive
PROPERTIES
  SSTablesImmutable
  ImplementsKVStore

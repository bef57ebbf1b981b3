SPECIFICATION MCSpec
CONSTANTS
  Size = 8
  MaxOperations = 4
  Config <- MCConfig
  operations = 3
  compact_operations = 4
  Value = {v1}
  None = None
  Tombstone = Tombstone
  Absent = Absent
INVARIANTS
  TypeOK
  AlwaysFound
  CountMatches
  CdfCoversKeys
  MixRespected
  MeasuresWhatItNames
  CompactMergesAll
  RhoIsCorrelation
PROPERTIES
  BenchmarksEnd
CHECK_DEADLOCK FALSE

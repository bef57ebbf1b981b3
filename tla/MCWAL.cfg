SPECIFICATION Spec
CONSTANTS
  Width = 4
  PutOp = 1
  DelOp = 2
  Record <- MCRecord
  Corrupt = Corrupt
  Faults <- AllFaults
  MaxBytes = 8
INVARIANTS
  TypeOK
  SyncedSurvive
  NothingInvented
  LogReplays

SPECIFICATION FairSpec
CONSTANTS
  Key <- MCKey
  Value <- MCValue
  k1 = k1
  k2 = k2
  None = None
  NoKey = NoKey
  SpaceFirst <- MCSpaceFirst
  Erase <- MCErase
  Line <- MCLine
INVARIANTS
  TypeOK
  PrintsWhatWasTold
PROPERTIES
  ErrorEndsProcess
  EveryLineAnswered

SPECIFICATION Spec
CONSTANTS
  Key <- MCKey
  Value <- MCValue
  v1 = v1
  Tombstone = Tombstone
  Absent = Absent
  None = None
  Error = Error
  Unread = Unread
  First <- MCFirst
  Second <- MCSecond
  Word = 16
  HashCount = 2
  BitsPerRecord = 2
  MinBits = 3
INVARIANTS
  TypeOK
  LookupTrue
  FormatsAgree
  LoadAllTrue
  AnswersAsEngine

SPECIFICATION Spec
CONSTANTS
  Name = {n1, n2}
  Handle = {h1, h2}
  Request = {r1, r2}
  WId = {w1, w2}
  Password = {empty, p1}
  EmptyPassword = empty
  OpenLimit = 1
  MaxWrites = 1
  Renames <- AllRenames
  Faults = {"open", "rename", "disable"}
  Refused = Refused
  Absent = Absent
  Junk = Junk
  None = None
  NoWallet = NoWallet
  MayLose = TRUE
SYMMETRY Symmetric
INVARIANTS
  UniqueOpen
  DialogConsistent
  DirtyHasTimer
PROPERTIES
  NoStaleWriteBack

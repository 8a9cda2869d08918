SPECIFICATION Spec
CONSTANTS
  Name = {n1}
  Handle = {h1}
  Request = {r1}
  WId = {w1}
  Password = {empty, p1}
  EmptyPassword = empty
  OpenLimit = 1
  MaxWrites = 0
  Renames <- NoRenames
  Faults = {}
  Refused = Refused
  Absent = Absent
  Junk = Junk
  None = None
  NoWallet = NoWallet
  MayLose = FALSE
INVARIANTS
  BackendOutlivesChange

SPECIFICATION Spec
CONSTANTS
  Name = {n1, n2, n3}
  Handle = {h1, h2, h3}
  Request = {r1, r2}
  WId = {w1}
  Password = {empty, p1}
  EmptyPassword = empty
  OpenLimit = 1
  MaxWrites = 1
  Renames <- NoRenames
  Faults = {"sync", "open", "external", "kill"}
  Refused = Refused
  Absent = Absent
  Junk = Junk
  None = None
  NoWallet = NoWallet
  MayLose = TRUE
SYMMETRY Symmetric
INVARIANTS
  Structure
  TimersMatchTable
  BoundedOpen
  WaitingIsPending
PROPERTIES
  AnswerIsTheWallet

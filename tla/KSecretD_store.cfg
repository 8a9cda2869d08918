SPECIFICATION FairSpec
CONSTANTS
  Name = {n1, n2}
  Handle = {h1, h2}
  Request = {r1, r2}
  WId = {w1}
  Password = {empty, p1}
  EmptyPassword = empty
  OpenLimit = 1
  MaxWrites = 1
  Renames <- OneWay
  Faults = {"unlink", "kill"}
  Refused = Refused
  Absent = Absent
  Junk = Junk
  None = None
  NoWallet = NoWallet
  MayLose = FALSE
PROPERTIES
  Implements
  EveryCallerAnswered
  ChangesReachDisk

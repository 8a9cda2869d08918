SPECIFICATION Spec
CONSTANTS
  o1 = o1
  o2 = o2
  c1 = c1
  c2 = c2
  Name = {n1, n2}
  App = {a1, a2}
  Process = {c1, c2}
  Object = {o1, o2}
  Owner <- Owners
  OpenType = {"Synchronous", "Asynchronous"}
  Faults = {"refuse", "lock", "delete", "serviceDies", "kwalletdDies"}
  MaxNotices = 1
  MaxSignals = 1
  None = None
SYMMETRY Symmetry
INVARIANTS
  Structure
  OpenIsASession
  SessionIsTheWallet
  SessionsUnlocked
PROPERTIES
  ClosedIsClosed

SPECIFICATION Spec
CONSTANTS
  n1 = n1
  n2 = n2
  q1 = q1
  Name <- Names
  Rank <- Ranks
  Handle = {h1, h2}
  Prompt = {q1}
  Alias = {default, a1}
  Default = default
  LocalWallet = None
  NewUser = TRUE
  WId = {w1}
  Labels = {n1, n2}
  Others = {}
  Faults = {"external", "junk", "reopen", "rename", "kill"}
  MaxObjects <- Objects
  MaxQueue = 0
  MaxCollections = 2
  None = None
INVARIANTS
  CollectionsAreWallets
  NoStaleHandle
  

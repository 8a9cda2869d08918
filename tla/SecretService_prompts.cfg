SPECIFICATION FairSpec
CONSTANTS
  n1 = n1
  n2 = n2
  q1 = q1
  Name <- Names
  Rank <- Ranks
  Handle = {h1, h2}
  Prompt = {q1, q2}
  Alias = {default}
  Default = default
  LocalWallet = None
  NewUser = FALSE
  WId = {w1}
  Labels = {}
  Others = {n1}
  Faults = {}
  MaxObjects <- Objects
  MaxQueue = 1
  MaxCollections = 0
  None = None
INVARIANTS
  Structure
  CompletedIsFinal
PROPERTIES
  CompletedIsUnlocked
  PromptCompletes

SPECIFICATION FairSpec
CONSTANTS
  Folder = {f1, f2}
  Key = {k1, k2}
  Type = {"map", "plaintext"}
  MaxValue = 2
  MaxLayers = 2
  MaxSignals = 2
  MaxMishaps = 2
INVARIANTS
  Structure
  FoldersListed
  SecretsSurvive
PROPERTIES
  ChangesAreSeen

SPECIFICATION Spec
CONSTANTS
  Folder = {1, 2}
  Name = {1}
  MaxCopy = 1
  KnownType = {"password"}
  Attribute = {"a"}
  Imported = "imported"
  MaxValue = 2
  MaxPath = 1
  MaxMishaps = 2
INVARIANTS
  Structure
  EveryEntryHasItem
  ItemsMatchEntries
  SecretsAreKept
  MisreadOnlyEstranged
PROPERTIES
  CreateKeepsEntries
  LabelTakesAll
  QuietRestart

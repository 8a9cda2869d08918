SPECIFICATION Spec
CONSTANTS
  Folder = {f1}
  Key = {k1, k2}
  Type = {"base64"}
  MaxValue = 1
  MaxLayers = 2
  MaxSignals = 1
  MaxMishaps = 0
INVARIANTS
  StreamsReadBack

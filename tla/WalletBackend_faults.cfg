SPECIFICATION Spec
CONSTANTS
  Name = {n1, n2}
  Password = {p1, p2}
  Salt = {s1, s2, s3}
  MaxWrites = 1
  Renames <- AllRenames
  Faults = {"salt", "sync", "open", "rename", "unlink", "kill"}
  Absent = Absent
  Empty = Empty
  Junk = Junk
  Sha1 = Sha1
  Zero = Zero
  None = None
SYMMETRY Symmetric
INVARIANTS
  Structure
  Readable
PROPERTIES
  NoDowngrade
  NoOlderContents

SPECIFICATION Spec
CONSTANTS
  Rank <- MCRank
  ProjectOf <- MCProjectOf
  Wheel <- MCWheel
  MetaVersion <- MCMetaVersion
  Absent = Absent
  Part = Part
  Worker = {w1, w2}
  Project = {"p"}
  Version = {"1", "1.0"}
  Filename = {"p-1.zip"}
  Digest = {"d1", "d2"}
  MaxId = 3
  Operation = {"upload", "delete_release", "delete_package", "yank"}
  Discipline = "none"
  Faults = {"db", "blob", "crash"}
  Remote = TRUE
SYMMETRY Workers
INVARIANTS RowsConsistent StoredBytesMatch
PROPERTIES StrikesNamedOrNewer

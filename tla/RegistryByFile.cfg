SPECIFICATION Spec
CONSTANTS
  Rank <- MCRank
  ProjectOf <- MCProjectOf
  Wheel <- MCWheel
  MetaVersion <- MCMetaVersion
  Absent = Absent
  Part = Part
  Worker = {w1, w2}
  Project = {"p"}
  Version = {"1", "2"}
  Filename = {"p-1.whl", "p-2.zip"}
  Digest = {d1}
  MaxId = 3
  Operation = {"upload", "delete_release", "delete_package", "yank", "unyank"}
  Discipline = "by_file"
  Faults = {"db", "blob", "crash"}
  Remote = TRUE
SYMMETRY Workers
INVARIANTS TypeOK IndexedAreStored
PROPERTIES ImplementsShelf

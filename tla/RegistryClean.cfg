SPECIFICATION FairSpec
CONSTANTS
  Rank <- MCRank
  ProjectOf <- MCProjectOf
  Wheel <- MCWheel
  MetaVersion <- MCMetaVersion
  Absent = Absent
  Part = Part
  Worker = {w1, w2}
  Project = {"p"}
  Version = {"1", "2"}
  Filename = {"p-1.whl", "p-2.zip"}
  Digest = {d1}
  MaxId = 2
  Operation = {"upload", "delete_release", "delete_package"}
  Discipline = "by_file"
  Faults = {"db", "client"}
  Remote = FALSE
INVARIANTS NoOrphans
PROPERTIES GarbageCollected

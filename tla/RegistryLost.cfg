SPECIFICATION Spec
CONSTANTS
  Rank <- MCRank
  ProjectOf <- MCProjectOf
  Wheel <- MCWheel
  MetaVersion <- MCMetaVersion
  Absent = Absent
  Part = Part
  Worker = {w1, w2}
  Project = {"p"}
  Version = {"1"}
  Filename = {"p-1.whl"}
  Digest = {d1}
  MaxId = 3
  Operation = {"upload"}
  Discipline = "none"
  Faults = {}
  Remote = FALSE
INVARIANTS IndexedAreStored

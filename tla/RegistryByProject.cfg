SPECIFICATION Spec
CONSTANTS
  Rank <- MCRank
  ProjectOf <- MCProjectOf
  Wheel <- MCWheel
  MetaVersion <- MCMetaVersion
  Absent = Absent
  Part = Part
  Worker = {w1, w2}
  Project = {"p", "q"}
  Version = {"1", "2"}
  Filename = {"p-1.whl", "p-2.zip", "q-1.zip"}
  Digest = {d1}
  MaxId = 2
  Operation = {"upload", "delete_release", "delete_package", "yank"}
  Discipline = "by_project"
  Faults = {"client", "crash"}
  Remote = FALSE
SYMMETRY Workers
INVARIANTS FileUnderItsRelease
PROPERTIES OnlyNewestRefreshes NewestIsShown

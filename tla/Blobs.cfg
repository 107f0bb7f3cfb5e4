\* Three kinds of store, any calls on an archive and its METADATA, a self-test.
SPECIFICATION Spec
CONSTANTS
    Worker = {w1, w2}
    dist = dist
    meta = meta
    probe = probe
    Key = {dist, meta, probe}
    ProbeKey = {probe}
    shelf = shelf
    probes = probes
    Dir = {shelf, probes}
    DirOf <- MCDirOf
    archive = archive
    metadata = metadata
    text = text
    Content = {archive, metadata, text}
    ContentOf <- MCContentOf
    Absent = Absent
    Part = Part
    Size = 2
    MaxRanges = 2
    Operation = {"put", "delete", "read", "check"}
    Backend = {"local", "bucket", "oss"}
    Faults = {"disk", "bucket", "kill"}
SYMMETRY Symmetry
INVARIANTS
    TypeOK
    BytesInPlace
    NothingIsLeftBehind
PROPERTIES
    ImplementsMap
    StaysUntilDeleted
    OpenedIsServed
    ProbeTidiesUp

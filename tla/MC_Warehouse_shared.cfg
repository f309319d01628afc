SPECIFICATION Spec
CONSTANTS
    Snapshots = {s1, s2}
    Collectors = {c1, c2}
    Readers = {r1}
    Holds = {h1}
    Absent = Absent
    None = None
    NEntries = 2
    DirEntries = {}
    Keep = 1
    MaxCrashes = 1
    SlowBuilds = FALSE
    RmFails = FALSE
    Quarantines = {}
    s1 = s1
    s2 = s2
    c1 = c1
    c2 = c2
    r1 = r1
    h1 = h1
SYMMETRY Symmetry
INVARIANTS FilesKept NoOrphanSnapshot
PROPERTIES ImplementsTable
CHECK_DEADLOCK FALSE

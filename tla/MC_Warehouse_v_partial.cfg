SPECIFICATION Spec
CONSTANTS
    Snapshots = {s1, s2}
    Collectors = {c1}
    Readers = {}
    Holds = {}
    Absent = Absent
    None = None
    NEntries = 2
    DirEntries = {}
    Keep = 1
    MaxCrashes = 0
    SlowBuilds = FALSE
    RmFails = FALSE
    Quarantines = {}
    s1 = s1
    s2 = s2
    c1 = c1
SYMMETRY Symmetry
INVARIANTS CurrentComplete
CHECK_DEADLOCK FALSE

SPECIFICATION FairSpec
CONSTANTS
    Snapshots = {s1, s2}
    Collectors = {c1}
    Readers = {}
    Holds = {}
    Absent = Absent
    None = None
    NEntries = 1
    DirEntries = {1}
    Keep = 1
    MaxCrashes = 1
    SlowBuilds = TRUE
    RmFails = TRUE
    Quarantines = {s1}
    s1 = s1
    s2 = s2
    c1 = c1
INVARIANTS CurrentIntact CommitsSerial
PROPERTIES Reclaimed
CHECK_DEADLOCK FALSE

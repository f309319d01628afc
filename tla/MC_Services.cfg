SPECIFICATION FairSpec
CONSTANTS
    NRequests = 2
    Limits <- MCLimits
    QueryTimeout = 1
    LongTimeout = 2
    LeaseTicks = 3
    Retention = 1
    RetryTicks = 1
    MaxLive = 1
    MaxTime = 3
    MaxIncidents = 1
    MaxClock = 2
    Uploads = {"u1", "u2"}
    Owners = {"alice", "bob"}
    Readers = {"t1"}
    MaxFaults = 1
    MaxAnalysisFaults = 1
    MaxIndexFaults = 1
    MaxBackupFaults = 1
    Savers = {"s1", "s2", "s3"}
    MaxRevision = 2
    MaxRetries = 1
    Ids = {"a1", "a2"}
    Runs = {"r1", "r2"}
    MaxFiles = 3
    Conns = {1, 2, 3}
    Clients = {"k1", "k2"}
    MaxWorkers = 2
    MaxPending = 0
    Limit = 1
    Window = 1
    MaxClients = 1
    Users = {"alice", "root"}
    Allowlisted = {"alice"}
    Admins = {"root"}
    Reqs = {1, 2}
    MaxChanges = 1
    Copies = {1, 2}
CHECK_DEADLOCK FALSE
INVARIANTS RevisionsSerial AnalysesHeld
PROPERTIES   IndexKept FrontSafe Served  BackupsWhole

SPECIFICATION FairSpec
CONSTANTS
    Requests = {r1, r2}
    Operators = {o1, o2}
    None = None
    Target = "local"
    NFiles = 2
    Options <- LocalOptions
    Actions = {"reconcile", "reset"}
    Discipline = {}
    FaultKinds = {"remote", "root", "store", "crash"}
    MaxFaults = 1
CHECK_DEADLOCK FALSE
INVARIANTS SucceededTrue AuditComplete
PROPERTIES ClaimResolved

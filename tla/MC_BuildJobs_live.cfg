SPECIFICATION FairSpec
CONSTANTS
    Cancellers = {c1}
    Faults = {"submit", "enqueue"}
    MaxCrashes = 1
    MaxQueued = 1
    MaxTerminal = 1
    MultiUser = TRUE
    None = None
    Requests = {q1, q2}
    Runs = {r1, r2}
    Workers = {w1}
    c1 = c1
    q1 = q1
    q2 = q2
    r1 = r1
    r2 = r2
    w1 = w1
INVARIANTS LatchAgreement 
PROPERTIES NoReversal  
CHECK_DEADLOCK FALSE

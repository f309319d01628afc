SPECIFICATION Spec
CONSTANTS
    Cancellers = {c1}
    Faults = {"append", "runner", "conflict", "manifest", "secure", "index"}
    MaxCrashes = 0
    MaxQueued = 2
    MaxTerminal = 4
    MultiUser = TRUE
    None = None
    Requests = {q1, q2, q3}
    Runs = {r1, r2}
    Workers = {w1, w2}
    c1 = c1
    q1 = q1
    q2 = q2
    q3 = q3
    r1 = r1
    r2 = r2
    w1 = w1
    w2 = w2
SYMMETRY Symmetry
INVARIANTS TypeOK OneWorkerPerRun OutcomeAgreement OneTerminalEvent KeysReachWorker
 
CHECK_DEADLOCK FALSE

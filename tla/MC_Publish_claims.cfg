SPECIFICATION Spec
CONSTANTS
    Requests = {r1, r2, r3}
    Operators = {o1, o2}
    None = None
    Target = "huggingface"
    NFiles = 2
    Options <- MCOptions
    Actions = {"reconcile", "reset"}
    Discipline = {"not_pending", "one_at_a_time"}
    FaultKinds = {"store", "remote", "blind", "audit", "crash"}
    MaxFaults = 1
CHECK_DEADLOCK FALSE
SYMMETRY Symmetry
INVARIANTS OneUploader TermsRespected

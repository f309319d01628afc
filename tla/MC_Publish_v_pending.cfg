SPECIFICATION Spec
CONSTANTS
    Requests = {r1, r2}
    Operators = {o1}
    None = None
    Target = "huggingface"
    NFiles = 2
    Options <- MCOptions
    Actions = {"reconcile"}
    Discipline = {"one_at_a_time"}
    FaultKinds = {"remote"}
    MaxFaults = 1
CHECK_DEADLOCK FALSE
INVARIANTS OneUploader

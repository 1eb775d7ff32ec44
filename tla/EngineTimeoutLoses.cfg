CONSTANTS
    N = 2
    StepKinds = {"cmd"}
    UseContainer = TRUE
    Strategy = "none"
    Faults = {}
    MaxLaunches = 1
    MaxScoped = 0
SPECIFICATION Spec
INVARIANTS
    FailureKeepsWork

CONSTANTS
    N = 2
    StepKinds = {"cmd"}
    UseContainer = TRUE
    Strategy = "none"
    Faults = {}
    MaxLaunches = 2
    MaxScoped = 0
SPECIFICATION Spec
INVARIANTS
    CrashLosesNothing

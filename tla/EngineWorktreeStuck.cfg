CONSTANTS
    N = 1
    StepKinds = {"cmd"}
    UseContainer = FALSE
    Strategy = "head"
    Faults = {}
    MaxLaunches = 3
    MaxScoped = 0
SPECIFICATION FairSpec
PROPERTIES
    SessionEnds

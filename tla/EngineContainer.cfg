CONSTANTS
    N = 2
    StepKinds = {"cmd", "agent", "chat", "scope", "script"}
    UseContainer = TRUE
    Strategy = "none"
    Faults = {"container", "copy"}
    MaxLaunches = 2
    MaxScoped = 0
SPECIFICATION FairSpec
INVARIANTS
    HostGetsWork
PROPERTIES DestroyOnlyWhenDecided SessionEnds

SPECIFICATION StartupSpec
CONSTANTS
    Themes = {"processes"}
    Procs = {p1, p2}
    Modes = {TRUE}
    MaxStarted <- TwoStarted
    Projects <- MCProjects
    Excluded = {"out"}
    Ignored = {"log"}
    MaxOps = 0
    MaxMishaps = 0
CHECK_DEADLOCK FALSE
PROPERTIES RecoversOnlyDead

SPECIFICATION StartupSpec
CONSTANTS
    Themes = {"processes", "container"}
    Procs = {p1, p2, p3}
    Modes = {TRUE, FALSE}
    MaxStarted <- MCMaxStarted
    Projects <- MCProjects
    Excluded = {"out"}
    Ignored = {"log"}
    MaxOps = 2
    MaxMishaps = 2
SYMMETRY Symmetry
CHECK_DEADLOCK FALSE
INVARIANTS
    StartupSafe DeadAreReaped ContainerSafe
PROPERTIES PruneSparesLive WorkKept

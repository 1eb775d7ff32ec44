CONSTANTS
    Sessions = {s1}
    Reconcilers = {r1, r2}
    NoTask = NoTask
    MaxEvents = 4
    Faults = {"sql", "file", "crash"}
CHECK_DEADLOCK FALSE
SPECIFICATION FairSpec
INVARIANTS
    TypeOK
    NoConflict
    FileFollowsLog
PROPERTIES
    ImplementsLog
    AppendEnds

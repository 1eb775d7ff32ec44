SPECIFICATION HarnessSpec
CONSTANTS
    Parts = {"scope"}
    Shapes <- MCShapes
    MaxCrashes = 1
    Forks <- MCForks
    MaxPCrashes = 1
    Plans <- MCPlans
    MaxCCrashes = 1
    MaxLines = 1
    LiteProcs = {"p", "q"}
    LiteSessions = {"s", "r"}
    MaxLite = 0
INVARIANT CrashRecoverable

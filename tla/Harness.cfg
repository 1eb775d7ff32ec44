SPECIFICATION HarnessSpec
CONSTANTS
    Parts = {"scope", "parallel", "conversation", "sqlite"}
    Shapes <- MCShapes
    MaxCrashes = 2
    Forks <- MCForks
    MaxPCrashes = 1
    Plans <- MCPlans
    MaxCCrashes = 2
    MaxLines = 2
    LiteProcs = {"p", "q"}
    LiteSessions = {"s", "r"}
    MaxLite = 2
INVARIANTS
    ScopeSafe ParallelSafe ConversationSafe LiteSafe
PROPERTIES ImplementsScopeRun LiteImplementsLog HarnessEnds

CONSTANTS
    N = 2
    StepKinds = {"cmd", "agent", "chat", "script", "scope"}
    UseContainer = FALSE
    Strategy = "merge_to_head"
    Faults = {"git"}
    MaxLaunches = 3
    MaxScoped = 2
SPECIFICATION Spec
INVARIANTS
    TypeOK CompletionsInOrder NothingAfterFailure RowExplained StartsInPlace MergesOnlySuccess
PROPERTIES ImplementsRun

SPECIFICATION HostSpec
CONSTANTS
    HostParts = {"load", "command", "chat", "slack", "remote", "duration"}
    Loads <- MCLoads
    ParallelNames <- MCParallelNames
    Invocations <- MCInvocations
    MaxScoped = 2
    Asks <- MCAsks
    SlackRequests <- MCSlackRequests
    MaxDeliveries = 2
    Streams <- MCStreams
    Dispatches <- MCDispatches
    Texts <- MCTexts
    MaxMs = 7300000
INVARIANTS
    LoadSafe CommandSafe ChatCallSafe SlackSafe RemoteSafe DurationSafe
PROPERTIES HostEnds

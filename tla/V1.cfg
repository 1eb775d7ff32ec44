SPECIFICATION V1Spec
CONSTANTS
    V1Parts = {"engine", "fan", "body", "proxy", "template"}
    Flows <- MCFlows
    MaxLaunches = 3
    Shared = {1}
    Fans <- MCFans
    Bodies <- MCBodies
    Requests <- MCRequests
    EnvLists <- MCEnvLists
    Chunk = 3
    Limit = 7
    Templates <- MCTemplates
    Stacks <- MCStacks
INVARIANTS
    V1RunSafe FanSafe BodySafe ProxySafe TemplateSafe
PROPERTIES V1Ends

SPECIFICATION FairSpec
CONSTANTS
    coin1 = coin1
    coin2 = coin2
    legacy = legacy
    platform = platform
    oneshot = oneshot
    token = token
    NoOne = NoOne
    Activations <- MCActivations
    Tasks <- MCTasks
    Kind <- MCKind
    Main <- MCMain
    Tokens <- MCTokens
    Needs <- MCNeeds
    Reports = {}
    Scenarios <- MCScenarios
INVARIANTS
    BuildsNotInVain
    CleanupLeavesNothing
    OkIsActive
PROPERTIES
    OnlyOwnCoinRemoved
    ActivationsEnd
\* Every activation ends, and nothing is left to do.
CHECK_DEADLOCK FALSE

SPECIFICATION Spec
CONSTANTS
    coin1 = coin1
    coin2 = coin2
    legacy = legacy
    platform = platform
    oneshot = oneshot
    token = token
    NoOne = NoOne
    Activations <- MCActivations
    Tasks <- MCTasks
    Kind <- MCKind
    Main <- MCMain
    Tokens <- MCTokens
    Needs <- MCNeeds
    Reports = {platform}
    Scenarios <- PlatformAlone
INVARIANTS
    CancelledLeavesNothing
CHECK_DEADLOCK FALSE

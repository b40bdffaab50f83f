\* A crash while a replay is under way.
SPECIFICATION Spec
CONSTANTS
    MaxDeliveries = 1
    MaxCrashes = 1
    MaxReplays = 1
    Receivers <- OneReceiver
    ReceiverOf <- AllToChat
    ReceiverConfigs <- AlwaysConfigured
    AttemptLimits <- LimitOfTwo
    LimitMayDrop = FALSE
    StorageFails = FALSE
    ReplayLive = FALSE
INVARIANTS
    KeyOfTheRound

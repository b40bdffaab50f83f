\* A crash while the replay of a batch member is under way.
\* The row is left queued without a task, so the instance may really stop.
SPECIFICATION FairSpec
CONSTANTS
    MaxDeliveries = 1
    MaxCrashes = 1
    MaxReplays = 1
    Receivers <- OneReceiver
    ReceiverOf <- AllToChat
    ReceiverConfigs <- AlwaysConfigured
    AttemptLimits <- LimitOfOne
    LimitMayDrop = FALSE
    StorageFails = FALSE
    ReplayLive = FALSE
    BatchKeys <- OneKey
    KeyReceiver <- KeyToChat
    EventSizes <- OneSize
    MaxEvents = 2
    MaxBytes = 2
    GroupWait = 1
    InitialBackoff = 1
    MaxBackoff = 1
    Horizon = 0
CHECK_DEADLOCK FALSE
PROPERTIES
    EventuallySettled

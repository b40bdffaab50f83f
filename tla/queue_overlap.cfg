\* A replay of a row that is still being worked on, then a crash.
\* The row is left queued without a task, so the instance may really stop.
SPECIFICATION FairSpec
CONSTANTS
    MaxDeliveries = 1
    MaxCrashes = 1
    MaxReplays = 1
    Receivers <- OneReceiver
    ReceiverOf <- AllToChat
    ReceiverConfigs <- AlwaysConfigured
    AttemptLimits <- LimitOfTwo
    LimitMayDrop = FALSE
    StorageFails = FALSE
    ReplayLive = TRUE
CHECK_DEADLOCK FALSE
PROPERTIES
    EventuallySettled

\* Careless operation: overlapping replays, failing storage calls, a lowered
\* max_attempts, a receiver that a restart no longer finds configured.
\* Rows may then be left without a task, so the instance may really stop.
SPECIFICATION Spec
CONSTANTS
    MaxDeliveries = 1
    MaxCrashes = 2
    MaxReplays = 2
    Receivers <- TwoReceivers
    ReceiverOf <- AllToPager
    ReceiverConfigs <- PagerMayGo
    AttemptLimits <- LimitOneOrTwo
    LimitMayDrop = TRUE
    StorageFails = TRUE
    ReplayLive = TRUE
CHECK_DEADLOCK FALSE
INVARIANTS
    SucceededMeansTaken
PROPERTIES
    VerdictStands

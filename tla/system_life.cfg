\* A delivery to each of two receivers, batched or not, and a replay of each; a restart
\* may lose either receiver, and a row that needs it stops the other's.
\* The instance may really stop: a start refused for good, an interrupted replay.
SPECIFICATION FairSpec
CONSTANTS
    MaxDeliveries = 2
    MaxCrashes = 2
    MaxReplays = 1
    Receivers <- TwoReceivers
    ReceiverOf <- LastToHook
    ReceiverConfigs <- EitherMayGo
    AttemptLimits <- LimitOfOne
    LimitMayDrop = FALSE
    StorageFails = FALSE
    ReplayLive = FALSE
    BatchKeys <- TwoKeys
    KeyReceiver <- KeyPerReceiver
    EventSizes <- OneSize
    MaxEvents = 2
    MaxBytes = 2
    GroupWait = 1
    InitialBackoff = 1
    MaxBackoff = 1
    Horizon = 0
CHECK_DEADLOCK FALSE
INVARIANTS
    OneOwner
    OrphansAreReplayedMembers
PROPERTIES
    PromiseKept
    OthersSettled

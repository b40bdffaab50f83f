\* One key, three events of sizes that fit, fill and overflow a batch, storage
\* calls that may fail and a crash at any point, one retry.
SPECIFICATION FairSpec
CONSTANTS
    MaxDeliveries = 3
    MaxCrashes = 1
    Receivers <- OneReceiver
    ReceiverOf <- AllToChat
    ReceiverConfigs <- AlwaysConfigured
    AttemptLimits <- LimitOfTwo
    LimitMayDrop = FALSE
    StorageFails = TRUE
    BatchKeys <- OneKey
    KeyReceiver <- KeyToChat
    EventSizes <- SmallAndHuge
    MaxEvents = 2
    MaxBytes = 3
    GroupWait = 1
    InitialBackoff = 1
    MaxBackoff = 1
    Horizon = 0
INVARIANTS
    TypeOK
    WithinBounds
    CountersMatchMembers
    MembersFollowBatch
    InFlightIsHeld
    AttemptsBounded
PROPERTIES
    WaitIsNotExtended
    OldestOfKeyFirst
    PromiseKept
    BacklogIsCleared

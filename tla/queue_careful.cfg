\* Careful operation: crashes at any point, two rows, a replay of each,
\* max_attempts may be raised from 2 to 3 between two runs.
SPECIFICATION FairSpec
CONSTANTS
    MaxDeliveries = 2
    MaxCrashes = 2
    MaxReplays = 1
    Receivers <- OneReceiver
    ReceiverOf <- AllToChat
    ReceiverConfigs <- AlwaysConfigured
    AttemptLimits <- LimitTwoOrThree
    LimitMayDrop = FALSE
    StorageFails = FALSE
    ReplayLive = FALSE
INVARIANTS
    TypeOK
    NoOrphan
    RetriesRemain
    OneTaskPerRow
PROPERTIES
    PromiseKept
    CountSurvivesACrash
    EventuallySettled

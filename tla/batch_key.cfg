\* A crash while a batch is being sent, then a new event of its key.
SPECIFICATION Spec
CONSTANTS
    MaxDeliveries = 2
    MaxCrashes = 1
    Receivers <- OneReceiver
    ReceiverOf <- AllToChat
    ReceiverConfigs <- AlwaysConfigured
    AttemptLimits <- LimitOfTwo
    LimitMayDrop = FALSE
    StorageFails = FALSE
    BatchKeys <- OneKey
    KeyReceiver <- KeyToChat
    EventSizes <- OneSize
    MaxEvents = 2
    MaxBytes = 3
    GroupWait = 1
    InitialBackoff = 1
    MaxBackoff = 1
    Horizon = 0
INVARIANTS
    KeyNamesOneContent

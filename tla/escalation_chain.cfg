\* Two alerts, or one that fires again; operators, a crash and a failing statement
\* at any point, a step that a restart finds removed from the policy.
SPECIFICATION FairSpec
CONSTANTS
    Groups <- TwoGroups
    MaxEvents = 2
    MaxRoutes = 1
    MaxTasks = 4
    MaxCrashes = 1
    Policies <- MayShrink
    MaxFaults = 1
    Horizon = 0
INVARIANTS
    TypeOK
    AcknowledgedIsQuiet
    ChainInOrder
    StepsExecutedOnce
    ClaimedIsHeld
PROPERTIES
    StepsAreTaken

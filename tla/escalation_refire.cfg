\* An alert is resolved by an event and fires again before its step was due.
SPECIFICATION Spec
CONSTANTS
    Groups <- OneGroup
    MaxEvents = 3
    MaxRoutes = 1
    MaxTasks = 3
    MaxCrashes = 0
    Policies <- OneStep
    MaxFaults = 0
    Horizon = 0
PROPERTIES
    EndedIncidentStaysQuiet

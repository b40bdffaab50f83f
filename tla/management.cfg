\* Two names, two requests at a time, a crash and a half-done method at any point.
SPECIFICATION Spec
CONSTANTS
    Handlers = {h1, h2}
    Users <- TwoNames
    Admin = "admin"
    Teams <- OneTeam
    Groups <- OneGroup
    Passwords <- TwoPasswords
    MaxSessions = 2
    Configs <- Deployments
    Databases <- Known
    Requests <- ClientRequests
    LoginFailureLimit = 1
    LockTime = 1
    SessionTtl = 1
    Horizon = 2
    MaxRequests = 3
    MaxCrashes = 1
    MaxFaults = 1
SYMMETRY SameHandlers
INVARIANTS
    TypeOK
    AccessIsJustified
    OnlyOwnTeams
    PasswordChangeRevokes
    GuessesAreBounded
PROPERTIES
    AdminRemains

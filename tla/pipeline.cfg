\* Two requests of any source, a failing storage call or a crash, one attempt at a
\* delivery or batch, and three days.
SPECIFICATION Spec
CONSTANTS
    Configs <- MCConfigs
    Requests <- MCRequests
    Teams <- MCTeams
    Identity <- MCIdentity
    Weight <- MCWeight
    Environment <- MCEnvironment
    EnvReference <- MCEnvReference
    PlainNames <- MCPlainNames
    QueryOf <- MCQueryOf
    GroupLabelsOf <- MCGroupLabelsOf
    DiscordLines = 2
    MaxRequests = 2
    MaxTroubles = 1
    MaxSends = 1
    MaxDay = 2
INVARIANTS
    TypeOK
    AnswersAreTrue
    IdentityIsStable
    StoreIsConsistent
    MessagesAreWhole

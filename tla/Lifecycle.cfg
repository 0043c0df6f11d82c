\* Every configuration, with all failures, two requests, signals and the deadline.
CONSTANTS
    MaxRequests = 2
    Events <- AllEvents
SPECIFICATION FairSpec
INVARIANTS
    NoOrphanRclone
    ShutdownIsSafe
    RequestsBeforeServices
PROPERTIES
    Exits
    FailureExits

\* The service and a handler; everything fails at times and the process dies once.
CONSTANTS
    h1 = h1  h2 = h2
    Handlers = {h1}
    Service = Service
    NoIndex = NoIndex
    Torn = Torn
    MaxTries = 2
    MaxClock = 2
    MaxRestarts = 1
    Events = {"list", "create", "write", "close", "open", "shutdown"}
SPECIFICATION FairSpec
INVARIANTS
    BackgroundHasIndex
    DiskMatchesMemoryAlone
    QuietAfterShutdown
PROPERTIES
    StartEnds
    ShutdownEnds
    OldIndexReplaced

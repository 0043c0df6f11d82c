\* Two handlers refresh the index at the same time; nothing fails.
CONSTANTS
    h1 = h1  h2 = h2
    Handlers <- TwoHandlers
    Service = Service
    NoIndex = NoIndex
    Torn = Torn
    MaxTries = 1
    MaxClock = 1
    MaxRestarts = 0
    Events = {}
SPECIFICATION Spec
SYMMETRY Symmetric
INVARIANT
    DiskMatchesMemory

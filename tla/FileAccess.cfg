\* Three calls for one directory that changes twice, with and without a cache; one reads the file.
CONSTANTS
    c1 = c1  c2 = c2  c3 = c3
    Calls <- ThreeCalls
    NoCall = NoCall
    Dirs = {"a"}
    TTLs = {0, 1}
    MaxClock = 2
    MaxChanges = 2
    Failures = TRUE
    Readers <- OneReader
SPECIFICATION FairFileSpec
INVARIANTS
    NoParallelRequests
    ReadsMonotone
    NeverStaleWithoutTTL
    ReadAsListed
PROPERTIES
    StaleForTTL
    CallsEnd

\* Two events at any moment of any round, and a shutdown.
CONSTANTS
    a = a  b = b  c = c
    Months <- TwoMonths
    FilesOf <- ThreeFiles
    maxTotalFileSize = 3
    MaxSize = 2
    MaxEvents = 2
    Events = {"remove", "io", "shutdown"}
SPECIFICATION FairSpec
\* The goroutine has ended and nothing is left to do.
CHECK_DEADLOCK FALSE
PROPERTIES
    RemovesOldestExcess
    QuietAfterShutdown
    LimitReached
    CleanupEnds

\* A component fails, and a signal comes while main shuts down because of it.
CONSTANTS
    MaxRequests = 0
    Events = {"listen", "signal"}
SPECIFICATION Spec
INVARIANT NothingLeftRunning

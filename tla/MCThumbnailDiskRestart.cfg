CONSTANTS
    Elements = {e1}
    Versions = {v1}
    Formats = {"main", "bmp"}
    DefaultMaxEntries = 2
    Limits = {}
    Switches = {FALSE}
    MaxEpoch = 1
    QueueBound = 1
    MaxRestarts = 1
    MayCrash = TRUE
SPECIFICATION Spec
VIEW View
INVARIANTS NoStaleFile NoHalfWrite StopReachesWriter
CHECK_DEADLOCK FALSE

CONSTANTS
    Elements = {e1}
    Versions = {v1, v2}
    Formats = {"main"}
    DefaultMaxEntries = 2
    Limits = {1}
    Switches = {TRUE, FALSE}
    MaxEpoch = 1
    QueueBound = 2
    MaxRestarts = 0
    MayCrash = FALSE
SPECIFICATION Spec
SYMMETRY Symmetry
VIEW View
INVARIANTS IndexConsistent NoStaleEntry
CHECK_DEADLOCK FALSE

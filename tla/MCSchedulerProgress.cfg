CONSTANTS
    s1 = s1
    s2 = s2
    e1 = e1
    e2 = e2
    a = a
    b = b
    c = c
    Schedulers = {s1}
    Tasks = {a, b, c}
    Execs = {e1, e2}
    Home <- OneHome
    Exec <- TwoExecs
    Kind <- Kinds
    Cost <- Costs
    Threads = 2
    Readings <- ExportFits
    LockTimeouts = FALSE
    SinkTimeouts = FALSE
    MayThrow = TRUE
    MaxSinks = 0
SPECIFICATION FairSpec
PROPERTIES TaskEnds ParkedTriedAgain
CHECK_DEADLOCK FALSE

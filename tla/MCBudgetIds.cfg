CONSTANTS
    s1 = s1
    s2 = s2
    e1 = e1
    e2 = e2
    a = a
    b = b
    c = c
    Schedulers = {s1, s2}
    Tasks = {a, b, c}
    Execs = {e1, e2}
    Home <- TwoHomes
    Exec <- TwoExecs
    Kind <- FastKinds
    Cost <- Costs
    Threads = 2
    Readings <- ScarceMemory
    LockTimeouts = TRUE
    SinkTimeouts = FALSE
    MayThrow = TRUE
    MaxSinks = 0
SPECIFICATION Spec
INVARIANTS BudgetsMatchRenders
CHECK_DEADLOCK FALSE

CONSTANTS
    s1 = s1
    s2 = s2
    e1 = e1
    e2 = e2
    a = a
    b = b
    c = c
    Schedulers = {s1, s2}
    Tasks = {a, b, c}
    Execs = {e1, e2}
    Home <- TwoHomes
    Exec <- TwoExecs
    Kind <- FastKinds
    Cost <- Costs
    Threads = 2
    Readings <- ScarceMemory
    LockTimeouts = TRUE
    SinkTimeouts = TRUE
    MayThrow = TRUE
    MaxSinks = 2
SPECIFICATION Spec
INVARIANTS TasksAccounted BudgetsOfRenders GrantsWithinMemory SinksAndParams
CHECK_DEADLOCK FALSE

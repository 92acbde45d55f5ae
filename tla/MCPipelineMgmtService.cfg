SPECIFICATION Spec
CONSTANTS
    Ids = {i1, i2, i3, i4}
    Editors = {ui}
    Workers = {w1}
    Objects = 2
    Prefs = {auto, cpu}
    CPU = cpu
    Params = {base, edited}
    Base = base
    Capacity = 3
    LockTimeouts = TRUE
    Editable = {i1}
    MaxDeletes = 1
    MaxSwitches = 1
SYMMETRY Symmetry
INVARIANTS CacheConsistent PinsMatchHolders HeldUsable NoLostEdit DeletedStaysDeleted
CHECK_DEADLOCK FALSE

SPECIFICATION Spec
CONSTANTS
    p1 = p1
    p2 = p2
    i1 = i1
    i2 = i2
    Projects <- MCProjects
    First = p1
    Images <- MCImages
    MaxFiles = 2
    Bound <- MCBound
    MaxWorks = 3
INVARIANTS CountsAgree ReportedIsKept LocksHeldUnlessRefused
PROPERTIES NoWriteUnderBarrier WorkEnds
CHECK_DEADLOCK FALSE

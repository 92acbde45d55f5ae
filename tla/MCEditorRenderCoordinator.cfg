SPECIFICATION FairSpec
CONSTANTS
    e1 = e1
    e2 = e2
    Edits = {e1, e2}
    Saved = e1
    MaxDrags = 2
    MaxSwitches = 1
    MaxViews = 1
    MaxFails = 1
INVARIANTS SettledRight ReadyBaseIsShown
PROPERTIES Settles
CHECK_DEADLOCK FALSE

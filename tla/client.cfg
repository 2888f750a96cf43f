\* Two calls at a time in two tabs, three in all.
CONSTANTS
    t1 = t1
    t2 = t2
    c1 = c1
    c2 = c2
    None = None
    Tabs = {t1, t2}
    Calls = {c1, c2}
    MaxStarts = 3
    MaxFaults = 1
SPECIFICATION Spec
SYMMETRY ClientSymmetry
CHECK_DEADLOCK FALSE
INVARIANTS
    TypeOK
    RefreshesKeepTheSession
    TabsAgree

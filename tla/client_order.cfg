\* One login in one of two tabs, nothing lost, no tab loaded again.
CONSTANTS
    t1 = t1
    t2 = t2
    c1 = c1
    c2 = c2
    None = None
    Tabs = {t1, t2}
    Calls = {c1, c2}
    MaxStarts = 1
    MaxFaults = 0
SPECIFICATION Spec
SYMMETRY ClientSymmetry
CHECK_DEADLOCK FALSE
INVARIANT BothTabsAuthenticated

SPECIFICATION Spec
CONSTANTS
    Runs = {r1, r2}
    Threads = {t1, t2}
    NoRun = NoRun
    MaxDrafts = 2
    MaxFails = 0
    MaxRestarts = 0
SYMMETRY Symmetry
CHECK_DEADLOCK FALSE
INVARIANTS
    StartedIsListed


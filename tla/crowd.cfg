SPECIFICATION Spec
CONSTANTS
    Runs = {r1, r2}
    Threads = {t1, t2}
    NoRun = NoRun
    MaxDrafts = 2
    MaxFails = 2
    MaxRestarts = 1
SYMMETRY Symmetry
CHECK_DEADLOCK FALSE
INVARIANTS
    PublishedIsClosed
    PublishedIsTrue
    ListedIsWaiting
    SoleApprovedWasSeen

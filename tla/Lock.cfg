CONSTANTS
    Threads = {t1, t2, t3}
    Timeout = 2
    MaxReleases = 4
SPECIFICATION Spec
INVARIANTS
    ReleasesAreKept
    NoLostWakeup
PROPERTIES
    ReleaseReachesWaiter
CHECK_DEADLOCK FALSE

CONSTANTS
    Accounts = {a}
    Sends = {s1, s2}
    Scans = {q}
    Boot = boot
    Relogins = {l1, l2}
    MaxSessions = 3
    MaxRelogins = 1
    MaxMishaps = 2
SPECIFICATION Spec
SYMMETRY Symmetry
CHECK_DEADLOCK FALSE
INVARIANTS
    ListenersArePooled
    OneListener
    ReloginShared
    DeletedStaysDeleted

\* A message of a 1:1 thread and one of a group, over two passes and two starts.
CONSTANTS
    Private = {m}
    Group = {g}
    Passes = {p1, p2}
    MaxRetries = 1
    MaxActions = 2
    MaxFaults = 2
    MaxStarts = 2
SPECIFICATION FairSpec
CHECK_DEADLOCK FALSE
INVARIANTS
    AckedIsDelivered
    PassesBounded
PROPERTIES
    QueueDrains
    MeetsContract

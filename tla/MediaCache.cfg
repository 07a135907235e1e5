\* Three downloads of which one always fails, two a pass; two limits.
CONSTANTS
    Received = {a, b, x}
    Sent = {s, t}
    FileOf <- SameFile
    f = f
    Bad = {x}
    Bytes <- OneEach
    Batch = 2
    Limits = {1, 3}
    Default = 3
    MaxFaults = 1
    MaxIncidents = 2
SPECIFICATION FairSpec
INVARIANTS
    OfferedIsServed
PROPERTIES
    PassEndsWithinLimit
    GoodIsFetched

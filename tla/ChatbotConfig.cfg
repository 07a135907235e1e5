\* Two users, two fetches in flight, two starts, crashes and another build.
CONSTANTS
    u1 = u1
    u2 = u2
    None = None
    Users <- TwoUsers
    Refused <- OneRefused
    Fetches = {p1, p2}
    MaxEdits = 2
    MaxStarts = 2
SPECIFICATION FairSpec
PROPERTIES
    CurrentInTheEnd

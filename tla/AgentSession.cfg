\* The resume of Alice's session and a request of hers or of Bob, who signs in on
\* her PC, in any overlap; the heartbeat finds out about a revocation.
CONSTANTS
    resume = resume
    first = first
    second = second
    alice = alice
    bob = bob
    None = None
    Resume = resume
    Ops = {resume, first, second}
    UserOf <- TwoUsers
SPECIFICATION FairSpec
CONSTRAINT OneRequest
INVARIANTS ToldOnce RuntimeMatchesDisk
PROPERTY RevokedRunnerStops
CHECK_DEADLOCK FALSE

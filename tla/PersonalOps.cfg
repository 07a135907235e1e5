\* One operation and one list request at a time, one change of each list, two settings.
CONSTANTS
    Day = 4
    Env <- Defaults
    Inputs <- Pushed
    MaxWrites = 2
    Ops = {o}
    Gets = {q}
    Batches = {1, 2}
    MaxChanges = 1
    MaxRestarts = 1
SPECIFICATION Spec
INVARIANTS
    OperatorsWordHolds
    CacheShowsAnswered
PROPERTIES
    AdmittedAsTold

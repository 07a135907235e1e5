CONSTANTS
    Operator = {o}
    Bot = {b}
    Retries = {y}
    Customer = {c}
    Phone = {f}
    MaxCopies = 2
    MaxIncidents = 2
SPECIFICATION Spec
CHECK_DEADLOCK FALSE
INVARIANTS
    InboundOnce
    OneRowPerSend
    NewIsActedOn
    SentReachesCloud
    PendingIsOwned
PROPERTIES
    EchoIsNotOperator
    ReportedOnce

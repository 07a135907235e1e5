\* Three audits, one of which is always refused; two passes of two rows.
CONSTANTS
    a1 = a1
    a2 = a2
    a3 = a3
    Audits <- AllAudits
    Refused <- OneRefused
    Limit = 2
    Passes = {p1, p2}
SPECIFICATION AuditFairSpec
INVARIANTS
    AuditKept
PROPERTIES
    AuditPosted

\* Four requests: two on a session race while others deactivate and enroll.
CONSTANTS
    Requests = {r1, r2, r3, r4}
    Employees = {e1}
    MaxInFlight = 4
    None = None
SPECIFICATION Spec
SYMMETRY Symmetry
INVARIANTS
    TypeOK
    CompletedHasEnrolled
    AuditIsTruthful
    AcknowledgedFaceIsKept
    RevocationHolds
    RefusalHolds
PROPERTY OneTime
\* Every request is handled once: a run ends when all have been answered.
CHECK_DEADLOCK FALSE

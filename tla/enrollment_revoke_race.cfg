CONSTANTS
    Requests = {r1, r2}
    Employees = {e1}
    MaxInFlight = 2
    None = None
SPECIFICATION Spec
INVARIANT RevokedFaceStaysRevoked
CHECK_DEADLOCK FALSE

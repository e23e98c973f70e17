CONSTANTS
    Requests = {r1, r2, r3}
    Employees = {e1}
    MaxInFlight = 2
    None = None
SPECIFICATION Spec
INVARIANT RefusedCompletionStoresNothing
CHECK_DEADLOCK FALSE

\* Three pods, each with one face, at the edge of two dedupe windows. One name:
\* every image overwrites the one before.
CONSTANTS
    Requests = {r1, r2, r3}
    Employees = {e1}
    Names = {n1}
    Pods = 3
    MaxBucket = 1
    None = None
SPECIFICATION FairSpec
INVARIANTS
    TypeOK
    OneEventPerWindow
    RecordedHasSnapshot
PROPERTIES
    Logs
    Answered
\* Every request is handled once: a run ends when all have been answered.
CHECK_DEADLOCK FALSE

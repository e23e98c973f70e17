\* Four requests and two acts of the user or expiries of a session; rows are
\* edited any number of times.
CONSTANTS
  MaxFlight = 4
  MaxActs = 2
SPECIFICATION Spec
INVARIANTS
  TypeOK
  SettledIsCurrent
PROPERTY
  LoadingEnds
CHECK_DEADLOCK FALSE

SPECIFICATION FairProcessSpec
CONSTANTS
  Requests = {q1, q2, q3}
CHECK_DEADLOCK FALSE
INVARIANTS
  OnlyOverdueRequestsFail
PROPERTIES
  SignalStops

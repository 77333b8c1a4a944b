SPECIFICATION Spec
CONSTANTS
  MaxEvents = 5
  MaxFailedEdits = 3
  MaxContinuations = 1
  MaxRetries = 1
  Faults <- AllFaults
INVARIANTS TypeOK ActedIsSettled NoTurnBesideAnother IdleIsTakenUp
PROPERTIES ImplementsTurnVerdict
CHECK_DEADLOCK FALSE

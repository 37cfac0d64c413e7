SPECIFICATION Spec

CONSTANTS
  Requests = {}
  MaxEdits = 2
  MaxFaults = 0

INVARIANTS
  ActivationClearsEpoch

CHECK_DEADLOCK FALSE

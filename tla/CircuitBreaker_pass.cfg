SPECIFICATION Spec
CONSTANTS
  c1 = c1
  c2 = c2
  c3 = c3
  Calls <- MCCalls
  failure_threshold = 2
  half_open_max_calls = 1
  CancelProbes = FALSE
  MaxFailures = 4
INVARIANTS
  TypeOK
  OpenIffThreshold
  SlotsOnlyHalfOpen
  SlotsBacked
PROPERTY
  AutoRecover

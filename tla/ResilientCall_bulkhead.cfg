SPECIFICATION Spec
CONSTANTS
  c1 = c1
  c2 = c2
  c3 = c3
  Calls <- MCCalls
  failure_threshold = 2
  half_open_max_calls = 1
  CancelProbes = FALSE
  MaxFailures = 5
  max_attempts = 2
  max_concurrent = 1
  max_queue = 1
INVARIANT
  AtMostMaxConcurrent
CHECK_DEADLOCK FALSE

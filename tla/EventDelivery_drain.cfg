CONSTANTS
  e1 = e1
  e2 = e2
  e3 = e3
  Events <- MCEvents
  Subscribed <- MCSubscribed
  Refused <- MCNoneRefused
  MAX_RETRIES = 1
  MaxOutages = 1
  MaxEnds = 0
  MaxRestarts = 0
  MaxLog = 2
SPECIFICATION Spec
PROPERTY
  DrainsOnRecovery
CHECK_DEADLOCK FALSE

CONSTANTS
  e1 = e1
  e2 = e2
  e3 = e3
  Events <- MCEvents
  Subscribed <- MCSubscribed
  Refused <- MCRefused
  MAX_RETRIES = 1
  MaxOutages = 1
  MaxEnds = 1
  MaxRestarts = 1
  MaxLog = 3
SPECIFICATION Spec
INVARIANTS
  TypeOK
  RelayDropsNothing
  NoSelfMadeDuplicates
  HandledOncePerProcess
  CommittedIsSettled
PROPERTY
  Delivered
CHECK_DEADLOCK FALSE

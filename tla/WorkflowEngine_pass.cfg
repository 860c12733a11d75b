SPECIFICATION Spec
CONSTANTS
  w1 = w1
  w2 = w2
  ann = ann
  bob = bob
  w3 = w3
  k1 = k1
  k2 = k2
  k3 = k3
  nobody = nobody
  Runs <- MCRuns
  Users <- MCUsers
  Clients <- MCClients
  Definitions <- MCDefinitions
  capacity = 2
CHECK_DEADLOCK FALSE
INVARIANTS
  TypeOK
  OneDriver
  LedgerAgrees
  ApprovalBarrier
  InvokedInOrder
  HistoryFresh
PROPERTIES
  SettledIsFinal
  RunsSettle

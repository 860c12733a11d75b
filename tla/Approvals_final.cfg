SPECIFICATION Spec
CONSTANTS
  r1 = r1
  ann = ann
  bob = bob
  eve = eve
  none = none
  Requests <- MCRequests
  Users <- MCUsers
  Admins <- MCAdmins
  MAX_ESCALATIONS = 3
  MaxAborts = 1
CHECK_DEADLOCK FALSE
PROPERTY
  DecisionIsFinal

SPECIFICATION Spec
CONSTANTS
  j1 = j1
  a1 = a1
  a2 = a2
  w1 = w1
  w2 = w2
  Jobs <- MCJobs
  Apis <- MCApis
  Workers <- MCWorkers
  MaxRuns = 2
INVARIANTS
  TypeOK
  
  CancelOutlivesRetry
  WorkedRowsStay
PROPERTY
  TrainingSettles
CHECK_DEADLOCK FALSE

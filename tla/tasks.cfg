SPECIFICATION FairTasksSpec
CONSTANTS
  edited = edited
  twin = twin
  c1 = c1
  ann = ann
  bob = bob
  a1 = a1
  a2 = a2
  w1 = w1
  NoName = NoName
  Tasks = {edited, twin}
  Cases = {c1}
  CaseOf <- TheCaseOf
  Names = {ann, bob}
  Members = {ann}
  Goals <- TheGoals
  Answers <- TheAnswers
  PutBack = FALSE
  MaxVersion = 3
  MaxRequests = 2
  Analyses = {a1, a2}
  Workers = {w1}
  BatchSize = 1
  MaxRetries = 1
  MaxLost = 1
INVARIANTS
  TasksTypeOK
  ConfirmedIsRequested
  ExpiredNeverExecutes
  FinalAgreesWithWrite
PROPERTIES
  PolledTaskSettles
  NoTaskIsStuck
CHECK_DEADLOCK FALSE

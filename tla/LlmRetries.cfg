\* Any settings, any answers, RQ's timeout and midnight at any point.
SPECIFICATION Spec
CONSTANTS
  SingleBatch = 4
  BatchSize = 3
  MaxRequirements = 5
  ValidDays = 1
  MaxAge = 2
INVARIANTS
  TypeOK
  RefusalIsFinal
  AttemptsAreBounded
  EveryRequirementAnswered
  CodeNamesLastAttempt
PROPERTIES
  ShutGateHolds
  Settles
CHECK_DEADLOCK FALSE

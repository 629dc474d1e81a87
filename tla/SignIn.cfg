\* Two calls that may overlap, over a network that loses and delays.
SPECIFICATION Spec
CONSTANTS
  Tabs = 2
  MaxAttempts <- Patience
  Earlier = earlier
  None = none
INVARIANTS
  TypeOK
  UsedLinkOpensNothing
  AnswersStayTrue
PROPERTY
  CallsSettle
CHECK_DEADLOCK FALSE

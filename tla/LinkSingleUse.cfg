\* A link that is followed by two requests which overlap.
SPECIFICATION Spec
CONSTANTS
  Tabs = 2
  MaxAttempts <- Patience
  Earlier = earlier
  None = none
INVARIANT
  LinkIsSingleUse
CHECK_DEADLOCK FALSE

\* A page over rows that complete, fail and are taken up again.
SPECIFICATION Spec
CONSTANTS
  Lives <- RowLives
  Slots = 2
  Timers = 2
  MaxPolls = 2
  MaxFailures = 2
INVARIANT
  TypeOK
PROPERTIES
  NeverForgotten
  NeverOlder
  OutcomeIsShown
CHECK_DEADLOCK FALSE

\* The same document twice, with no fault at all.
SPECIFICATION SafeSpec
CONSTANTS
  Texts = {t1, t2}
  Calls = {c1, c2}
  Workers = {w1}
  Faults = {}
  MaxAttempts = 1
INVARIANTS
  DuplicateIsFound
CHECK_DEADLOCK FALSE

\* Two calls with any documents over two texts; everything may fail.
SPECIFICATION Spec
CONSTANTS
  Texts = {t1, t2}
  Calls = {c1, c2}
  Workers = {w1, w2}
  Faults = {"storage", "document", "llm", "lost_enqueue", "crash", "requeue"}
  MaxAttempts = 2
INVARIANTS
  TypeOK
  QuotesMatchText
PROPERTIES
  CompletedIsFrozen
  UploadsSettle
CHECK_DEADLOCK FALSE

\* Everything may overlap and fail.
SPECIFICATION SafeSpec
CONSTANTS
  Resumes = {cv}
  Jobs = {jd1, jd2}
  Requirements = {python}
  Requests = {q1, q2, q3}
  Workers = {w1, w2}
  Faults = {"overlap", "lost_enqueue", "crash", "requeue", "reprocess"}
  MaxGen = 2
SYMMETRY Interchangeable
INVARIANTS
  TypeOK
  ScoreHasEvidence
  CompletedIsWhole
  CodeIffFailed
  InFlightIsCarried
PROPERTIES
  OverwriteNeedsRival
\* Every call has been answered and every job is done: nothing has to happen.
CHECK_DEADLOCK FALSE

\* One user, one call at a time, workers that stay up.
SPECIFICATION Spec
CONSTANTS
  Resumes = {cv}
  Jobs = {jd1, jd2}
  Requirements = {python}
  Requests = {q1, q2, q3}
  Workers = {w1, w2}
  Faults = {}
  MaxGen = 1
PROPERTIES
  CompletedIsFinal
  KeepsPromise
CHECK_DEADLOCK FALSE

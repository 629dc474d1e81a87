\* Two calls of one user overlap; one worker, and nothing else goes wrong.
SPECIFICATION SafeSpec
CONSTANTS
  Resumes = {cv}
  Jobs = {jd}
  Requirements = {python}
  Requests = {q1, q2, q3}
  Workers = {w1}
  Faults = {"overlap"}
  MaxGen = 1
PROPERTIES
  CompletedIsFinal
CHECK_DEADLOCK FALSE

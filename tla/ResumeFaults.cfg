\* Two uploads, of the same file or not; everything may fail, be killed and be
\* requeued.
SPECIFICATION Spec
CONSTANTS
  Files = {cv1, cv2}
  Uploads = {u1, u2}
  Workers = {w1, w2}
  Faults = {"storage", "document", "lost_enqueue", "crash", "requeue", "cite"}
  LastPage = 2
  MaxAttempts = 2
INVARIANTS
  TypeOK
  OnePerFile
  CommittedHasOriginal
  CompletedIsViewable
  InFlightIsCarried
PROPERTIES
  SettledIsFinal
  ResumesSettle
\* Every call has been answered and every job is done: nothing has to happen.
CHECK_DEADLOCK FALSE

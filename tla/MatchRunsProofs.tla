--------------------------- MODULE MatchRunsProofs ---------------------------
(***************************************************************************)
(* What TLAPS proves of MatchRuns for every set of resumes, jobs, requests  *)
(* and workers, and whatever Faults allows, in three parts: types and the   *)
(* invariants that survive overlapping calls, crashes and requeued jobs;    *)
(* who is in charge of a run in progress; what becomes of a completed run.  *)
(***************************************************************************)
EXTENDS MatchRuns, FiniteSetTheorems, TLAPS

(* A call belongs to one pair, and a pair is a resume and a job.              *)
LEMMA PairOfCall ==
  ASSUME TypeOK, NEW q \in Requests
  PROVE  request[q].pair \in Pairs
  BY DEF TypeOK, Calls

LEMMA PairParts ==
  ASSUME NEW p \in Pairs
  PROVE  p[1] \in Resumes /\ p[2] \in Jobs /\ p = <<p[1], p[2]>>
  BY DEF Pairs

(* The three ways the actions write a row keep the row's type.                *)
LEMMA GotoTyped ==
  ASSUME TypeOK, NEW q \in Requests, NEW pc \in HandlerSteps, Goto(q, pc)
  PROVE  request' \in [Requests -> Calls]
  BY DEF TypeOK, Goto, Calls

LEMMA AnswerTyped ==
  ASSUME TypeOK, NEW q \in Requests, NEW a \in Answers, Answer(q, a)
  PROVE  request' \in [Requests -> Calls]
  BY DEF TypeOK, Answer, Calls, HandlerSteps

LEMMA FinishTyped ==
  ASSUME TypeOK, NEW w \in Workers, Finish(w)
  PROVE  worker' \in [Workers -> WorkerStates]
  BY DEF TypeOK, Finish, WorkerStates, Idle

LEMMA IdleTyped == Idle \in WorkerStates
  BY DEF Idle, WorkerStates

LEMMA RunTyped ==
  ASSUME TypeOK, NEW p \in Pairs, NEW s \in RunStates, NEW c \in FailureCodes
  PROVE  [run EXCEPT ![p].state = s, ![p].code = c] \in [Pairs -> RunRows]
  BY DEF TypeOK, RunRows

LEMMA ObstacleTyped ==
  ASSUME NEW p \in Pairs
  PROVE  Obstacle(p) \in FailureCodes
  BY DEF Obstacle, FailureCodes

(* What a worker may write as the claims of a run are claim rows.             *)
LEMMA MetCountTyped ==
  ASSUME NEW rows, IsFiniteSet(rows)
  PROVE  MetCount(rows) \in Nat
<1>1. IsFiniteSet({c \in rows : c.span # NoSpan})
  BY FS_Subset
<1> QED
  BY <1>1, FS_CardinalityType DEF MetCount

LEMMA ClaimsTyped ==
  ASSUME TypeOK, NEW w \in Workers, NEW r \in Resumes,
         NEW cites \in [worker[w].reqs ->
                          (worker[w].spans \cap resume[r].spans) \cup {NoSpan}]
  PROVE  BuiltClaims(w, cites) \subseteq ClaimRows /\ MetCount(BuiltClaims(w, cites)) \in Nat
<1>1. worker[w].reqs \subseteq Requirements /\ worker[w].spans \subseteq Generations
  BY DEF TypeOK, WorkerStates
<1>2. \A x \in worker[w].reqs : cites[x] \in Nat
  BY <1>1 DEF Generations, NoSpan
<1>3. IsFiniteSet(worker[w].reqs)
  BY <1>1, ConstantsOK, FS_Subset
<1>4. IsFiniteSet(BuiltClaims(w, cites))
  <2> DEFINE rows == [x \in worker[w].reqs |-> [req |-> x, span |-> cites[x]]]
  <2>1. rows \in Surjection(worker[w].reqs, BuiltClaims(w, cites))
    BY DEF BuiltClaims, Surjection
  <2> QED
    BY <1>3, <2>1, FS_Surjection
<1>5. BuiltClaims(w, cites) \subseteq ClaimRows
  BY <1>1, <1>2 DEF BuiltClaims, ClaimRows
<1> QED
  BY <1>4, <1>5, MetCountTyped

-----------------------------------------------------------------------------

LEMMA TypeInit == Init => TypeOK
<1> SUFFICES ASSUME Init PROVE TypeOK
  OBVIOUS
<1>1. resume \in [Resumes -> ResumeRows]
  BY DEF Init, ResumeRows
<1>5. job \in [Jobs -> JobRows]
  BY DEF Init, JobRows
<1>2. run \in [Pairs -> RunRows]
  BY DEF Init, RunRows, RunStates, FailureCodes, NoScore
<1>3. request \in [Requests -> Calls]
  <2>1. \A c \in [pc : {"new"}, pair : Pairs, answer : {"none"}] : c \in Calls
    BY DEF Calls, HandlerSteps, Answers
  <2> QED
    BY <2>1 DEF Init
<1>4. worker \in [Workers -> WorkerStates]
  BY IdleTyped DEF Init
<1>6. queue \in Seq(Requests) /\ failedJobs \subseteq Requests
  BY DEF Init
<1> QED
  BY <1>1, <1>2, <1>3, <1>4, <1>5, <1>6 DEF TypeOK

LEMMA TypeStep == TypeOK /\ [Next]_vars => TypeOK'
<1> SUFFICES ASSUME TypeOK, [Next]_vars PROVE TypeOK'
  OBVIOUS
<1>1. ASSUME NEW r \in Resumes, ResumeBegins(r) PROVE TypeOK'
  BY <1>1 DEF TypeOK, ResumeBegins, ResumeRows, rq
<1>2. ASSUME NEW r \in Resumes, ResumePersists(r) PROVE TypeOK'
  BY <1>2 DEF TypeOK, ResumePersists, ResumeRows, Generations, NoSpan, rq
<1>3. ASSUME NEW r \in Resumes, ResumeFails(r) PROVE TypeOK'
  BY <1>3 DEF TypeOK, ResumeFails, ResumeRows, rq
<1>4. ASSUME NEW j \in Jobs, JobSettles(j) PROVE TypeOK'
  BY <1>4 DEF TypeOK, JobSettles, JobRows, rq
<1>5. ASSUME NEW q \in Requests, Validate(q) \/ Lookup(q) PROVE TypeOK'
  <2>1. request' \in [Requests -> Calls]
    BY <1>5, GotoTyped, AnswerTyped DEF Validate, Lookup, HandlerSteps, Answers
  <2> QED
    BY <1>5, <2>1 DEF TypeOK, Validate, Lookup, documents, rq
<1>6. ASSUME NEW q \in Requests, Reset(q) PROVE TypeOK'
  <2>1. request' \in [Requests -> Calls]
    BY <1>6, GotoTyped DEF Reset, HandlerSteps
  <2>2. run' \in [Pairs -> RunRows]
    BY <1>6, RunTyped, PairOfCall DEF Reset, RunStates, FailureCodes
  <2> QED
    BY <1>6, <2>1, <2>2 DEF TypeOK, Reset, documents, rq
<1>7. ASSUME NEW q \in Requests, Insert(q) PROVE TypeOK'
  <2>1. request' \in [Requests -> Calls]
    BY <1>7, GotoTyped, AnswerTyped DEF Insert, HandlerSteps, Answers
  <2>2. [run EXCEPT ![request[q].pair].state = "queued"] \in [Pairs -> RunRows]
    BY PairOfCall DEF TypeOK, RunRows, RunStates
  <2>3. run' \in [Pairs -> RunRows]
    BY <1>7, <2>2 DEF Insert, TypeOK
  <2> QED
    BY <1>7, <2>1, <2>3 DEF TypeOK, Insert, documents, rq
<1>8. ASSUME NEW q \in Requests, Enqueue(q) \/ EnqueueLost(q) PROVE TypeOK'
  <2>1. request' \in [Requests -> Calls]
    BY <1>8, AnswerTyped DEF Enqueue, EnqueueLost, Answers
  <2> QED
    BY SMTT(20), <1>8, <2>1 DEF TypeOK, Enqueue, EnqueueLost, documents, rq
<1>9. ASSUME NEW q \in Requests, Requeue(q) PROVE TypeOK'
  BY <1>9 DEF TypeOK, Requeue, documents
<1>10. ASSUME NEW w \in Workers, Take(w) PROVE TypeOK'
  <2>1. Head(queue) \in Requests /\ queue' \in Seq(Requests)
    BY <1>10 DEF TypeOK, Take
  <2>2. worker' \in [Workers -> WorkerStates]
    BY <1>10, <2>1 DEF TypeOK, Take, WorkerStates, Idle
  <2> QED
    BY <1>10, <2>1, <2>2 DEF TypeOK, Take, documents
<1>11. ASSUME NEW w \in Workers, Ack(w) PROVE TypeOK'
  BY <1>11, IdleTyped DEF TypeOK, Ack, documents, rq
<1>12. ASSUME NEW w \in Workers, NEW q \in Requests, Begin(w, q) PROVE TypeOK'
  <2> DEFINE p == request[q].pair
  <2>1. p \in Pairs /\ p[1] \in Resumes /\ p[2] \in Jobs
    BY PairOfCall, PairParts
  <2>5. {"failed", "processing"} \subseteq RunStates /\ "none" \in FailureCodes
    BY DEF RunStates, FailureCodes
  <2>6. run \in [Pairs -> RunRows]
    BY DEF TypeOK
  <2>7. /\ [run EXCEPT ![p].state = "failed", ![p].code = Obstacle(p)] \in [Pairs -> RunRows]
        /\ [run EXCEPT ![p].state = "processing", ![p].code = "none"] \in [Pairs -> RunRows]
    BY <2>1, <2>5, RunTyped, ObstacleTyped
  <2>2. run' \in [Pairs -> RunRows]
    BY <1>12, <2>6, <2>7 DEF Begin
  <2>3. CASE Finish(w)
    BY <1>12, <2>2, <2>3, FinishTyped DEF TypeOK, Begin, documents, rq
  <2>4. CASE worker' = [worker EXCEPT ![w] =
               [pc |-> "scoring", job |-> {q},
                spans |-> resume[p[1]].spans, reqs |-> job[p[2]].reqs]]
    <3>1. resume[p[1]].spans \subseteq Generations /\ job[p[2]].reqs \subseteq Requirements
      BY <2>1 DEF TypeOK, ResumeRows, JobRows
    <3>2. worker' \in [Workers -> WorkerStates]
      BY <2>4, <3>1 DEF TypeOK, WorkerStates
    <3> QED
      BY <1>12, <2>2, <3>2 DEF TypeOK, Begin, documents, rq
  <2> QED
    BY <1>12, <2>3, <2>4 DEF Begin
<1>13. ASSUME NEW w \in Workers, NEW q \in Requests, Fail(w, q) PROVE TypeOK'
  <2>1. run' \in [Pairs -> RunRows]
    BY <1>13, RunTyped, PairOfCall DEF Fail, RunStates, FailureCodes
  <2> QED
    BY <1>13, <2>1, FinishTyped DEF TypeOK, Fail, documents, rq
<1>14. ASSUME NEW w \in Workers, NEW q \in Requests, Complete(w, q) PROVE TypeOK'
  <2> DEFINE p == request[q].pair
  <2>1. p \in Pairs /\ p[1] \in Resumes
    BY PairOfCall, PairParts
  <2>2. PICK cites \in [worker[w].reqs ->
                          (worker[w].spans \cap resume[p[1]].spans) \cup {NoSpan}] :
          run' = [run EXCEPT ![p] =
            [state |-> "completed", code |-> "none", claims |-> BuiltClaims(w, cites),
             score |-> MetCount(BuiltClaims(w, cites))]]
    BY <1>14 DEF Complete
  <2>3. BuiltClaims(w, cites) \subseteq ClaimRows
    BY <2>1, ClaimsTyped
  <2>4. MetCount(BuiltClaims(w, cites)) \in Int
    BY <2>1, ClaimsTyped
  <2>5. run' \in [Pairs -> RunRows]
    BY <2>1, <2>2, <2>3, <2>4 DEF TypeOK, RunRows, RunStates, FailureCodes
  <2> QED
    BY <1>14, <2>5, FinishTyped DEF TypeOK, Complete, documents, rq
<1>15. ASSUME NEW w \in Workers, NEW q \in Requests, CompleteRefused(w, q) \/ Crash(w, q)
       PROVE  TypeOK'
  BY <1>15, IdleTyped DEF TypeOK, CompleteRefused, Crash, documents
<1>16. CASE UNCHANGED vars
  BY <1>16 DEF TypeOK, vars
<1> QED
  BY <1>1, <1>2, <1>3, <1>4, <1>5, <1>6, <1>7, <1>8, <1>9, <1>10, <1>11, <1>12, <1>13,
     <1>14, <1>15, <1>16 DEF Next, Neighbours, Handle, Serve

(* Every variable keeps its type, whatever overlaps, dies or is requeued.     *)
THEOREM TypeCorrect == SafeSpec => []TypeOK
  BY TypeInit, TypeStep, PTL DEF SafeSpec

-----------------------------------------------------------------------------
(* The rows of match_runs.                                                   *)

\* A write to one row that leaves its claims and its score.
StateOnly(p) ==
  \E s \in RunStates \ {"completed"} : \E c \in FailureCodes :
    /\ s = "failed" <=> c # "none"
    /\ run' = [run EXCEPT ![p].state = s, ![p].code = c]

LEMMA ResetWrites ==
  ASSUME TypeOK, NEW q \in Requests, Reset(q)
  PROVE  StateOnly(request[q].pair)
  BY DEF Reset, StateOnly, RunStates, FailureCodes

LEMMA InsertWrites ==
  ASSUME TypeOK, CodeIffFailed, NEW q \in Requests, Insert(q)
  PROVE  run' = run \/ StateOnly(request[q].pair)
<1> DEFINE p == request[q].pair
<1>1. CASE run[p].state = "none"
  <2>1. run[p].code = "none"
    BY <1>1, PairOfCall DEF CodeIffFailed
  <2>2. run' = [run EXCEPT ![p].state = "queued"]
    BY <1>1 DEF Insert
  <2>3. run' = [run EXCEPT ![p].state = "queued", ![p].code = "none"]
    BY <2>1, <2>2, PairOfCall DEF TypeOK, RunRows
  <2> QED
    BY <2>3 DEF StateOnly, RunStates, FailureCodes
<1>2. CASE run[p].state # "none"
  BY <1>2 DEF Insert
<1> QED
  BY <1>1, <1>2

LEMMA BeginWrites ==
  ASSUME TypeOK, NEW w \in Workers, NEW q \in Requests, Begin(w, q)
  PROVE  run' = run \/ StateOnly(request[q].pair)
<1> DEFINE p == request[q].pair
<1>1. Obstacle(p) \in FailureCodes
  BY PairOfCall, ObstacleTyped
<1> QED
  BY <1>1 DEF Begin, StateOnly, RunStates, FailureCodes

LEMMA FailWrites ==
  ASSUME TypeOK, NEW w \in Workers, NEW q \in Requests, Fail(w, q)
  PROVE  StateOnly(request[q].pair)
  BY DEF Fail, StateOnly, RunStates, FailureCodes

(* Every step leaves the rows alone, writes the state of one, or completes one. *)
LEMMA RowWrites ==
  ASSUME TypeOK, CodeIffFailed, [Next]_vars
  PROVE  \/ run' = run
         \/ \E p \in Pairs : StateOnly(p) /\ UNCHANGED documents
         \/ \E w \in Workers, q \in Requests : Complete(w, q)
<1>1. CASE Neighbours
  BY <1>1 DEF Neighbours, ResumeBegins, ResumePersists, ResumeFails, JobSettles
<1>2. ASSUME NEW q \in Requests, Handle(q) \/ Requeue(q)
      PROVE  run' = run \/ (StateOnly(request[q].pair) /\ UNCHANGED documents)
  <2>1. CASE Reset(q)
    BY <2>1, ResetWrites DEF Reset
  <2>2. CASE Insert(q)
    BY <2>2, InsertWrites DEF Insert
  <2> QED
    BY <1>2, <2>1, <2>2 DEF Handle, Validate, Lookup, Enqueue, EnqueueLost, Requeue
<1>3. ASSUME NEW w \in Workers, NEW q \in Requests, Begin(w, q) \/ Fail(w, q)
      PROVE  run' = run \/ (StateOnly(request[q].pair) /\ UNCHANGED documents)
  BY <1>3, BeginWrites, FailWrites DEF Begin, Fail
<1>4. ASSUME NEW w \in Workers, NEW q \in Requests,
             Take(w) \/ Ack(w) \/ CompleteRefused(w, q) \/ Crash(w, q)
      PROVE  run' = run
  BY <1>4 DEF Take, Ack, CompleteRefused, Crash
<1>5. CASE UNCHANGED vars
  BY <1>5 DEF vars
<1>6. CASE Next
  <2>1. ASSUME NEW w \in Workers, Take(w) \/ Ack(w) PROVE run' = run
    BY <2>1 DEF Take, Ack
  <2> QED
    BY <1>1, <1>2, <1>3, <1>4, <1>6, <2>1, PairOfCall DEF Next, Serve
<1> QED
  BY <1>5, <1>6

LEMMA CodeStep ==
  ASSUME TypeOK, CodeIffFailed, [Next]_vars
  PROVE  CodeIffFailed'
<1>1. CASE run' = run
  BY <1>1 DEF CodeIffFailed
<1>2. ASSUME NEW p \in Pairs, StateOnly(p) PROVE CodeIffFailed'
  BY <1>2 DEF CodeIffFailed, StateOnly, TypeOK, RunRows
<1>3. ASSUME NEW w \in Workers, NEW q \in Requests, Complete(w, q) PROVE CodeIffFailed'
  <2>1. /\ run'[request[q].pair].state = "completed"
        /\ run'[request[q].pair].code = "none"
        /\ \A p \in Pairs \ {request[q].pair} : run'[p] = run[p]
    BY <1>3, PairOfCall DEF Complete, TypeOK
  <2> QED
    BY <2>1 DEF CodeIffFailed
<1> QED
  BY <1>1, <1>2, <1>3, RowWrites

(* A failure code is shown on failed runs and on no other (CodeIffFailed).     *)
THEOREM CodeCorrect == SafeSpec => []CodeIffFailed
<1>1. Init => CodeIffFailed
  BY DEF Init, CodeIffFailed
<1> QED
  BY <1>1, TypeInit, TypeStep, CodeStep, PTL DEF SafeSpec

-----------------------------------------------------------------------------
(* Evidence.                                                                  *)

(* A span that a met claim cites exists: the CHECK on claims stops              *)
(* reprocessing, the foreign keys stop a worker that read the spans earlier.    *)
EvidenceIsLive ==
  \A p \in Pairs : \A c \in run[p].claims :
    c.span # NoSpan => c.span \in resume[p[1]].spans

LEMMA EvidenceStep ==
  ASSUME TypeOK, CodeIffFailed, EvidenceIsLive, [Next]_vars
  PROVE  EvidenceIsLive'
<1>1. ASSUME NEW r \in Resumes, ResumePersists(r) PROVE EvidenceIsLive'
  <2> SUFFICES ASSUME NEW p \in Pairs, NEW c \in run[p].claims, c.span # NoSpan
               PROVE  c.span \in resume'[p[1]].spans
    BY <1>1 DEF ResumePersists, EvidenceIsLive
  <2>1. c.span \in resume[p[1]].spans
    BY DEF EvidenceIsLive
  <2>2. p[1] # r
    BY <1>1, <2>1, PairParts DEF ResumePersists, Cited
  <2>3. resume'[p[1]] = resume[p[1]]
    BY <1>1, <2>2, PairParts DEF ResumePersists, TypeOK
  <2> QED
    BY <2>1, <2>3
<1>2. ASSUME \A r \in Resumes : resume'[r].spans = resume[r].spans,
             \A p \in Pairs : run'[p].claims = run[p].claims
      PROVE  EvidenceIsLive'
  BY <1>2, PairParts DEF EvidenceIsLive
<1>3. ASSUME NEW r \in Resumes, ResumeBegins(r) \/ ResumeFails(r) PROVE EvidenceIsLive'
  <2>1. run' = run
    BY <1>3 DEF ResumeBegins, ResumeFails
  <2>2. \E s : resume' = [resume EXCEPT ![r].state = s]
    BY <1>3 DEF ResumeBegins, ResumeFails
  <2>3. \A o \in Resumes : resume'[o].spans = resume[o].spans
    BY <2>2 DEF TypeOK, ResumeRows
  <2> QED
    BY <1>2, <2>1, <2>3
<1>4. ASSUME NEW p \in Pairs, StateOnly(p), UNCHANGED documents PROVE EvidenceIsLive'
  <2>1. \A o \in Pairs : run'[o].claims = run[o].claims
    BY <1>4 DEF StateOnly, TypeOK, RunRows
  <2> QED
    BY <1>2, <1>4, <2>1 DEF documents
<1>5. ASSUME NEW w \in Workers, NEW q \in Requests, Complete(w, q) PROVE EvidenceIsLive'
  <2> DEFINE p == request[q].pair
  <2>1. PICK cites \in [worker[w].reqs ->
                          (worker[w].spans \cap resume[p[1]].spans) \cup {NoSpan}] :
          run' = [run EXCEPT ![p] =
            [state |-> "completed", code |-> "none", claims |-> BuiltClaims(w, cites),
             score |-> MetCount(BuiltClaims(w, cites))]]
    BY <1>5 DEF Complete
  <2>2. run'[p].claims = BuiltClaims(w, cites) /\ \A o \in Pairs \ {p} : run'[o] = run[o]
    BY <2>1, PairOfCall DEF TypeOK
  <2>3. resume' = resume
    BY <1>5 DEF Complete, documents
  <2>4. \A c \in BuiltClaims(w, cites) : c.span # NoSpan => c.span \in resume[p[1]].spans
    BY DEF BuiltClaims
  <2> QED
    BY <2>2, <2>3, <2>4 DEF EvidenceIsLive
<1>6. CASE run' = run /\ resume' = resume
  BY <1>6 DEF EvidenceIsLive
<1>7. ASSUME run' = run PROVE resume' = resume \/ \E r \in Resumes :
                               ResumeBegins(r) \/ ResumePersists(r) \/ ResumeFails(r)
  BY ZenonT(30) DEF Next, Neighbours, JobSettles, Handle, Validate, Lookup, Reset, Insert, Enqueue,
         EnqueueLost, Requeue, Serve, Take, Ack, Begin, Fail, Complete, CompleteRefused,
         Crash, documents, vars
<1> QED
  BY <1>1, <1>3, <1>4, <1>5, <1>6, <1>7, RowWrites

LEMMA EvidenceAlways == SafeSpec => []EvidenceIsLive
<1>1. Init => EvidenceIsLive
  BY DEF Init, EvidenceIsLive
<1>2. Init => CodeIffFailed
  BY DEF Init, CodeIffFailed
<1> QED
  BY <1>1, <1>2, TypeInit, TypeStep, CodeStep, EvidenceStep, PTL DEF SafeSpec

-----------------------------------------------------------------------------
(* Completeness of a completed run.                                           *)

(* A job description that was read never changes: what a worker scores, and   *)
(* what a run was completed from, is still the list of its requirements.      *)
ReadsAreFrozen ==
  /\ \A w \in Workers, q \in Requests :
       worker[w].pc = "scoring" /\ Holds(w, q) =>
         /\ job[request[q].pair[2]].state = "completed"
         /\ worker[w].reqs = job[request[q].pair[2]].reqs
  /\ \A p \in Pairs : run[p].state = "completed" => job[p[2]].state = "completed"

LEMMA JobsFrozen ==
  ASSUME TypeOK, [Next]_vars, NEW j \in Jobs, job[j].state = "completed"
  PROVE  job'[j] = job[j]
<1>1. ASSUME NEW k \in Jobs, JobSettles(k) PROVE job'[j] = job[j]
  BY <1>1 DEF JobSettles, TypeOK
<1>2. CASE job' = job
  BY <1>2
<1>3. job' = job \/ \E k \in Jobs : JobSettles(k)
  BY DEF Next, Neighbours, ResumeBegins, ResumePersists, ResumeFails, Handle, Validate,
         Lookup, Reset, Insert, Enqueue, EnqueueLost, Requeue, Serve, Take, Ack, Begin,
         Fail, Complete, CompleteRefused, Crash, documents, vars
<1> QED
  BY <1>1, <1>2, <1>3

LEMMA PairsFrozen ==
  ASSUME TypeOK, [Next]_vars, NEW q \in Requests
  PROVE  request'[q].pair = request[q].pair
<1>1. ASSUME NEW o \in Requests, Handle(o) PROVE request'[q].pair = request[q].pair
  <2>1. ASSUME NEW pc, Goto(o, pc) PROVE request'[q].pair = request[q].pair
    BY <2>1 DEF Goto, TypeOK, Calls
  <2>2. ASSUME NEW a, Answer(o, a) PROVE request'[q].pair = request[q].pair
    BY <2>2 DEF Answer, TypeOK, Calls
  <2>3. CASE Validate(o) \/ Insert(o)
    BY <2>1, <2>2, <2>3 DEF Validate, Insert
  <2>4. CASE Lookup(o)
    BY <2>1, <2>2, <2>4 DEF Lookup
  <2>5. CASE Reset(o) \/ Enqueue(o) \/ EnqueueLost(o)
    BY <2>1, <2>2, <2>5 DEF Reset, Enqueue, EnqueueLost
  <2> QED
    BY <1>1, <2>3, <2>4, <2>5 DEF Handle
<1>2. CASE request' = request
  BY <1>2
<1>3. request' = request \/ \E o \in Requests : Handle(o)
  BY DEF Next, Neighbours, ResumeBegins, ResumePersists, ResumeFails, JobSettles, Requeue,
         Serve, Take, Ack, Begin, Fail, Complete, CompleteRefused, Crash, vars
<1> QED
  BY <1>1, <1>2, <1>3

(* Only Begin starts scoring, and only Complete completes a run.               *)
LEMMA ScoringStarts ==
  ASSUME TypeOK, [Next]_vars, NEW w \in Workers, NEW q \in Requests,
         worker'[w].pc = "scoring", worker'[w].job = {q}
  PROVE  worker'[w] = worker[w] \/
           /\ Matchable(request[q].pair)
           /\ worker'[w].reqs = job[request[q].pair[2]].reqs
           /\ job' = job
<1>1. ASSUME NEW v \in Workers, Finish(v) PROVE worker'[w] = worker[w]
  BY <1>1 DEF Finish, TypeOK, Idle
<1>2. ASSUME NEW v \in Workers, NEW o \in Requests, Begin(v, o), ~Finish(v)
      PROVE  worker'[w] = worker[w] \/
               /\ Matchable(request[q].pair)
               /\ worker'[w].reqs = job[request[q].pair[2]].reqs
               /\ job' = job
  <2> DEFINE p == request[o].pair
  <2>1. /\ Obstacle(p) = "none"
        /\ worker' = [worker EXCEPT ![v] =
             [pc |-> "scoring", job |-> {o},
              spans |-> resume[p[1]].spans, reqs |-> job[p[2]].reqs]]
        /\ job' = job
    BY <1>2 DEF Begin, documents
  <2>2. Matchable(p)
    BY <2>1 DEF Obstacle, Matchable
  <2>3. CASE v = w
    <3>1. worker'[w].job = {o} /\ worker'[w].reqs = job[p[2]].reqs
      BY <2>1, <2>3 DEF TypeOK
    <3>2. o = q
      BY <3>1
    <3> QED
      BY <2>1, <2>2, <3>1, <3>2
  <2>4. CASE v # w
    BY <2>1, <2>4 DEF TypeOK
  <2> QED
    BY <2>3, <2>4
<1>3. ASSUME NEW v \in Workers, Take(v) \/ Ack(v) PROVE worker'[w] = worker[w]
  <2>1. \E row : row.pc # "scoring" /\ worker' = [worker EXCEPT ![v] = row]
    BY <1>3 DEF Take, Ack, Idle
  <2> QED
    BY <2>1 DEF TypeOK
<1>4. ASSUME NEW v \in Workers, NEW o \in Requests, CompleteRefused(v, o) \/ Crash(v, o)
      PROVE  worker'[w] = worker[w]
  BY <1>4 DEF CompleteRefused, Crash, Idle, TypeOK
<1>5. CASE worker' = worker
  BY <1>5
<1>6. \/ worker' = worker
      \/ \E v \in Workers : \/ Take(v) \/ Ack(v) \/ Finish(v)
                           \/ \E o \in Requests : \/ CompleteRefused(v, o) \/ Crash(v, o)
                                                 \/ (Begin(v, o) /\ ~Finish(v))
  BY DEF Next, Neighbours, ResumeBegins, ResumePersists, ResumeFails, JobSettles, Requeue,
         Handle, Validate, Lookup, Reset, Insert, Enqueue, EnqueueLost, Serve, Fail,
         Complete, vars
<1> QED
  BY <1>1, <1>2, <1>3, <1>4, <1>5, <1>6

LEMMA FrozenStep ==
  ASSUME TypeOK, CodeIffFailed, ReadsAreFrozen, [Next]_vars
  PROVE  ReadsAreFrozen'
<1>1. ASSUME NEW w \in Workers, NEW q \in Requests, worker'[w].pc = "scoring", Holds(w, q)'
      PROVE  /\ job'[request'[q].pair[2]].state = "completed"
             /\ worker'[w].reqs = job'[request'[q].pair[2]].reqs
  <2> DEFINE j == request[q].pair[2]
  <2>1. j \in Jobs /\ request'[q].pair[2] = j
    BY PairOfCall, PairParts, PairsFrozen
  <2>2. worker'[w].job = {q}
    BY <1>1 DEF Holds
  <2>3. CASE worker'[w] = worker[w]
    <3>1. job[j].state = "completed" /\ worker[w].reqs = job[j].reqs
      BY <1>1, <2>2, <2>3 DEF ReadsAreFrozen, Holds
    <3> QED
      BY <2>1, <2>3, <3>1, JobsFrozen
  <2>4. CASE /\ Matchable(request[q].pair)
             /\ worker'[w].reqs = job[j].reqs
             /\ job' = job
    BY <2>1, <2>4 DEF Matchable
  <2> QED
    BY <1>1, <2>2, <2>3, <2>4, ScoringStarts
<1>2. ASSUME NEW p \in Pairs, run'[p].state = "completed"
      PROVE  job'[p[2]].state = "completed"
  <2>1. SUFFICES job[p[2]].state = "completed"
    BY <2>1, PairParts, JobsFrozen
  <2>2. CASE run' = run
    BY <1>2, <2>2 DEF ReadsAreFrozen
  <2>3. ASSUME NEW o \in Pairs, StateOnly(o) PROVE job[p[2]].state = "completed"
    <3>1. run[p].state = "completed"
      BY <1>2, <2>3 DEF StateOnly, TypeOK, RunRows
    <3> QED
      BY <3>1 DEF ReadsAreFrozen
  <2>4. ASSUME NEW w \in Workers, NEW q \in Requests, Complete(w, q)
        PROVE  job[p[2]].state = "completed"
    <3>1. CASE p = request[q].pair
      BY <2>4, <3>1 DEF Complete, ReadsAreFrozen
    <3>2. CASE p # request[q].pair
      <4>1. run'[p] = run[p]
        BY <2>4, <3>2 DEF Complete, TypeOK
      <4> QED
        BY <1>2, <4>1 DEF ReadsAreFrozen
    <3> QED
      BY <3>1, <3>2
  <2> QED
    BY <2>2, <2>3, <2>4, RowWrites
<1> QED
  BY <1>1, <1>2 DEF ReadsAreFrozen

LEMMA WholeStep ==
  ASSUME TypeOK, CodeIffFailed, ReadsAreFrozen, CompletedIsWhole, [Next]_vars
  PROVE  CompletedIsWhole'
<1> DEFINE Whole(row, reqs) ==
      /\ {c.req : c \in row.claims} = reqs
      /\ \A c, d \in row.claims : c.req = d.req => c = d
      /\ row.score = MetCount(row.claims)
<1>1. SUFFICES ASSUME NEW p \in Pairs, run'[p].state = "completed"
               PROVE  Whole(run'[p], job[p[2]].reqs) /\ job[p[2]].state = "completed"
  BY <1>1, PairParts, JobsFrozen DEF CompletedIsWhole
<1>2. ASSUME run'[p] = run[p]
      PROVE  Whole(run'[p], job[p[2]].reqs) /\ job[p[2]].state = "completed"
  BY <1>1, <1>2 DEF CompletedIsWhole, ReadsAreFrozen
<1>3. ASSUME NEW o \in Pairs, StateOnly(o) PROVE run'[p] = run[p]
  BY <1>1, <1>3 DEF StateOnly, TypeOK, RunRows
<1>4. ASSUME NEW w \in Workers, NEW q \in Requests, Complete(w, q)
      PROVE  Whole(run'[p], job[p[2]].reqs) /\ job[p[2]].state = "completed"
  <2>1. CASE p # request[q].pair
    <3>1. run'[p] = run[p]
      BY <1>4, <2>1 DEF Complete, TypeOK
    <3> QED
      BY <1>2, <3>1
  <2>2. CASE p = request[q].pair
    <3>1. PICK cites \in [worker[w].reqs ->
                            (worker[w].spans \cap resume[p[1]].spans) \cup {NoSpan}] :
            run'[p] =
              [state |-> "completed", code |-> "none", claims |-> BuiltClaims(w, cites),
               score |-> MetCount(BuiltClaims(w, cites))]
      BY <1>4, <2>2 DEF Complete, TypeOK
    <3>2. worker[w].reqs = job[p[2]].reqs /\ job[p[2]].state = "completed"
      BY <1>4, <2>2 DEF Complete, ReadsAreFrozen
    <3>3. {c.req : c \in BuiltClaims(w, cites)} = worker[w].reqs
      <4>1. \A c \in BuiltClaims(w, cites) : c.req \in worker[w].reqs
        BY DEF BuiltClaims
      <4>2. ASSUME NEW x \in worker[w].reqs
            PROVE  \E c \in BuiltClaims(w, cites) : c.req = x
        <5>1. [req |-> x, span |-> cites[x]] \in BuiltClaims(w, cites)
          BY DEF BuiltClaims
        <5> QED
          BY <5>1
      <4> QED
        BY <4>1, <4>2
    <3>4. \A c, d \in BuiltClaims(w, cites) : c.req = d.req => c = d
      BY DEF BuiltClaims
    <3> QED
      BY <3>1, <3>2, <3>3, <3>4
  <2> QED
    BY <2>1, <2>2
<1>5. CASE run' = run
  BY <1>2, <1>5
<1> QED
  BY <1>2, <1>3, <1>4, <1>5, RowWrites

(* "No partial match run is ever written" (CompletedIsWhole), however many     *)
(* workers score the same run and whatever becomes of them.                    *)
THEOREM WholeCorrect == SafeSpec => []CompletedIsWhole
<1>1. Init => CodeIffFailed /\ CompletedIsWhole
  BY DEF Init, CodeIffFailed, CompletedIsWhole
<1>2. Init => ReadsAreFrozen
  BY DEF Init, ReadsAreFrozen, Idle
<1> QED
  BY <1>1, <1>2, TypeInit, TypeStep, CodeStep, FrozenStep, WholeStep, PTL DEF SafeSpec

(* The score of a completed run counts what the resume still says               *)
(* (ScoreHasEvidence): the score is that of the claims (CompletedIsWhole), and   *)
(* a claim counts exactly if the span it cites exists (EvidenceIsLive).          *)
THEOREM EvidenceCorrect == SafeSpec => []ScoreHasEvidence
<1>1. ASSUME TypeOK, CompletedIsWhole, EvidenceIsLive PROVE ScoreHasEvidence
  <2> SUFFICES ASSUME NEW p \in Pairs, run[p].state = "completed"
               PROVE  run[p].score =
                        Cardinality({c \in run[p].claims : c.span \in resume[p[1]].spans})
    BY DEF ScoreHasEvidence
  <2>1. resume[p[1]].spans \subseteq Generations
    BY <1>1, PairParts DEF TypeOK, ResumeRows
  <2>2. NoSpan \notin resume[p[1]].spans
    BY <2>1 DEF Generations
  <2>3. \A c \in run[p].claims : c.span # NoSpan <=> c.span \in resume[p[1]].spans
    BY <1>1, <2>2 DEF EvidenceIsLive
  <2>4. {c \in run[p].claims : c.span # NoSpan}
          = {c \in run[p].claims : c.span \in resume[p[1]].spans}
    BY <2>3
  <2>5. run[p].score = MetCount(run[p].claims)
    BY <1>1 DEF CompletedIsWhole
  <2> QED BY <2>4, <2>5 DEF MetCount
<1> QED
  BY <1>1, TypeCorrect, WholeCorrect, EvidenceAlways, PTL

-----------------------------------------------------------------------------
(***************************************************************************)
(* InFlightIsCarried: a run that is queued or being processed always has    *)
(* somebody in charge of it.  A step moves a run from one carrier to the    *)
(* next; the lemmas below follow the hand-overs: caller, queue, worker, and *)
(* RQ's failed registry.                                                    *)
(***************************************************************************)

(* An answer is given when the call ends and not before.                      *)
OpenUnanswered ==
  \A q \in Requests : request[q].pc # "answered" => request[q].answer = "none"

(* What a step must preserve for the carriers of p.                           *)
Kept(p) == (Awaited(p) => Awaited(p)') /\ (Attended(p) => Attended(p)')

LEMMA OpenStep ==
  ASSUME TypeOK, OpenUnanswered, [Next]_vars
  PROVE  OpenUnanswered'
<1>1. ASSUME NEW q \in Requests, Handle(q) PROVE OpenUnanswered'
  <2>1. ASSUME NEW pc, At(q, "new") \/ At(q, "lookup") \/ At(q, "reset") \/ At(q, "insert"),
               Goto(q, pc)
        PROVE  OpenUnanswered'
    BY <2>1 DEF At, Goto, TypeOK, Calls, OpenUnanswered
  <2>2. ASSUME NEW a, Answer(q, a) PROVE OpenUnanswered'
    BY <2>2 DEF Answer, TypeOK, Calls, OpenUnanswered
  <2>3. CASE Validate(q) \/ Insert(q)
    BY <2>1, <2>2, <2>3 DEF Validate, Insert
  <2>4. CASE Lookup(q)
    BY <2>1, <2>2, <2>4 DEF Lookup
  <2>5. CASE Reset(q) \/ Enqueue(q) \/ EnqueueLost(q)
    BY <2>1, <2>2, <2>5 DEF Reset, Enqueue, EnqueueLost
  <2> QED
    BY <1>1, <2>3, <2>4, <2>5 DEF Handle
<1>2. CASE request' = request
  BY <1>2 DEF OpenUnanswered
<1>3. request' = request \/ \E q \in Requests : Handle(q)
  BY DEF Next, Neighbours, ResumeBegins, ResumePersists, ResumeFails, JobSettles, Requeue,
         Serve, Take, Ack, Begin, Fail, Complete, CompleteRefused, Crash, vars
<1> QED
  BY <1>1, <1>2, <1>3

(* Nobody changes hands when the calls, the queue and the workers stay.       *)
LEMMA KeptByOthers ==
  ASSUME NEW p \in Pairs, UNCHANGED <<request, worker, rq>>
  PROVE  Kept(p)
  BY DEF Kept, Awaited, Attended, JobWaits, InQueue, Holds, At, WorksFor, rq

(* A call that has not come to its enqueue carries nothing yet.               *)
LEMMA KeptByHandler ==
  ASSUME TypeOK, OpenUnanswered, NEW p \in Pairs, NEW q \in Requests,
         At(q, "new") \/ At(q, "lookup") \/ At(q, "reset") \/ At(q, "insert"),
         (\E pc : Goto(q, pc)) \/ (\E a : Answer(q, a)),
         UNCHANGED <<worker, rq>>
  PROVE  Kept(p)
<1>1. \A o \in Requests \ {q} : request'[o] = request[o]
  BY DEF Goto, Answer, TypeOK
<1>2. request'[q].pair = request[q].pair
  BY DEF Goto, Answer, TypeOK, Calls
<1>3. \A o \in Requests : JobWaits(o) => JobWaits(o)'
  BY DEF JobWaits, InQueue, Holds, rq
<1>4. request[q].answer # "lost" /\ ~At(q, "enqueue")
  BY DEF OpenUnanswered, At
<1> QED
  BY <1>1, <1>2, <1>3, <1>4 DEF Kept, Awaited, Attended, Holds, At, WorksFor

(* Other calls' jobs stay where they are when worker w, holding q, moves on.  *)
LEMMA KeptByWorker ==
  ASSUME TypeOK, NEW p \in Pairs, NEW w \in Workers, NEW q \in Requests, Holds(w, q),
         request[q].pair # p,
         \A v \in Workers \ {w} : worker'[v] = worker[v],
         UNCHANGED <<request, queue>>, failedJobs \subseteq failedJobs'
  PROVE  Kept(p)
<1>1. ASSUME NEW o \in Requests, WorksFor(o, p), NEW v \in Workers, Holds(v, o)
      PROVE  v # w /\ worker'[v] = worker[v]
  BY <1>1 DEF Holds, WorksFor
<1>2. ASSUME NEW o \in Requests, WorksFor(o, p), JobWaits(o) PROVE JobWaits(o)'
  BY <1>1, <1>2 DEF JobWaits, InQueue, Holds
<1> QED
  BY <1>1, <1>2 DEF Kept, Awaited, Attended, Holds, At, WorksFor

LEMMA KeptByEnqueue ==
  ASSUME TypeOK, NEW p \in Pairs, NEW q \in Requests, Enqueue(q) \/ EnqueueLost(q)
  PROVE  Kept(p)
<1>1. /\ \A o \in Requests \ {q} : request'[o] = request[o]
      /\ request'[q].pair = request[q].pair
  BY DEF Enqueue, EnqueueLost, Answer, TypeOK, Calls
<1>2. \A o \in Requests : JobWaits(o) => JobWaits(o)'
  <2>1. \A o \in Requests : InQueue(o) => InQueue(o)'
    BY SMTT(20) DEF Enqueue, EnqueueLost, InQueue, TypeOK, rq
  <2> QED
    BY <2>1 DEF Enqueue, EnqueueLost, JobWaits, Holds, rq
<1>3. InQueue(q)' \/ request'[q].answer = "lost"
  BY DEF Enqueue, EnqueueLost, InQueue, Answer, TypeOK, Calls
<1>4. worker' = worker /\ At(q, "enqueue")
  BY DEF Enqueue, EnqueueLost
<1>5. request[q].answer = "lost" => Awaited(p)' \/ ~WorksFor(q, p)
  BY <1>1, <1>3 DEF Awaited, JobWaits, WorksFor
<1> QED
  BY SMTT(20), <1>1, <1>2, <1>3, <1>4, <1>5 DEF Kept, Awaited, Attended, JobWaits, Holds, At, WorksFor

LEMMA KeptByTake ==
  ASSUME TypeOK, NEW p \in Pairs, NEW w \in Workers, Take(w)
  PROVE  Kept(p)
<1>1. \A v \in Workers \ {w} : worker'[v] = worker[v]
  BY DEF Take, TypeOK
<1>2. worker'[w].pc = "begin" /\ worker'[w].job = {Head(queue)}
  BY DEF Take, TypeOK, Idle
<1>3. UNCHANGED <<request, failedJobs>> /\ worker[w].pc = "idle"
  BY DEF Take
<1>4. ASSUME NEW o \in Requests, JobWaits(o) PROVE JobWaits(o)'
  <2>1. CASE InQueue(o)
    <3>1. o = Head(queue) \/ InQueue(o)'
      <4>1. PICK i \in DOMAIN queue : queue[i] = o
        BY <2>1 DEF InQueue
      <4>2. CASE i = 1
        BY <4>1, <4>2
      <4>3. CASE i # 1
        <5>1. queue \in Seq(Requests) /\ queue # <<>> /\ queue' = Tail(queue)
          BY DEF Take, TypeOK
        <5>2. i - 1 \in DOMAIN Tail(queue) /\ Tail(queue)[i - 1] = o
          BY <4>1, <4>3, <5>1
        <5> QED
          BY <5>1, <5>2 DEF InQueue
      <4> QED
        BY <4>2, <4>3
    <3> QED
      BY <1>2, <3>1 DEF JobWaits, Holds
  <2>2. CASE o \in failedJobs
    BY <1>3, <2>2 DEF JobWaits
  <2>3. ASSUME NEW v \in Workers, worker[v].pc = "begin", Holds(v, o) PROVE JobWaits(o)'
    BY <1>1, <1>3, <2>3 DEF JobWaits, Holds
  <2> QED
    BY <1>4, <2>1, <2>2, <2>3 DEF JobWaits
<1> QED
  BY <1>1, <1>3, <1>4 DEF Kept, Awaited, Attended, Holds, At, WorksFor

LEMMA KeptByRequeue ==
  ASSUME TypeOK, NEW p \in Pairs, NEW q \in Requests, Requeue(q)
  PROVE  Kept(p)
<1>1. \A o \in Requests : InQueue(o) => InQueue(o)'
  BY DEF Requeue, InQueue, TypeOK
<1>2. InQueue(q)'
  BY DEF Requeue, InQueue, TypeOK
<1>3. \A o \in Requests : JobWaits(o) => JobWaits(o)'
  BY <1>1, <1>2 DEF Requeue, JobWaits, Holds
<1> QED
  BY <1>3 DEF Requeue, Kept, Awaited, Attended, Holds, At, WorksFor

LEMMA KeptByAck ==
  ASSUME TypeOK, NEW p \in Pairs, NEW w \in Workers, Ack(w)
  PROVE  Kept(p)
<1>1. \A v \in Workers \ {w} : worker'[v] = worker[v]
  BY DEF Ack, TypeOK
<1>2. worker[w].pc = "ack" /\ UNCHANGED <<request, queue, failedJobs>>
  BY DEF Ack, rq
<1>3. \A o \in Requests : JobWaits(o) => JobWaits(o)'
  BY <1>1, <1>2 DEF JobWaits, InQueue, Holds
<1> QED
  BY <1>1, <1>2, <1>3 DEF Kept, Awaited, Attended, Holds, At, WorksFor

(* A job that is killed lies in the failed registry.                          *)
LEMMA KeptByDeath ==
  ASSUME TypeOK, NEW p \in Pairs, NEW w \in Workers, NEW q \in Requests,
         CompleteRefused(w, q) \/ Crash(w, q)
  PROVE  Kept(p)
<1>1. /\ Holds(w, q) /\ q \in failedJobs' /\ failedJobs \subseteq failedJobs'
      /\ UNCHANGED <<request, queue>>
  BY DEF CompleteRefused, Crash
<1>2. \A v \in Workers \ {w} : worker'[v] = worker[v]
  BY DEF CompleteRefused, Crash, TypeOK
<1>3. JobWaits(q)'
  BY <1>1 DEF JobWaits
<1>4. \A o \in Requests, v \in Workers : Holds(v, o) /\ o # q => v # w
  BY <1>1 DEF Holds
<1>5. ASSUME NEW o \in Requests, JobWaits(o), o # q PROVE JobWaits(o)'
  BY <1>1, <1>2, <1>4, <1>5 DEF JobWaits, InQueue, Holds
<1> QED
  BY <1>1, <1>2, <1>3, <1>4, <1>5 DEF Kept, Awaited, Attended, Holds, At, WorksFor

(* The invariant for one pair, and a step that may rewrite its row.           *)
Carried(p) ==
  /\ run[p].state = "queued" => Awaited(p)
  /\ run[p].state = "processing" => Attended(p)

LEMMA CarriedIfKept ==
  ASSUME NEW p \in Pairs, Carried(p), Kept(p), run'[p] = run[p]
  PROVE  Carried(p)'
  BY DEF Carried, Kept

LEMMA CarriedByCall ==
  ASSUME TypeOK, OpenUnanswered, NEW p \in Pairs, Carried(p), NEW q \in Requests, Handle(q)
  PROVE  Carried(p)'
<1>1. CASE Validate(q)
  BY <1>1, KeptByHandler, CarriedIfKept DEF Validate
<1>2. CASE Lookup(q)
  BY <1>2, KeptByHandler, CarriedIfKept DEF Lookup
<1>3. CASE Reset(q)
  <2>1. CASE request[q].pair = p
    BY <1>3, <2>1 DEF Reset, Goto, TypeOK, Calls, RunRows, Carried, Awaited, At, WorksFor
  <2>2. CASE request[q].pair # p
    <3>1. run'[p] = run[p]
      BY <1>3, <2>2 DEF Reset, TypeOK
    <3> QED
      BY <1>3, <3>1, KeptByHandler, CarriedIfKept DEF Reset
  <2> QED
    BY <2>1, <2>2
<1>4. CASE Insert(q)
  <2>1. CASE run' = run
    BY <1>4, <2>1, KeptByHandler, CarriedIfKept DEF Insert
  <2>2. CASE run' # run
    <3>1. Goto(q, "enqueue") /\ run' = [run EXCEPT ![request[q].pair].state = "queued"]
      BY <1>4, <2>2 DEF Insert
    <3>2. CASE request[q].pair = p
      BY <3>1, <3>2 DEF Goto, TypeOK, Calls, RunRows, Carried, Awaited, At, WorksFor
    <3>3. CASE request[q].pair # p
      <4>1. run'[p] = run[p]
        BY <3>1, <3>3 DEF TypeOK
      <4> QED
        BY <1>4, <4>1, KeptByHandler, CarriedIfKept DEF Insert
    <3> QED
      BY <3>2, <3>3
  <2> QED
    BY <2>1, <2>2
<1>5. CASE Enqueue(q) \/ EnqueueLost(q)
  BY <1>5, KeptByEnqueue, CarriedIfKept DEF Enqueue, EnqueueLost
<1> QED
  BY <1>1, <1>2, <1>3, <1>4, <1>5 DEF Handle

(* A worker that settles the run leaves nothing to carry; one that starts it   *)
(* carries it.                                                                 *)
LEMMA CarriedByWorker ==
  ASSUME TypeOK, NEW p \in Pairs, Carried(p), NEW w \in Workers, NEW q \in Requests,
         Begin(w, q) \/ Fail(w, q) \/ Complete(w, q)
  PROVE  Carried(p)'
<1>1. /\ Holds(w, q)
      /\ UNCHANGED <<request, queue, failedJobs>>
      /\ \A v \in Workers \ {w} : worker'[v] = worker[v]
  BY DEF Begin, Fail, Complete, rq, Finish, TypeOK
<1>2. CASE request[q].pair # p
  <2>1. run'[p] = run[p]
    BY <1>2 DEF Begin, Fail, Complete, TypeOK
  <2> QED
    BY <1>1, <1>2, <2>1, KeptByWorker, CarriedIfKept
<1>3. CASE request[q].pair = p
  <2>1. CASE run'[p].state \in {"completed", "failed"}
    BY <2>1 DEF Carried
  <2>2. CASE run'[p].state \notin {"completed", "failed"}
    <3>1. /\ run'[p].state = "processing"
          /\ worker'[w].pc = "scoring" /\ worker'[w].job = {q}
      <4>1. ~Fail(w, q)
        BY <1>3, <2>2 DEF Fail, TypeOK, RunRows
      <4>2. ~Complete(w, q)
        BY <1>3, <2>2 DEF Complete, TypeOK
      <4>3. Begin(w, q)
        BY <4>1, <4>2
      <4> QED
        BY <1>3, <2>2, <4>3 DEF Begin, AlreadyDone, TypeOK, RunRows
    <3> QED
      BY <1>1, <1>3, <3>1 DEF Carried, Attended, Holds, WorksFor
  <2> QED
    BY <2>1, <2>2
<1> QED
  BY <1>2, <1>3

LEMMA CarriedStep ==
  ASSUME TypeOK, OpenUnanswered, InFlightIsCarried, [Next]_vars
  PROVE  InFlightIsCarried'
<1> SUFFICES ASSUME NEW p \in Pairs PROVE Carried(p)'
  BY DEF InFlightIsCarried, Carried
<1>0. Carried(p)
  BY DEF InFlightIsCarried, Carried
<1>1. CASE Neighbours
  BY <1>0, <1>1, KeptByOthers, CarriedIfKept
     DEF Neighbours, ResumeBegins, ResumePersists, ResumeFails, JobSettles
<1>2. ASSUME NEW q \in Requests, Handle(q) PROVE Carried(p)'
  BY <1>0, <1>2, CarriedByCall
<1>3. ASSUME NEW q \in Requests, Requeue(q) PROVE Carried(p)'
  BY <1>0, <1>3, KeptByRequeue, CarriedIfKept DEF Requeue
<1>4. ASSUME NEW w \in Workers, Take(w) \/ Ack(w) PROVE Carried(p)'
  BY <1>0, <1>4, KeptByTake, KeptByAck, CarriedIfKept DEF Take, Ack
<1>5. ASSUME NEW w \in Workers, NEW q \in Requests,
             Begin(w, q) \/ Fail(w, q) \/ Complete(w, q)
      PROVE  Carried(p)'
  BY <1>0, <1>5, CarriedByWorker
<1>6. ASSUME NEW w \in Workers, NEW q \in Requests, CompleteRefused(w, q) \/ Crash(w, q)
      PROVE  Carried(p)'
  BY <1>0, <1>6, KeptByDeath, CarriedIfKept DEF CompleteRefused, Crash
<1>7. CASE UNCHANGED vars
  BY <1>0, <1>7, KeptByOthers, CarriedIfKept DEF vars, rq
<1> QED
  BY <1>1, <1>2, <1>3, <1>4, <1>5, <1>6, <1>7 DEF Next, Serve

(* A run is never left in flight with nobody in charge of it (InFlightIsCarried): *)
(* a run that hangs has a job in RQ's failed registry or a call that was told so. *)
THEOREM CarriedCorrect == SafeSpec => []InFlightIsCarried
<1>1. Init => OpenUnanswered
  BY DEF Init, OpenUnanswered
<1>2. Init => InFlightIsCarried
  BY DEF Init, InFlightIsCarried
<1> QED
  BY <1>1, <1>2, TypeInit, TypeStep, OpenStep, CarriedStep, PTL DEF SafeSpec
-----------------------------------------------------------------------------
(***************************************************************************)
(* What becomes of a completed match run.  In general it takes two calls of *)
(* the same pair to change it (OverwriteNeedsRival); when calls do not      *)
(* overlap and no job is requeued nothing changes it (CompletedIsFinal),    *)
(* and the handler, the queue and process_match implement the safety part   *)
(* of WorkPromise.                                                          *)
(***************************************************************************)

(* A job is in one place, and was made by an accepted call.                    *)

JobOnce ==
  /\ \A i, j \in DOMAIN queue : queue[i] = queue[j] => i = j
  /\ \A q \in failedJobs : ~InQueue(q)
  /\ \A w \in Workers : \A q \in worker[w].job : ~InQueue(q) /\ q \notin failedJobs
  /\ \A w, x \in Workers : worker[w].job \cap worker[x].job # {} => w = x

HasJob(q) == InQueue(q) \/ q \in failedJobs \/ \E w \in Workers : q \in worker[w].job
JobsAccepted == \A q \in Requests : HasJob(q) => request[q].answer = "accepted"

JobsKept == OpenUnanswered /\ JobOnce /\ JobsAccepted

\* The transactions of a job that end with the job still in the worker's hands.
Works(w, q) == Begin(w, q) \/ Fail(w, q) \/ Complete(w, q)
Dies(w, q) == CompleteRefused(w, q) \/ Crash(w, q)

LEMMA Steps ==
  ASSUME [Next]_vars
  PROVE  \/ Neighbours \/ UNCHANGED vars
         \/ \E q \in Requests : Handle(q) \/ Requeue(q)
         \/ \E w \in Workers : \/ Take(w) \/ Ack(w)
                               \/ \E q \in Requests : Works(w, q) \/ Dies(w, q)
  BY DEF Next, Serve, Works, Dies

LEMMA OthersEffect ==
  ASSUME Neighbours \/ UNCHANGED vars
  PROVE  UNCHANGED <<run, request, worker, queue, failedJobs>>
  BY DEF Neighbours, ResumeBegins, ResumePersists, ResumeFails, JobSettles, vars, rq

LEMMA CallEffect ==
  ASSUME TypeOK, OpenUnanswered, NEW q \in Requests, Handle(q)
  PROVE  /\ UNCHANGED <<documents, worker, failedJobs>>
         /\ \A o \in Requests \ {q} : request'[o] = request[o]
         /\ request'[q].pair = request[q].pair
         /\ request[q].answer = "none" /\ ~At(q, "answered")
         /\ Enqueue(q) => /\ At(q, "enqueue") /\ request'[q].pc = "answered"
                          /\ request'[q].answer = "accepted"
                          /\ queue' = Append(queue, q) /\ run' = run
         /\ ~Enqueue(q) => queue' = queue /\ request'[q].answer # "accepted"
<1>1. /\ UNCHANGED <<documents, worker, failedJobs>> /\ ~At(q, "answered")
      /\ (\E pc : Goto(q, pc)) \/ (\E a \in Answers \ {"accepted"} : Answer(q, a)) \/ Enqueue(q)
  BY DEF Handle, Validate, Lookup, Reset, Insert, Enqueue, EnqueueLost, At, rq, Answers
<1>2. request[q].answer = "none"
  BY <1>1 DEF OpenUnanswered, At
<1>3. /\ \A o \in Requests \ {q} : request'[o] = request[o]
      /\ request'[q].pair = request[q].pair
  BY <1>1 DEF Goto, Answer, Enqueue, TypeOK, Calls
<1>4. ASSUME Enqueue(q)
      PROVE  /\ At(q, "enqueue") /\ request'[q].pc = "answered"
             /\ request'[q].answer = "accepted" /\ queue' = Append(queue, q) /\ run' = run
  BY <1>4 DEF Enqueue, Answer, TypeOK, Calls
<1>5. ASSUME ~Enqueue(q) PROVE queue' = queue /\ request'[q].answer # "accepted"
  <2>1. queue' = queue
    BY <1>5 DEF Handle, Validate, Lookup, Reset, Insert, EnqueueLost, rq
  <2>2. CASE \E pc : Goto(q, pc)
    BY <1>2, <2>1, <2>2 DEF Goto, TypeOK, Calls
  <2>3. CASE \E a \in Answers \ {"accepted"} : Answer(q, a)
    BY <2>1, <2>3 DEF Answer, TypeOK, Calls
  <2> QED
    BY <1>1, <1>5, <2>2, <2>3
<1> QED
  BY <1>1, <1>2, <1>3, <1>4, <1>5

LEMMA TakeEffect ==
  ASSUME TypeOK, NEW w \in Workers, Take(w)
  PROVE  \E q \in Requests :
           /\ q = Head(queue) /\ queue[1] = q /\ 1 \in DOMAIN queue
           /\ queue' = Tail(queue)
           /\ worker'[w].pc = "begin" /\ worker'[w].job = {q}
           /\ \A x \in Workers \ {w} : worker'[x] = worker[x]
           /\ UNCHANGED <<documents, run, request, failedJobs>>
<1>1. queue \in Seq(Requests) /\ queue # <<>>
  BY DEF Take, TypeOK
<1>2. Head(queue) \in Requests /\ queue[1] = Head(queue) /\ 1 \in DOMAIN queue
  BY <1>1
<1>3. /\ worker'[w].pc = "begin" /\ worker'[w].job = {Head(queue)}
      /\ \A x \in Workers \ {w} : worker'[x] = worker[x]
  BY DEF Take, TypeOK, Idle
<1> QED
  BY <1>2, <1>3 DEF Take

LEMMA AckEffect ==
  ASSUME TypeOK, NEW w \in Workers, Ack(w)
  PROVE  /\ UNCHANGED <<documents, run, request, queue, failedJobs>>
         /\ worker[w].pc = "ack" /\ worker'[w].pc = "idle" /\ worker'[w].job = {}
         /\ \A x \in Workers \ {w} : worker'[x] = worker[x]
  BY DEF Ack, TypeOK, Idle, rq

LEMMA WorkEffect ==
  ASSUME TypeOK, NEW w \in Workers, NEW q \in Requests, Works(w, q)
  PROVE  /\ UNCHANGED <<documents, request, queue, failedJobs>>
         /\ Holds(w, q) /\ worker'[w].job = {q}
         /\ worker'[w].pc \in {"scoring", "ack"}
         /\ \A x \in Workers \ {w} : worker'[x] = worker[x]
<1>1. /\ UNCHANGED <<documents, request, queue, failedJobs>>
      /\ Holds(w, q)
  BY DEF Works, Begin, Fail, Complete, rq
<1>2. CASE Finish(w)
  BY <1>1, <1>2 DEF Finish, TypeOK, Holds, Idle
<1>3. CASE Begin(w, q) /\ ~Finish(w)
  BY <1>1, <1>3 DEF Begin, TypeOK
<1> QED
  BY <1>2, <1>3 DEF Works, Fail, Complete

LEMMA DeathEffect ==
  ASSUME TypeOK, NEW w \in Workers, NEW q \in Requests, Dies(w, q)
  PROVE  /\ UNCHANGED <<documents, run, request, queue>>
         /\ failedJobs' = failedJobs \cup {q}
         /\ Holds(w, q) /\ worker'[w].pc = "idle" /\ worker'[w].job = {}
         /\ \A x \in Workers \ {w} : worker'[x] = worker[x]
  BY DEF Dies, CompleteRefused, Crash, TypeOK, Idle

LEMMA PutInQueue ==
  ASSUME TypeOK, JobOnce, NEW q \in Requests, ~InQueue(q), queue' = Append(queue, q)
  PROVE  /\ \A o \in Requests : InQueue(o)' <=> InQueue(o) \/ o = q
         /\ \A i, j \in DOMAIN queue' : queue'[i] = queue'[j] => i = j
<1>1. queue \in Seq(Requests)
  BY DEF TypeOK
<1>2. /\ DOMAIN queue' = DOMAIN queue \cup {Len(queue) + 1}
      /\ \A i \in DOMAIN queue : queue'[i] = queue[i]
      /\ queue'[Len(queue) + 1] = q
  BY <1>1
<1> QED
  BY <1>2 DEF InQueue, JobOnce

LEMMA TakenFromQueue ==
  ASSUME TypeOK, JobOnce, NEW w \in Workers, Take(w)
  PROVE  /\ \A o \in Requests : InQueue(o)' <=> InQueue(o) /\ o # Head(queue)
         /\ \A i, j \in DOMAIN queue' : queue'[i] = queue'[j] => i = j
<1>1. queue \in Seq(Requests) /\ queue # <<>> /\ queue' = Tail(queue)
  BY DEF Take, TypeOK
<1>2. 1 \in DOMAIN queue /\ queue[1] = Head(queue)
  BY <1>1
<1>3. ASSUME NEW o \in Requests, InQueue(o), o # Head(queue) PROVE InQueue(o)'
  <2>1. PICK i \in DOMAIN queue : queue[i] = o
    BY <1>3 DEF InQueue
  <2>2. i - 1 \in DOMAIN Tail(queue) /\ Tail(queue)[i - 1] = o
    BY <1>1, <1>2, <1>3, <2>1
  <2> QED
    BY <1>1, <2>2 DEF InQueue
<1>4. ASSUME NEW o \in Requests, InQueue(o)' PROVE InQueue(o) /\ o # Head(queue)
  <2>1. PICK i \in DOMAIN Tail(queue) : Tail(queue)[i] = o
    BY <1>1, <1>4 DEF InQueue
  <2>2. i + 1 \in DOMAIN queue /\ queue[i + 1] = o /\ i + 1 # 1
    BY <1>1, <2>1
  <2> QED
    BY <1>2, <2>2 DEF InQueue, JobOnce
<1>5. \A i, j \in DOMAIN queue' : queue'[i] = queue'[j] => i = j
  BY <1>1 DEF JobOnce
<1> QED
  BY <1>3, <1>4, <1>5

LEMMA JobsKeptStep ==
  ASSUME TypeOK, JobsKept, [Next]_vars
  PROVE  JobsKept'
<1> USE DEF JobsKept
<1>1. OpenUnanswered'
  BY OpenStep
<1>2. CASE Neighbours \/ UNCHANGED vars
  BY <1>1, <1>2, OthersEffect DEF JobOnce, JobsAccepted, HasJob, InQueue
<1>3. ASSUME NEW q \in Requests, Handle(q) PROVE JobsKept'
  <2>1. CASE ~Enqueue(q)
    <3>1. UNCHANGED <<worker, queue, failedJobs>>
      BY <1>3, <2>1, CallEffect
    <3>2. \A o \in Requests : request[o].answer = "accepted" => request'[o] = request[o]
      BY <1>3, CallEffect
    <3> QED
      BY <1>1, <3>1, <3>2 DEF JobOnce, JobsAccepted, HasJob, InQueue
  <2>2. CASE Enqueue(q)
    <3>1. ~HasJob(q)
      BY <1>3, CallEffect DEF JobsAccepted
    <3>2. /\ UNCHANGED <<worker, failedJobs>> /\ queue' = Append(queue, q)
          /\ request'[q].answer = "accepted"
          /\ \A o \in Requests \ {q} : request'[o] = request[o]
      BY <1>3, <2>2, CallEffect
    <3>3. /\ \A o \in Requests : InQueue(o)' <=> InQueue(o) \/ o = q
          /\ \A i, j \in DOMAIN queue' : queue'[i] = queue'[j] => i = j
      BY <3>1, <3>2, PutInQueue DEF HasJob
    <3>4. \A w \in Workers : \A o \in worker[w].job : o \in Requests /\ o # q
      BY <3>1 DEF HasJob, TypeOK, WorkerStates
    <3>5. \A o \in failedJobs : o \in Requests /\ o # q
      BY <3>1 DEF HasJob, TypeOK
    <3>6. JobOnce'
      BY <3>2, <3>3, <3>4, <3>5 DEF JobOnce
    <3>7. JobsAccepted'
      BY <3>2, <3>3 DEF JobsAccepted, HasJob
    <3> QED
      BY <1>1, <3>6, <3>7
  <2> QED
    BY <2>1, <2>2
<1>4. ASSUME NEW q \in Requests, Requeue(q) PROVE JobsKept'
  <2>1. /\ UNCHANGED <<worker, request>> /\ queue' = Append(queue, q)
        /\ q \in failedJobs /\ failedJobs' = failedJobs \ {q}
    BY <1>4 DEF Requeue
  <2>2. ~InQueue(q) /\ \A w \in Workers : q \notin worker[w].job
    BY <2>1 DEF JobOnce
  <2>3. /\ \A o \in Requests : InQueue(o)' <=> InQueue(o) \/ o = q
        /\ \A i, j \in DOMAIN queue' : queue'[i] = queue'[j] => i = j
    BY <2>1, <2>2, PutInQueue
  <2>4. \A w \in Workers : \A o \in worker[w].job : o \in Requests
    BY DEF TypeOK, WorkerStates
  <2>5. failedJobs \subseteq Requests
    BY DEF TypeOK
  <2>6. JobOnce'
    BY <2>1, <2>2, <2>3, <2>4, <2>5 DEF JobOnce
  <2>7. JobsAccepted'
    BY <2>1, <2>3 DEF JobsAccepted, HasJob
  <2> QED
    BY <1>1, <2>6, <2>7
<1>5. ASSUME NEW w \in Workers, Take(w) PROVE JobsKept'
  <2>1. PICK q \in Requests :
          /\ q = Head(queue) /\ queue[1] = q /\ 1 \in DOMAIN queue
          /\ worker'[w].job = {q}
          /\ \A x \in Workers \ {w} : worker'[x] = worker[x]
          /\ UNCHANGED <<request, failedJobs>>
    BY <1>5, TakeEffect
  <2>2. /\ \A o \in Requests : InQueue(o)' <=> InQueue(o) /\ o # q
        /\ \A i, j \in DOMAIN queue' : queue'[i] = queue'[j] => i = j
    BY <1>5, <2>1, TakenFromQueue
  <2>3. InQueue(q)
    BY <2>1 DEF InQueue
  <2>4. \A x \in Workers : \A o \in worker[x].job : o \in Requests /\ o # q
    BY <2>3 DEF JobOnce, TypeOK, WorkerStates
  <2>5. failedJobs \subseteq Requests /\ q \notin failedJobs
    BY <2>3 DEF JobOnce, TypeOK
  <2>6. \A x, y \in Workers : worker'[x].job \cap worker'[y].job # {} => x = y
    BY <2>1, <2>4 DEF JobOnce
  <2>7. \A x \in Workers : \A o \in worker'[x].job : ~InQueue(o)' /\ o \notin failedJobs'
    BY <2>1, <2>2, <2>4, <2>5 DEF JobOnce
  <2>8. JobOnce'
    BY <2>1, <2>2, <2>5, <2>6, <2>7 DEF JobOnce
  <2>9. JobsAccepted'
    BY <2>1, <2>2, <2>3 DEF JobsAccepted, HasJob
  <2> QED
    BY <1>1, <2>8, <2>9
<1>6. ASSUME NEW w \in Workers, Ack(w) PROVE JobsKept'
  BY <1>1, <1>6, AckEffect DEF JobOnce, JobsAccepted, HasJob, InQueue
<1>7. ASSUME NEW w \in Workers, NEW q \in Requests, Works(w, q) PROVE JobsKept'
  <2>1. \A x \in Workers : worker'[x].job = worker[x].job
    BY <1>7, WorkEffect DEF Holds
  <2> QED
    BY <1>1, <1>7, <2>1, WorkEffect DEF JobOnce, JobsAccepted, HasJob, InQueue
<1>8. ASSUME NEW w \in Workers, NEW q \in Requests, Dies(w, q) PROVE JobsKept'
  <2>1. /\ UNCHANGED <<request, queue>> /\ failedJobs' = failedJobs \cup {q}
        /\ q \in worker[w].job /\ worker'[w].job = {}
        /\ \A x \in Workers \ {w} : worker'[x] = worker[x]
    BY <1>8, DeathEffect DEF Holds
  <2>2. \A x \in Workers \ {w} : q \notin worker[x].job
    BY <2>1 DEF JobOnce
  <2>3. JobOnce'
    BY <2>1, <2>2 DEF JobOnce, InQueue
  <2>4. JobsAccepted'
    BY <2>1 DEF JobsAccepted, HasJob, InQueue
  <2> QED
    BY <1>1, <2>3, <2>4
<1> QED
  BY <1>2, <1>3, <1>4, <1>5, <1>6, <1>7, <1>8, Steps

-----------------------------------------------------------------------------
(* Who completed a run, and who else is scoring it.                            *)

Made(q, p) == WorksFor(q, p) /\ request[q].answer = "accepted"
Scores(w, q) == worker[w].pc = "scoring" /\ Holds(w, q)

\* A completed run was completed by the job of an accepted call, and a worker
\* that still scores it works for another call.
CompletedByJob ==
  \A p \in Pairs : run[p].state = "completed" => \E q \in Requests : Made(q, p)
RivalsScored ==
  \A w \in Workers, q \in Requests :
    Scores(w, q) /\ run[request[q].pair].state = "completed"
      => \E o \in Requests \ {q} : Made(o, request[q].pair)

LEMMA MadeStays ==
  ASSUME TypeOK, JobsKept, [Next]_vars, NEW q \in Requests, NEW p \in Pairs, Made(q, p)
  PROVE  Made(q, p)'
<1>1. ASSUME NEW o \in Requests, Handle(o) PROVE request'[q] = request[q]
  BY <1>1, CallEffect DEF JobsKept, Made
<1>2. request' = request \/ \E o \in Requests : Handle(o)
  BY Steps, OthersEffect, TakeEffect, AckEffect, WorkEffect, DeathEffect DEF Requeue
<1> QED
  BY <1>1, <1>2 DEF Made, WorksFor

LEMMA HolderAccepted ==
  ASSUME JobsKept, NEW w \in Workers, NEW q \in Requests, Holds(w, q)
  PROVE  request[q].answer = "accepted"
  BY DEF JobsKept, JobsAccepted, HasJob, Holds

(* A worker starts to score when its first transaction takes the run up.        *)
LEMMA ScoringTakenUp ==
  ASSUME TypeOK, [Next]_vars, NEW w \in Workers, NEW q \in Requests, Scores(w, q)'
  PROVE  \/ worker'[w] = worker[w] /\ Scores(w, q)
         \/ /\ Begin(w, q) /\ run'[request[q].pair].state = "processing"
            /\ worker[w].pc = "begin" /\ Obstacle(request[q].pair) = "none"
<1>1. CASE worker'[w] = worker[w]
  BY <1>1 DEF Scores, Holds
<1>2. CASE worker'[w] # worker[w]
  <2>1. PICK o \in Requests : Works(w, o)
    BY <1>2, Steps, OthersEffect, CallEffect, TakeEffect, AckEffect, WorkEffect, DeathEffect
    DEF Requeue, Scores, Handle, Validate, Lookup, Reset, Insert, Enqueue, EnqueueLost
  <2>2. o = q
    BY <2>1, WorkEffect DEF Scores, Holds
  <2>3. ~Finish(w)
    BY DEF Finish, Scores, TypeOK, Idle
  <2>4. /\ Begin(w, q) /\ Obstacle(request[q].pair) = "none"
        /\ run' = [run EXCEPT ![request[q].pair].state = "processing",
                              ![request[q].pair].code = "none"]
    BY <2>1, <2>2, <2>3 DEF Works, Begin, Fail, Complete
  <2> QED
    BY <2>4, PairOfCall DEF Begin, TypeOK, RunRows
<1> QED
  BY <1>1, <1>2

LEMMA RivalsStep ==
  ASSUME TypeOK, CodeIffFailed, JobsKept, CompletedByJob, RivalsScored, [Next]_vars
  PROVE  CompletedByJob' /\ RivalsScored'
<1>1. ASSUME NEW p \in Pairs, run[p].state # "completed", run'[p].state = "completed"
      PROVE  \E w \in Workers, q \in Requests : Complete(w, q) /\ request[q].pair = p
  <2>1. ASSUME NEW o \in Pairs, StateOnly(o) PROVE FALSE
    BY <1>1, <2>1 DEF StateOnly, TypeOK, RunRows
  <2>2. PICK w \in Workers, q \in Requests : Complete(w, q)
    BY <1>1, <2>1, RowWrites
  <2>3. request[q].pair = p
    BY <1>1, <2>2 DEF Complete, TypeOK
  <2> QED
    BY <2>2, <2>3
<1>2. CompletedByJob'
  <2> SUFFICES ASSUME NEW p \in Pairs, run'[p].state = "completed"
               PROVE  \E q \in Requests : Made(q, p)'
    BY DEF CompletedByJob
  <2>1. CASE run[p].state = "completed"
    BY <2>1, MadeStays DEF CompletedByJob
  <2>2. CASE run[p].state # "completed"
    <3>1. PICK w \in Workers, q \in Requests : Complete(w, q) /\ request[q].pair = p
      BY <1>1, <2>2
    <3>2. Made(q, p)
      BY <3>1, HolderAccepted DEF Complete, Made, WorksFor
    <3> QED
      BY <3>2, MadeStays
  <2> QED
    BY <2>1, <2>2
<1>3. RivalsScored'
  <2> SUFFICES ASSUME NEW w \in Workers, NEW q \in Requests, Scores(w, q)',
                      run'[request'[q].pair].state = "completed"
               PROVE  \E o \in Requests \ {q} : Made(o, request[q].pair)
    BY PairsFrozen, PairOfCall, MadeStays DEF RivalsScored, Made, WorksFor
  <2> DEFINE p == request[q].pair
  <2>1. p \in Pairs /\ run'[p].state = "completed"
    BY PairOfCall, PairsFrozen
  <2>2. worker'[w] = worker[w] /\ Scores(w, q)
    BY <2>1, ScoringTakenUp
  <2>3. CASE run[p].state = "completed"
    BY <2>2, <2>3 DEF RivalsScored
  <2>4. CASE run[p].state # "completed"
    <3>1. PICK x \in Workers, o \in Requests : Complete(x, o) /\ request[o].pair = p
      BY <1>1, <2>1, <2>4
    <3>2. x # w
      BY <2>2, <3>1 DEF Complete, Finish, TypeOK, Scores, Idle
    <3>3. o # q
      BY <2>2, <3>1, <3>2 DEF Complete, Scores, Holds, JobsKept, JobOnce
    <3>4. Made(o, p)
      BY <3>1, HolderAccepted DEF Complete, Made, WorksFor
    <3> QED
      BY <3>3, <3>4
  <2> QED
    BY <2>3, <2>4
<1> QED
  BY <1>2, <1>3

(* Two calls have written the row of p, or are about to.                        *)
LEMMA TwoWriters ==
  ASSUME IsFiniteSet(Requests), NEW p \in Pairs,
         NEW q \in Writers(p), NEW o \in Writers(p), q # o
  PROVE  Cardinality(Writers(p)) >= 2
<1>1. IsFiniteSet(Writers(p))
  BY FS_Subset DEF Writers
<1>2. {q, o} \subseteq Writers(p) /\ Cardinality({q, o}) = 2
  <2>1. Cardinality({q}) = 1 /\ IsFiniteSet({q})
    BY FS_Singleton
  <2>2. Cardinality({q} \cup {o}) = Cardinality({q}) + 1
    BY <2>1, o \notin {q}, FS_AddElement, Zenon
  <2>3. {q} \cup {o} = {q, o}
    OBVIOUS
  <2> QED
    BY <2>1, <2>2, <2>3
<1> QED
  BY <1>1, <1>2, FS_Subset, FS_CardinalityType

(* A completed run is changed only when two calls of its pair were accepted, or *)
(* read it as failed before it was completed: one call, killed and requeued as  *)
(* often as may be, never disturbs what its own job has completed.              *)
THEOREM OverwritesNeedRivals ==
  ASSUME IsFiniteSet(Requests)
  PROVE  SafeSpec => OverwriteNeedsRival
<1> DEFINE Rivalled ==
      \A p \in Pairs :
        run[p].state = "completed" /\ run'[p] # run[p] => Cardinality(Writers(p)) >= 2
<1>1. Init => CodeIffFailed /\ JobsKept /\ CompletedByJob /\ RivalsScored
  <2> SUFFICES ASSUME Init PROVE CodeIffFailed /\ JobsKept /\ CompletedByJob /\ RivalsScored
    OBVIOUS
  <2>1. CodeIffFailed /\ CompletedByJob
    BY DEF Init, CodeIffFailed, CompletedByJob
  <2>2. JobsKept /\ RivalsScored
    BY DEF Init, JobsKept, OpenUnanswered, JobOnce, JobsAccepted, HasJob, InQueue, RivalsScored,
       Scores, Idle
  <2> QED
    BY <2>1, <2>2
<1>2. ASSUME TypeOK, JobsKept, CompletedByJob, RivalsScored, [Next]_vars PROVE Rivalled
  <2> SUFFICES ASSUME NEW p \in Pairs, run[p].state = "completed", run'[p] # run[p]
               PROVE  \E q, o \in Writers(p) : q # o
    BY TwoWriters
  <2>1. PICK o \in Requests : Made(o, p)
    BY <1>2 DEF CompletedByJob
  <2>2. o \in Writers(p)
    BY <2>1 DEF Made, Writers
  <2>3. ASSUME NEW q \in Requests, Handle(q) PROVE \E a, b \in Writers(p) : a # b
    <3>1. Reset(q) \/ Insert(q)
      BY <2>3 DEF Handle, Validate, Lookup, Enqueue, EnqueueLost
    <3>2. request[q].pair = p /\ Reset(q)
      BY <3>1, PairOfCall, <1>2 DEF Reset, Insert, TypeOK
    <3>3. q \in Writers(p) /\ q # o
      BY <1>2, <2>1, <2>3, <3>2, CallEffect DEF Reset, Writers, WorksFor, JobsKept, Made
    <3> QED
      BY <2>2, <3>3
  <2>4. ASSUME NEW w \in Workers, NEW q \in Requests, Works(w, q)
        PROVE  \E a, b \in Writers(p) : a # b
    <3>1. request[q].pair = p
      BY <1>2, <2>4 DEF Works, Begin, Fail, Complete, TypeOK
    <3>2. Scores(w, q)
      BY <2>4, <3>1 DEF Works, Begin, Fail, Complete, AlreadyDone, Scores
    <3>3. PICK b \in Requests \ {q} : Made(b, p)
      BY <1>2, <3>1, <3>2 DEF RivalsScored
    <3>4. request[q].answer = "accepted"
      BY <1>2, <3>2, HolderAccepted DEF Scores
    <3> QED
      BY <3>1, <3>3, <3>4 DEF Writers, WorksFor, Made
  <2> QED
    BY <1>2, <2>3, <2>4, Steps, OthersEffect, TakeEffect, AckEffect, DeathEffect DEF Requeue
<1>3. TypeOK /\ JobsKept /\ CompletedByJob /\ RivalsScored /\ [Next]_vars => [Rivalled]_vars
  BY <1>2
<1> QED
  BY <1>1, <1>3, TypeInit, TypeStep, CodeStep, JobsKeptStep, RivalsStep, PTL
  DEF SafeSpec, OverwriteNeedsRival

-----------------------------------------------------------------------------
(* One call at a time, and no job is run again.                                *)

OneAtATime == "overlap" \notin Faults /\ "requeue" \notin Faults

\* A job of q is about to be made, waits or has begun; it is being scored.
Fresh(q) == At(q, "enqueue") \/ InQueue(q) \/ \E w \in Workers : worker[w].pc = "begin" /\ Holds(w, q)
Scored(q) == \E w \in Workers : Scores(w, q)
Busy(q) == Fresh(q) \/ Scored(q)

\* At most one call is in flight, and at most one job of a pair is not done.
OneCall == \A q, o \in Requests : InFlight(q) /\ InFlight(o) => q = o
OneJob ==
  \A q, o \in Requests : Busy(q) /\ Busy(o) /\ request[q].pair = request[o].pair => q = o

\* What the job or the call of q found in the row is still there.
RowOf(q) ==
  /\ Fresh(q) => run[request[q].pair].state = "queued"
  /\ Scored(q) => run[request[q].pair].state = "processing"
  /\ At(q, "reset") => run[request[q].pair].state = "failed"
  /\ At(q, "insert") => run[request[q].pair].state = "none"
RowsAsFound == \A q \in Requests : RowOf(q)

Alone == OneCall /\ OneJob /\ RowsAsFound

LEMMA CallsAlone ==
  ASSUME TypeOK, OneAtATime, JobsKept, OneCall, [Next]_vars
  PROVE  OneCall'
<1>1. ASSUME NEW q \in Requests, Handle(q) PROVE OneCall'
  <2>1. \A o \in Requests \ {q} : request'[o] = request[o]
    BY <1>1, CallEffect DEF JobsKept
  <2>2. InFlight(q) \/ \A o \in Requests : ~InFlight(o)
    BY <1>1 DEF Handle, Validate, Lookup, Reset, Insert, Enqueue, EnqueueLost, At, InFlight,
       OneAtATime
  <2> QED
    BY <2>1, <2>2 DEF OneCall, InFlight
<1>2. request' = request \/ \E o \in Requests : Handle(o)
  BY Steps, OthersEffect, TakeEffect, AckEffect, WorkEffect, DeathEffect DEF Requeue
<1> QED
  BY <1>1, <1>2 DEF OneCall, InFlight

(* Only a call that has just written its row makes a pair busy.                 *)
LEMMA BusyBefore ==
  ASSUME TypeOK, OneAtATime, JobsKept, [Next]_vars, NEW q \in Requests
  PROVE  /\ Fresh(q)' => Fresh(q) \/ (Handle(q) /\ (Reset(q) \/ Insert(q)) /\ At(q, "enqueue")')
         /\ Scored(q)' => Scored(q) \/ \E w \in Workers : Begin(w, q) /\ Scores(w, q)'
<1> USE DEF JobsKept
<1>1. CASE Neighbours \/ UNCHANGED vars
  BY <1>1, OthersEffect DEF Fresh, Scored, Scores, At, InQueue, Holds
<1>2. ASSUME NEW o \in Requests, Handle(o)
      PROVE  /\ Fresh(q)' => Fresh(q) \/ (Handle(q) /\ (Reset(q) \/ Insert(q)) /\ At(q, "enqueue")')
             /\ Scored(q)' => Scored(q)
  <2>1. UNCHANGED worker
    BY <1>2, CallEffect
  <2>2. InQueue(q)' => InQueue(q) \/ At(q, "enqueue")
    <3>1. CASE ~Enqueue(o)
      BY <1>2, <3>1, CallEffect DEF InQueue
    <3>2. CASE Enqueue(o)
      <4>1. ~InQueue(o)
        BY <1>2, CallEffect DEF JobsAccepted, HasJob
      <4> QED
        BY <1>2, <3>2, <4>1, CallEffect, PutInQueue
    <3> QED
      BY <3>1, <3>2
  <2>3. At(q, "enqueue")' => At(q, "enqueue") \/ (Handle(q) /\ (Reset(q) \/ Insert(q)))
    <3>1. CASE q # o
      BY <1>2, <3>1, CallEffect DEF At
    <3>2. CASE q = o /\ ~Reset(q) /\ ~Insert(q)
      <4>1. \/ \E pc \in {"lookup", "insert", "reset"} : Goto(q, pc)
            \/ \E a : Answer(q, a)
        BY <1>2, <3>2 DEF Handle, Validate, Lookup, Enqueue, EnqueueLost
      <4> QED
        BY <4>1 DEF Goto, Answer, At, TypeOK, Calls
    <3> QED
      BY <1>2, <3>1, <3>2
  <2> QED
    BY <2>1, <2>2, <2>3 DEF Fresh, Scored, Scores, Holds
<1>3. ASSUME NEW w \in Workers, Take(w) PROVE (Fresh(q)' => Fresh(q)) /\ (Scored(q)' => Scored(q))
  <2>1. PICK o \in Requests :
          /\ o = Head(queue) /\ queue[1] = o /\ 1 \in DOMAIN queue
          /\ worker'[w].pc = "begin" /\ worker'[w].job = {o}
          /\ \A x \in Workers \ {w} : worker'[x] = worker[x]
          /\ UNCHANGED request
    BY <1>3, TakeEffect
  <2>2. InQueue(o) /\ (InQueue(q)' => InQueue(q))
    BY <1>3, <2>1, TakenFromQueue DEF InQueue
  <2> QED
    BY <2>1, <2>2 DEF Fresh, Scored, Scores, Holds, At
<1>4. ASSUME NEW w \in Workers, Ack(w) \/ \E o \in Requests : Dies(w, o)
      PROVE  (Fresh(q)' => Fresh(q)) /\ (Scored(q)' => Scored(q))
  <2>1. /\ UNCHANGED <<request, queue>> /\ worker'[w].pc = "idle"
        /\ \A x \in Workers \ {w} : worker'[x] = worker[x]
    BY <1>4, AckEffect, DeathEffect
  <2> QED
    BY <2>1 DEF Fresh, Scored, Scores, Holds, At, InQueue
<1>5. ASSUME NEW w \in Workers, NEW o \in Requests, Works(w, o) PROVE Fresh(q)' => Fresh(q)
  BY <1>5, WorkEffect DEF Fresh, Holds, At, InQueue
<1>6. Scored(q)' => Scored(q) \/ \E w \in Workers : Begin(w, q) /\ Scores(w, q)'
  BY ScoringTakenUp DEF Scored
<1>7. \A o \in Requests : ~Requeue(o)
  BY DEF OneAtATime, Requeue
<1> QED
  BY <1>1, <1>2, <1>3, <1>4, <1>5, <1>6, <1>7, Steps

(* A call that writes its row finds it as it read it, and nobody else at work.  *)
LEMMA CallWrites ==
  ASSUME TypeOK, JobsKept, Alone, NEW q \in Requests, Reset(q) \/ Insert(q), run' # run
  PROVE  /\ run[request[q].pair].state \in {"none", "failed"}
         /\ run'[request[q].pair].state = "queued"
         /\ run'[request[q].pair].claims = run[request[q].pair].claims
         /\ \A p \in Pairs \ {request[q].pair} : run'[p] = run[p]
         /\ InFlight(q) /\ request'[q].pc = "enqueue"
<1>1. request[q].pair \in Pairs /\ run \in [Pairs -> RunRows]
  BY PairOfCall DEF TypeOK
<1>2. CASE Reset(q)
  <2>1. run[request[q].pair].state = "failed"
    BY <1>2 DEF Reset, Alone, RowsAsFound, RowOf
  <2> QED
    BY <1>1, <1>2, <2>1 DEF Reset, Goto, At, InFlight, TypeOK, Calls, RunRows
<1>3. CASE Insert(q)
  <2>1. /\ run[request[q].pair].state = "none" /\ At(q, "insert") /\ Goto(q, "enqueue")
        /\ run' = [run EXCEPT ![request[q].pair].state = "queued"]
    BY <1>3 DEF Insert
  <2>2. InFlight(q) /\ request'[q].pc = "enqueue"
    BY <2>1 DEF Goto, At, InFlight, TypeOK, Calls
  <2> QED
    BY <1>1, <2>1, <2>2 DEF RunRows
<1> QED
  BY <1>2, <1>3

(* What a transaction of a job does to its row.                                 *)
LEMMA WorkWrites ==
  ASSUME TypeOK, JobsKept, Alone, NEW w \in Workers, NEW q \in Requests, Works(w, q)
  PROVE  /\ Busy(q)
         /\ \A p \in Pairs \ {request[q].pair} : run'[p] = run[p]
         /\ \/ /\ Begin(w, q)
               /\ run[request[q].pair].state = "queued"
               /\ run'[request[q].pair].state \in {"processing", "failed"}
               /\ run'[request[q].pair].claims = run[request[q].pair].claims
            \/ /\ Fail(w, q) /\ worker'[w].pc = "ack"
               /\ run[request[q].pair].state = "processing"
               /\ run'[request[q].pair].state = "failed"
               /\ run'[request[q].pair].claims = run[request[q].pair].claims
            \/ /\ Complete(w, q) /\ worker'[w].pc = "ack"
               /\ run[request[q].pair].state = "processing"
               /\ run'[request[q].pair].state = "completed"
<1> DEFINE p == request[q].pair
<1>1. p \in Pairs /\ run \in [Pairs -> RunRows]
  BY PairOfCall DEF TypeOK
<1>2. CASE Begin(w, q)
  <2>1. Fresh(q)
    BY <1>2 DEF Begin, Fresh
  <2>2. run[p].state = "queued"
    BY <2>1 DEF Alone, RowsAsFound, RowOf
  <2>3. \/ run' = [run EXCEPT ![p].state = "failed", ![p].code = Obstacle(p)]
        \/ run' = [run EXCEPT ![p].state = "processing", ![p].code = "none"]
    BY <1>2, <2>2 DEF Begin, AlreadyDone
  <2>4. run'[p].state \in {"processing", "failed"} /\ run'[p].claims = run[p].claims
    BY <1>1, <2>3 DEF RunRows
  <2>5. \A o \in Pairs \ {p} : run'[o] = run[o]
    BY <1>1, <2>3
  <2> QED
    BY <1>2, <2>1, <2>2, <2>4, <2>5 DEF Busy
<1>3. ASSUME Fail(w, q) \/ Complete(w, q)
      PROVE  Scored(q) /\ run[p].state = "processing" /\ worker'[w].pc = "ack"
  <2>1. Scored(q)
    BY <1>3 DEF Fail, Complete, Scored, Scores
  <2>2. worker'[w].pc = "ack"
    BY <1>3 DEF Fail, Complete, Finish, TypeOK, Idle
  <2> QED
    BY <2>1, <2>2 DEF Alone, RowsAsFound, RowOf
<1>4. CASE Fail(w, q)
  BY <1>1, <1>3, <1>4 DEF Fail, Busy, RunRows
<1>5. CASE Complete(w, q)
  <2>1. PICK row : row.state = "completed" /\ run' = [run EXCEPT ![p] = row]
    BY <1>5 DEF Complete
  <2>2. run'[p].state = "completed" /\ \A o \in Pairs \ {p} : run'[o] = run[o]
    BY <1>1, <2>1
  <2> QED
    BY <1>3, <1>5, <2>2 DEF Busy
<1> QED
  BY <1>2, <1>4, <1>5 DEF Works

(* Every other step leaves the rows of match_runs alone.                        *)
LEMMA RunWrites ==
  ASSUME TypeOK, JobsKept, [Next]_vars, run' # run
  PROVE  \/ \E q \in Requests : Handle(q) /\ (Reset(q) \/ Insert(q))
         \/ \E w \in Workers, q \in Requests : Works(w, q)
<1>1. ASSUME NEW q \in Requests, Handle(q) PROVE run' = run \/ Reset(q) \/ Insert(q)
  BY <1>1 DEF Handle, Validate, Lookup, Enqueue, EnqueueLost
<1> QED
  BY <1>1, Steps, OthersEffect, TakeEffect, AckEffect, DeathEffect DEF Requeue

LEMMA RowsStep ==
  ASSUME TypeOK, OneAtATime, JobsKept, Alone, [Next]_vars
  PROVE  RowsAsFound'
<1> SUFFICES ASSUME NEW o \in Requests PROVE RowOf(o)'
  BY DEF RowsAsFound
<1> DEFINE p == request[o].pair
<1>1. p \in Pairs /\ request'[o].pair = p /\ RowOf(o)
  BY PairOfCall, PairsFrozen DEF Alone, RowsAsFound
<1>2. ASSUME NEW q \in Requests, Handle(q) PROVE RowOf(o)'
  <2>1. UNCHANGED worker /\ \A x \in Requests \ {q} : request'[x] = request[x]
    BY <1>2, CallEffect DEF JobsKept
  <2>2. Scored(o)' => Scored(o)
    BY <2>1 DEF Scored, Scores, Holds
  <2>3. CASE run' # run
    <3>1. Reset(q) \/ Insert(q)
      BY <1>2, <2>3 DEF Handle, Validate, Lookup, Enqueue, EnqueueLost
    <3>2. /\ run[request[q].pair].state \in {"none", "failed"}
          /\ run'[request[q].pair].state = "queued"
          /\ \A x \in Pairs \ {request[q].pair} : run'[x] = run[x]
          /\ InFlight(q) /\ request'[q].pc = "enqueue"
      BY <2>3, <3>1, CallWrites
    <3>3. ~At(o, "reset")' /\ ~At(o, "insert")'
      BY <2>1, <3>2 DEF Alone, OneCall, InFlight, At
    <3>4. CASE request[q].pair = p
      BY <1>1, <2>2, <3>2, <3>3, <3>4 DEF RowOf
    <3>5. CASE request[q].pair # p
      <4>1. Fresh(o)' => Fresh(o)
        BY <1>1, <2>1, <2>3, <3>1, <3>5, BusyBefore, <3>2, CallWrites
      <4> QED
        BY <1>1, <2>2, <3>2, <3>3, <3>5, <4>1 DEF RowOf
    <3> QED
      BY <3>4, <3>5
  <2>4. CASE run' = run
    <3>1. Fresh(o)' => Fresh(o)
      <4>1. ASSUME At(o, "enqueue")', Reset(o) \/ Insert(o) PROVE FALSE
        <5>1. run[p].state \in {"none", "failed"}
          BY <1>1, <4>1 DEF RowOf, Reset, Insert, At, Answer, TypeOK, Calls
        <5>2. run'[p].state = "queued"
          BY <1>1, <4>1 DEF Reset, Insert, At, Answer, TypeOK, Calls, RunRows
        <5> QED
          BY <2>4, <5>1, <5>2
      <4> QED
        BY <4>1, BusyBefore
    <3>2. /\ At(o, "reset")' => At(o, "reset") \/ run[p].state = "failed"
          /\ At(o, "insert")' => At(o, "insert") \/ run[p].state = "none"
      <4>1. CASE o # q
        BY <2>1, <4>1 DEF At
      <4>2. CASE o = q /\ Lookup(q)
        BY <4>2 DEF Lookup, Retryable, Goto, Answer, At, TypeOK, Calls
      <4>3. CASE o = q /\ ~Lookup(q)
        <5>1. Goto(q, "lookup") \/ Goto(q, "enqueue") \/ \E a : Answer(q, a)
          BY <1>2, <4>3 DEF Handle, Validate, Reset, Insert, Enqueue, EnqueueLost
        <5> QED
          BY <4>3, <5>1 DEF Goto, Answer, At, TypeOK, Calls
      <4> QED
        BY <4>1, <4>2, <4>3
    <3> QED
      BY <1>1, <2>2, <2>4, <3>1, <3>2 DEF RowOf
  <2> QED
    BY <2>3, <2>4
<1>3. ASSUME NEW w \in Workers, NEW q \in Requests, Works(w, q) PROVE RowOf(o)'
  <2>1. /\ UNCHANGED request /\ worker'[w].pc # "begin" /\ queue' = queue
        /\ Holds(w, q)
        /\ \A x \in Workers \ {w} : worker'[x] = worker[x]
    BY <1>3, WorkEffect
  <2>2. /\ Busy(q) /\ run[request[q].pair].state \in {"queued", "processing"}
        /\ \A x \in Pairs \ {request[q].pair} : run'[x] = run[x]
    BY <1>3, WorkWrites
  <2>3. Fresh(o)' => Fresh(o) /\ o # q
    <3>1. Fresh(o)' => Fresh(o)
      BY <2>1 DEF Fresh, Holds, At, InQueue
    <3>2. ~Fresh(q)'
      <4>1. ~InQueue(q) /\ \A x \in Workers \ {w} : ~Holds(x, q)
        BY <2>1 DEF JobsKept, JobOnce, Holds
      <4>2. ~At(q, "enqueue")
        BY <2>1, HolderAccepted DEF JobsKept, OpenUnanswered, At
      <4> QED
        BY <2>1, <4>1, <4>2 DEF Fresh, Holds, At, InQueue
    <3> QED
      BY <3>1, <3>2
  <2>4. ASSUME NEW x \in Workers, Scores(x, o)', run'[p].state # "processing"
        PROVE  Scored(o) /\ o # q
    <3>1. worker'[x] = worker[x] /\ Scores(x, o)
      BY <2>4, ScoringTakenUp
    <3>2. ASSUME o = q PROVE FALSE
      <4>1. x = w
        BY <2>1, <3>1, <3>2 DEF JobsKept, JobOnce, Holds, Scores
      <4>2. ~Begin(w, q)
        BY <3>1, <4>1 DEF Begin, Scores
      <4>3. worker'[w].pc = "ack"
        BY <1>3, <4>2, WorkWrites
      <4> QED
        BY <3>1, <4>1, <4>3 DEF Scores
    <3> QED
      BY <3>1, <3>2 DEF Scored
  <2>5. CASE request[q].pair # p
    BY <1>1, <2>1, <2>2, <2>3, <2>4, <2>5 DEF RowOf, Scored, At
  <2>6. CASE request[q].pair = p
    <3>1. Busy(o) => o = q
      BY <2>2, <2>6 DEF Alone, OneJob
    <3>2. ~At(o, "reset") /\ ~At(o, "insert")
      BY <1>1, <2>2, <2>6 DEF RowOf
    <3> QED
      BY <1>1, <2>1, <2>3, <2>4, <3>1, <3>2 DEF RowOf, Scored, Busy, At
  <2> QED
    BY <2>5, <2>6
<1>4. ASSUME run' = run, request' = request, \A w \in Workers, q \in Requests : ~Works(w, q)
      PROVE  RowOf(o)'
  <2>1. Fresh(o)' => Fresh(o)
    <3>1. ~(At(o, "enqueue")' /\ (Reset(o) \/ Insert(o)))
      BY <1>4 DEF Reset, Insert, At
    <3> QED
      BY <3>1, BusyBefore
  <2>2. Scored(o)' => Scored(o)
    BY <1>4, BusyBefore DEF Works
  <2> QED
    BY <1>1, <1>4, <2>1, <2>2 DEF RowOf, At
<1> QED
  BY <1>2, <1>3, <1>4, Steps, OthersEffect, TakeEffect, AckEffect, DeathEffect DEF OneAtATime, Requeue

LEMMA AloneStep ==
  ASSUME TypeOK, OneAtATime, JobsKept, Alone, [Next]_vars
  PROVE  Alone'
<1>1. OneCall' /\ RowsAsFound'
  BY CallsAlone, RowsStep DEF Alone
<1>2. OneJob'
  <2> SUFFICES ASSUME NEW q \in Requests, NEW o \in Requests, Busy(q)', Busy(o)',
                      request'[q].pair = request'[o].pair
               PROVE  q = o
    BY DEF OneJob
  <2>1. request[q].pair = request[o].pair
    BY PairsFrozen
  <2>2. ASSUME NEW x \in Requests, Busy(x)', ~Busy(x)
        PROVE  /\ InFlight(x)
               /\ run[request[x].pair].state \in {"none", "failed"}
    <3>1. ~\E w \in Workers : Begin(w, x) /\ Scores(w, x)'
      BY <2>2 DEF Busy, Fresh, Begin
    <3>2. (Reset(x) \/ Insert(x)) /\ At(x, "enqueue")'
      BY <2>2, <3>1, BusyBefore DEF Busy
    <3>3. InFlight(x)
      BY <3>2 DEF Reset, Insert, InFlight, At
    <3>4. CASE Reset(x)
      BY <3>3, <3>4 DEF Reset, Alone, RowsAsFound, RowOf
    <3>5. CASE Insert(x)
      BY <3>2, <3>3, <3>5 DEF Insert, Answer, At, TypeOK, Calls
    <3> QED
      BY <3>2, <3>4, <3>5
  <2>3. ASSUME NEW x \in Requests, Busy(x)
        PROVE  run[request[x].pair].state \in {"queued", "processing"}
    BY <2>3 DEF Busy, Alone, RowsAsFound, RowOf
  <2>4. CASE Busy(q) /\ Busy(o)
    BY <2>1, <2>4 DEF Alone, OneJob
  <2>5. CASE ~Busy(q) /\ ~Busy(o)
    BY <2>2, <2>5 DEF Alone, OneCall
  <2> QED
    BY <2>1, <2>2, <2>3, <2>4, <2>5
<1> QED
  BY <1>1, <1>2 DEF Alone

LEMMA AloneInductive ==
  ASSUME OneAtATime
  PROVE  SafeSpec => [](TypeOK /\ JobsKept /\ Alone)
<1>1. Init => JobsKept /\ Alone
  <2> SUFFICES ASSUME Init PROVE JobsKept /\ Alone
    OBVIOUS
  <2>1. /\ \A q \in Requests : At(q, "new") /\ request[q].answer = "none"
        /\ \A w \in Workers : worker[w] = Idle
        /\ queue = <<>> /\ failedJobs = {}
    BY DEF Init, At
  <2>2. JobsKept
    BY <2>1 DEF JobsKept, OpenUnanswered, JobOnce, JobsAccepted, HasJob, InQueue, Idle
  <2>3. \A q \in Requests : ~Busy(q) /\ ~InFlight(q)
    BY <2>1 DEF Busy, Fresh, Scored, Scores, InQueue, InFlight, At, Idle
  <2> QED
    BY <2>1, <2>2, <2>3 DEF Alone, OneCall, OneJob, RowsAsFound, RowOf, Busy, At
<1> QED
  BY <1>1, TypeInit, TypeStep, JobsKeptStep, AloneStep, PTL DEF SafeSpec

(* When a user makes one call at a time and no failed job is requeued, "match    *)
(* runs are immutable once completed", whatever dies, whatever is lost after a   *)
(* commit and however often a resume is processed again.                         *)
THEOREM CompletedRunsFinal ==
  ASSUME OneAtATime
  PROVE  SafeSpec => CompletedIsFinal
<1> DEFINE Final == \A p \in Pairs : run[p].state = "completed" => run'[p] = run[p]
<1>1. ASSUME TypeOK, JobsKept, Alone, [Next]_vars PROVE Final
  <2>1. ASSUME run' # run, NEW q \in Requests, Reset(q) \/ Insert(q) PROVE Final
    BY <1>1, <2>1, CallWrites
  <2>2. ASSUME NEW w \in Workers, NEW q \in Requests, Works(w, q) PROVE Final
    BY <1>1, <2>2, WorkWrites
  <2> QED
    BY <1>1, <2>1, <2>2, RunWrites
<1>2. TypeOK /\ JobsKept /\ Alone /\ [Next]_vars => [Final]_vars
  BY <1>1
<1> QED
  BY <1>2, AloneInductive, PTL DEF SafeSpec, CompletedIsFinal

-----------------------------------------------------------------------------
(* WorkPromise.                                                                *)

\* A worker that scores has requirements to score, and spans are named by the
\* extractions that wrote them.
SomethingToScore == \A w \in Workers, q \in Requests : Scores(w, q) => worker[w].reqs # {}
SpansBounded ==
  \A r \in Resumes : resume[r].gen <= MaxGen /\ resume[r].spans \subseteq 1..MaxGen

LEMMA ScoreStep ==
  ASSUME TypeOK, SomethingToScore, [Next]_vars
  PROVE  SomethingToScore'
<1> SUFFICES ASSUME NEW w \in Workers, NEW q \in Requests, Scores(w, q)'
             PROVE  worker'[w].reqs # {}
  BY DEF SomethingToScore
<1>1. CASE worker'[w] = worker[w]
  BY <1>1 DEF SomethingToScore, Scores, Holds
<1>2. CASE worker'[w] # worker[w]
  BY <1>2, ScoringStarts DEF Scores, Holds, Matchable
<1> QED
  BY <1>1, <1>2

LEMMA SpansStep ==
  ASSUME TypeOK, SpansBounded, [Next]_vars
  PROVE  SpansBounded'
<1>1. ASSUME NEW r \in Resumes, ResumeBegins(r) \/ ResumeFails(r) PROVE SpansBounded'
  BY <1>1 DEF ResumeBegins, ResumeFails, SpansBounded, TypeOK, ResumeRows
<1>2. ASSUME NEW r \in Resumes, ResumePersists(r) PROVE SpansBounded'
  <2>1. /\ resume \in [Resumes -> ResumeRows] /\ resume[r].gen \in Nat
        /\ resume[r].gen < MaxGen /\ MaxGen \in Nat
    BY <1>2, ConstantsOK DEF ResumePersists, TypeOK, ResumeRows
  <2>2. /\ resume'[r].gen = resume[r].gen + 1
        /\ resume'[r].spans \subseteq {resume[r].gen + 1}
        /\ \A x \in Resumes \ {r} : resume'[x] = resume[x]
    BY <1>2, <2>1 DEF ResumePersists
  <2> QED
    BY <2>1, <2>2 DEF SpansBounded
<1>3. resume' = resume \/ \E r \in Resumes : ResumeBegins(r) \/ ResumePersists(r) \/ ResumeFails(r)
  BY ZenonT(30) DEF Next, Neighbours, JobSettles, Handle, Validate, Lookup, Reset, Insert, Enqueue,
     EnqueueLost, Requeue, Serve, Take, Ack, Begin, Fail, Complete, CompleteRefused, Crash,
     documents, vars
<1> QED
  BY <1>1, <1>2, <1>3 DEF SpansBounded

(* What a completed run shows is a result in the sense of WorkPromise.          *)
LEMMA CompleteShows ==
  ASSUME TypeOK, SomethingToScore, SpansBounded,
         NEW w \in Workers, NEW q \in Requests, Complete(w, q)
  PROVE  run'[request[q].pair].claims \in (SUBSET BoundedRows) \ {{}}
<1> DEFINE p == request[q].pair
<1>1. p \in Pairs /\ p[1] \in Resumes
  BY PairOfCall, PairParts
<1>2. PICK cites \in [worker[w].reqs -> (worker[w].spans \cap resume[p[1]].spans) \cup {NoSpan}] :
        run'[p].claims = BuiltClaims(w, cites)
  BY <1>1 DEF Complete, TypeOK
<1>3. \A x \in worker[w].reqs : x \in Requirements /\ cites[x] \in NoSpan..MaxGen
  BY <1>1, ConstantsOK DEF SpansBounded, TypeOK, WorkerStates, NoSpan
<1>4. BuiltClaims(w, cites) \in SUBSET BoundedRows
  BY <1>3 DEF BuiltClaims, BoundedRows
<1>5. BuiltClaims(w, cites) # {}
  <2>1. PICK x \in worker[w].reqs : TRUE
    BY DEF Complete, SomethingToScore, Scores
  <2>2. [req |-> x, span |-> cites[x]] \in BuiltClaims(w, cites)
    BY DEF BuiltClaims
  <2> QED
    BY <2>2
<1> QED
  BY <1>2, <1>4, <1>5

\* The phase of a run whose row is in state s.
PhaseOf(s) ==
  CASE s = "none"                      -> "absent"
    [] s \in {"queued", "processing"} -> "open"
    [] s = "failed"                    -> "given_up"
    [] s = "completed"                 -> "decided"

LEMMA PhaseOfRun ==
  /\ Phase = [p \in Pairs |-> PhaseOf(run[p].state)]
  /\ Phase' = [p \in Pairs |-> PhaseOf(run'[p].state)]
  /\ PhaseOf("none") = "absent" /\ PhaseOf("failed") = "given_up"
  /\ PhaseOf("queued") = "open" /\ PhaseOf("processing") = "open"
  /\ PhaseOf("completed") = "decided"
<1>1. /\ Phase = [p \in Pairs |-> PhaseOf(run[p].state)]
      /\ Phase' = [p \in Pairs |-> PhaseOf(run'[p].state)]
  BY DEF Phase, PhaseOf
<1>2. /\ PhaseOf("none") = "absent" /\ PhaseOf("failed") = "given_up"
      /\ PhaseOf("queued") = "open" /\ PhaseOf("processing") = "open"
      /\ PhaseOf("completed") = "decided"
  BY DEF PhaseOf
<1> QED
  BY <1>1, <1>2

(* A step of MatchRuns that writes the row of p, seen by WorkPromise.            *)
LEMMA PromiseMoves ==
  ASSUME NEW p \in Pairs, \A o \in Pairs \ {p} : run'[o] = run[o],
         \/ /\ run[p].state \in {"none", "failed"} /\ run'[p].state = "queued"
            /\ run'[p].claims = run[p].claims
         \/ /\ run[p].state = "queued" /\ run'[p].state = "processing"
            /\ run'[p].claims = run[p].claims
         \/ /\ run[p].state \in {"queued", "processing"} /\ run'[p].state = "failed"
            /\ run'[p].claims = run[p].claims
         \/ /\ run[p].state = "processing" /\ run'[p].state = "completed"
            /\ run'[p].claims \in (SUBSET BoundedRows) \ {{}}
  PROVE  [Promise!Next]_(Promise!promise)
<1>1. /\ Shown = [o \in Pairs |-> run[o].claims]
      /\ Shown' = [o \in Pairs |-> run'[o].claims]
  BY DEF Shown
<1>2. ASSUME NEW s, run'[p].state = s PROVE Phase' = [Phase EXCEPT ![p] = PhaseOf(s)]
  BY <1>2, PhaseOfRun
<1>3. Phase[p] = PhaseOf(run[p].state)
  BY PhaseOfRun
<1>4. CASE /\ run[p].state \in {"none", "failed"} /\ run'[p].state = "queued"
           /\ run'[p].claims = run[p].claims
  <2>1. Phase[p] \in {"absent", "given_up"} /\ Phase' = [Phase EXCEPT ![p] = "open"]
    BY <1>2, <1>3, <1>4, PhaseOfRun
  <2>2. Promise!Accept(p)
    BY <1>1, <1>4, <2>1 DEF Promise!Accept
  <2> QED
    BY <2>2 DEF Promise!Next
<1>5. CASE run[p].state = "queued" /\ run'[p].state = "processing" /\ run'[p].claims = run[p].claims
  <2>1. Phase' = Phase /\ Shown' = Shown
    BY <1>1, <1>2, <1>5, PhaseOfRun
  <2> QED
    BY <2>1 DEF Promise!promise
<1>6. CASE /\ run[p].state \in {"queued", "processing"} /\ run'[p].state = "failed"
           /\ run'[p].claims = run[p].claims
  <2>1. Phase[p] = "open" /\ Phase' = [Phase EXCEPT ![p] = "given_up"]
    BY <1>2, <1>3, <1>6, PhaseOfRun
  <2>2. Promise!GiveUp(p)
    BY <1>1, <1>6, <2>1 DEF Promise!GiveUp
  <2> QED
    BY <2>2 DEF Promise!Next, Promise!Settle
<1>7. CASE /\ run[p].state = "processing" /\ run'[p].state = "completed"
           /\ run'[p].claims \in (SUBSET BoundedRows) \ {{}}
  <2>1. Phase[p] = "open" /\ Phase' = [Phase EXCEPT ![p] = "decided"]
    BY <1>2, <1>3, <1>7, PhaseOfRun
  <2>2. Shown' = [Shown EXCEPT ![p] = run'[p].claims]
    BY <1>1
  <2>3. Promise!Decide(p)
    BY <1>7, <2>1, <2>2 DEF Promise!Decide
  <2> QED
    BY <2>3 DEF Promise!Next, Promise!Settle
<1> QED
  BY <1>4, <1>5, <1>6, <1>7

(* Under the same condition the handler, the queue and process_match implement   *)
(* the safety part of WorkPromise: a run is accepted when it is absent or was    *)
(* given up, decided or given up only while open, and what it was decided to     *)
(* hold, at least one claim, is never touched again.                             *)
THEOREM MatchesKeepPromise ==
  ASSUME OneAtATime
  PROVE  SafeSpec => Promise!SafeSpec
<1>1. Init => Promise!Init /\ SomethingToScore /\ SpansBounded
  <2> SUFFICES ASSUME Init PROVE Promise!Init /\ SomethingToScore /\ SpansBounded
    OBVIOUS
  <2>1. \A p \in Pairs : run[p].state = "none" /\ run[p].claims = {}
    BY DEF Init
  <2>2. Phase = [p \in Pairs |-> "absent"]
    BY <2>1, PhaseOfRun
  <2>3. Shown = [p \in Pairs |-> {}]
    BY <2>1 DEF Shown
  <2>4. SomethingToScore /\ SpansBounded
    BY ConstantsOK DEF Init, SomethingToScore, SpansBounded, Scores, Idle
  <2> QED
    BY <2>2, <2>3, <2>4 DEF Promise!Init
<1>2. ASSUME TypeOK, JobsKept, Alone, SomethingToScore, SpansBounded, [Next]_vars
      PROVE  [Promise!Next]_(Promise!promise)
  <2>1. CASE run' = run
    BY <2>1, PhaseOfRun DEF Promise!promise, Shown
  <2>2. ASSUME run' # run, NEW q \in Requests, Reset(q) \/ Insert(q)
        PROVE  [Promise!Next]_(Promise!promise)
    BY <1>2, <2>2, CallWrites, PairOfCall, PromiseMoves
  <2>3. ASSUME NEW w \in Workers, NEW q \in Requests, Works(w, q)
        PROVE  [Promise!Next]_(Promise!promise)
    <3>1. request[q].pair \in Pairs
      BY <1>2, PairOfCall
    <3>2. CASE Complete(w, q)
      <4>1. run'[request[q].pair].claims \in (SUBSET BoundedRows) \ {{}}
        BY <1>2, <3>2, CompleteShows
      <4> QED
        BY <1>2, <2>3, <3>1, <4>1, WorkWrites, PromiseMoves
    <3>3. CASE ~Complete(w, q)
      BY <1>2, <2>3, <3>1, <3>3, WorkWrites, PromiseMoves
    <3> QED
      BY <3>2, <3>3
  <2> QED
    BY <1>2, <2>1, <2>2, <2>3, RunWrites
<1>3. /\ TypeOK /\ JobsKept /\ Alone /\ SomethingToScore /\ SpansBounded /\ [Next]_vars
      => [Promise!Next]_(Promise!promise)
  BY <1>2
<1> QED
  BY <1>1, <1>3, AloneInductive, ScoreStep, SpansStep, PTL DEF SafeSpec, Promise!SafeSpec
=============================================================================

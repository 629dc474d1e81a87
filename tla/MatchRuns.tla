------------------------------ MODULE MatchRuns ------------------------------
(***************************************************************************)
(* The life of a match run: POST /v1/matches (routes/matches.py), the RQ    *)
(* queue (queue.py) and process_match (worker/matching.py), over the rows   *)
(* of match_runs and claims.                                                *)
(*                                                                          *)
(* A request handler is cut at its awaits and a worker job at its           *)
(* transactions: each session_scope block of the worker is one step.  A     *)
(* request makes at most one RQ job, so the request also names the job.     *)
(* Span rows are named by the extraction ("generation") that wrote them.    *)
(***************************************************************************)
EXTENDS Integers, Sequences, FiniteSets

CONSTANTS Resumes,        \* resumes of one user
          Jobs,           \* job descriptions of the same user
          Requirements,   \* requirement rows a job description may have
          Requests,       \* calls of POST /v1/matches, each made once
          Workers,        \* RQ worker processes
          Faults,         \* what may go wrong, see FaultKinds
          MaxGen          \* bound: extractions of one resume

FaultKinds == {"overlap",       \* two calls in flight at the same time
               "lost_enqueue",  \* the API or Redis dies after the commit
               "crash",         \* a worker dies or a job is killed by RQ's timeout
               "requeue",       \* an operator requeues a failed RQ job
               "reprocess"}     \* process_resume runs again on a completed resume

ASSUME ConstantsOK ==
  /\ Faults \subseteq FaultKinds
  /\ MaxGen \in Nat
  /\ IsFiniteSet(Requirements)

Pairs == Resumes \X Jobs        \* the prompt and scoring versions are fixed

NoSpan == 0                     \* primary_evidence_span_id IS NULL
Generations == Nat \ {NoSpan}

\* A row of claims: met exactly when it has a primary evidence span.
ClaimRows == [req : Requirements, span : Nat]
MetCount(rows) == Cardinality({c \in rows : c.span # NoSpan})
NoScore == -1

RunStates == {"none", "queued", "processing", "completed", "failed"}
FailureCodes == {"none", "resume_not_ready", "job_not_ready", "no_requirements",
                 "no_evidence", "llm_failed"}

VARIABLES resume,      \* [Resumes -> [state, spans, gen]], written by process_resume
          job,         \* [Jobs -> [state, reqs]], written by process_job_description
          run,         \* [Pairs -> [state, code, claims, score]], rows of match_runs
          request,     \* [Requests -> [pc, pair, answer]]
          queue,       \* the RQ list, a sequence of jobs
          worker,      \* [Workers -> [pc, job, spans, reqs]]
          failedJobs   \* RQ's FailedJobRegistry

documents == <<resume, job>>
rq == <<queue, failedJobs>>
vars == <<resume, job, run, request, queue, worker, failedJobs>>

Idle == [pc |-> "idle", job |-> {}, spans |-> {}, reqs |-> {}]

ResumeRows == [state : {"queued", "processing", "completed", "failed"},
               spans : SUBSET Generations, gen : Nat]
JobRows == [state : {"queued", "completed", "failed"}, reqs : SUBSET Requirements]
RunRows == [state : RunStates, code : FailureCodes, claims : SUBSET ClaimRows, score : Int]
HandlerSteps == {"new", "lookup", "insert", "reset", "enqueue", "answered"}
Answers == {"none", "rejected", "reused", "conflict", "lost", "accepted"}
Calls == [pc : HandlerSteps, pair : Pairs, answer : Answers]
WorkerStates == [pc : {"idle", "begin", "scoring", "ack"}, job : SUBSET Requests,
                 spans : SUBSET Generations, reqs : SUBSET Requirements]

TypeOK ==
  /\ resume \in [Resumes -> ResumeRows]
  /\ job \in [Jobs -> JobRows]
  /\ run \in [Pairs -> RunRows]
  /\ request \in [Requests -> Calls]
  /\ queue \in Seq(Requests)
  /\ worker \in [Workers -> WorkerStates]
  /\ failedJobs \subseteq Requests

Init ==
  /\ resume = [r \in Resumes |-> [state |-> "queued", spans |-> {}, gen |-> 0]]
  /\ job = [j \in Jobs |-> [state |-> "queued", reqs |-> {}]]
  /\ run = [p \in Pairs |-> [state |-> "none", code |-> "none",
                             claims |-> {}, score |-> NoScore]]
  /\ request \in [Requests -> [pc : {"new"}, pair : Pairs, answer : {"none"}]]
  /\ queue = <<>>
  /\ worker = [w \in Workers |-> Idle]
  /\ failedJobs = {}

-----------------------------------------------------------------------------
(* The neighbours: what the two document pipelines may do to the rows a     *)
(* match run reads.                                                         *)

\* A claim of any run cites a span row of the resume.
Cited(r) ==
  \E j \in Jobs : \E c \in run[<<r, j>>].claims : c.span \in resume[r].spans

\* process_resume, first transaction: no state is refused.
ResumeBegins(r) ==
  /\ resume[r].state = "queued" \/ "reprocess" \in Faults
  /\ resume' = [resume EXCEPT ![r].state = "processing"]
  /\ UNCHANGED <<job, run, request, worker, rq>>

\* Mutant: without the CHECK the citations are nulled, and the transaction commits.
ResumePersists_SetsNull(r) ==
  /\ resume[r].state = "processing"
  /\ resume[r].gen < MaxGen
  /\ \E text \in BOOLEAN :
       resume' = [resume EXCEPT ![r] =
         [state |-> "completed", gen |-> @.gen + 1,
          spans |-> IF text THEN {@.gen + 1} ELSE {}]]
  /\ run' = [p \in Pairs |-> IF p[1] # r THEN run[p] ELSE
       [run[p] EXCEPT !.claims =
          {[c EXCEPT !.span = IF @ \in resume[r].spans THEN NoSpan ELSE @] : c \in @}]]
  /\ UNCHANGED <<job, request, worker, rq>>

\* _persist replaces every span row.  Deleting a span that a met claim cites
\* sets its primary_evidence_span_id to NULL, which the CHECK on claims
\* forbids, so the transaction only commits when none does.
ResumePersists(r) ==
  /\ resume[r].state = "processing"
  /\ resume[r].gen < MaxGen
  /\ ~Cited(r)
  /\ \E text \in BOOLEAN :
       resume' = [resume EXCEPT ![r] =
         [state |-> "completed", gen |-> @.gen + 1,
          spans |-> IF text THEN {@.gen + 1} ELSE {}]]
  /\ UNCHANGED <<job, run, request, worker, rq>>

ResumeFails(r) ==
  /\ resume[r].state = "processing"
  /\ resume' = [resume EXCEPT ![r].state = "failed"]
  /\ UNCHANGED <<job, run, request, worker, rq>>

\* A pasted description is stored completed and empty; an uploaded one gets
\* the requirements whose quotes were found.  A completed one is never redone.
JobSettles(j) ==
  /\ job[j].state # "completed"
  /\ \/ \E reqs \in SUBSET Requirements :
          job' = [job EXCEPT ![j] = [state |-> "completed", reqs |-> reqs]]
     \/ job' = [job EXCEPT ![j].state = "failed"]
  /\ UNCHANGED <<resume, run, request, worker, rq>>

-----------------------------------------------------------------------------
(* create_match: the handler of POST /v1/matches.                           *)

InFlight(q) == request[q].pc \notin {"new", "answered"}

At(q, pc) == request[q].pc = pc
Goto(q, pc) == request' = [request EXCEPT ![q].pc = pc]
Answer(q, a) == request' = [request EXCEPT ![q].pc = "answered", ![q].answer = a]

Matchable(p) ==
  /\ resume[p[1]].state = "completed"
  /\ job[p[2]].state = "completed"
  /\ job[p[2]].reqs # {}

\* Steps 1-3 of the handler: both documents ready, at least one requirement.
\* Its awaits are one step, since nothing it reads is used later.
Validate(q) ==
  /\ At(q, "new")
  /\ "overlap" \in Faults \/ \A o \in Requests : ~InFlight(o)
  /\ IF Matchable(request[q].pair) THEN Goto(q, "lookup") ELSE Answer(q, "rejected")
  /\ UNCHANGED <<documents, run, rq, worker>>

\* Mutant: a retry of a run that may still be worked on.
Retryable_InProgress(state) == state \in {"failed", "processing"}

\* Only a failed run is retried; every other one is answered as it is.
Retryable(state) == state = "failed"

\* Step 5: look the key up and decide on what was read.
Lookup(q) ==
  LET state == run[request[q].pair].state IN
  /\ At(q, "lookup")
  /\ CASE state = "none"    -> Goto(q, "insert")
       [] Retryable(state)  -> Goto(q, "reset")
       [] OTHER             -> Answer(q, "reused")
  /\ UNCHANGED <<documents, run, rq, worker>>

\* Mutant: the retry leaves the failure code of the attempt before.
Reset_KeepsCode(q) ==
  /\ At(q, "reset")
  /\ run' = [run EXCEPT ![request[q].pair].state = "queued"]
  /\ Goto(q, "enqueue")
  /\ UNCHANGED <<documents, rq, worker>>

\* Retry of a failed run: an UPDATE by primary key, whatever the row holds now.
Reset(q) ==
  /\ At(q, "reset")
  /\ run' = [run EXCEPT ![request[q].pair].state = "queued",
                        ![request[q].pair].code = "none"]
  /\ Goto(q, "enqueue")
  /\ UNCHANGED <<documents, rq, worker>>

\* Step 6: INSERT and commit; a rival's row makes the unique index refuse it.
Insert(q) ==
  /\ At(q, "insert")
  /\ IF run[request[q].pair].state = "none"
       THEN /\ run' = [run EXCEPT ![request[q].pair].state = "queued"]
            /\ Goto(q, "enqueue")
       ELSE /\ Answer(q, "conflict")
            /\ UNCHANGED run
  /\ UNCHANGED <<documents, rq, worker>>

\* enqueue_match_processing, after the commit.
Enqueue(q) ==
  /\ At(q, "enqueue")
  /\ queue' = Append(queue, q)
  /\ Answer(q, "accepted")
  /\ UNCHANGED <<documents, run, failedJobs, worker>>

\* The row is committed but no job was made.
EnqueueLost(q) ==
  /\ "lost_enqueue" \in Faults
  /\ At(q, "enqueue")
  /\ Answer(q, "lost")
  /\ UNCHANGED <<documents, run, rq, worker>>

-----------------------------------------------------------------------------
(* process_match on an RQ worker.                                           *)

Holds(w, q) == worker[w].job = {q}
Finish(w) == worker' = [worker EXCEPT ![w] = [Idle EXCEPT !.pc = "ack", !.job = worker[w].job]]

\* The worker pops the oldest job.
Take(w) ==
  /\ worker[w].pc = "idle"
  /\ queue # <<>>
  /\ worker' = [worker EXCEPT ![w] = [Idle EXCEPT !.pc = "begin", !.job = {Head(queue)}]]
  /\ queue' = Tail(queue)
  /\ UNCHANGED <<documents, run, request, failedJobs>>

\* Mutant: a code the row's vocabulary does not have.
Obstacle_NewCode(p) == IF resume[p[1]].state = "completed" THEN "none" ELSE "resume_missing"

\* What the first transaction finds missing, in the order it looks.
Obstacle(p) ==
  CASE resume[p[1]].state # "completed" -> "resume_not_ready"
    [] job[p[2]].state # "completed"    -> "job_not_ready"
    [] job[p[2]].reqs = {}              -> "no_requirements"
    [] resume[p[1]].spans = {}          -> "no_evidence"
    [] OTHER                            -> "none"

\* Mutants: no check at all, and a check that also skips a run in progress.
AlreadyDone_Never(p) == FALSE
AlreadyDone_Started(p) == run[p].state \in {"completed", "processing"}

\* The job has nothing to do.
AlreadyDone(p) == run[p].state = "completed"

\* The first transaction of process_match.
Begin(w, q) ==
  LET p == request[q].pair IN
  /\ worker[w].pc = "begin"
  /\ Holds(w, q)
  /\ \/ /\ AlreadyDone(p)
        /\ Finish(w)
        /\ UNCHANGED run
     \/ /\ ~AlreadyDone(p)
        /\ Obstacle(p) # "none"
        /\ run' = [run EXCEPT ![p].state = "failed", ![p].code = Obstacle(p)]
        /\ Finish(w)
     \/ /\ ~AlreadyDone(p)
        /\ Obstacle(p) = "none"
        /\ run' = [run EXCEPT ![p].state = "processing", ![p].code = "none"]
        /\ worker' = [worker EXCEPT ![w] =
             [pc |-> "scoring", job |-> {q},
              spans |-> resume[p[1]].spans, reqs |-> job[p[2]].reqs]]
  /\ UNCHANGED <<documents, request, rq>>

\* Mutant: the error is swallowed and the row is left in progress.
Fail_Silent(w, q) ==
  /\ worker[w].pc = "scoring"
  /\ Holds(w, q)
  /\ Finish(w)
  /\ UNCHANGED <<documents, run, request, rq>>

\* A batch fails, or the privacy gate refuses it: _fail_match_run.
Fail(w, q) ==
  /\ worker[w].pc = "scoring"
  /\ Holds(w, q)
  /\ run' = [run EXCEPT ![request[q].pair].state = "failed",
                        ![request[q].pair].code = "llm_failed"]
  /\ Finish(w)
  /\ UNCHANGED <<documents, request, rq>>

\* Mutant: a requirement the model made no claim about gets no row.
BuiltClaims_Partial(w, cites) ==
  {[req |-> r, span |-> cites[r]] : r \in {x \in worker[w].reqs : cites[x] # NoSpan}}

\* One claim row per requirement read by the first transaction; a claim whose
\* citations are not among the spans read then is unmet.
BuiltClaims(w, cites) == {[req |-> r, span |-> cites[r]] : r \in worker[w].reqs}

\* The last transaction: the old claims are deleted, the new ones inserted and
\* the run completed.  The foreign keys hold only for spans that still exist.
Complete(w, q) ==
  LET p == request[q].pair IN
  /\ worker[w].pc = "scoring"
  /\ Holds(w, q)
  /\ \E cites \in [worker[w].reqs -> (worker[w].spans \cap resume[p[1]].spans) \cup {NoSpan}] :
       run' = [run EXCEPT ![p] =
         [state |-> "completed", code |-> "none", claims |-> BuiltClaims(w, cites),
          score |-> MetCount(BuiltClaims(w, cites))]]
  /\ Finish(w)
  /\ UNCHANGED <<documents, request, rq>>

\* A claim cites a span row that is gone: the transaction rolls back and the
\* IntegrityError leaves process_match; RQ files the job as failed.
CompleteRefused(w, q) ==
  LET p == request[q].pair IN
  /\ worker[w].pc = "scoring"
  /\ Holds(w, q)
  /\ worker[w].spans \ resume[p[1]].spans # {}
  /\ worker' = [worker EXCEPT ![w] = Idle]
  /\ failedJobs' = failedJobs \cup {q}
  /\ UNCHANGED <<documents, run, request, queue>>

\* RQ marks the job finished; nothing in the database changes.
Ack(w) ==
  /\ worker[w].pc = "ack"
  /\ worker' = [worker EXCEPT ![w] = Idle]
  /\ UNCHANGED <<documents, run, request, rq>>

\* The worker dies, or RQ kills the job, between two transactions.
Crash(w, q) ==
  /\ "crash" \in Faults
  /\ Holds(w, q)
  /\ worker' = [worker EXCEPT ![w] = Idle]
  /\ failedJobs' = failedJobs \cup {q}
  /\ UNCHANGED <<documents, run, request, queue>>

\* No retry is configured: a failed job runs again only when someone asks RQ to.
Requeue(q) ==
  /\ "requeue" \in Faults
  /\ q \in failedJobs
  /\ failedJobs' = failedJobs \ {q}
  /\ queue' = Append(queue, q)
  /\ UNCHANGED <<documents, run, request, worker>>

-----------------------------------------------------------------------------

Neighbours ==
  \/ \E r \in Resumes : ResumeBegins(r) \/ ResumePersists(r) \/ ResumeFails(r)
  \/ \E j \in Jobs : JobSettles(j)

Handle(q) ==
  Validate(q) \/ Lookup(q) \/ Reset(q) \/ Insert(q) \/ Enqueue(q) \/ EnqueueLost(q)

Serve(w) ==
  \/ Take(w)
  \/ Ack(w)
  \/ \E q \in Requests :
       Begin(w, q) \/ Fail(w, q) \/ Complete(w, q) \/ CompleteRefused(w, q)

Next ==
  \/ Neighbours
  \/ \E q \in Requests : Handle(q) \/ Requeue(q)
  \/ \E w \in Workers : Serve(w) \/ \E q \in Requests : Crash(w, q)

SafeSpec == Init /\ [][Next]_vars

\* A handler that has been entered runs on, and a worker keeps serving; a user
\* owes nothing, so Validate is not fair.
Fairness ==
  /\ \A q \in Requests : WF_vars(Handle(q) /\ InFlight(q))
  /\ \A w \in Workers : WF_vars(Serve(w))

Spec == SafeSpec /\ Fairness
-----------------------------------------------------------------------------
(* What must hold whatever overlaps, dies or is requeued.                   *)

WorksFor(q, p) == request[q].pair = p

\* "No partial match run is ever written": a completed run has one claim for
\* every requirement of its job description and the score of exactly those
\* claims, even when two workers scored it or the last attempt failed.
CompletedIsWhole ==
  \A p \in Pairs : run[p].state = "completed" =>
    /\ {c.req : c \in run[p].claims} = job[p[2]].reqs
    /\ \A c, d \in run[p].claims : c.req = d.req => c = d
    /\ run[p].score = MetCount(run[p].claims)

\* The score shown for a completed run is the number of its requirements that
\* text of the resume as it is now still backs, although reprocessing replaces
\* all spans and a worker writes claims about spans it read minutes earlier.
ScoreHasEvidence ==
  \A p \in Pairs : run[p].state = "completed" =>
    run[p].score = Cardinality({c \in run[p].claims : c.span \in resume[p[1]].spans})

\* A failure code is shown on failed runs and on no other: a retry, a rival
\* and a requeue all clear or set it together with the state.
CodeIffFailed ==
  \A p \in Pairs : run[p].state = "failed" <=> run[p].code # "none"

\* The RQ job of q has not started: queued, popped, or in the failed registry.
InQueue(q) == \E i \in DOMAIN queue : queue[i] = q
JobWaits(q) ==
  \/ InQueue(q)
  \/ q \in failedJobs
  \/ \E w \in Workers : worker[w].pc = "begin" /\ Holds(w, q)

\* Someone will still move a queued run: a job waits, its caller is about to
\* enqueue one, or the caller was told that enqueueing failed.
Awaited(p) ==
  \E q \in Requests :
    WorksFor(q, p) /\ (JobWaits(q) \/ At(q, "enqueue") \/ request[q].answer = "lost")

\* A worker is scoring the run, or a job waits that will.
Attended(p) ==
  \E q \in Requests :
    WorksFor(q, p) /\
      (JobWaits(q) \/ \E w \in Workers : worker[w].pc = "scoring" /\ Holds(w, q))

\* A run is never left in flight with nobody in charge of it, except as above.
InFlightIsCarried ==
  \A p \in Pairs :
    /\ run[p].state = "queued" => Awaited(p)
    /\ run[p].state = "processing" => Attended(p)

\* The calls that wrote the row of p.
Writers(p) ==
  {q \in Requests : WorksFor(q, p) /\
     (At(q, "enqueue") \/ At(q, "reset") \/ request[q].answer \in {"accepted", "lost"})}

\* One call never disturbs its own finished run, through crashes and requeues:
\* it takes a second call of the same pair to change a completed row.
OverwriteNeedsRival ==
  [][\A p \in Pairs :
       run[p].state = "completed" /\ run'[p] # run[p] => Cardinality(Writers(p)) >= 2]_vars

-----------------------------------------------------------------------------
(* What holds when one user makes one call at a time and nothing is requeued. *)

\* "Match runs are immutable once completed."
CompletedIsFinal ==
  [][\A p \in Pairs : run[p].state = "completed" => run'[p] = run[p]]_vars

Phase == [p \in Pairs |->
  CASE run[p].state = "none"                      -> "absent"
    [] run[p].state \in {"queued", "processing"} -> "open"
    [] run[p].state = "failed"                    -> "given_up"
    [] run[p].state = "completed"                 -> "decided"]
BoundedRows == [req : Requirements, span : NoSpan..MaxGen]
Shown == [p \in Pairs |-> run[p].claims]

Promise == INSTANCE WorkPromise WITH
  Works <- Pairs, Results <- (SUBSET BoundedRows) \ {{}}, NoResult <- {},
  phase <- Phase, result <- Shown

\* The handler, the queue and the workers implement WorkPromise.
KeepsPromise == Promise!Spec
=============================================================================

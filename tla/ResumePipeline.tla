---------------------------- MODULE ResumePipeline ----------------------------
(***************************************************************************)
(* The life of an uploaded resume: POST /v1/resumes (routes/resumes.py),    *)
(* the object store, the RQ queue and process_resume (worker/pipeline.py),  *)
(* over the rows of resumes and the rows of one analysis (extraction, text  *)
(* spans, findings, skills, pages), which are written and deleted together. *)
(*                                                                          *)
(* A handler is cut at its database round trips and at the call of the      *)
(* object store, a worker job at its transactions and at every object it    *)
(* reads or writes.  An upload inserts at most one row, whose id names the  *)
(* objects in the store and the RQ job: the upload stands for all three.    *)
(***************************************************************************)
EXTENDS Integers, Sequences, FiniteSets

CONSTANTS Files,         \* contents one user uploads, told apart by sha256
          Uploads,       \* calls of POST /v1/resumes, each made once
          Workers,       \* RQ worker processes
          Faults,        \* what may go wrong, see FaultKinds
          LastPage,      \* every file has the pages 1..LastPage
          MaxAttempts    \* bound: times one job runs

FaultKinds == {"storage",       \* the object store refuses an operation
               "document",      \* the parser or the rasteriser gives up on the file
               "lost_enqueue",  \* the API or Redis dies after the commit
               "crash",         \* the API or a worker dies, or RQ's timeout kills a job
               "requeue",       \* an operator requeues a failed RQ job
               "cite"}          \* a match run cites the spans of the analysis

ASSUME ConstantsOK ==
  /\ Faults \subseteq FaultKinds
  /\ LastPage \in Nat \ {0}
  /\ MaxAttempts \in Nat

Pages == 1..LastPage

VARIABLES row,         \* [Files -> [owner, state, code, analyses]], unique (user, sha256)
          cited,       \* files whose spans a met claim cites
          upload,      \* [Uploads -> [pc, file, answer]]
          originals,   \* the original.pdf objects in the store, by upload
          renders,     \* the page images in the store, <<upload, page>>
          queue,       \* the RQ list
          worker,      \* [Workers -> [pc, job, page, code]]
          attempt,     \* [Uploads -> times its job has begun]
          ended        \* [Uploads -> how its job left RQ's hands]

store == <<originals, renders>>
rq == <<queue, ended>>
vars == <<row, cited, upload, originals, renders, queue, worker, attempt, ended>>

NoRow == [owner |-> {}, state |-> "none", code |-> "none", analyses |-> {}]
Idle == [pc |-> "idle", job |-> {}, page |-> 0, code |-> "none"]

FailureCodes == {"none", "extraction_failed", "render_failed", "storage_unavailable"}
Rows == [owner : SUBSET Uploads, state : {"none", "queued", "processing", "completed", "failed"},
         code : FailureCodes, analyses : SUBSET Nat]
Calls == [pc : {"new", "insert", "put", "commit", "enqueue", "answered"}, file : Files,
          answer : {"none", "duplicate", "conflict", "unavailable", "died", "lost", "accepted"}]
WorkerStates == [pc : {"idle", "begin", "fetch", "render", "persist", "fail", "ack"},
                 job : SUBSET Uploads, page : Nat, code : FailureCodes]

TypeOK ==
  /\ row \in [Files -> Rows]
  /\ cited \subseteq Files
  /\ upload \in [Uploads -> Calls]
  /\ originals \subseteq Uploads
  /\ renders \subseteq Uploads \X Pages
  /\ queue \in Seq(Uploads)
  /\ worker \in [Workers -> WorkerStates]
  /\ attempt \in [Uploads -> Nat]
  /\ ended \in [Uploads -> {"no", "killed", "raised"}]

Init ==
  /\ row = [f \in Files |-> NoRow]
  /\ cited = {}
  /\ upload \in [Uploads -> [pc : {"new"}, file : Files, answer : {"none"}]]
  /\ originals = {}
  /\ renders = {}
  /\ queue = <<>>
  /\ worker = [w \in Workers |-> Idle]
  /\ attempt = [u \in Uploads |-> 0]
  /\ ended = [u \in Uploads |-> "no"]

File(u) == upload[u].file

-----------------------------------------------------------------------------
(* upload: the handler of POST /v1/resumes.  Rejected files never get here.  *)

At(u, pc) == upload[u].pc = pc
Goto(u, pc) == upload' = [upload EXCEPT ![u].pc = pc]
Answer(u, a) == upload' = [upload EXCEPT ![u].pc = "answered", ![u].answer = a]

\* The same bytes again: the row is answered as it is, whatever its state.
Check(u) ==
  /\ At(u, "new")
  /\ IF row[File(u)].state = "none" THEN Goto(u, "insert") ELSE Answer(u, "duplicate")
  /\ UNCHANGED <<row, cited, store, rq, worker, attempt>>

\* Calls whose INSERT is flushed and not committed hold the index entry.
Uncommitted(f) == {u \in Uploads : File(u) = f /\ (At(u, "put") \/ At(u, "commit"))}

\* Mutant: no unique index on (user_id, sha256).
Insert_NoIndex(u) ==
  /\ At(u, "insert")
  /\ Goto(u, "put")
  /\ UNCHANGED <<row, cited, store, rq, worker, attempt>>

\* The flush waits for a rival's transaction; a committed rival refuses it.
Insert(u) ==
  /\ At(u, "insert")
  /\ Uncommitted(File(u)) = {}
  /\ IF row[File(u)].state = "none" THEN Goto(u, "put") ELSE Answer(u, "conflict")
  /\ UNCHANGED <<row, cited, store, rq, worker, attempt>>

\* Mutant: an error of the store is logged and the upload goes on.
Put_Swallowed(u) ==
  /\ At(u, "put")
  /\ originals' \in {originals \cup {u}, originals}
  /\ Goto(u, "commit")
  /\ UNCHANGED <<row, cited, renders, rq, worker, attempt>>

\* The original is stored; when that fails the transaction is rolled back.
Put(u) ==
  /\ At(u, "put")
  /\ \/ originals' = originals \cup {u} /\ Goto(u, "commit")
     \/ "storage" \in Faults /\ Answer(u, "unavailable") /\ UNCHANGED originals
  /\ UNCHANGED <<row, cited, renders, rq, worker, attempt>>

Commit(u) ==
  /\ At(u, "commit")
  /\ row' = [row EXCEPT ![File(u)] =
       [owner |-> {u}, state |-> "queued", code |-> "none", analyses |-> {}]]
  /\ Goto(u, "enqueue")
  /\ UNCHANGED <<cited, store, rq, worker, attempt>>

Enqueue(u) ==
  /\ At(u, "enqueue")
  /\ queue' = Append(queue, u)
  /\ Answer(u, "accepted")
  /\ UNCHANGED <<row, cited, store, ended, worker, attempt>>

\* The handler dies.  Before its commit nothing of it but an object remains;
\* after the commit the row is queued and no job was made.
HandlerDies(u) ==
  /\ \/ "crash" \in Faults /\ (At(u, "put") \/ At(u, "commit")) /\ Answer(u, "died")
     \/ "lost_enqueue" \in Faults /\ At(u, "enqueue") /\ Answer(u, "lost")
  /\ UNCHANGED <<row, cited, store, rq, worker, attempt>>

-----------------------------------------------------------------------------
(* process_resume on an RQ worker.                                           *)

Holds(w, u) == worker[w].job = {u}
On(w, u, pc) == worker[w].pc = pc /\ Holds(w, u)
Step(w, pc) == worker' = [worker EXCEPT ![w].pc = pc]
Caught(w, c) == worker' = [worker EXCEPT ![w].pc = "fail", ![w].code = c]

Take(w) ==
  /\ worker[w].pc = "idle"
  /\ queue # <<>>
  /\ worker' = [worker EXCEPT ![w] = [Idle EXCEPT !.pc = "begin", !.job = {Head(queue)}]]
  /\ queue' = Tail(queue)
  /\ UNCHANGED <<row, cited, upload, store, attempt, ended>>

\* Mutant: the rows of the attempt before are deleted at once and not with the
\* last transaction.
Begin_Discards(w, u) ==
  /\ On(w, u, "begin")
  /\ row' = [row EXCEPT ![File(u)].state = "processing", ![File(u)].code = "none",
                        ![File(u)].analyses = {}]
  /\ attempt' = [attempt EXCEPT ![u] = @ + 1]
  /\ Step(w, "fetch")
  /\ UNCHANGED <<cited, upload, store, rq>>

\* The first transaction; it asks for no particular state.
Begin(w, u) ==
  /\ On(w, u, "begin")
  /\ row' = [row EXCEPT ![File(u)].state = "processing", ![File(u)].code = "none"]
  /\ attempt' = [attempt EXCEPT ![u] = @ + 1]
  /\ Step(w, "fetch")
  /\ UNCHANGED <<cited, upload, store, rq>>

\* The original is read from the store and parsed.
Fetch(w, u) ==
  /\ On(w, u, "fetch")
  /\ \/ u \in originals /\ worker' = [worker EXCEPT ![w].pc = "render", ![w].page = 1]
     \/ ("storage" \in Faults \/ u \notin originals) /\ Caught(w, "storage_unavailable")
     \/ "document" \in Faults /\ \E c \in {"extraction_failed", "render_failed"} : Caught(w, c)
  /\ UNCHANGED <<row, cited, upload, store, rq, attempt>>

\* Mutant: one page too many.
NextPage_OneMore(w) ==
  worker' = [worker EXCEPT ![w].page = @ + 1,
                           ![w].pc = IF worker[w].page > LastPage THEN "persist" ELSE "render"]

NextPage(w) ==
  worker' = [worker EXCEPT ![w].page = @ + 1,
                           ![w].pc = IF worker[w].page = LastPage THEN "persist" ELSE "render"]

\* Mutant: a page whose image could not be stored is passed over.
RenderPage_Skips(w, u) ==
  /\ On(w, u, "render")
  /\ renders' \in {renders, renders \cup {<<u, worker[w].page>>}}
  /\ NextPage(w)
  /\ UNCHANGED <<row, cited, upload, originals, rq, attempt>>

\* Mutant: when an image could not be stored the job starts over.
RenderPage_StartsOver(w, u) ==
  /\ On(w, u, "render")
  /\ \/ renders' = renders \cup {<<u, worker[w].page>>} /\ NextPage(w)
     \/ "storage" \in Faults /\ Step(w, "fetch") /\ UNCHANGED renders
  /\ UNCHANGED <<row, cited, upload, originals, rq, attempt>>

\* One page is rasterised and its image stored, under a key without the attempt.
\* What the rasteriser raises is a RenderFailed or, of MuPDF, a RuntimeError.
RenderPage(w, u) ==
  /\ On(w, u, "render")
  /\ \/ renders' = renders \cup {<<u, worker[w].page>>} /\ NextPage(w)
     \/ /\ \/ "storage" \in Faults /\ Caught(w, "storage_unavailable")
           \/ /\ "document" \in Faults
              /\ \E c \in {"extraction_failed", "render_failed"} : Caught(w, c)
        /\ UNCHANGED renders
  /\ UNCHANGED <<row, cited, upload, originals, rq, attempt>>

\* Mutant: the rows of the attempt before are kept.
Persist_Appends(w, u) ==
  /\ On(w, u, "persist")
  /\ row' = [row EXCEPT ![File(u)].state = "completed", ![File(u)].code = "none",
                        ![File(u)].analyses = @ \cup {attempt[u]}]
  /\ Step(w, "ack")
  /\ UNCHANGED <<cited, upload, store, rq, attempt>>

\* The last transaction: the rows of any attempt before are deleted, the new
\* ones written and the resume completed.
Persist(w, u) ==
  /\ On(w, u, "persist")
  /\ File(u) \notin cited
  /\ row' = [row EXCEPT ![File(u)].state = "completed", ![File(u)].code = "none",
                        ![File(u)].analyses = {attempt[u]}]
  /\ Step(w, "ack")
  /\ UNCHANGED <<cited, upload, store, rq, attempt>>

\* A detector cannot decide: run(document) raises before the last transaction.
AnalysisFails(w, u) ==
  /\ "document" \in Faults
  /\ On(w, u, "persist")
  /\ Caught(w, "extraction_failed")
  /\ UNCHANGED <<row, cited, upload, store, rq, attempt>>

\* The spans to delete are cited by a met claim: ON DELETE SET NULL runs into
\* the CHECK on claims, the transaction is rolled back and the IntegrityError,
\* which process_resume does not catch, leaves the job.
PersistRaises(w, u) ==
  /\ On(w, u, "persist")
  /\ File(u) \in cited
  /\ worker' = [worker EXCEPT ![w] = Idle]
  /\ ended' = [ended EXCEPT ![u] = "raised"]
  /\ UNCHANGED <<row, cited, upload, store, queue, attempt>>

\* Mutant: the exception is logged and the row left in progress.
Fail_Silent(w, u) ==
  /\ On(w, u, "fail")
  /\ Step(w, "ack")
  /\ UNCHANGED <<row, cited, upload, store, rq, attempt>>

\* _fail: the code of the exception that was caught.
Fail(w, u) ==
  /\ On(w, u, "fail")
  /\ row' = [row EXCEPT ![File(u)].state = "failed", ![File(u)].code = worker[w].code]
  /\ Step(w, "ack")
  /\ UNCHANGED <<cited, upload, store, rq, attempt>>

Ack(w) ==
  /\ worker[w].pc = "ack"
  /\ worker' = [worker EXCEPT ![w] = Idle]
  /\ UNCHANGED <<row, cited, upload, store, rq, attempt>>

\* The worker dies or RQ kills the job: nothing in the database or store changes.
Crash(w, u) ==
  /\ "crash" \in Faults
  /\ Holds(w, u)
  /\ worker' = [worker EXCEPT ![w] = Idle]
  /\ ended' = [ended EXCEPT ![u] = "killed"]
  /\ UNCHANGED <<row, cited, upload, store, queue, attempt>>

Requeue(u) ==
  /\ "requeue" \in Faults
  /\ ended[u] # "no"
  /\ attempt[u] < MaxAttempts
  /\ ended' = [ended EXCEPT ![u] = "no"]
  /\ queue' = Append(queue, u)
  /\ UNCHANGED <<row, cited, upload, store, worker, attempt>>

\* A match run on the analysis completes with a met claim (MatchRuns).
Cite(f) ==
  /\ "cite" \in Faults
  /\ row[f].analyses # {}
  /\ cited' = cited \cup {f}
  /\ UNCHANGED <<row, upload, store, rq, worker, attempt>>

-----------------------------------------------------------------------------

Handle(u) == Check(u) \/ Insert(u) \/ Put(u) \/ Commit(u) \/ Enqueue(u) \/ HandlerDies(u)

Serve(w) ==
  \/ Take(w)
  \/ Ack(w)
  \/ \E u \in Uploads : \/ Begin(w, u) \/ Fetch(w, u) \/ RenderPage(w, u) \/ Persist(w, u)
                        \/ AnalysisFails(w, u) \/ PersistRaises(w, u) \/ Fail(w, u)

Next ==
  \/ \E u \in Uploads : Handle(u) \/ Requeue(u)
  \/ \E w \in Workers : Serve(w) \/ \E u \in Uploads : Crash(w, u)
  \/ \E f \in Files : Cite(f)

SafeSpec == Init /\ [][Next]_vars

\* A handler that was entered runs on and a worker keeps serving; nobody owes
\* an upload, a requeue or a match.
Entered(u) == upload[u].pc \notin {"new", "answered"}
Fairness ==
  /\ \A u \in Uploads : WF_vars(Handle(u) /\ Entered(u))
  /\ \A w \in Workers : WF_vars(Serve(w))

Spec == SafeSpec /\ Fairness
-----------------------------------------------------------------------------
(* What must hold through crashes, requeues and a failing store.             *)

\* The same bytes make one row and one job, however many calls overlap: the
\* expensive analysis is paid for once.
OnePerFile ==
  \A u, v \in Uploads :
    /\ File(u) = File(v)
    /\ {upload[u].answer, upload[v].answer} \subseteq {"accepted", "lost"}
    => u = v

\* A committed row has its original in the store, since the row is committed
\* after the object was written and never the other way round.
CommittedHasOriginal ==
  \A f \in Files : row[f].owner \subseteq originals

\* A completed resume shows the rows of exactly one attempt and every page
\* image of it; another attempt never doubles a finding.
CompletedIsViewable ==
  \A f \in Files :
    /\ Cardinality(row[f].analyses) <= 1
    /\ row[f].state = "completed" =>
         /\ row[f].analyses # {}
         /\ row[f].owner \X Pages \subseteq renders

\* The RQ job has not started: queued, popped, or in the failed registry.
InQueue(u) == \E i \in DOMAIN queue : queue[i] = u
JobWaits(u) == InQueue(u) \/ ended[u] # "no" \/ \E w \in Workers : On(w, u, "begin")
BeingWorkedOn(u) ==
  \E w \in Workers : Holds(w, u) /\ worker[w].pc \in {"fetch", "render", "persist", "fail"}

\* A resume in flight has a job somewhere, or its uploader was told otherwise.
InFlightIsCarried ==
  \A f \in Files : \A u \in row[f].owner :
    /\ row[f].state = "queued" =>
         At(u, "enqueue") \/ JobWaits(u) \/ upload[u].answer = "lost"
    /\ row[f].state = "processing" => BeingWorkedOn(u) \/ JobWaits(u)

\* What settled a resume is final but for one thing: its own job, killed after the
\* transaction or left by an exception, and put back by an operator.  It begins
\* once more, and until it ends the rows of the analysis stay what they were.  No
\* other call, no repetition and no fault touches a row that spans are cited from.
SettledIsFinal ==
  [][\A f \in Files :
       row[f].state \in {"completed", "failed"} /\ row'[f] # row[f] =>
         /\ row'[f] = [row[f] EXCEPT !.state = "processing", !.code = "none"]
         /\ \A u \in row[f].owner : attempt[u] > 0 /\ attempt'[u] = attempt[u] + 1]_vars

\* A resume in flight is completed or failed in the end, whatever store and
\* documents do and whatever happens to other jobs, unless its own enqueue was
\* lost or its own job killed or left by an exception.
ResumesSettle ==
  \A f \in Files :
    row[f].state \in {"queued", "processing"} ~>
      \/ row[f].state \in {"completed", "failed"}
      \/ \E u \in row[f].owner : ended[u] # "no" \/ upload[u].answer = "lost"

-----------------------------------------------------------------------------
(* The promise to the uploader.  Unless jobs are both killed and requeued,      *)
(* handler, queue and worker implement WorkPromise.                             *)

Phase == [f \in Files |->
  CASE row[f].state = "none"                      -> "absent"
    [] row[f].state \in {"queued", "processing"} -> "open"
    [] row[f].state = "failed"                    -> "given_up"
    [] row[f].state = "completed"                 -> "decided"]
Analyses == [f \in Files |-> row[f].analyses]

Promise == INSTANCE WorkPromise WITH
  Works <- Files, Results <- {{n} : n \in 1..MaxAttempts}, NoResult <- {},
  phase <- Phase, result <- Analyses
===============================================================================

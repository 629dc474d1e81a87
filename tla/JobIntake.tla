------------------------------ MODULE JobIntake ------------------------------
(***************************************************************************)
(* The life of a job description: POST /v1/jobs (routes/jobs.py),           *)
(* process_job_description (worker/jd_pipeline.py) and the extraction of    *)
(* its requirements (worker/requirement_extraction.py), over the rows of    *)
(* job_descriptions and requirements, and of prompt_versions                *)
(* (llm/prompts.py), which the first extraction seeds.                      *)
(*                                                                          *)
(* A row is told from the others of a user by the sha256 of its normalized  *)
(* text.  The API computes that text from the text layer of each page, the  *)
(* worker computes it again from the spans and stores the new one: a        *)
(* document is what the two of them make of it.  Each call inserts at most  *)
(* one row, which the call names.                                           *)
(***************************************************************************)
EXTENDS Integers, Sequences, FiniteSets

CONSTANTS Texts,         \* normalized texts
          Calls,         \* calls of POST /v1/jobs by one user, each made once
          Workers,       \* RQ worker processes
          Faults,        \* what may go wrong, see FaultKinds
          MaxAttempts    \* bound: times one job runs

FaultKinds == {"storage",       \* the object store refuses an operation
               "document",      \* the parser, the rasteriser or a limit refuses the file
               "llm",           \* the extraction call fails or is refused
               "lost_enqueue",  \* the API or Redis dies after the commit
               "crash",         \* the API or a worker dies, or RQ's timeout kills a job
               "requeue"}       \* an operator requeues a failed RQ job

ASSUME ConstantsOK == Faults \subseteq FaultKinds /\ MaxAttempts \in Nat

\* Pasted text, or a PDF with what API and worker read in it.
Documents == [source : {"pasted"}, text : Texts, spans : {"none"}]
             \cup [source : {"uploaded"}, text : Texts, spans : Texts]

VARIABLES row,        \* [Calls -> [state, code, text, reqs]]
          call,       \* [Calls -> [pc, doc, answer]]
          originals,  \* the original.pdf objects in the store, by call
          seeded,     \* prompt_versions has the version of the extraction prompt
          queue,      \* the RQ list
          worker,     \* [Workers -> [pc, job, text, code]]
          attempt,    \* [Calls -> times its job has begun]
          ended       \* [Calls -> how its job left RQ's hands]

rq == <<queue, ended>>
vars == <<row, call, originals, seeded, queue, worker, attempt, ended>>

\* reqs holds the text the stored requirements quote, or nothing when none was kept.
NoRow == [state |-> "none", code |-> "none", text |-> "none", reqs |-> {}]
Idle == [pc |-> "idle", job |-> {}, text |-> "none", code |-> "none"]

States == {"none", "queued", "processing", "completed", "failed"}
FailureCodes == {"none", "extraction_failed", "storage_unavailable", "llm_failed"}
CallRows == [pc : {"new", "insert", "put", "commit", "enqueue", "answered"}, doc : Documents,
             answer : {"none", "duplicate", "conflict", "unavailable", "died", "lost",
                       "accepted"}]
Rows == [state : States, code : FailureCodes, text : Texts \cup {"none"}, reqs : SUBSET Texts]
WorkerStates ==
  [pc : {"idle", "begin", "fetch", "retext", "load", "seed", "ask", "save", "refuse", "fail",
         "ack"},
   job : SUBSET Calls, text : Texts \cup {"none"}, code : FailureCodes]

TypeOK ==
  /\ row \in [Calls -> Rows]
  /\ call \in [Calls -> CallRows]
  /\ originals \subseteq Calls /\ seeded \in BOOLEAN
  /\ queue \in Seq(Calls)
  /\ worker \in [Workers -> WorkerStates]
  /\ attempt \in [Calls -> Nat]
  /\ ended \in [Calls -> {"no", "killed", "raised"}]

Init ==
  /\ row = [c \in Calls |-> NoRow]
  /\ call \in [Calls -> [pc : {"new"}, doc : Documents, answer : {"none"}]]
  /\ originals = {} /\ seeded \in BOOLEAN
  /\ queue = <<>>
  /\ worker = [w \in Workers |-> Idle]
  /\ attempt = [c \in Calls |-> 0]
  /\ ended = [c \in Calls |-> "no"]

Doc(c) == call[c].doc
Pasted(c) == Doc(c).source = "pasted"

-----------------------------------------------------------------------------
(* create_job: the handler of POST /v1/jobs.  What normalization or the PDF  *)
(* check rejects never gets here.                                            *)

At(c, pc) == call[c].pc = pc
Goto(c, pc) == call' = [call EXCEPT ![c].pc = pc]
Answer(c, a) == call' = [call EXCEPT ![c].pc = "answered", ![c].answer = a]

\* Rows of the unique index (user_id, sha256): committed ones, and those a
\* handler has flushed and not yet committed.
Holders(t) == {c \in Calls : row[c].state # "none" /\ row[c].text = t}
Uncommitted(t) == {c \in Calls : Doc(c).text = t /\ (At(c, "put") \/ At(c, "commit"))}

Check(c) ==
  /\ At(c, "new")
  /\ IF Holders(Doc(c).text) = {} THEN Goto(c, "insert") ELSE Answer(c, "duplicate")
  /\ UNCHANGED <<row, originals, seeded, rq, worker, attempt>>

Insert(c) ==
  /\ At(c, "insert")
  /\ Uncommitted(Doc(c).text) = {}
  /\ IF Holders(Doc(c).text) # {} THEN Answer(c, "conflict")
     ELSE Goto(c, IF Pasted(c) THEN "commit" ELSE "put")
  /\ UNCHANGED <<row, originals, seeded, rq, worker, attempt>>

Put(c) ==
  /\ At(c, "put")
  /\ \/ originals' = originals \cup {c} /\ Goto(c, "commit")
     \/ "storage" \in Faults /\ Answer(c, "unavailable") /\ UNCHANGED originals
  /\ UNCHANGED <<row, seeded, rq, worker, attempt>>

\* A pasted description is stored completed and no job is made for it.
Commit(c) ==
  /\ At(c, "commit")
  /\ row' = [row EXCEPT ![c] = [NoRow EXCEPT
       !.text = Doc(c).text, !.state = IF Pasted(c) THEN "completed" ELSE "queued"]]
  /\ IF Pasted(c) THEN Answer(c, "accepted") ELSE Goto(c, "enqueue")
  /\ UNCHANGED <<originals, seeded, rq, worker, attempt>>

Enqueue(c) ==
  /\ At(c, "enqueue")
  /\ queue' = Append(queue, c)
  /\ Answer(c, "accepted")
  /\ UNCHANGED <<row, originals, seeded, ended, worker, attempt>>

\* The handler dies: before its commit nothing of it but an object remains,
\* after the commit the row is queued and no job was made.
HandlerDies(c) ==
  /\ \/ "crash" \in Faults /\ (At(c, "put") \/ At(c, "commit")) /\ Answer(c, "died")
     \/ "lost_enqueue" \in Faults /\ At(c, "enqueue") /\ Answer(c, "lost")
  /\ UNCHANGED <<row, originals, seeded, rq, worker, attempt>>

-----------------------------------------------------------------------------
(* process_job_description on an RQ worker.                                  *)

Holds(w, c) == worker[w].job = {c}
On(w, c, pc) == worker[w].pc = pc /\ Holds(w, c)
Step(w, pc) == worker' = [worker EXCEPT ![w].pc = pc]
\* Mutant: a code the rows of job_descriptions do not know.
Caught_Foreign(w, code) == worker' = [worker EXCEPT ![w].pc = "fail", ![w].code = "render_failed"]
Caught(w, code) == worker' = [worker EXCEPT ![w].pc = "fail", ![w].code = code]
Ends(w, c, how) ==
  /\ worker' = [worker EXCEPT ![w] = Idle]
  /\ ended' = [ended EXCEPT ![c] = how]

Take(w) ==
  /\ worker[w].pc = "idle"
  /\ queue # <<>>
  /\ worker' = [worker EXCEPT ![w] = [Idle EXCEPT !.pc = "begin", !.job = {Head(queue)}]]
  /\ queue' = Tail(queue)
  /\ UNCHANGED <<row, call, originals, seeded, attempt, ended>>

\* Mutant: a completed description is processed like any other.
Begin_Redoes(w, c) ==
  /\ On(w, c, "begin")
  /\ row' = [row EXCEPT ![c].state = "processing", ![c].code = "none"]
  /\ attempt' = [attempt EXCEPT ![c] = @ + 1]
  /\ Step(w, "fetch")
  /\ UNCHANGED <<call, originals, seeded, rq>>

\* The first transaction.
Begin(w, c) ==
  /\ On(w, c, "begin")
  /\ attempt' = [attempt EXCEPT ![c] = @ + 1]
  /\ \/ row[c].state = "completed" /\ Step(w, "ack") /\ UNCHANGED row
     \/ /\ row[c].state # "completed"
        /\ row' = [row EXCEPT ![c].state = "processing", ![c].code = "none"]
        /\ Step(w, "fetch")
  /\ UNCHANGED <<call, originals, seeded, rq>>

\* The original is read, parsed, scanned and normalized again.
Fetch(w, c) ==
  /\ On(w, c, "fetch")
  /\ \/ c \in originals /\ Step(w, "retext")
     \/ ("storage" \in Faults \/ c \notin originals) /\ Caught(w, "storage_unavailable")
     \/ "document" \in Faults /\ Caught(w, "extraction_failed")
  /\ UNCHANGED <<row, call, originals, seeded, rq, attempt>>

\* RenderFailed is none of the exceptions the handlers name.
FetchRaises(w, c) ==
  /\ "document" \in Faults
  /\ On(w, c, "fetch")
  /\ Ends(w, c, "raised")
  /\ UNCHANGED <<row, call, originals, seeded, queue, attempt>>

\* The text, and with it the sha256, becomes the one the spans give.
Retext(w, c) ==
  /\ On(w, c, "retext")
  /\ Uncommitted(Doc(c).spans) = {}
  /\ Holders(Doc(c).spans) \subseteq {c}
  /\ row' = [row EXCEPT ![c].text = Doc(c).spans, ![c].code = "none"]
  /\ Step(w, "load")
  /\ UNCHANGED <<call, originals, seeded, rq, attempt>>

\* Another row has that sha256: the unique index refuses the update, and the
\* IntegrityError leaves the job.
RetextRaises(w, c) ==
  /\ On(w, c, "retext")
  /\ Holders(Doc(c).spans) \ {c} # {}
  /\ Ends(w, c, "raised")
  /\ UNCHANGED <<row, call, originals, seeded, queue, attempt>>

\* Mutant: requirements are extracted from the text the API read.
Load_Received(w, c) ==
  /\ On(w, c, "load")
  /\ worker' = [worker EXCEPT ![w].pc = IF seeded THEN "ask" ELSE "seed",
                             ![w].text = Doc(c).text]
  /\ UNCHANGED <<row, call, originals, seeded, rq, attempt>>

\* extract_job_requirements, first transaction: the text is read, and the prompt
\* version looked up.
Load(w, c) ==
  /\ On(w, c, "load")
  /\ worker' = [worker EXCEPT ![w].pc = IF seeded THEN "ask" ELSE "seed",
                             ![w].text = row[c].text]
  /\ UNCHANGED <<row, call, originals, seeded, rq, attempt>>

\* There was none: it is inserted.  The insert waits for another worker's to
\* commit, so that the two are one step, and is then refused by the unique index;
\* the IntegrityError leaves the job.
Seed(w, c) ==
  /\ On(w, c, "seed")
  /\ \/ seeded /\ Ends(w, c, "raised") /\ UNCHANGED seeded
     \/ ~seeded /\ seeded' = TRUE /\ Step(w, "ask") /\ UNCHANGED ended
  /\ UNCHANGED <<row, call, originals, queue, attempt>>

\* The model call, outside any transaction; whatever it raises is caught.
Ask(w, c) ==
  /\ On(w, c, "ask")
  /\ Step(w, "save") \/ ("llm" \in Faults /\ Step(w, "refuse"))
  /\ UNCHANGED <<row, call, originals, seeded, rq, attempt>>

\* Mutant: the row is left in progress when no requirement passes the
\* provenance check.
Save_NeedsOne(w, c) ==
  /\ On(w, c, "save")
  /\ \/ row' = [row EXCEPT ![c].state = "completed", ![c].code = "none",
                           ![c].reqs = {worker[w].text}]
     \/ UNCHANGED row
  /\ Step(w, "ack")
  /\ UNCHANGED <<call, originals, seeded, rq, attempt>>

\* The last transaction: requirements whose quote is in the text read replace
\* those of any attempt before; none may be left.
Save(w, c) ==
  /\ On(w, c, "save")
  /\ \E kept \in {{worker[w].text}, {}} :
       row' = [row EXCEPT ![c].state = "completed", ![c].code = "none", ![c].reqs = kept]
  /\ Step(w, "ack")
  /\ UNCHANGED <<call, originals, seeded, rq, attempt>>

\* _record_failed_job; process_job_description does not look at the result and
\* reports "completed".
Refuse(w, c) ==
  /\ On(w, c, "refuse")
  /\ row' = [row EXCEPT ![c].state = "failed", ![c].code = "llm_failed"]
  /\ Step(w, "ack")
  /\ UNCHANGED <<call, originals, seeded, rq, attempt>>

\* _fail_jd
Fail(w, c) ==
  /\ On(w, c, "fail")
  /\ row' = [row EXCEPT ![c].state = "failed", ![c].code = worker[w].code]
  /\ Step(w, "ack")
  /\ UNCHANGED <<call, originals, seeded, rq, attempt>>

Ack(w) ==
  /\ worker[w].pc = "ack"
  /\ worker' = [worker EXCEPT ![w] = Idle]
  /\ UNCHANGED <<row, call, originals, seeded, rq, attempt>>

Crash(w, c) ==
  /\ "crash" \in Faults
  /\ Holds(w, c)
  /\ Ends(w, c, "killed")
  /\ UNCHANGED <<row, call, originals, seeded, queue, attempt>>

Requeue(c) ==
  /\ "requeue" \in Faults
  /\ ended[c] # "no"
  /\ attempt[c] < MaxAttempts
  /\ ended' = [ended EXCEPT ![c] = "no"]
  /\ queue' = Append(queue, c)
  /\ UNCHANGED <<row, call, originals, seeded, worker, attempt>>

-----------------------------------------------------------------------------

Handle(c) == Check(c) \/ Insert(c) \/ Put(c) \/ Commit(c) \/ Enqueue(c) \/ HandlerDies(c)

Serve(w) ==
  \/ Take(w)
  \/ Ack(w)
  \/ \E c \in Calls :
       \/ Begin(w, c) \/ Fetch(w, c) \/ FetchRaises(w, c) \/ Retext(w, c) \/ RetextRaises(w, c)
       \/ Load(w, c) \/ Seed(w, c) \/ Ask(w, c) \/ Save(w, c) \/ Refuse(w, c) \/ Fail(w, c)

Next ==
  \/ \E c \in Calls : Handle(c) \/ Requeue(c)
  \/ \E w \in Workers : Serve(w) \/ \E c \in Calls : Crash(w, c)

SafeSpec == Init /\ [][Next]_vars

\* A handler that was entered runs on and a worker keeps serving.
Entered(c) == call[c].pc \notin {"new", "answered"}
Fairness ==
  /\ \A c \in Calls : WF_vars(Handle(c) /\ Entered(c))
  /\ \A w \in Workers : WF_vars(Serve(w))

Spec == SafeSpec /\ Fairness
-----------------------------------------------------------------------------

\* A completed description never changes again, through crashes and requeues:
\* match runs read it in one transaction and write claims on its requirements
\* in another, minutes later (MatchRuns relies on it).
CompletedIsFrozen ==
  [][\A c \in Calls : row[c].state = "completed" => row'[c] = row[c]]_vars

\* The offsets of a stored requirement index the text stored with it, although
\* worker and API read different texts and the model is asked in between.
QuotesMatchText ==
  \A c \in Calls : row[c].reqs \subseteq {row[c].text}

\* An uploaded description is completed or failed in the end, unless its enqueue
\* was lost or its job was killed or left by an exception: of the rasteriser, of
\* the index on the texts, or of two workers seeding the prompt version at once.
UploadsSettle ==
  \A c \in Calls :
    row[c].state \in {"queued", "processing"} ~>
      row[c].state \in {"completed", "failed"} \/ ended[c] # "no" \/ call[c].answer = "lost"

-----------------------------------------------------------------------------

\* "Duplicate PDF upload returns existing job and does not re-enqueue."
DuplicateIsFound ==
  \A c, d \in Calls :
    c # d /\ Doc(c) = Doc(d) /\ ~Pasted(c)
      => {call[c].answer, call[d].answer} # {"accepted"}
==============================================================================

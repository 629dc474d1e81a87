------------------------------- MODULE JobProofs -------------------------------
(***************************************************************************)
(* What TLAPS proves of JobIntake for every set of texts, calls and workers,*)
(* any number of attempts and whatever Faults allows: a job is in one place *)
(* at a time, hence requirements quote the text stored with them and a      *)
(* completed description is never written again.                            *)
(***************************************************************************)
EXTENDS JobIntake, TLAPS

-----------------------------------------------------------------------------
(* The inductive invariant.                                                    *)

\* An answer ends a call.  Its row is there from its commit on, and only an
\* uploaded description is enqueued.
CallsInOrder ==
  \A c \in Calls :
    /\ call[c].answer # "none" => At(c, "answered")
    /\ row[c].state # "none" => At(c, "enqueue") \/ At(c, "answered")
    /\ At(c, "enqueue") \/ call[c].answer = "accepted" => row[c].text \in Texts
    /\ At(c, "enqueue") => ~Pasted(c)

\* Where the RQ job of a call can be.
InQueue(c) == \E i \in DOMAIN queue : queue[i] = c
Held(w, c) == c \in worker[w].job
HasJob(c) == InQueue(c) \/ ended[c] # "no" \/ \E w \in Workers : Held(w, c)

\* A job is made of an accepted upload, and is in one place at a time: one entry
\* of the queue, one worker, or the failed registry.
JobsAccepted == \A c \in Calls : HasJob(c) => call[c].answer = "accepted" /\ ~Pasted(c)
QueuedOnce == \A i, j \in DOMAIN queue : queue[i] = queue[j] => i = j
JobOnce ==
  /\ QueuedOnce
  /\ \A c \in Calls : InQueue(c) => ended[c] = "no" /\ \A w \in Workers : ~Held(w, c)
  /\ \A c \in Calls : ended[c] # "no" => \A w \in Workers : ~Held(w, c)
  /\ \A c \in Calls, w, x \in Workers : Held(w, c) /\ Held(x, c) => w = x
OneJob == JobsAccepted /\ JobOnce

\* The description a worker is busy with is in progress, and the text it was
\* given is still the one stored.
Busy == {"fetch", "retext", "load", "seed", "ask", "save", "refuse", "fail"}
InHand ==
  \A w \in Workers, c \in Calls : Held(w, c) =>
    /\ worker[w].pc \in Busy => row[c].state = "processing"
    /\ worker[w].pc \in {"seed", "ask", "save"} => worker[w].text = row[c].text

\* Requirements are stored by the transaction that completes the description.
QuotesLast ==
  /\ \A c \in Calls : row[c].reqs # {} => row[c].state = "completed"
  /\ QuotesMatchText

JobInv == TypeOK /\ CallsInOrder /\ OneJob /\ InHand /\ QuotesLast

-----------------------------------------------------------------------------
(* What a step does to a call, a worker and a row, as facts about their fields. *)

LEMMA GotoEffect ==
  ASSUME TypeOK, NEW c \in Calls, NEW pc \in {"insert", "put", "commit", "enqueue"}, Goto(c, pc)
  PROVE  /\ call' \in [Calls -> CallRows]
         /\ call'[c].pc = pc /\ call'[c].doc = call[c].doc /\ call'[c].answer = call[c].answer
         /\ \A d \in Calls \ {c} : call'[d] = call[d]
  BY DEF TypeOK, Goto, CallRows

LEMMA AnswerEffect ==
  ASSUME TypeOK, NEW c \in Calls,
         NEW a \in {"duplicate", "conflict", "unavailable", "died", "lost", "accepted"},
         Answer(c, a)
  PROVE  /\ call' \in [Calls -> CallRows]
         /\ call'[c].pc = "answered" /\ call'[c].doc = call[c].doc /\ call'[c].answer = a
         /\ \A d \in Calls \ {c} : call'[d] = call[d]
<1>1. call' \in [Calls -> CallRows]
  BY ZenonT(30) DEF TypeOK, Answer, CallRows
<1>2. /\ call'[c].pc = "answered" /\ call'[c].doc = call[c].doc /\ call'[c].answer = a
      /\ \A d \in Calls \ {c} : call'[d] = call[d]
  BY DEF TypeOK, Answer, CallRows
<1> QED
  BY <1>1, <1>2

LEMMA StepEffect ==
  ASSUME TypeOK, NEW w \in Workers,
         NEW pc \in {"fetch", "retext", "load", "seed", "ask", "save", "refuse", "ack"},
         Step(w, pc)
  PROVE  /\ worker' \in [Workers -> WorkerStates]
         /\ worker'[w].pc = pc /\ worker'[w].job = worker[w].job
         /\ worker'[w].text = worker[w].text
         /\ \A x \in Workers \ {w} : worker'[x] = worker[x]
  BY DEF TypeOK, Step, WorkerStates

LEMMA CaughtEffect ==
  ASSUME TypeOK, NEW w \in Workers, NEW code \in FailureCodes, Caught(w, code)
  PROVE  /\ worker' \in [Workers -> WorkerStates]
         /\ worker'[w].pc = "fail" /\ worker'[w].job = worker[w].job
         /\ \A x \in Workers \ {w} : worker'[x] = worker[x]
  BY DEF TypeOK, Caught, WorkerStates

LEMMA LoadEffect ==
  ASSUME TypeOK, NEW w \in Workers, NEW c \in Calls, Load(w, c)
  PROVE  /\ worker' \in [Workers -> WorkerStates]
         /\ worker'[w].pc \in {"seed", "ask"} /\ worker'[w].job = worker[w].job
         /\ worker'[w].text = row[c].text
         /\ \A x \in Workers \ {w} : worker'[x] = worker[x]
<1> DEFINE pc == IF seeded THEN "ask" ELSE "seed"
           text == row[c].text
<1>1. pc \in {"seed", "ask"} /\ text \in Texts \cup {"none"}
  BY DEF TypeOK, Rows
<1>2. worker' = [worker EXCEPT ![w].pc = pc, ![w].text = text]
  BY DEF Load
<1> HIDE DEF pc, text
<1>3. /\ worker' \in [Workers -> WorkerStates]
      /\ worker'[w].pc \in {"seed", "ask"} /\ worker'[w].job = worker[w].job
      /\ worker'[w].text = text
      /\ \A x \in Workers \ {w} : worker'[x] = worker[x]
  BY <1>1, <1>2 DEF TypeOK, WorkerStates
<1> QED
  BY <1>3 DEF text

(* A worker that lets go of its job is idle.                                   *)
LEMMA IdleEffect ==
  ASSUME TypeOK, NEW w \in Workers, worker' = [worker EXCEPT ![w] = Idle]
  PROVE  /\ worker' \in [Workers -> WorkerStates]
         /\ worker'[w].pc = "idle" /\ worker'[w].job = {}
         /\ \A x \in Workers \ {w} : worker'[x] = worker[x]
  BY DEF TypeOK, Idle, WorkerStates, FailureCodes

LEMMA EndsEffect ==
  ASSUME TypeOK, NEW w \in Workers, NEW c \in Calls, NEW how \in {"killed", "raised"},
         Ends(w, c, how)
  PROVE  /\ worker' \in [Workers -> WorkerStates]
         /\ worker'[w].pc = "idle" /\ worker'[w].job = {}
         /\ \A x \in Workers \ {w} : worker'[x] = worker[x]
         /\ ended' \in [Calls -> {"no", "killed", "raised"}]
         /\ ended'[c] # "no" /\ \A d \in Calls \ {c} : ended'[d] = ended[d]
<1>1. ended' \in [Calls -> {"no", "killed", "raised"}]
  BY DEF TypeOK, Ends
<1>2. ended'[c] # "no" /\ \A d \in Calls \ {c} : ended'[d] = ended[d]
  BY DEF TypeOK, Ends
<1> QED
  BY <1>1, <1>2, IdleEffect DEF Ends

LEMMA TakeEffect ==
  ASSUME TypeOK, NEW w \in Workers, Take(w)
  PROVE  /\ Head(queue) \in Calls /\ queue' \in Seq(Calls)
         /\ worker' \in [Workers -> WorkerStates]
         /\ worker'[w].pc = "begin" /\ worker'[w].job = {Head(queue)}
         /\ \A x \in Workers \ {w} : worker'[x] = worker[x]
<1>1. Head(queue) \in Calls /\ queue' \in Seq(Calls)
  BY DEF TypeOK, Take
<1> QED
  BY <1>1 DEF TypeOK, Take, Idle, WorkerStates, FailureCodes

(* Only the row of the job is written.  Save keeps requirements of the text the *)
(* worker was given, or none.                                                   *)
LEMMA RowEffect ==
  ASSUME TypeOK, NEW c \in Calls, NEW r \in Rows, row' = [row EXCEPT ![c] = r]
  PROVE  row' \in [Calls -> Rows] /\ row'[c] = r /\ \A d \in Calls \ {c} : row'[d] = row[d]
  BY DEF TypeOK

LEMMA CommitRow ==
  ASSUME TypeOK, NEW c \in Calls, Commit(c)
  PROVE  /\ row' \in [Calls -> Rows] /\ \A d \in Calls \ {c} : row'[d] = row[d]
         /\ row'[c].text \in Texts /\ row'[c].reqs = {}
<1> DEFINE s == IF Pasted(c) THEN "completed" ELSE "queued"
           r == [NoRow EXCEPT !.text = Doc(c).text, !.state = s]
<1>1. Doc(c).text \in Texts
  BY DEF TypeOK, CallRows, Documents, Doc
<1>2. s \in States
  BY DEF States
<1>3. row' = [row EXCEPT ![c] = r]
  BY DEF Commit
<1> HIDE DEF s
<1>4. r \in Rows /\ r.text \in Texts /\ r.reqs = {}
  BY <1>1, <1>2 DEF NoRow, Rows, FailureCodes
<1> HIDE DEF r
<1> QED
  BY <1>3, <1>4, RowEffect

LEMMA BeginRow ==
  ASSUME TypeOK, NEW c \in Calls,
         row' = [row EXCEPT ![c].state = "processing", ![c].code = "none"]
  PROVE  /\ row' \in [Calls -> Rows] /\ \A d \in Calls \ {c} : row'[d] = row[d]
         /\ row'[c].state = "processing"
         /\ row'[c].text = row[c].text /\ row'[c].reqs = row[c].reqs
  BY ZenonT(30) DEF TypeOK, Rows, States, FailureCodes

LEMMA RetextRow ==
  ASSUME TypeOK, NEW w \in Workers, NEW c \in Calls, Retext(w, c), ~Pasted(c)
  PROVE  /\ row' \in [Calls -> Rows] /\ \A d \in Calls \ {c} : row'[d] = row[d]
         /\ row'[c].state = row[c].state /\ row'[c].reqs = row[c].reqs
         /\ row'[c].text \in Texts
<1>1. Doc(c).spans \in Texts
  BY DEF TypeOK, CallRows, Documents, Doc, Pasted
<1>2. row' = [row EXCEPT ![c].text = Doc(c).spans, ![c].code = "none"]
  BY DEF Retext
<1> QED
  BY <1>1, <1>2 DEF TypeOK, Rows, FailureCodes

LEMMA SaveRow ==
  ASSUME TypeOK, NEW w \in Workers, NEW c \in Calls, Save(w, c), worker[w].text \in Texts
  PROVE  /\ row' \in [Calls -> Rows] /\ \A d \in Calls \ {c} : row'[d] = row[d]
         /\ row'[c].state = "completed" /\ row'[c].text = row[c].text
         /\ row'[c].reqs \subseteq {worker[w].text}
<1>1. PICK kept \in {{worker[w].text}, {}} :
        row' = [row EXCEPT ![c].state = "completed", ![c].code = "none", ![c].reqs = kept]
  BY DEF Save
<1>2. kept \in SUBSET Texts /\ kept \subseteq {worker[w].text}
  BY <1>1
<1> DEFINE r == [row[c] EXCEPT !.state = "completed", !.code = "none", !.reqs = kept]
<1>3. /\ r \in Rows /\ r.state = "completed" /\ r.text = row[c].text
      /\ r.reqs \subseteq {worker[w].text}
  BY <1>2 DEF TypeOK, Rows, States, FailureCodes
<1>4. row' = [row EXCEPT ![c] = r]
  BY <1>1 DEF TypeOK
<1> HIDE DEF r
<1> QED
  BY <1>3, <1>4, RowEffect

LEMMA FailureRow ==
  ASSUME TypeOK, NEW w \in Workers, NEW c \in Calls, Refuse(w, c) \/ Fail(w, c)
  PROVE  /\ row' \in [Calls -> Rows] /\ \A d \in Calls \ {c} : row'[d] = row[d]
         /\ row'[c].state = "failed"
         /\ row'[c].text = row[c].text /\ row'[c].reqs = row[c].reqs
<1>1. PICK code \in FailureCodes : row' = [row EXCEPT ![c].state = "failed", ![c].code = code]
  BY DEF Refuse, Fail, TypeOK, WorkerStates, FailureCodes
<1> QED
  BY ZenonT(30), <1>1 DEF TypeOK, Rows, States

-----------------------------------------------------------------------------
(* One job per upload.                                                         *)

(* Tail takes the first entry, and no other, out of a queue without repeats.    *)
LEMMA TakenFromQueue ==
  ASSUME TypeOK, QueuedOnce, NEW w \in Workers, Take(w)
  PROVE  /\ QueuedOnce' /\ InQueue(Head(queue))
         /\ \A c \in Calls : InQueue(c)' <=> InQueue(c) /\ c # Head(queue)
<1>1. queue \in Seq(Calls) /\ queue # <<>> /\ queue' = Tail(queue)
  BY DEF Take, TypeOK
<1>2. 1 \in DOMAIN queue /\ queue[1] = Head(queue)
  BY <1>1
<1>3. \A i \in DOMAIN queue' : i \in Nat /\ i + 1 \in DOMAIN queue /\ queue'[i] = queue[i + 1]
  BY <1>1
<1>4. \A i \in DOMAIN queue : i # 1 => i - 1 \in DOMAIN queue' /\ queue'[i - 1] = queue[i]
  BY <1>1
<1>5. QueuedOnce'
  <2> SUFFICES ASSUME NEW i \in DOMAIN queue', NEW j \in DOMAIN queue', queue'[i] = queue'[j]
               PROVE  i = j
    BY DEF QueuedOnce
  <2>1. i + 1 = j + 1
    BY <1>3 DEF QueuedOnce
  <2> QED
    BY <1>3, <2>1
<1>6. \A i \in DOMAIN queue' : queue'[i] # Head(queue)
  <2> SUFFICES ASSUME NEW i \in DOMAIN queue', queue'[i] = Head(queue) PROVE FALSE
    OBVIOUS
  <2>1. i + 1 = 1 /\ i \in DOMAIN Tail(queue)
    BY <1>1, <1>2, <1>3 DEF QueuedOnce
  <2> QED
    BY <1>1, <2>1
<1>7. ASSUME NEW c \in Calls, InQueue(c), c # Head(queue) PROVE InQueue(c)'
  BY <1>2, <1>4, <1>7 DEF InQueue
<1>8. ASSUME NEW c \in Calls, InQueue(c)' PROVE InQueue(c)
  BY <1>3, <1>8 DEF InQueue
<1>9. ASSUME NEW c \in Calls, InQueue(c)' PROVE c # Head(queue)
  BY <1>6, <1>9 DEF InQueue
<1> QED
  BY <1>2, <1>5, <1>7, <1>8, <1>9 DEF InQueue

LEMMA PutInQueue ==
  ASSUME TypeOK, QueuedOnce, NEW c \in Calls, ~InQueue(c), queue' = Append(queue, c)
  PROVE  /\ queue' \in Seq(Calls) /\ QueuedOnce'
         /\ \A d \in Calls : InQueue(d)' <=> InQueue(d) \/ d = c
<1>1. queue \in Seq(Calls) /\ queue' \in Seq(Calls)
  BY DEF TypeOK
<1>2. /\ DOMAIN queue' = DOMAIN queue \cup {Len(queue) + 1}
      /\ \A i \in DOMAIN queue : queue'[i] = queue[i]
      /\ queue'[Len(queue) + 1] = c
  BY <1>1
<1>3. QueuedOnce'
  BY <1>2 DEF QueuedOnce, InQueue
<1> QED
  BY <1>1, <1>2, <1>3 DEF InQueue

LEMMA OneJobKept ==
  ASSUME OneJob, UNCHANGED rq,
         \A w \in Workers : worker'[w].job = worker[w].job,
         \A c \in Calls : HasJob(c) => UNCHANGED call[c]
  PROVE  OneJob'
<1>1. /\ queue' = queue /\ ended' = ended
      /\ \A c \in Calls : InQueue(c)' <=> InQueue(c)
      /\ \A c \in Calls, w \in Workers : Held(w, c)' <=> Held(w, c)
  BY DEF InQueue, Held, rq
<1>2. \A c \in Calls : HasJob(c)' <=> HasJob(c)
  BY <1>1 DEF HasJob
<1>3. JobsAccepted'
  BY <1>2 DEF OneJob, JobsAccepted, Pasted, Doc
<1>4. JobOnce'
  BY <1>1 DEF OneJob, JobOnce, QueuedOnce
<1> QED
  BY <1>3, <1>4 DEF OneJob

(* A job that ends without an answer goes to the failed registry.              *)
LEMMA OneJobEnds ==
  ASSUME TypeOK, OneJob, NEW w \in Workers, NEW c \in Calls, NEW how \in {"killed", "raised"},
         Held(w, c), Ends(w, c, how), UNCHANGED <<queue, call>>
  PROVE  OneJob'
<1>1. /\ worker'[w].job = {} /\ \A x \in Workers \ {w} : worker'[x] = worker[x]
      /\ ended'[c] # "no" /\ \A d \in Calls \ {c} : ended'[d] = ended[d]
  BY EndsEffect
<1>2. \A d \in Calls : InQueue(d)' <=> InQueue(d)
  BY DEF InQueue
<1>3. \A d \in Calls, x \in Workers : Held(x, d)' <=> Held(x, d) /\ x # w
  BY <1>1 DEF Held
<1>4. \A d \in Calls : HasJob(d)' => HasJob(d)
  BY <1>1, <1>2, <1>3 DEF HasJob
<1>5. JobsAccepted'
  BY <1>4 DEF OneJob, JobsAccepted, Pasted, Doc
<1>6. ~InQueue(c) /\ \A x \in Workers \ {w} : ~Held(x, c)
  BY DEF OneJob, JobOnce
<1>7. JobOnce'
  BY <1>1, <1>2, <1>3, <1>6 DEF OneJob, JobOnce, QueuedOnce
<1> QED
  BY <1>5, <1>7 DEF OneJob

LEMMA OneJobTaken ==
  ASSUME TypeOK, OneJob, NEW w \in Workers, Take(w)
  PROVE  OneJob'
<1> DEFINE h == Head(queue)
<1>1. QueuedOnce /\ UNCHANGED <<call, ended>>
  BY DEF OneJob, JobOnce, Take
<1>2. /\ QueuedOnce' /\ InQueue(h) /\ h \in Calls
      /\ \A c \in Calls : InQueue(c)' <=> InQueue(c) /\ c # h
  BY <1>1, TakenFromQueue, TakeEffect
<1>3. worker'[w].job = {h} /\ \A x \in Workers \ {w} : worker'[x] = worker[x]
  BY TakeEffect
<1> HIDE DEF h
<1>4. \A c \in Calls, x \in Workers : Held(x, c)' <=> IF x = w THEN c = h ELSE Held(x, c)
  BY <1>3 DEF Held
<1>5. ended[h] = "no" /\ \A x \in Workers : ~Held(x, h)
  BY <1>2 DEF OneJob, JobOnce
<1>6. \A c \in Calls : HasJob(c)' => HasJob(c)
  BY <1>1, <1>2, <1>4 DEF HasJob
<1>7. JobsAccepted'
  BY <1>1, <1>6 DEF OneJob, JobsAccepted, Pasted, Doc
<1>8. JobOnce'
  BY <1>1, <1>2, <1>4, <1>5 DEF OneJob, JobOnce
<1> QED
  BY <1>7, <1>8 DEF OneJob

(* A job is made, or made again, only when there is none.                      *)
LEMMA OneJobQueued ==
  ASSUME TypeOK, OneJob, NEW c \in Calls, queue' = Append(queue, c), UNCHANGED worker,
         ~InQueue(c), \A w \in Workers : ~Held(w, c),
         ended'[c] = "no", \A d \in Calls \ {c} : ended'[d] = ended[d] /\ call'[d] = call[d],
         call'[c].answer = "accepted", ~Pasted(c)'
  PROVE  queue' \in Seq(Calls) /\ OneJob'
<1>1. /\ queue' \in Seq(Calls) /\ QueuedOnce'
      /\ \A d \in Calls : InQueue(d)' <=> InQueue(d) \/ d = c
  BY PutInQueue DEF OneJob, JobOnce
<1>2. \A d \in Calls, w \in Workers : Held(w, d)' <=> Held(w, d)
  BY DEF Held
<1>3. \A d \in Calls \ {c} : HasJob(d)' => HasJob(d)
  BY <1>1, <1>2 DEF HasJob
<1>4. JobsAccepted'
  BY <1>3 DEF OneJob, JobsAccepted, Pasted, Doc
<1>5. JobOnce'
  BY <1>1, <1>2 DEF OneJob, JobOnce
<1> QED
  BY <1>1, <1>4, <1>5 DEF OneJob

-----------------------------------------------------------------------------
(* The invariant is inductive.                                                 *)

(* A worker that keeps its job writes no row but that of the job, which nobody  *)
(* else is at.                                                                  *)
LEMMA WorkerKeepsInv ==
  ASSUME JobInv, NEW w \in Workers, NEW c \in Calls, Held(w, c), UNCHANGED <<call, rq>>,
         worker' \in [Workers -> WorkerStates], worker'[w].job = {c}, worker[w].job = {c},
         \A x \in Workers \ {w} : worker'[x] = worker[x],
         row' \in [Calls -> Rows], \A d \in Calls \ {c} : row'[d] = row[d],
         originals' = originals, seeded' \in BOOLEAN, attempt' \in [Calls -> Nat],
         row'[c].text \in Texts,
         worker'[w].pc \in Busy => row'[c].state = "processing",
         worker'[w].pc \in {"seed", "ask", "save"} => worker'[w].text = row'[c].text,
         row'[c].reqs # {} => row'[c].state = "completed" /\ row'[c].reqs \subseteq {row'[c].text}
  PROVE  JobInv'
<1>1. TypeOK'
  BY DEF JobInv, TypeOK, rq
<1>2. At(c, "answered") /\ ~At(c, "enqueue")
  BY DEF JobInv, OneJob, JobsAccepted, HasJob, CallsInOrder, At
<1>3. CallsInOrder'
  BY <1>2 DEF JobInv, CallsInOrder, At, Pasted, Doc
<1>4. OneJob'
  BY OneJobKept DEF JobInv
<1>5. \A x \in Workers \ {w} : ~Held(x, c)
  BY DEF JobInv, OneJob, JobOnce
<1>6. InHand'
  <2> SUFFICES ASSUME NEW x \in Workers, NEW d \in Calls, Held(x, d)'
               PROVE  /\ worker'[x].pc \in Busy => row'[d].state = "processing"
                      /\ worker'[x].pc \in {"seed", "ask", "save"} =>
                           worker'[x].text = row'[d].text
    BY DEF InHand
  <2>1. CASE x = w
    BY <2>1 DEF Held
  <2>2. CASE x # w
    <3>1. Held(x, d) /\ d # c
      BY <1>5, <2>2 DEF Held
    <3> QED
      BY <2>2, <3>1 DEF JobInv, InHand
  <2> QED
    BY <2>1, <2>2
<1>7. QuotesLast'
  BY DEF JobInv, QuotesLast, QuotesMatchText
<1> QED
  BY <1>1, <1>3, <1>4, <1>6, <1>7 DEF JobInv

(* A job that is left or killed changes no row.                                *)
LEMMA EndsKeepsInv ==
  ASSUME JobInv, NEW w \in Workers, NEW c \in Calls, Held(w, c),
         NEW how \in {"killed", "raised"}, Ends(w, c, how),
         UNCHANGED <<row, call, originals, seeded, queue, attempt>>
  PROVE  JobInv'
<1>1. /\ worker' \in [Workers -> WorkerStates]
      /\ worker'[w].job = {} /\ \A x \in Workers \ {w} : worker'[x] = worker[x]
      /\ ended' \in [Calls -> {"no", "killed", "raised"}]
  BY EndsEffect DEF JobInv
<1>2. TypeOK'
  BY <1>1 DEF JobInv, TypeOK
<1>3. CallsInOrder' /\ QuotesLast'
  BY DEF JobInv, CallsInOrder, QuotesLast, QuotesMatchText, At, Pasted, Doc
<1>4. OneJob'
  BY OneJobEnds DEF JobInv
<1>5. InHand'
  BY <1>1 DEF JobInv, InHand, Held
<1> QED
  BY <1>2, <1>3, <1>4, <1>5 DEF JobInv

LEMMA HandlerStep ==
  ASSUME JobInv, NEW c \in Calls, Handle(c)
  PROVE  JobInv'
<1> USE DEF JobInv
<1>1. ~At(c, "answered") /\ call[c].answer = "none" /\ ~HasJob(c)
  BY DEF Handle, Check, Insert, Put, Commit, Enqueue, HandlerDies, At, CallsInOrder,
     OneJob, JobsAccepted
<1>2. CASE Check(c) \/ Insert(c) \/ Put(c) \/ HandlerDies(c)
  <2>1. /\ call' \in [Calls -> CallRows]
        /\ call'[c].doc = call[c].doc /\ \A d \in Calls \ {c} : call'[d] = call[d]
        /\ call'[c].answer # "none" => At(c, "answered")'
        /\ call'[c].answer # "accepted" /\ ~At(c, "enqueue")'
        /\ At(c, "enqueue") => At(c, "answered")'
    BY <1>1, <1>2, GotoEffect, AnswerEffect
    DEF Check, Insert, Put, HandlerDies, At
  <2>2. UNCHANGED <<row, seeded, rq, worker, attempt>> /\ originals' \subseteq Calls
    BY <1>2 DEF Check, Insert, Put, HandlerDies, TypeOK
  <2>3. TypeOK'
    BY <2>1, <2>2 DEF TypeOK, rq
  <2>4. CallsInOrder'
    BY <1>1, <2>1, <2>2 DEF CallsInOrder, At, Pasted, Doc
  <2>5. OneJob'
    BY <1>1, <2>1, <2>2, OneJobKept
  <2>6. InHand' /\ QuotesLast'
    BY <2>2 DEF InHand, QuotesLast, QuotesMatchText, Held
  <2> QED
    BY <2>3, <2>4, <2>5, <2>6
<1>3. CASE Commit(c)
  <2>1. UNCHANGED <<originals, seeded, rq, worker, attempt>> /\ At(c, "commit")
    BY <1>3 DEF Commit
  <2>2. /\ row' \in [Calls -> Rows] /\ \A d \in Calls \ {c} : row'[d] = row[d]
        /\ row'[c].text \in Texts /\ row'[c].reqs = {}
    BY <1>3, CommitRow
  <2>3. /\ call' \in [Calls -> CallRows]
        /\ call'[c].doc = call[c].doc /\ \A d \in Calls \ {c} : call'[d] = call[d]
        /\ call'[c].answer # "none" => At(c, "answered")'
        /\ At(c, "answered")' \/ (At(c, "enqueue")' /\ ~Pasted(c))
    BY <1>1, <1>3, GotoEffect, AnswerEffect DEF Commit, At
  <2>4. TypeOK'
    BY <2>1, <2>2, <2>3 DEF TypeOK, rq
  <2>5. CallsInOrder'
    BY <2>2, <2>3 DEF CallsInOrder, At, Pasted, Doc
  <2>6. OneJob'
    BY <1>1, <2>1, <2>3, OneJobKept
  <2>7. InHand' /\ QuotesLast'
    BY <1>1, <2>1, <2>2 DEF InHand, QuotesLast, QuotesMatchText, Held, HasJob
  <2> QED
    BY <2>4, <2>5, <2>6, <2>7
<1>4. CASE Enqueue(c)
  <2>1. /\ UNCHANGED <<row, originals, seeded, ended, worker, attempt>> /\ At(c, "enqueue")
        /\ queue' = Append(queue, c)
    BY <1>4 DEF Enqueue
  <2>2. /\ call' \in [Calls -> CallRows]
        /\ call'[c].doc = call[c].doc /\ \A d \in Calls \ {c} : call'[d] = call[d]
        /\ call'[c].answer = "accepted" /\ At(c, "answered")' /\ ~Pasted(c)'
    BY <1>4, <2>1, AnswerEffect DEF Enqueue, At, CallsInOrder, Pasted, Doc
  <2>3. queue' \in Seq(Calls) /\ OneJob'
    BY <1>1, <2>1, <2>2, OneJobQueued DEF HasJob
  <2>4. TypeOK'
    BY <2>1, <2>2, <2>3 DEF TypeOK
  <2>5. CallsInOrder'
    BY <2>1, <2>2 DEF CallsInOrder, At, Pasted, Doc
  <2>6. InHand' /\ QuotesLast'
    BY <2>1 DEF InHand, QuotesLast, QuotesMatchText, Held
  <2> QED
    BY <2>3, <2>4, <2>5, <2>6
<1> QED
  BY <1>2, <1>3, <1>4 DEF Handle

(* The job a worker runs is that of an accepted upload.                        *)
LEMMA HeldIsAccepted ==
  ASSUME JobInv, NEW w \in Workers, NEW c \in Calls, Held(w, c)
  PROVE  row[c].text \in Texts /\ ~Pasted(c) /\ QuotesMatchText
  BY DEF JobInv, OneJob, JobsAccepted, HasJob, CallsInOrder, QuotesLast

LEMMA ServeStep ==
  ASSUME JobInv, NEW w \in Workers, NEW c \in Calls,
         \/ Begin(w, c) \/ Fetch(w, c) \/ FetchRaises(w, c) \/ Retext(w, c) \/ RetextRaises(w, c)
         \/ Load(w, c) \/ Seed(w, c) \/ Ask(w, c) \/ Save(w, c) \/ Refuse(w, c) \/ Fail(w, c)
         \/ Crash(w, c)
  PROVE  JobInv'
<1>1. /\ Holds(w, c) /\ Held(w, c) /\ worker[w].job = {c}
      /\ row[c].text \in Texts /\ ~Pasted(c) /\ row[c].reqs \subseteq {row[c].text}
  <2>1. Holds(w, c)
    BY DEF Begin, Fetch, FetchRaises, Retext, RetextRaises, Load, Seed, Ask, Save, Refuse,
       Fail, Crash, On
  <2> QED
    BY <2>1, HeldIsAccepted DEF Holds, Held, QuotesMatchText
<1>2. /\ TypeOK
      /\ worker[w].pc \in Busy => row[c].state = "processing"
      /\ worker[w].pc \in {"seed", "ask", "save"} => worker[w].text = row[c].text
      /\ row[c].reqs # {} => row[c].state = "completed"
  BY <1>1 DEF JobInv, InHand, QuotesLast
<1>3. /\ row \in [Calls -> Rows] /\ seeded \in BOOLEAN /\ attempt \in [Calls -> Nat]
      /\ "processing" # "completed"
  BY <1>2 DEF TypeOK
<1>4. CASE FetchRaises(w, c) \/ RetextRaises(w, c) \/ Crash(w, c)
  BY <1>1, <1>4, EndsKeepsInv DEF FetchRaises, RetextRaises, Crash
<1>5. CASE Begin(w, c)
  <2>1. /\ UNCHANGED <<call, originals, seeded, rq>> /\ attempt' \in [Calls -> Nat]
        /\ attempt' = [attempt EXCEPT ![c] = @ + 1]
    BY <1>3, <1>5 DEF Begin
  <2>2. CASE row[c].state = "completed" /\ Step(w, "ack") /\ UNCHANGED row
    BY <1>1, <1>2, <1>3, <2>1, <2>2, StepEffect, WorkerKeepsInv DEF Busy
  <2>3. CASE /\ row[c].state # "completed" /\ Step(w, "fetch")
             /\ row' = [row EXCEPT ![c].state = "processing", ![c].code = "none"]
    <3>1. /\ row' \in [Calls -> Rows] /\ \A d \in Calls \ {c} : row'[d] = row[d]
          /\ row'[c].state = "processing" /\ row'[c].text = row[c].text /\ row'[c].reqs = {}
      BY <1>2, <2>3, BeginRow
    <3> QED
      BY <1>1, <1>2, <1>3, <2>1, <2>3, <3>1, StepEffect, WorkerKeepsInv
  <2> QED
    BY <1>5, <2>2, <2>3 DEF Begin
<1>6. CASE Fetch(w, c) \/ Ask(w, c)
  <2>1. /\ UNCHANGED <<row, call, originals, seeded, rq, attempt>>
        /\ row[c].state = "processing"
    BY <1>2, <1>6 DEF Fetch, Ask, On, Busy
  <2>2. /\ worker' \in [Workers -> WorkerStates]
        /\ worker'[w].job = worker[w].job /\ \A x \in Workers \ {w} : worker'[x] = worker[x]
        /\ worker'[w].pc \in {"seed", "ask", "save"} => worker'[w].text = row[c].text
    BY <1>2, <1>6, StepEffect, CaughtEffect DEF Fetch, Ask, On, FailureCodes
  <2> QED
    BY <1>1, <1>2, <1>3, <2>1, <2>2, WorkerKeepsInv
<1>7. CASE Retext(w, c)
  <2>1. UNCHANGED <<call, originals, seeded, rq, attempt>> /\ row[c].state = "processing"
    BY <1>2, <1>7 DEF Retext, On, Busy
  <2>2. /\ row' \in [Calls -> Rows] /\ \A d \in Calls \ {c} : row'[d] = row[d]
        /\ row'[c].state = row[c].state /\ row'[c].reqs = row[c].reqs /\ row'[c].text \in Texts
    BY <1>1, <1>2, <1>7, RetextRow
  <2>3. /\ worker' \in [Workers -> WorkerStates] /\ worker'[w].pc = "load"
        /\ worker'[w].job = worker[w].job /\ \A x \in Workers \ {w} : worker'[x] = worker[x]
    BY <1>2, <1>7, StepEffect DEF Retext
  <2> QED
    BY <1>1, <1>2, <1>3, <2>1, <2>2, <2>3, WorkerKeepsInv
<1>8. CASE Load(w, c)
  <2>1. /\ UNCHANGED <<row, call, originals, seeded, rq, attempt>>
        /\ row[c].state = "processing"
    BY <1>2, <1>8 DEF Load, On, Busy
  <2> QED
    BY <1>1, <1>2, <1>3, <1>8, <2>1, LoadEffect, WorkerKeepsInv
<1>9. CASE Seed(w, c)
  <2>1. UNCHANGED <<row, call, originals, queue, attempt>> /\ On(w, c, "seed")
    BY <1>9 DEF Seed
  <2>2. CASE seeded /\ Ends(w, c, "raised") /\ UNCHANGED seeded
    BY <1>1, <2>1, <2>2, EndsKeepsInv
  <2>3. CASE ~seeded /\ seeded' = TRUE /\ Step(w, "ask") /\ UNCHANGED ended
    <3>1. /\ worker' \in [Workers -> WorkerStates] /\ worker'[w].pc = "ask"
          /\ worker'[w].job = worker[w].job /\ worker'[w].text = worker[w].text
          /\ \A x \in Workers \ {w} : worker'[x] = worker[x]
      BY <1>2, <2>3, StepEffect
    <3>2. row[c].state = "processing" /\ worker[w].text = row[c].text
      BY <1>2, <2>1 DEF On, Busy
    <3>3. UNCHANGED rq /\ seeded' \in BOOLEAN
      BY <2>1, <2>3 DEF rq
    <3> QED
      BY <1>1, <1>2, <1>3, <2>1, <3>1, <3>2, <3>3, WorkerKeepsInv
  <2> QED
    BY <1>9, <2>2, <2>3 DEF Seed
<1>10. CASE Save(w, c)
  <2>1. UNCHANGED <<call, originals, seeded, rq, attempt>> /\ worker[w].text = row[c].text
    BY <1>2, <1>10 DEF Save, On
  <2>2. /\ row' \in [Calls -> Rows] /\ \A d \in Calls \ {c} : row'[d] = row[d]
        /\ row'[c].state = "completed" /\ row'[c].text = row[c].text
        /\ row'[c].reqs \subseteq {row'[c].text}
    BY <1>1, <1>2, <1>10, <2>1, SaveRow
  <2>3. /\ worker' \in [Workers -> WorkerStates] /\ worker'[w].pc = "ack"
        /\ worker'[w].job = worker[w].job /\ \A x \in Workers \ {w} : worker'[x] = worker[x]
    BY <1>2, <1>10, StepEffect DEF Save
  <2> QED
    BY <1>1, <1>3, <2>1, <2>2, <2>3, WorkerKeepsInv DEF Busy
<1>11. CASE Refuse(w, c) \/ Fail(w, c)
  <2>1. UNCHANGED <<call, originals, seeded, rq, attempt>> /\ row[c].state = "processing"
    BY <1>2, <1>11 DEF Refuse, Fail, On, Busy
  <2>2. /\ row' \in [Calls -> Rows] /\ \A d \in Calls \ {c} : row'[d] = row[d]
        /\ row'[c].state = "failed" /\ row'[c].text = row[c].text /\ row'[c].reqs = row[c].reqs
    BY <1>2, <1>11, FailureRow
  <2>3. /\ worker' \in [Workers -> WorkerStates] /\ worker'[w].pc = "ack"
        /\ worker'[w].job = worker[w].job /\ \A x \in Workers \ {w} : worker'[x] = worker[x]
    BY <1>2, <1>11, StepEffect DEF Refuse, Fail
  <2> QED
    BY <1>1, <1>2, <1>3, <2>1, <2>2, <2>3, WorkerKeepsInv DEF Busy
<1> QED
  BY <1>4, <1>5, <1>6, <1>7, <1>8, <1>9, <1>10, <1>11

LEMMA QueueStep ==
  ASSUME JobInv, (\E w \in Workers : Take(w) \/ Ack(w)) \/ \E c \in Calls : Requeue(c)
  PROVE  JobInv'
<1> USE DEF JobInv
<1>1. UNCHANGED <<row, call, originals, seeded, attempt>>
  BY DEF Take, Ack, Requeue
<1>2. CallsInOrder' /\ QuotesLast'
  BY <1>1 DEF CallsInOrder, QuotesLast, QuotesMatchText, At, Pasted, Doc
<1>3. ASSUME NEW w \in Workers, Take(w) PROVE JobInv'
  <2>1. TypeOK'
    BY <1>1, <1>3, TakeEffect DEF TypeOK, Take
  <2>2. OneJob'
    BY <1>3, OneJobTaken
  <2>3. InHand'
    BY <1>1, <1>3, TakeEffect DEF InHand, Held, Busy
  <2> QED
    BY <1>2, <2>1, <2>2, <2>3
<1>4. ASSUME NEW w \in Workers, Ack(w) PROVE JobInv'
  <2>1. /\ worker' \in [Workers -> WorkerStates] /\ worker'[w].job = {}
        /\ \A x \in Workers \ {w} : worker'[x] = worker[x]
        /\ queue' = queue /\ ended' = ended
    BY <1>4, IdleEffect DEF Ack, rq
  <2>2. TypeOK'
    BY <1>1, <2>1 DEF TypeOK
  <2>3. /\ \A c \in Calls : InQueue(c)' <=> InQueue(c)
        /\ \A x \in Workers, c \in Calls : Held(x, c)' => Held(x, c)
    BY <2>1 DEF InQueue, Held
  <2>4. \A c \in Calls : HasJob(c)' => HasJob(c)
    BY <2>1, <2>3 DEF HasJob
  <2>5. JobsAccepted' /\ JobOnce'
    BY <1>1, <2>1, <2>3, <2>4 DEF OneJob, JobsAccepted, JobOnce, QueuedOnce, Pasted, Doc
  <2>6. InHand'
    BY <1>1, <2>1 DEF InHand, Held
  <2> QED
    BY <1>2, <2>2, <2>5, <2>6 DEF OneJob
<1>5. ASSUME NEW c \in Calls, Requeue(c) PROVE JobInv'
  <2>1. /\ ended' \in [Calls -> {"no", "killed", "raised"}] /\ ended[c] # "no"
        /\ ended'[c] = "no" /\ \A d \in Calls \ {c} : ended'[d] = ended[d]
        /\ queue' = Append(queue, c) /\ worker' = worker
    BY <1>5 DEF Requeue, TypeOK
  <2>2. HasJob(c) /\ ~InQueue(c) /\ \A w \in Workers : ~Held(w, c)
    BY <2>1 DEF HasJob, OneJob, JobOnce
  <2>3. queue' \in Seq(Calls) /\ OneJob'
    BY <1>1, <2>1, <2>2, OneJobQueued DEF OneJob, JobsAccepted, Pasted, Doc
  <2>4. TypeOK' /\ InHand'
    BY <1>1, <2>1, <2>3 DEF TypeOK, InHand, Held
  <2> QED
    BY <1>2, <2>3, <2>4
<1> QED
  BY <1>3, <1>4, <1>5

LEMMA JobInvInit == Init => JobInv
<1> SUFFICES ASSUME Init PROVE JobInv
  OBVIOUS
<1>1. /\ \A c \in Calls : /\ row[c] = NoRow /\ ended[c] = "no"
                          /\ call[c].pc = "new" /\ call[c].answer = "none"
      /\ \A w \in Workers : worker[w] = Idle
      /\ queue = <<>>
  BY DEF Init
<1>2. TypeOK
  <2>1. row \in [Calls -> Rows]
    BY DEF Init, NoRow, Rows, States, FailureCodes
  <2>2. call \in [Calls -> CallRows]
    BY DEF Init, CallRows
  <2>3. worker \in [Workers -> WorkerStates]
    BY DEF Init, Idle, WorkerStates, FailureCodes
  <2> QED
    BY <2>1, <2>2, <2>3 DEF Init, TypeOK
<1>3. CallsInOrder
  BY <1>1 DEF CallsInOrder, At, NoRow
<1>4. \A c \in Calls : ~InQueue(c) /\ ~HasJob(c) /\ \A w \in Workers : ~Held(w, c)
  BY <1>1 DEF InQueue, HasJob, Held, Idle
<1>5. OneJob /\ InHand
  BY <1>1, <1>4 DEF OneJob, JobsAccepted, JobOnce, QueuedOnce, InHand
<1>6. QuotesLast
  BY <1>1 DEF QuotesLast, QuotesMatchText, NoRow
<1> QED
  BY <1>2, <1>3, <1>5, <1>6 DEF JobInv

LEMMA JobInvInductive == SafeSpec => []JobInv
<1>1. JobInv /\ [Next]_vars => JobInv'
  <2> SUFFICES ASSUME JobInv, [Next]_vars PROVE JobInv'
    OBVIOUS
  <2>1. CASE UNCHANGED vars
    BY <2>1 DEF JobInv, TypeOK, CallsInOrder, OneJob, JobsAccepted, JobOnce, QueuedOnce, InHand,
       QuotesLast, QuotesMatchText, InQueue, Held, HasJob, At, Pasted, Doc, vars
  <2> QED
    BY <2>1, HandlerStep, ServeStep, QueueStep DEF Next, Serve
<1> QED
  BY JobInvInit, <1>1, PTL DEF SafeSpec

-----------------------------------------------------------------------------
(* The theorems.                                                               *)

(* Whatever fails, is killed or is requeued, every variable keeps its type: in  *)
(* particular a failed row has one of the codes job_descriptions knows, and     *)
(* requirements are only ever stored with a text.                               *)
THEOREM JobsTyped == SafeSpec => []TypeOK
<1>1. JobInv => TypeOK
  BY DEF JobInv
<1> QED
  BY JobInvInductive, <1>1, PTL

(* The text the model was asked about is the one stored when its requirements   *)
(* are: process_job_description rewrites the text only before, and no second    *)
(* worker has the job meanwhile.                                                *)
THEOREM RequirementsQuoteTheirText == SafeSpec => []QuotesMatchText
<1>1. JobInv => QuotesMatchText
  BY DEF JobInv, QuotesLast
<1> QED
  BY JobInvInductive, <1>1, PTL

(* Only the worker that has the job writes its row, the guard of the first      *)
(* transaction keeps it off a completed one, and Commit writes a new row only.  *)
THEOREM CompletedNeverWritten == SafeSpec => CompletedIsFrozen
<1> DEFINE Frozen == \A c \in Calls : row[c].state = "completed" => row'[c] = row[c]
<1>1. JobInv /\ [Next]_vars => [Frozen]_vars
  <2> SUFFICES ASSUME JobInv, Next, NEW c \in Calls, row[c].state = "completed"
               PROVE  row'[c] = row[c]
    OBVIOUS
  <2>1. ASSUME NEW d \in Calls, Handle(d) PROVE row'[c] = row[c]
    <3>1. CASE Commit(d)
      <4>1. At(d, "commit")
        BY <3>1 DEF Commit
      <4>2. row[d].state = "none"
        BY <4>1 DEF JobInv, CallsInOrder, At
      <4>3. \A e \in Calls \ {d} : row'[e] = row[e]
        BY <3>1, CommitRow DEF JobInv
      <4> QED
        BY <4>2, <4>3
    <3>2. CASE ~Commit(d)
      BY <2>1, <3>2 DEF Handle, Check, Insert, Put, Enqueue, HandlerDies
    <3> QED
      BY <3>1, <3>2
  <2>2. ASSUME NEW w \in Workers, NEW d \in Calls,
               Retext(w, d) \/ Save(w, d) \/ Refuse(w, d) \/ Fail(w, d)
        PROVE  row'[c] = row[c]
    <3>1. Held(w, d) /\ worker[w].pc \in Busy
      BY <2>2 DEF Retext, Save, Refuse, Fail, On, Holds, Held, Busy
    <3>2. /\ row[d].state = "processing" /\ row[d].text \in Texts /\ ~Pasted(d) /\ TypeOK
          /\ worker[w].pc = "save" => worker[w].text = row[d].text
      BY <3>1, HeldIsAccepted DEF JobInv, InHand
    <3>3. \A e \in Calls \ {d} : row'[e] = row[e]
      BY <2>2, <3>2, RetextRow, SaveRow, FailureRow DEF Save, On
    <3> QED
      BY <3>2, <3>3
  <2>3. ASSUME NEW w \in Workers, NEW d \in Calls, Begin(w, d) PROVE row'[c] = row[c]
    BY <2>3, BeginRow DEF Begin, JobInv
  <2>4. ASSUME NEW w \in Workers, Take(w) \/ Ack(w) PROVE row'[c] = row[c]
    BY <2>4 DEF Take, Ack
  <2>5. ASSUME NEW w \in Workers, NEW d \in Calls,
               \/ Fetch(w, d) \/ FetchRaises(w, d) \/ RetextRaises(w, d) \/ Load(w, d)
               \/ Seed(w, d) \/ Ask(w, d) \/ Crash(w, d)
        PROVE  row'[c] = row[c]
    BY <2>5 DEF Fetch, FetchRaises, RetextRaises, Load, Seed, Ask, Crash
  <2>6. ASSUME NEW d \in Calls, Requeue(d) PROVE row'[c] = row[c]
    BY <2>6 DEF Requeue
  <2> QED
    BY <2>1, <2>2, <2>3, <2>4, <2>5, <2>6 DEF Next, Serve
<1> HIDE DEF Frozen
<1>2. SafeSpec => [][Frozen]_vars
  BY JobInvInductive, <1>1, PTL DEF SafeSpec
<1> QED
  BY <1>2 DEF CompletedIsFrozen, Frozen
===============================================================================

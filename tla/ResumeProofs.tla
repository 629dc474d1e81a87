----------------------------- MODULE ResumeProofs -----------------------------
(***************************************************************************)
(* What TLAPS proves of ResumePipeline for every set of files, uploads and  *)
(* workers, any number of pages and attempts, and whatever Faults allows:   *)
(* one row per file, originals and page images that are there when a row    *)
(* says so, and somebody in charge of every resume in flight.               *)
(***************************************************************************)
EXTENDS ResumePipeline, FiniteSetTheorems, TLAPS

(* The ways the actions write a record keep its type.                         *)
LEMMA GotoTyped ==
  ASSUME TypeOK, NEW u \in Uploads, NEW pc \in {"insert", "put", "commit", "enqueue"}, Goto(u, pc)
  PROVE  upload' \in [Uploads -> Calls]
  BY DEF TypeOK, Goto, Calls

LEMMA AnswerTyped ==
  ASSUME TypeOK, NEW u \in Uploads,
         NEW a \in {"duplicate", "conflict", "unavailable", "died", "lost", "accepted"},
         Answer(u, a)
  PROVE  upload' \in [Uploads -> Calls]
  BY ZenonT(30) DEF TypeOK, Answer, Calls

LEMMA StepTyped ==
  ASSUME TypeOK, NEW w \in Workers, NEW pc \in {"fetch", "ack"}, Step(w, pc)
  PROVE  worker' \in [Workers -> WorkerStates]
  BY DEF TypeOK, Step, WorkerStates

LEMMA CaughtTyped ==
  ASSUME TypeOK, NEW w \in Workers, NEW c \in FailureCodes, Caught(w, c)
  PROVE  worker' \in [Workers -> WorkerStates]
  BY ZenonT(30) DEF TypeOK, Caught, WorkerStates

LEMMA NextPageTyped ==
  ASSUME TypeOK, NEW w \in Workers, NextPage(w)
  PROVE  worker' \in [Workers -> WorkerStates]
<1> DEFINE page == worker[w].page + 1
           pc == IF worker[w].page = LastPage THEN "persist" ELSE "render"
<1>1. page \in Nat
  BY DEF TypeOK, WorkerStates
<1>2. pc \in {"persist", "render"}
  OBVIOUS
<1>3. worker' = [worker EXCEPT ![w].page = page, ![w].pc = pc]
  BY DEF NextPage
<1> HIDE DEF page, pc
<1> QED
  BY ZenonT(30), <1>1, <1>2, <1>3 DEF TypeOK, WorkerStates

LEMMA IdleTyped == Idle \in WorkerStates
  BY DEF Idle, WorkerStates, FailureCodes

LEMMA FileTyped ==
  ASSUME TypeOK, NEW u \in Uploads
  PROVE  File(u) \in Files
  BY DEF TypeOK, File, Calls

LEMMA TypeInit == Init => TypeOK
<1> SUFFICES ASSUME Init PROVE TypeOK
  OBVIOUS
<1>1. row \in [Files -> Rows]
  BY DEF Init, NoRow, Rows, FailureCodes
<1>2. upload \in [Uploads -> Calls]
  BY DEF Init, Calls
<1>3. worker \in [Workers -> WorkerStates]
  BY IdleTyped DEF Init
<1> QED
  BY <1>1, <1>2, <1>3 DEF Init, TypeOK

(* A worker that renders is at one of the pages, and has stored those before;  *)
(* one that is about to persist has stored them all.                           *)
RenderProgress ==
  \A w \in Workers, u \in Uploads :
    /\ On(w, u, "render") =>
         worker[w].page \in Pages /\ \A p \in 1..(worker[w].page - 1) : <<u, p>> \in renders
    /\ On(w, u, "persist") => \A p \in Pages : <<u, p>> \in renders

LEMMA TypeStep == TypeOK /\ RenderProgress /\ [Next]_vars => TypeOK'
<1> SUFFICES ASSUME TypeOK, RenderProgress, [Next]_vars PROVE TypeOK'
  OBVIOUS
<1>1. ASSUME NEW u \in Uploads, Check(u) \/ Insert(u) PROVE TypeOK'
  <2>1. upload' \in [Uploads -> Calls]
    BY <1>1, GotoTyped, AnswerTyped DEF Check, Insert
  <2> QED
    BY <1>1, <2>1 DEF TypeOK, Check, Insert, store, rq
<1>2. ASSUME NEW u \in Uploads, Put(u) PROVE TypeOK'
  <2>1. upload' \in [Uploads -> Calls]
    BY <1>2, GotoTyped, AnswerTyped DEF Put
  <2> QED
    BY <1>2, <2>1 DEF TypeOK, Put, rq
<1>3. ASSUME NEW u \in Uploads, Commit(u) PROVE TypeOK'
  <2>1. upload' \in [Uploads -> Calls]
    BY <1>3, GotoTyped DEF Commit
  <2>2. row' \in [Files -> Rows]
    BY <1>3, FileTyped DEF Commit, TypeOK, Rows, FailureCodes
  <2> QED
    BY <1>3, <2>1, <2>2 DEF TypeOK, Commit, store, rq
<1>4. ASSUME NEW u \in Uploads, Enqueue(u) \/ HandlerDies(u) PROVE TypeOK'
  <2>1. upload' \in [Uploads -> Calls]
    BY <1>4, AnswerTyped DEF Enqueue, HandlerDies
  <2>2. queue' \in Seq(Uploads)
    <3>1. queue \in Seq(Uploads) /\ Append(queue, u) \in Seq(Uploads)
      BY DEF TypeOK
    <3> QED
      BY <1>4, <3>1 DEF Enqueue, HandlerDies, rq
  <2>3. UNCHANGED <<row, cited, store, ended, worker, attempt>>
    BY <1>4 DEF Enqueue, HandlerDies, rq
  <2> QED
    BY <2>1, <2>2, <2>3 DEF TypeOK, store
<1>5. ASSUME NEW u \in Uploads, Requeue(u) PROVE TypeOK'
  BY <1>5 DEF TypeOK, Requeue, store
<1>6. ASSUME NEW w \in Workers, Take(w) PROVE TypeOK'
  <2>1. Head(queue) \in Uploads /\ Tail(queue) \in Seq(Uploads)
    BY <1>6 DEF TypeOK, Take
  <2>2. worker' \in [Workers -> WorkerStates]
    BY <1>6, <2>1 DEF TypeOK, Take, Idle, WorkerStates, FailureCodes
  <2> QED
    BY <1>6, <2>1, <2>2 DEF TypeOK, Take, store
<1>7. ASSUME NEW w \in Workers, Ack(w) PROVE TypeOK'
  BY <1>7, IdleTyped DEF TypeOK, Ack, store, rq
<1>8. ASSUME NEW w \in Workers, NEW u \in Uploads, Begin(w, u) PROVE TypeOK'
  <2>1. row' \in [Files -> Rows]
    BY ZenonT(30), <1>8, FileTyped DEF Begin, TypeOK, Rows, FailureCodes
  <2> QED
    BY <1>8, <2>1, StepTyped DEF TypeOK, Begin, store, rq
<1>9. ASSUME NEW w \in Workers, NEW u \in Uploads, Fetch(w, u) PROVE TypeOK'
  <2>1. worker' \in [Workers -> WorkerStates]
    <3>1. CASE worker' = [worker EXCEPT ![w].pc = "render", ![w].page = 1]
      BY ZenonT(30), <3>1 DEF TypeOK, WorkerStates
    <3>2. CASE \E c \in FailureCodes : Caught(w, c)
      BY <3>2, CaughtTyped
    <3> QED
      BY <1>9, <3>1, <3>2 DEF Fetch, FailureCodes
  <2> QED
    BY <1>9, <2>1 DEF TypeOK, Fetch, store, rq
<1>10. ASSUME NEW w \in Workers, NEW u \in Uploads, RenderPage(w, u) PROVE TypeOK'
  <2>1. worker' \in [Workers -> WorkerStates]
    BY <1>10, CaughtTyped, NextPageTyped DEF RenderPage, FailureCodes
  <2>2. renders' \subseteq Uploads \X Pages
    <3>1. worker[w].page \in Pages
      BY <1>10 DEF RenderProgress, RenderPage
    <3> QED
      BY <1>10, <3>1 DEF RenderPage, TypeOK
  <2> QED
    BY <1>10, <2>1, <2>2 DEF TypeOK, RenderPage, rq
<1>11. ASSUME NEW w \in Workers, NEW u \in Uploads, Persist(w, u) PROVE TypeOK'
  <2>1. row' \in [Files -> Rows]
    <3> DEFINE r == [row[File(u)] EXCEPT !.state = "completed", !.code = "none",
                                         !.analyses = {attempt[u]}]
    <3>1. r \in Rows
      BY FileTyped DEF TypeOK, Rows, FailureCodes
    <3>2. row' = [row EXCEPT ![File(u)] = r]
      BY <1>11, FileTyped DEF Persist, TypeOK
    <3> QED
      BY <3>1, <3>2, FileTyped DEF TypeOK
  <2> QED
    BY <1>11, <2>1, StepTyped DEF TypeOK, Persist, store, rq
<1>12. ASSUME NEW w \in Workers, NEW u \in Uploads, AnalysisFails(w, u) PROVE TypeOK'
  BY <1>12, CaughtTyped DEF TypeOK, AnalysisFails, FailureCodes, store, rq
<1>13. ASSUME NEW w \in Workers, NEW u \in Uploads, Fail(w, u) PROVE TypeOK'
  <2>1. worker[w].code \in FailureCodes
    BY DEF TypeOK, WorkerStates
  <2>2. row' \in [Files -> Rows]
    BY ZenonT(30), <1>13, <2>1, FileTyped DEF Fail, TypeOK, Rows
  <2> QED
    BY <1>13, <2>2, StepTyped DEF TypeOK, Fail, store, rq
<1>14. ASSUME NEW w \in Workers, NEW u \in Uploads, PersistRaises(w, u) \/ Crash(w, u)
       PROVE  TypeOK'
  BY <1>14, IdleTyped DEF TypeOK, PersistRaises, Crash, store
<1>15. ASSUME NEW f \in Files, Cite(f) PROVE TypeOK'
  BY <1>15 DEF TypeOK, Cite, store, rq
<1>16. CASE UNCHANGED vars
  BY <1>16 DEF TypeOK, vars, store, rq
<1> QED
  BY <1>1, <1>2, <1>3, <1>4, <1>5, <1>6, <1>7, <1>8, <1>9, <1>10, <1>11, <1>12, <1>13,
     <1>14, <1>15, <1>16 DEF Next, Handle, Serve

-----------------------------------------------------------------------------
(* Whose file it is.                                                         *)

\* A call whose INSERT is flushed and not committed holds its index entry alone.
Flushed(u) == At(u, "put") \/ At(u, "commit")
IndexHeld ==
  /\ \A u \in Uploads : Flushed(u) => row[File(u)].state = "none"
  /\ \A u, v \in Uploads : Flushed(u) /\ Flushed(v) /\ File(u) = File(v) => u = v

\* A call that has committed owns the row of its file.
Committed(u) == At(u, "enqueue") \/ upload[u].answer \in {"accepted", "lost"}
RowsOwned ==
  \A u \in Uploads : Committed(u) =>
    row[File(u)].owner = {u} /\ row[File(u)].state # "none"

\* An answer ends the call, and jobs are made of accepted calls only.
AnsweredLast == \A u \in Uploads : upload[u].answer # "none" => At(u, "answered")
HasJob(u) == InQueue(u) \/ ended[u] # "no" \/ \E w \in Workers : u \in worker[w].job
JobsAccepted == \A u \in Uploads : HasJob(u) => upload[u].answer = "accepted"

Ownership == IndexHeld /\ RowsOwned /\ AnsweredLast /\ JobsAccepted

\* The owner of a row is a call for that file which has committed, and whose
\* original was in the store before it did.
OwnersCommitted ==
  \A f \in Files : \A u \in row[f].owner : u \in Uploads /\ File(u) = f /\ Committed(u)
OriginalsFirst ==
  /\ \A u \in Uploads : At(u, "commit") => u \in originals
  /\ CommittedHasOriginal

\* The rows of an analysis are those of at most one attempt.
AnalysesOfOneAttempt ==
  \A f \in Files :
    /\ \A m, n \in row[f].analyses : m = n
    /\ row[f].state = "completed" =>
         /\ row[f].analyses # {}
         /\ \A u \in row[f].owner, p \in Pages : <<u, p>> \in renders

ResumeInv ==
  /\ TypeOK
  /\ RenderProgress
  /\ Ownership
  /\ OwnersCommitted
  /\ OriginalsFirst
  /\ AnalysesOfOneAttempt
  /\ InFlightIsCarried

LEMMA TakenFromQueue ==
  ASSUME TypeOK, NEW w \in Workers, Take(w)
  PROVE  /\ InQueue(Head(queue))
         /\ \A u \in Uploads : InQueue(u) <=> InQueue(u)' \/ u = Head(queue)
<1>1. queue \in Seq(Uploads) /\ queue # <<>> /\ queue' = Tail(queue)
  BY DEF Take, TypeOK
<1>2. 1 \in DOMAIN queue /\ queue[1] = Head(queue)
  BY <1>1
<1>3. ASSUME NEW u \in Uploads, InQueue(u), u # Head(queue) PROVE InQueue(u)'
  <2>1. PICK i \in DOMAIN queue : queue[i] = u
    BY <1>3 DEF InQueue
  <2>2. i - 1 \in DOMAIN Tail(queue) /\ Tail(queue)[i - 1] = u
    BY <1>1, <1>2, <1>3, <2>1
  <2> QED
    BY <1>1, <2>2 DEF InQueue
<1>4. ASSUME NEW u \in Uploads, InQueue(u)' PROVE InQueue(u)
  <2>1. PICK i \in DOMAIN Tail(queue) : Tail(queue)[i] = u
    BY <1>1, <1>4 DEF InQueue
  <2>2. i + 1 \in DOMAIN queue /\ queue[i + 1] = u
    BY <1>1, <2>1
  <2> QED
    BY <2>2 DEF InQueue
<1> QED
  BY <1>2, <1>3, <1>4 DEF InQueue

LEMMA PutInQueue ==
  ASSUME TypeOK, NEW u \in Uploads, queue' = Append(queue, u)
  PROVE  \A v \in Uploads : InQueue(v)' <=> InQueue(v) \/ v = u
<1>1. queue \in Seq(Uploads)
  BY DEF TypeOK
<1>2. /\ DOMAIN queue' = DOMAIN queue \cup {Len(queue) + 1}
      /\ \A i \in DOMAIN queue : queue'[i] = queue[i]
      /\ queue'[Len(queue) + 1] = u
  BY <1>1
<1> QED
  BY <1>2 DEF InQueue

(* Only Enqueue and Requeue make a job, and a requeued one was there before.   *)
LEMMA NoNewJobs ==
  ASSUME TypeOK, [Next]_vars, \A v \in Uploads : ~Enqueue(v)
  PROVE  \A u \in Uploads : HasJob(u)' => HasJob(u)
<1> SUFFICES ASSUME NEW u \in Uploads, HasJob(u)' PROVE HasJob(u)
  OBVIOUS
<1>1. CASE UNCHANGED <<rq, worker>>
  BY <1>1 DEF HasJob, InQueue, rq
<1>2. ASSUME NEW v \in Uploads, Requeue(v) PROVE HasJob(u)
  <2>1. InQueue(u)' => InQueue(u) \/ u = v
    BY <1>2, PutInQueue DEF Requeue
  <2> QED
    BY <1>2, <2>1 DEF Requeue, HasJob, TypeOK
<1>3. ASSUME NEW w \in Workers, Take(w) PROVE HasJob(u)
  BY <1>3, TakenFromQueue DEF Take, HasJob, TypeOK, Idle
<1>4. ASSUME NEW w \in Workers, Ack(w) PROVE HasJob(u)
  BY <1>4 DEF Ack, HasJob, InQueue, TypeOK, Idle, rq
<1>5. ASSUME NEW w \in Workers, NEW v \in Uploads, PersistRaises(w, v) \/ Crash(w, v)
      PROVE  HasJob(u)
  <2>1. v \in worker[w].job /\ worker'[w].job = {} /\ queue' = queue
    BY <1>5 DEF PersistRaises, Crash, On, Holds, TypeOK, Idle
  <2>2. \A x \in Workers \ {w} : worker'[x] = worker[x]
    BY <1>5 DEF PersistRaises, Crash, TypeOK
  <2>3. \A x \in Uploads \ {v} : ended'[x] = ended[x]
    BY <1>5 DEF PersistRaises, Crash, TypeOK
  <2> QED
    BY <2>1, <2>2, <2>3 DEF HasJob, InQueue
<1>6. ASSUME UNCHANGED rq, \A w \in Workers : worker'[w].job = worker[w].job PROVE HasJob(u)
  BY <1>6 DEF HasJob, InQueue, rq
<1>7. ASSUME NEW w \in Workers, NEW v \in Uploads,
             \/ Begin(w, v) \/ Fetch(w, v) \/ RenderPage(w, v) \/ Persist(w, v)
             \/ AnalysisFails(w, v) \/ Fail(w, v)
      PROVE  HasJob(u)
  <2>1. UNCHANGED rq
    BY <1>7 DEF Begin, Fetch, RenderPage, Persist, AnalysisFails, Fail
  <2>2. CASE \E pc : Step(w, pc)
    BY <1>6, <2>1, <2>2 DEF Step, TypeOK, WorkerStates
  <2>3. CASE \E c : Caught(w, c)
    BY <1>6, <2>1, <2>3 DEF Caught, TypeOK, WorkerStates
  <2>4. CASE NextPage(w)
    BY <1>6, <2>1, <2>4 DEF NextPage, TypeOK, WorkerStates
  <2>5. CASE worker' = [worker EXCEPT ![w].pc = "render", ![w].page = 1]
    BY <1>6, <2>1, <2>5 DEF TypeOK, WorkerStates
  <2> QED
    BY <1>7, <2>2, <2>3, <2>4, <2>5
    DEF Begin, Fetch, RenderPage, Persist, AnalysisFails, Fail
<1>8. ASSUME NEW v \in Uploads, Handle(v) PROVE UNCHANGED <<rq, worker>>
  BY <1>8 DEF Handle, Check, Insert, Put, Commit, HandlerDies
<1>9. ASSUME NEW f \in Files, Cite(f) PROVE UNCHANGED <<rq, worker>>
  BY <1>9 DEF Cite
<1>10. CASE UNCHANGED vars
  BY <1>1, <1>10 DEF vars, rq
<1> QED
  BY <1>1, <1>2, <1>3, <1>4, <1>5, <1>7, <1>8, <1>9, <1>10 DEF Next, Serve

-----------------------------------------------------------------------------
(* What a step does to a call and to a worker, as facts about their fields.    *)

LEMMA GotoEffect ==
  ASSUME TypeOK, NEW u \in Uploads, NEW pc, Goto(u, pc)
  PROVE  /\ upload'[u].pc = pc
         /\ upload'[u].file = upload[u].file /\ upload'[u].answer = upload[u].answer
         /\ \A v \in Uploads \ {u} : upload'[v] = upload[v]
  BY DEF TypeOK, Goto, Calls

LEMMA AnswerEffect ==
  ASSUME TypeOK, NEW u \in Uploads, NEW a, Answer(u, a)
  PROVE  /\ upload'[u].pc = "answered"
         /\ upload'[u].file = upload[u].file /\ upload'[u].answer = a
         /\ \A v \in Uploads \ {u} : upload'[v] = upload[v]
  BY DEF TypeOK, Answer, Calls

LEMMA StepEffect ==
  ASSUME TypeOK, NEW w \in Workers, NEW pc, Step(w, pc)
  PROVE  /\ worker'[w].pc = pc /\ worker'[w].job = worker[w].job
         /\ \A x \in Workers \ {w} : worker'[x] = worker[x]
  BY DEF TypeOK, Step, WorkerStates

LEMMA CaughtEffect ==
  ASSUME TypeOK, NEW w \in Workers, NEW c, Caught(w, c)
  PROVE  /\ worker'[w].pc = "fail" /\ worker'[w].job = worker[w].job
         /\ \A x \in Workers \ {w} : worker'[x] = worker[x]
  BY DEF TypeOK, Caught, WorkerStates

LEMMA NextPageEffect ==
  ASSUME TypeOK, NEW w \in Workers, NextPage(w)
  PROVE  /\ worker'[w].pc = IF worker[w].page = LastPage THEN "persist" ELSE "render"
         /\ worker'[w].page = worker[w].page + 1
         /\ worker'[w].job = worker[w].job
         /\ \A x \in Workers \ {w} : worker'[x] = worker[x]
  BY DEF TypeOK, NextPage, WorkerStates

LEMMA FetchEffect ==
  ASSUME TypeOK, NEW w \in Workers, NEW u \in Uploads, Fetch(w, u)
  PROVE  /\ \/ worker'[w].pc = "render" /\ worker'[w].page = 1
            \/ worker'[w].pc = "fail"
         /\ worker'[w].job = worker[w].job
         /\ \A x \in Workers \ {w} : worker'[x] = worker[x]
<1>1. CASE worker' = [worker EXCEPT ![w].pc = "render", ![w].page = 1]
  BY <1>1 DEF TypeOK, WorkerStates
<1>2. CASE \E c : Caught(w, c)
  BY <1>2, CaughtEffect
<1> QED
  BY <1>1, <1>2 DEF Fetch

(* A worker that lets go of its job is idle.                                   *)
LEMMA IdleEffect ==
  ASSUME TypeOK, NEW w \in Workers, worker' = [worker EXCEPT ![w] = Idle]
  PROVE  /\ worker'[w].pc = "idle" /\ worker'[w].job = {}
         /\ \A x \in Workers \ {w} : worker'[x] = worker[x]
  BY DEF TypeOK, Idle

LEMMA TakeEffect ==
  ASSUME TypeOK, NEW w \in Workers, Take(w)
  PROVE  /\ Head(queue) \in Uploads
         /\ worker'[w].pc = "begin" /\ worker'[w].job = {Head(queue)}
         /\ \A x \in Workers \ {w} : worker'[x] = worker[x]
  BY DEF TypeOK, Take, Idle

(* A file does not change while its upload is handled.                         *)
LEMMA FilesKept ==
  ASSUME TypeOK, [Next]_vars
  PROVE  \A u \in Uploads : File(u)' = File(u)
<1>1. CASE UNCHANGED upload
  BY <1>1 DEF File
<1>2. ASSUME NEW v \in Uploads, (\E pc : Goto(v, pc)) \/ \E a : Answer(v, a)
      PROVE  \A u \in Uploads : File(u)' = File(u)
  BY <1>2, GotoEffect, AnswerEffect DEF File
<1>3. ASSUME NEW v \in Uploads, Handle(v) PROVE (\E pc : Goto(v, pc)) \/ \E a : Answer(v, a)
  BY <1>3 DEF Handle, Check, Insert, Put, Commit, Enqueue, HandlerDies
<1> QED
  BY ZenonT(30), <1>1, <1>2, <1>3 DEF Next, Serve, Requeue, Take, Ack, Begin, Fetch, RenderPage, Persist,
     AnalysisFails, PersistRaises, Fail, Crash, Cite, vars

-----------------------------------------------------------------------------
(* A step of a worker or a call leaves the others' progress alone.             *)

LEMMA RenderKept ==
  ASSUME TypeOK, RenderProgress, renders \subseteq renders',
         \A w \in Workers : \/ worker'[w] = worker[w]
                            \/ worker'[w].pc \notin {"render", "persist"}
  PROVE  RenderProgress'
  BY DEF RenderProgress, On, Holds

LEMMA RenderStep == TypeOK /\ RenderProgress /\ [Next]_vars => RenderProgress'
<1> SUFFICES ASSUME TypeOK, RenderProgress, [Next]_vars PROVE RenderProgress'
  OBVIOUS
<1>1. CASE UNCHANGED <<renders, worker>>
  BY <1>1, RenderKept
<1>2. ASSUME NEW w \in Workers, UNCHANGED renders,
             \/ Take(w) \/ worker' = [worker EXCEPT ![w] = Idle]
             \/ Step(w, "fetch") \/ Step(w, "ack") \/ (\E c : Caught(w, c))
      PROVE  RenderProgress'
  BY <1>2, RenderKept, TakeEffect, IdleEffect, StepEffect, CaughtEffect
<1>3. ASSUME NEW w \in Workers, NEW u \in Uploads, Fetch(w, u) PROVE RenderProgress'
  <2>1. UNCHANGED renders /\ 1 \in Pages
    BY <1>3, ConstantsOK DEF Fetch, store, Pages
  <2> QED
    BY <1>3, <2>1, FetchEffect DEF RenderProgress, On, Holds
<1>4. ASSUME NEW w \in Workers, NEW u \in Uploads, RenderPage(w, u) PROVE RenderProgress'
  <2>1. CASE \E c : Caught(w, c) /\ UNCHANGED renders
    BY <1>2, <2>1
  <2>2. CASE renders' = renders \cup {<<u, worker[w].page>>} /\ NextPage(w)
    <3>1. /\ Holds(w, u) /\ worker[w].page \in Pages
          /\ \A p \in 1..worker[w].page : <<u, p>> \in renders'
      BY <1>4, <2>2 DEF RenderPage, RenderProgress, On, Holds, Pages
    <3>2. ASSUME NEW x \in Workers \ {w}, NEW v \in Uploads
          PROVE  /\ On(x, v, "render")' => /\ worker'[x].page \in Pages
                                           /\ \A p \in 1..(worker'[x].page - 1) : <<v, p>> \in renders'
                 /\ On(x, v, "persist")' => \A p \in Pages : <<v, p>> \in renders'
      BY <2>2, <3>2, NextPageEffect DEF RenderProgress, On, Holds
    <3>3. ASSUME NEW v \in Uploads
          PROVE  /\ On(w, v, "render")' => /\ worker'[w].page \in Pages
                                           /\ \A p \in 1..(worker'[w].page - 1) : <<v, p>> \in renders'
                 /\ On(w, v, "persist")' => \A p \in Pages : <<v, p>> \in renders'
      <4>1. On(w, v, "render")' \/ On(w, v, "persist")' => v = u
        BY <2>2, <3>1, NextPageEffect DEF On, Holds
      <4>2. CASE worker[w].page = LastPage
        BY <2>2, <3>1, <4>1, <4>2, NextPageEffect DEF On, Pages
      <4>3. CASE worker[w].page # LastPage
        BY <2>2, <3>1, <4>1, <4>3, NextPageEffect, ConstantsOK DEF On, Pages
      <4> QED
        BY <4>2, <4>3
    <3> QED
      BY <3>2, <3>3 DEF RenderProgress
  <2> QED
    BY <1>4, <2>1, <2>2 DEF RenderPage
<1> QED
  BY <1>1, <1>2, <1>3, <1>4 DEF Next, Handle, Serve, Check, Insert, Put, Commit, Enqueue,
     HandlerDies, Requeue, Take, Ack, Begin, Persist, AnalysisFails, PersistRaises, Fail, Crash,
     Cite, vars, store

-----------------------------------------------------------------------------
(* Ownership is kept.                                                          *)

(* A job's transactions leave the owner of its row and the other rows alone.   *)
LEMMA RowWritten ==
  ASSUME TypeOK, NEW w \in Workers, NEW u \in Uploads,
         Begin(w, u) \/ Persist(w, u) \/ Fail(w, u)
  PROVE  /\ row'[File(u)].owner = row[File(u)].owner
         /\ row'[File(u)].state \in {"processing", "completed", "failed"}
         /\ \A f \in Files \ {File(u)} : row'[f] = row[f]
<1>1. File(u) \in Files
  BY FileTyped
<1>2. CASE Begin(w, u)
  BY <1>1, <1>2 DEF Begin, TypeOK, Rows
<1>3. CASE Persist(w, u)
  BY <1>1, <1>3 DEF Persist, TypeOK, Rows
<1>4. CASE Fail(w, u)
  BY <1>1, <1>4 DEF Fail, TypeOK, Rows
<1> QED
  BY <1>2, <1>3, <1>4

LEMMA CommitWritten ==
  ASSUME TypeOK, NEW u \in Uploads, Commit(u)
  PROVE  /\ row'[File(u)].owner = {u} /\ row'[File(u)].state = "queued"
         /\ row'[File(u)].analyses = {}
         /\ \A f \in Files \ {File(u)} : row'[f] = row[f]
  BY FileTyped DEF Commit, TypeOK

(* The job a worker runs was made by the call that owns the row.               *)
LEMMA WorkerOwnsRow ==
  ASSUME Ownership, NEW w \in Workers, NEW u \in Uploads, Holds(w, u)
  PROVE  /\ row[File(u)].owner = {u} /\ row[File(u)].state # "none"
         /\ At(u, "answered") /\ upload[u].answer = "accepted"
<1>1. HasJob(u)
  BY DEF HasJob, Holds
<1> QED
  BY <1>1 DEF Ownership, JobsAccepted, RowsOwned, Committed, AnsweredLast

LEMMA OwnershipStep ==
  TypeOK /\ Ownership /\ OwnersCommitted /\ [Next]_vars => Ownership' /\ OwnersCommitted'
<1> SUFFICES ASSUME TypeOK, Ownership, OwnersCommitted, [Next]_vars
             PROVE  Ownership' /\ OwnersCommitted'
  OBVIOUS
<1> USE DEF Ownership
<1>1. \A v \in Uploads : File(v)' = File(v) /\ File(v) \in Files
  BY FilesKept, FileTyped
<1>2. CASE UNCHANGED <<row, upload>> /\ \A v \in Uploads : HasJob(v)' => HasJob(v)
  <2>1. IndexHeld' /\ RowsOwned' /\ AnsweredLast'
    BY <1>2 DEF IndexHeld, RowsOwned, AnsweredLast, Flushed, Committed, At, File
  <2>2. JobsAccepted'
    BY <1>2 DEF JobsAccepted
  <2>3. OwnersCommitted'
    BY <1>2 DEF OwnersCommitted, Committed, At, File
  <2> QED
    BY <2>1, <2>2, <2>3
<1>3. ASSUME NEW u \in Uploads, Check(u) \/ Insert(u) \/ Put(u) \/ HandlerDies(u),
             \A v \in Uploads : HasJob(v)' => HasJob(v)
      PROVE  Ownership' /\ OwnersCommitted'
  <2>1. /\ row' = row
        /\ ~At(u, "answered") /\ upload[u].answer = "none"
        /\ \A v \in Uploads \ {u} : upload'[v] = upload[v]
    BY <1>3, GotoEffect, AnswerEffect
    DEF Check, Insert, Put, HandlerDies, At, AnsweredLast
  <2>2. /\ (upload'[u].pc = "answered" \/ upload'[u].answer = "none")
        /\ upload'[u].pc # "enqueue" /\ upload'[u].answer # "accepted"
        /\ upload'[u].answer = "lost" => At(u, "enqueue")
        /\ At(u, "enqueue") => upload'[u].answer = "lost"
    BY <1>3, <2>1, GotoEffect, AnswerEffect
    DEF Check, Insert, Put, HandlerDies, At
  <2>3. Flushed(u)' => \/ Flushed(u)
                       \/ Uncommitted(File(u)) = {} /\ row[File(u)].state = "none"
    BY <1>3, <2>1, GotoEffect, AnswerEffect
    DEF Check, Insert, Put, HandlerDies, At, Flushed
  <2>4. IndexHeld'
    BY <1>1, <2>1, <2>3 DEF IndexHeld, Flushed, At, Uncommitted
  <2>5. \A v \in Uploads : Committed(v)' <=> Committed(v)
    BY <2>1, <2>2 DEF Committed, At
  <2>6. RowsOwned' /\ OwnersCommitted'
    BY <1>1, <2>1, <2>5 DEF RowsOwned, OwnersCommitted
  <2>7. AnsweredLast'
    BY <2>1, <2>2 DEF AnsweredLast, At
  <2>8. JobsAccepted'
    BY <1>3, <2>1, <2>2 DEF JobsAccepted
  <2> QED
    BY <2>4, <2>6, <2>7, <2>8
<1>4. ASSUME NEW u \in Uploads, Commit(u), \A v \in Uploads : HasJob(v)' => HasJob(v)
      PROVE  Ownership' /\ OwnersCommitted'
  <2>1. /\ At(u, "commit") /\ upload[u].answer = "none"
        /\ At(u, "enqueue")' /\ upload'[u].answer = "none"
        /\ \A v \in Uploads \ {u} : upload'[v] = upload[v]
    BY <1>4, GotoEffect DEF Commit, At, AnsweredLast
  <2>2. /\ row'[File(u)].owner = {u} /\ row'[File(u)].state = "queued"
        /\ \A f \in Files \ {File(u)} : row'[f] = row[f]
    BY <1>4, CommitWritten
  <2>3. row[File(u)].state = "none" /\ ~Flushed(u)'
    BY <2>1 DEF IndexHeld, Flushed, At
  <2>4. IndexHeld'
    BY <1>1, <2>1, <2>2, <2>3 DEF IndexHeld, Flushed, At
  <2>5. \A v \in Uploads \ {u} : Committed(v)' <=> Committed(v)
    BY <2>1 DEF Committed, At
  <2>6. Committed(u)'
    BY <2>1 DEF Committed
  <2>7. RowsOwned' /\ OwnersCommitted'
    BY <1>1, <2>2, <2>3, <2>5, <2>6 DEF RowsOwned, OwnersCommitted
  <2>8. AnsweredLast' /\ JobsAccepted'
    BY <1>4, <2>1 DEF AnsweredLast, JobsAccepted, At
  <2> QED
    BY <2>4, <2>7, <2>8
<1>5. ASSUME NEW u \in Uploads, Enqueue(u) PROVE Ownership' /\ OwnersCommitted'
  <2>1. /\ At(u, "enqueue") /\ upload[u].answer = "none"
        /\ At(u, "answered")' /\ upload'[u].answer = "accepted" /\ row' = row
        /\ \A v \in Uploads \ {u} : upload'[v] = upload[v]
    BY <1>5, AnswerEffect DEF Enqueue, At, AnsweredLast
  <2>2. IndexHeld' /\ AnsweredLast'
    BY <1>1, <2>1 DEF IndexHeld, AnsweredLast, Flushed, At
  <2>3. \A v \in Uploads : Committed(v)' <=> Committed(v)
    BY <2>1 DEF Committed, At
  <2>4. RowsOwned' /\ OwnersCommitted'
    BY <1>1, <2>1, <2>3 DEF RowsOwned, OwnersCommitted
  <2>5. \A v \in Uploads \ {u} : HasJob(v)' => HasJob(v)
    BY <1>5, PutInQueue DEF Enqueue, HasJob
  <2>6. JobsAccepted'
    BY <2>1, <2>5 DEF JobsAccepted
  <2> QED
    BY <2>2, <2>4, <2>6
<1>6. ASSUME NEW w \in Workers, NEW u \in Uploads, Begin(w, u) \/ Persist(w, u) \/ Fail(w, u),
             \A v \in Uploads : HasJob(v)' => HasJob(v)
      PROVE  Ownership' /\ OwnersCommitted'
  <2>1. upload' = upload /\ Holds(w, u)
    BY <1>6 DEF Begin, Persist, Fail, On
  <2>2. row[File(u)].owner = {u} /\ row[File(u)].state # "none"
    BY <2>1, WorkerOwnsRow
  <2>3. \A f \in Files : /\ row'[f].owner = row[f].owner
                         /\ row'[f].state = "none" <=> row[f].state = "none"
    BY <1>6, <2>2, RowWritten
  <2>4. IndexHeld' /\ RowsOwned' /\ OwnersCommitted'
    BY <1>1, <2>1, <2>3 DEF IndexHeld, RowsOwned, OwnersCommitted, Flushed, Committed, At
  <2>5. AnsweredLast' /\ JobsAccepted'
    BY <1>6, <2>1 DEF AnsweredLast, JobsAccepted, At
  <2> QED
    BY <2>4, <2>5
<1>7. CASE \A v \in Uploads : ~Enqueue(v)
  <2>1. \A v \in Uploads : HasJob(v)' => HasJob(v)
    BY <1>7, NoNewJobs
  <2> QED
    BY <1>2, <1>3, <1>4, <1>6, <1>7, <2>1 DEF Next, Handle, Serve, Requeue, Take, Ack, Fetch,
       RenderPage, AnalysisFails, PersistRaises, Crash, Cite, vars
<1> QED
  BY <1>5, <1>7

-----------------------------------------------------------------------------
(* What is stored when a row says so.                                          *)

(* A call commits after its object was stored, and no object is removed.       *)
LEMMA OriginalsStep ==
  TypeOK /\ OriginalsFirst /\ [Next]_vars => OriginalsFirst'
<1> SUFFICES ASSUME TypeOK, OriginalsFirst, [Next]_vars PROVE OriginalsFirst'
  OBVIOUS
<1>1. CASE UNCHANGED <<row, upload, originals>>
  BY <1>1 DEF OriginalsFirst, CommittedHasOriginal, At
<1>2. ASSUME NEW u \in Uploads, Check(u) \/ Insert(u) \/ Enqueue(u) \/ HandlerDies(u)
      PROVE  OriginalsFirst'
  <2>1. UNCHANGED <<row, originals>>
    BY <1>2 DEF Check, Insert, Enqueue, HandlerDies, store
  <2>2. \A v \in Uploads : At(v, "commit")' => At(v, "commit")
    BY <1>2, GotoEffect, AnswerEffect DEF Check, Insert, Enqueue, HandlerDies, At
  <2> QED
    BY <2>1, <2>2 DEF OriginalsFirst, CommittedHasOriginal
<1>3. ASSUME NEW u \in Uploads, Put(u) PROVE OriginalsFirst'
  <2>1. row' = row /\ originals \subseteq originals'
    BY <1>3 DEF Put
  <2>2. \A v \in Uploads : At(v, "commit")' => v \in originals'
    BY <1>3, GotoEffect, AnswerEffect DEF Put, At, OriginalsFirst
  <2> QED
    BY <2>1, <2>2 DEF OriginalsFirst, CommittedHasOriginal
<1>4. ASSUME NEW u \in Uploads, Commit(u) PROVE OriginalsFirst'
  <2>1. originals' = originals /\ u \in originals
    BY <1>4 DEF Commit, store, OriginalsFirst
  <2>2. \A v \in Uploads : At(v, "commit")' => At(v, "commit")
    BY <1>4, GotoEffect DEF Commit, At
  <2> QED
    BY <1>4, <2>1, <2>2, CommitWritten DEF OriginalsFirst, CommittedHasOriginal
<1>5. ASSUME NEW w \in Workers, NEW u \in Uploads, Begin(w, u) \/ Persist(w, u) \/ Fail(w, u)
      PROVE  OriginalsFirst'
  <2>1. UNCHANGED <<upload, originals>>
    BY <1>5 DEF Begin, Persist, Fail, store
  <2>2. \A f \in Files : row'[f].owner = row[f].owner
    BY <1>5, RowWritten
  <2> QED
    BY <2>1, <2>2 DEF OriginalsFirst, CommittedHasOriginal, At
<1> QED
  BY <1>1, <1>2, <1>3, <1>4, <1>5 DEF Next, Handle, Serve, Requeue, Take, Ack, Fetch,
     RenderPage, AnalysisFails, PersistRaises, Crash, Cite, vars, store

(* Persist replaces the rows of the attempt before, after all pages were stored. *)
LEMMA AnalysesStep ==
  TypeOK /\ RenderProgress /\ Ownership /\ AnalysesOfOneAttempt /\ [Next]_vars
    => AnalysesOfOneAttempt'
<1> SUFFICES ASSUME TypeOK, RenderProgress, Ownership, AnalysesOfOneAttempt, [Next]_vars
             PROVE  AnalysesOfOneAttempt'
  OBVIOUS
<1>1. CASE row' = row /\ renders \subseteq renders'
  BY <1>1 DEF AnalysesOfOneAttempt
<1>2. ASSUME NEW u \in Uploads, Commit(u) PROVE AnalysesOfOneAttempt'
  <2>1. renders' = renders
    BY <1>2 DEF Commit, store
  <2> QED
    BY <1>2, <2>1, CommitWritten DEF AnalysesOfOneAttempt
<1>3. ASSUME NEW w \in Workers, NEW u \in Uploads, Begin(w, u) \/ Fail(w, u)
      PROVE  AnalysesOfOneAttempt'
  <2>1. /\ renders' = renders
        /\ row'[File(u)].analyses = row[File(u)].analyses
        /\ row'[File(u)].state # "completed"
    <3>1. row \in [Files -> Rows] /\ File(u) \in Files
      BY FileTyped DEF TypeOK
    <3>2. CASE Begin(w, u)
      BY <3>1, <3>2 DEF Begin, store, Rows
    <3>3. CASE Fail(w, u)
      BY <3>1, <3>3 DEF Fail, store, Rows
    <3> QED
      BY <1>3, <3>2, <3>3
  <2> QED
    BY <1>3, <2>1, RowWritten DEF AnalysesOfOneAttempt
<1>4. ASSUME NEW w \in Workers, NEW u \in Uploads, Persist(w, u) PROVE AnalysesOfOneAttempt'
  <2>1. /\ renders' = renders
        /\ row'[File(u)].analyses = {attempt[u]}
    BY <1>4, FileTyped DEF Persist, store, TypeOK, Rows
  <2>2. row'[File(u)].owner = {u}
    BY <1>4, RowWritten, WorkerOwnsRow DEF Persist, On
  <2>3. \A p \in Pages : <<u, p>> \in renders
    BY <1>4 DEF Persist, RenderProgress
  <2>4. \A f \in Files \ {File(u)} : row'[f] = row[f]
    BY <1>4, RowWritten
  <2> QED
    BY <2>1, <2>2, <2>3, <2>4 DEF AnalysesOfOneAttempt
<1>5. ASSUME NEW w \in Workers, NEW u \in Uploads,
             \/ Fetch(w, u) \/ RenderPage(w, u)
             \/ AnalysisFails(w, u) \/ PersistRaises(w, u) \/ Crash(w, u)
      PROVE  row' = row /\ renders \subseteq renders'
  BY <1>5 DEF Fetch, RenderPage, AnalysisFails, PersistRaises, Crash, store
<1>6. ASSUME NEW u \in Uploads,
             \/ Check(u) \/ Insert(u) \/ Put(u) \/ Enqueue(u) \/ HandlerDies(u) \/ Requeue(u)
      PROVE  row' = row /\ renders \subseteq renders'
  BY <1>6 DEF Check, Insert, Put, Enqueue, HandlerDies, Requeue, store
<1> QED
  BY <1>1, <1>2, <1>3, <1>4, <1>5, <1>6 DEF Next, Handle, Serve, Take, Ack, Cite, vars, store

-----------------------------------------------------------------------------
(* Somebody is in charge of every resume in flight.                            *)

\* What InFlightIsCarried says of the row of file f and its owner u.
Carried(f, u) ==
  /\ row[f].state = "queued" =>
       At(u, "enqueue") \/ JobWaits(u) \/ upload[u].answer = "lost"
  /\ row[f].state = "processing" => BeingWorkedOn(u) \/ JobWaits(u)

LEMMA CarriedKept ==
  ASSUME InFlightIsCarried, NEW f \in Files, NEW u \in row[f].owner,
         row'[f] = row[f],
         JobWaits(u) => JobWaits(u)',
         BeingWorkedOn(u) => BeingWorkedOn(u)' \/ JobWaits(u)',
         At(u, "enqueue") => At(u, "enqueue")' \/ JobWaits(u)' \/ upload'[u].answer = "lost",
         upload[u].answer = "lost" => upload'[u].answer = "lost"
  PROVE  Carried(f, u)'
<1>1. Carried(f, u)
  BY DEF InFlightIsCarried, Carried
<1> QED
  BY <1>1 DEF Carried

LEMMA CarriedStep ==
  TypeOK /\ Ownership /\ OwnersCommitted /\ InFlightIsCarried /\ [Next]_vars
    => InFlightIsCarried'
<1> SUFFICES ASSUME TypeOK, Ownership, OwnersCommitted, InFlightIsCarried, [Next]_vars,
                    NEW f \in Files, NEW u \in row'[f].owner
             PROVE  Carried(f, u)'
  BY DEF InFlightIsCarried, Carried
<1> USE DEF Ownership
<1>1. CASE UNCHANGED vars
  BY <1>1, CarriedKept DEF vars, JobWaits, BeingWorkedOn, InQueue, On, Holds, At
<1>2. ASSUME NEW v \in Uploads, Check(v) \/ Insert(v) \/ Put(v) \/ HandlerDies(v)
      PROVE  Carried(f, u)'
  <2>1. UNCHANGED <<row, rq, worker>>
    BY <1>2 DEF Check, Insert, Put, HandlerDies
  <2>2. u \in Uploads
    BY <2>1 DEF OwnersCommitted
  <2>3. At(u, "enqueue") => At(u, "enqueue")' \/ upload'[u].answer = "lost"
    BY <1>2, <2>2, GotoEffect, AnswerEffect DEF Check, Insert, Put, HandlerDies, At
  <2>4. upload[u].answer = "lost" => upload'[u].answer = "lost"
    BY <1>2, <2>2, GotoEffect, AnswerEffect
    DEF Check, Insert, Put, HandlerDies, At, AnsweredLast
  <2> QED
    BY <2>1, <2>3, <2>4, CarriedKept DEF JobWaits, BeingWorkedOn, InQueue, On, Holds, rq
<1>3. ASSUME NEW v \in Uploads, Commit(v) PROVE Carried(f, u)'
  <2>1. CASE f = File(v)
    <3>1. row'[f].state = "queued" /\ u = v
      BY <1>3, <2>1, CommitWritten
    <3>2. At(v, "enqueue")'
      BY <1>3, GotoEffect DEF Commit, At
    <3> QED
      BY <3>1, <3>2 DEF Carried
  <2>2. CASE f # File(v)
    <3>1. row'[f] = row[f] /\ u \in Uploads \ {v}
      BY <1>3, <2>2, CommitWritten DEF OwnersCommitted
    <3>2. UNCHANGED <<rq, worker>> /\ upload'[u] = upload[u]
      BY <1>3, <3>1, GotoEffect DEF Commit
    <3> QED
      BY <3>1, <3>2, CarriedKept DEF JobWaits, BeingWorkedOn, InQueue, On, Holds, rq, At
  <2> QED
    BY <2>1, <2>2
<1>4. ASSUME NEW v \in Uploads, Enqueue(v) PROVE Carried(f, u)'
  <2>1. UNCHANGED <<row, ended, worker>> /\ u \in Uploads
    BY <1>4 DEF Enqueue, OwnersCommitted
  <2>2. InQueue(u) \/ u = v => InQueue(u)'
    BY <1>4, <2>1, PutInQueue DEF Enqueue
  <2>3. u # v => upload'[u] = upload[u]
    BY <1>4, <2>1, AnswerEffect DEF Enqueue
  <2>4. upload[u].answer = "lost" => u # v
    BY <1>4 DEF Enqueue, AnsweredLast, At
  <2> QED
    BY <2>1, <2>2, <2>3, <2>4, CarriedKept DEF JobWaits, BeingWorkedOn, On, Holds, At
<1>5. ASSUME NEW v \in Uploads, Requeue(v) PROVE Carried(f, u)'
  <2>1. UNCHANGED <<row, upload, worker>> /\ u \in Uploads
    BY <1>5 DEF Requeue, OwnersCommitted
  <2>2. InQueue(u) \/ u = v => InQueue(u)'
    BY <1>5, <2>1, PutInQueue DEF Requeue
  <2>3. u # v => ended'[u] = ended[u]
    BY <1>5, <2>1 DEF Requeue, TypeOK
  <2> QED
    BY <2>1, <2>2, <2>3, CarriedKept DEF JobWaits, BeingWorkedOn, On, Holds, At
<1>6. ASSUME NEW w \in Workers, Take(w) PROVE Carried(f, u)'
  <2>1. UNCHANGED <<row, upload, ended>> /\ u \in Uploads /\ worker[w].pc = "idle"
    BY <1>6 DEF Take, OwnersCommitted
  <2>2. JobWaits(u) => JobWaits(u)'
    BY <1>6, <2>1, TakenFromQueue, TakeEffect DEF JobWaits, On, Holds
  <2>3. BeingWorkedOn(u) => BeingWorkedOn(u)'
    BY <1>6, <2>1, TakeEffect DEF BeingWorkedOn, Holds
  <2> QED
    BY <2>1, <2>2, <2>3, CarriedKept DEF At
<1>7. ASSUME NEW w \in Workers, Ack(w) PROVE Carried(f, u)'
  <2>1. UNCHANGED <<row, upload, rq>> /\ u \in Uploads /\ worker[w].pc = "ack"
    BY <1>7 DEF Ack, OwnersCommitted
  <2>2. \A x \in Workers \ {w} : worker'[x] = worker[x]
    BY <1>7, IdleEffect DEF Ack
  <2>3. JobWaits(u) => JobWaits(u)'
    BY <2>1, <2>2 DEF JobWaits, On, Holds, InQueue, rq
  <2>4. BeingWorkedOn(u) => BeingWorkedOn(u)'
    BY <2>1, <2>2 DEF BeingWorkedOn, Holds
  <2> QED
    BY <2>1, <2>3, <2>4, CarriedKept DEF At
<1>8. ASSUME NEW w \in Workers, NEW v \in Uploads, Begin(w, v) PROVE Carried(f, u)'
  <2>1. UNCHANGED <<upload, rq>> /\ On(w, v, "begin")
    BY <1>8 DEF Begin
  <2>2. /\ worker'[w].pc = "fetch" /\ worker'[w].job = {v}
        /\ \A x \in Workers \ {w} : worker'[x] = worker[x]
    BY <1>8, <2>1, StepEffect DEF Begin, On, Holds
  <2>3. CASE f = File(v)
    <3>1. u = v
      BY <1>8, <2>1, <2>3, RowWritten, WorkerOwnsRow DEF On
    <3>2. row'[f].state = "processing"
      BY <1>8, <2>3, FileTyped DEF Begin, TypeOK, Rows
    <3> QED
      BY <2>2, <3>1, <3>2 DEF Carried, BeingWorkedOn, Holds
  <2>4. CASE f # File(v)
    <3>1. row'[f] = row[f] /\ u \in Uploads \ {v}
      BY <1>8, <2>4, RowWritten DEF OwnersCommitted
    <3>2. JobWaits(u) => JobWaits(u)'
      BY <2>1, <2>2, <3>1 DEF JobWaits, On, Holds, InQueue, rq
    <3>3. BeingWorkedOn(u) => BeingWorkedOn(u)'
      BY <2>1, <2>2 DEF BeingWorkedOn, On, Holds
    <3> QED
      BY <2>1, <3>1, <3>2, <3>3, CarriedKept DEF At
  <2> QED
    BY <2>3, <2>4
<1>9. ASSUME NEW w \in Workers, NEW v \in Uploads,
             Fetch(w, v) \/ RenderPage(w, v) \/ AnalysisFails(w, v)
      PROVE  Carried(f, u)'
  <2>1. /\ UNCHANGED <<row, upload, rq>> /\ u \in Uploads
        /\ worker[w].pc \in {"fetch", "render", "persist"}
    BY <1>9 DEF Fetch, RenderPage, AnalysisFails, On, OwnersCommitted
  <2>2. /\ worker'[w].pc \in {"render", "persist", "fail"} /\ worker'[w].job = worker[w].job
        /\ \A x \in Workers \ {w} : worker'[x] = worker[x]
    BY <1>9, FetchEffect, CaughtEffect, NextPageEffect DEF RenderPage, AnalysisFails
  <2>3. JobWaits(u) => JobWaits(u)'
    BY <2>1, <2>2 DEF JobWaits, On, Holds, InQueue, rq
  <2>4. BeingWorkedOn(u) => BeingWorkedOn(u)'
    BY <2>1, <2>2 DEF BeingWorkedOn, Holds
  <2> QED
    BY <2>1, <2>3, <2>4, CarriedKept DEF At
<1>10. ASSUME NEW w \in Workers, NEW v \in Uploads, Persist(w, v) \/ Fail(w, v)
       PROVE  Carried(f, u)'
  <2>1. UNCHANGED <<upload, rq>> /\ Holds(w, v) /\ worker[w].pc \in {"persist", "fail"}
    BY <1>10 DEF Persist, Fail, On
  <2>2. \A x \in Workers \ {w} : worker'[x] = worker[x]
    BY <1>10, StepEffect DEF Persist, Fail
  <2>3. CASE f = File(v)
    <3>1. row'[f].state \in {"completed", "failed"}
      BY <1>10, <2>3, FileTyped DEF Persist, Fail, TypeOK, Rows
    <3> QED
      BY <3>1 DEF Carried
  <2>4. CASE f # File(v)
    <3>1. row'[f] = row[f] /\ u \in Uploads \ {v}
      BY <1>10, <2>4, RowWritten DEF OwnersCommitted
    <3>2. JobWaits(u) => JobWaits(u)'
      BY <2>1, <2>2, <3>1 DEF JobWaits, On, Holds, InQueue, rq
    <3>3. BeingWorkedOn(u) => BeingWorkedOn(u)'
      BY <2>1, <2>2, <3>1 DEF BeingWorkedOn, Holds
    <3> QED
      BY <2>1, <3>1, <3>2, <3>3, CarriedKept DEF At
  <2> QED
    BY <2>3, <2>4
<1>11. ASSUME NEW w \in Workers, NEW v \in Uploads, PersistRaises(w, v) \/ Crash(w, v)
       PROVE  Carried(f, u)'
  <2>1. /\ UNCHANGED <<row, upload, queue>> /\ u \in Uploads
        /\ Holds(w, v)
    BY <1>11 DEF PersistRaises, Crash, OwnersCommitted, On
  <2>2. /\ ended'[v] # "no"
        /\ \A x \in Uploads \ {v} : ended'[x] = ended[x]
    BY <1>11 DEF PersistRaises, Crash, TypeOK
  <2>3. \A x \in Workers \ {w} : worker'[x] = worker[x]
    BY <1>11, IdleEffect DEF PersistRaises, Crash
  <2>4. JobWaits(u) => JobWaits(u)'
    BY <2>1, <2>2, <2>3 DEF JobWaits, On, Holds, InQueue
  <2>5. BeingWorkedOn(u) => BeingWorkedOn(u)' \/ JobWaits(u)'
    BY <2>1, <2>2, <2>3 DEF BeingWorkedOn, JobWaits, Holds
  <2> QED
    BY <2>1, <2>4, <2>5, CarriedKept DEF At
<1>12. ASSUME NEW g \in Files, Cite(g) PROVE Carried(f, u)'
  BY <1>12, CarriedKept DEF Cite, JobWaits, BeingWorkedOn, InQueue, On, Holds, At, rq
<1> QED
  BY <1>1, <1>2, <1>3, <1>4, <1>5, <1>6, <1>7, <1>8, <1>9, <1>10, <1>11, <1>12
  DEF Next, Handle, Serve

-----------------------------------------------------------------------------
(* The theorems.                                                               *)

LEMMA ResumeInvInit == Init => ResumeInv
<1> SUFFICES ASSUME Init PROVE ResumeInv
  OBVIOUS
<1>1. TypeOK
  BY TypeInit
<1>2. /\ \A u \in Uploads : At(u, "new") /\ upload[u].answer = "none" /\ ended[u] = "no"
      /\ \A f \in Files : row[f] = NoRow
      /\ \A w \in Workers : worker[w] = Idle
      /\ queue = <<>>
  BY DEF Init, At
<1>3. RenderProgress
  BY <1>2 DEF RenderProgress, On, Idle
<1>4. \A u \in Uploads : ~HasJob(u)
  BY <1>2 DEF HasJob, InQueue, Idle
<1>5. Ownership
  BY <1>2, <1>4
  DEF Ownership, IndexHeld, Flushed, RowsOwned, Committed, AnsweredLast, JobsAccepted, At
<1>6. OwnersCommitted /\ OriginalsFirst /\ AnalysesOfOneAttempt /\ InFlightIsCarried
  BY <1>2 DEF OwnersCommitted, OriginalsFirst, CommittedHasOriginal, AnalysesOfOneAttempt,
     InFlightIsCarried, At, NoRow
<1> QED
  BY <1>1, <1>3, <1>5, <1>6 DEF ResumeInv

LEMMA ResumeInvInductive == SafeSpec => []ResumeInv
<1>1. ResumeInv /\ [Next]_vars => ResumeInv'
  BY TypeStep, RenderStep, OwnershipStep, OriginalsStep, AnalysesStep, CarriedStep DEF ResumeInv
<1> QED
  BY ResumeInvInit, <1>1, PTL DEF SafeSpec

(* Whatever fails, is killed or is requeued, every variable keeps its type:     *)
(* _render_pages stores no page beyond the last.                                *)
THEOREM ResumesTyped == SafeSpec => []TypeOK
<1>1. ResumeInv => TypeOK
  BY DEF ResumeInv
<1> QED
  BY ResumeInvInductive, <1>1, PTL

(* The index entry that upload flushes before its commit makes one row and one  *)
(* job of the same bytes, however many calls overlap.                           *)
THEOREM OneResumePerFile == SafeSpec => []OnePerFile
<1>1. ResumeInv => OnePerFile
  BY DEF ResumeInv, Ownership, RowsOwned, Committed, OnePerFile
<1> QED
  BY ResumeInvInductive, <1>1, PTL

(* upload puts the object before it commits the row, so a committed row always  *)
(* has its original in the store.                                               *)
THEOREM CommittedRowsHaveOriginals == SafeSpec => []CommittedHasOriginal
<1>1. ResumeInv => CommittedHasOriginal
  BY DEF ResumeInv, OriginalsFirst
<1> QED
  BY ResumeInvInductive, <1>1, PTL

(* However often a job is killed and run again, process_resume leaves the rows  *)
(* of one attempt, and completes a resume only after every page was stored.     *)
THEOREM CompletedResumesViewable == SafeSpec => []CompletedIsViewable
<1>1. ASSUME ResumeInv PROVE CompletedIsViewable
  <2>1. ASSUME NEW f \in Files PROVE Cardinality(row[f].analyses) <= 1
    <3>1. CASE row[f].analyses = {}
      BY <3>1, FS_EmptySet
    <3>2. ASSUME NEW n \in row[f].analyses PROVE Cardinality(row[f].analyses) <= 1
      <4>1. row[f].analyses = {n}
        BY <1>1, <3>2 DEF ResumeInv, AnalysesOfOneAttempt
      <4> QED
        BY <4>1, FS_Singleton
    <3> QED
      BY <3>1, <3>2
  <2>2. ASSUME NEW f \in Files, row[f].state = "completed"
        PROVE  row[f].analyses # {} /\ row[f].owner \X Pages \subseteq renders
    BY <1>1, <2>2 DEF ResumeInv, AnalysesOfOneAttempt
  <2> QED
    BY <2>1, <2>2 DEF CompletedIsViewable
<1>2. ResumeInv => CompletedIsViewable
  BY <1>1
<1> QED
  BY ResumeInvInductive, <1>2, PTL

(* A resume that is queued or processing has a worker that runs it, or a job in *)
(* the queue or in RQ's failed registry; the only one without is queued, and    *)
(* upload failed or died between its commit and the enqueue.                    *)
THEOREM ResumesInFlightCarried == SafeSpec => []InFlightIsCarried
<1>1. ResumeInv => InFlightIsCarried
  BY DEF ResumeInv
<1> QED
  BY ResumeInvInductive, <1>1, PTL

-----------------------------------------------------------------------------
(* A job is in one place, whatever is killed and requeued.                     *)

\* A job is in one place: once in the queue, with one worker, or out of RQ's hands.
JobOnce ==
  /\ \A i, j \in DOMAIN queue : queue[i] = queue[j] => i = j
  /\ \A w \in Workers : \A u \in worker[w].job : ~InQueue(u)
  /\ \A w, x \in Workers : worker[w].job \cap worker[x].job # {} => w = x
  /\ \A u \in Uploads :
       ended[u] # "no" => ~InQueue(u) /\ \A w \in Workers : u \notin worker[w].job

\* The transactions and the work of a job between Take and Ack.
Works(w, u) ==
  \/ Begin(w, u) \/ Fetch(w, u) \/ RenderPage(w, u) \/ Persist(w, u)
  \/ AnalysisFails(w, u) \/ Fail(w, u)

LEMMA WorksEffect ==
  ASSUME TypeOK, NEW w \in Workers, NEW u \in Uploads, Works(w, u)
  PROVE  /\ UNCHANGED <<upload, rq, cited>>
         /\ Holds(w, u) /\ worker[w].pc # "ack"
         /\ worker'[w].job = worker[w].job
         /\ worker'[w].pc \in {"fetch", "render", "persist", "fail", "ack"}
         /\ \A x \in Workers \ {w} : worker'[x] = worker[x]
<1>1. /\ UNCHANGED <<upload, rq, cited>>
      /\ Holds(w, u) /\ worker[w].pc # "ack"
  BY DEF Works, Begin, Fetch, RenderPage, Persist, AnalysisFails, Fail, On
<1>2. CASE Begin(w, u)
  BY <1>1, <1>2, StepEffect DEF Begin
<1>3. CASE Persist(w, u) \/ Fail(w, u)
  BY <1>1, <1>3, StepEffect DEF Persist, Fail
<1>4. CASE Fetch(w, u)
  BY <1>1, <1>4, FetchEffect
<1>5. CASE RenderPage(w, u)
  BY <1>1, <1>5, NextPageEffect, CaughtEffect DEF RenderPage
<1>6. CASE AnalysisFails(w, u)
  BY <1>1, <1>6, CaughtEffect DEF AnalysisFails
<1> QED
  BY <1>2, <1>3, <1>4, <1>5, <1>6 DEF Works

\* The job leaves the worker without an acknowledgement.
Drops(w, u) == Crash(w, u) \/ PersistRaises(w, u)

LEMMA DropsEffect ==
  ASSUME TypeOK, NEW w \in Workers, NEW u \in Uploads, Drops(w, u)
  PROVE  /\ UNCHANGED <<row, upload, queue, attempt, cited>>
         /\ Holds(w, u) /\ worker'[w].pc = "idle" /\ worker'[w].job = {}
         /\ \A x \in Workers \ {w} : worker'[x] = worker[x]
         /\ \A v \in Uploads \ {u} : ended'[v] = ended[v]
  BY IdleEffect DEF Drops, Crash, PersistRaises, On, TypeOK

LEMMA JobSteps ==
  ASSUME [Next]_vars
  PROVE  \/ \E u \in Uploads : Handle(u) \/ Requeue(u)
         \/ \E w \in Workers : Take(w) \/ Ack(w) \/ \E u \in Uploads : Works(w, u) \/ Drops(w, u)
         \/ \E f \in Files : Cite(f)
         \/ UNCHANGED vars
  BY DEF Next, Serve, Works, Drops

(* Two calls that have a job, or are about to make one, are of different files. *)
LEMMA OneCallPerRow ==
  ASSUME Ownership, NEW u \in Uploads, NEW v \in Uploads, File(u) = File(v),
         At(u, "enqueue") \/ HasJob(u), At(v, "enqueue") \/ HasJob(v)
  PROVE  u = v
<1>1. Committed(u) /\ Committed(v)
  BY DEF Ownership, JobsAccepted, Committed
<1> QED
  BY <1>1 DEF Ownership, RowsOwned

LEMMA JobOnceStep ==
  ASSUME TypeOK, Ownership, JobOnce, [Next]_vars
  PROVE  JobOnce'
<1>1. ASSUME UNCHANGED rq, \A w \in Workers : worker'[w].job = worker[w].job
      PROVE  JobOnce'
  BY <1>1 DEF JobOnce, InQueue, rq
<1>2. ASSUME NEW u \in Uploads, queue' = Append(queue, u), worker' = worker,
             ~InQueue(u), \A w \in Workers : u \notin worker[w].job, ended'[u] = "no",
             \A v \in Uploads \ {u} : ended'[v] = ended[v]
      PROVE  JobOnce'
  <2>1. queue \in Seq(Uploads)
    BY DEF TypeOK
  <2>2. \A i \in DOMAIN queue : queue[i] # u
    BY <1>2 DEF InQueue
  <2>3. \A i, j \in DOMAIN queue' : queue'[i] = queue'[j] => i = j
    BY <1>2, <2>1, <2>2 DEF JobOnce
  <2>4. \A v \in Uploads : InQueue(v)' <=> InQueue(v) \/ v = u
    BY <1>2, PutInQueue
  <2>5. \A w \in Workers : \A v \in worker[w].job : v \in Uploads /\ v # u
    BY <1>2 DEF TypeOK, WorkerStates
  <2> QED
    BY <1>2, <2>3, <2>4, <2>5 DEF JobOnce
<1>3. ASSUME NEW u \in Uploads, Enqueue(u) PROVE JobOnce'
  <2>1. ~HasJob(u)
    BY <1>3 DEF Enqueue, Ownership, JobsAccepted, AnsweredLast, At
  <2>2. queue' = Append(queue, u) /\ worker' = worker /\ ended' = ended
    BY <1>3 DEF Enqueue
  <2> QED
    BY <1>2, <2>1, <2>2 DEF HasJob
<1>4. ASSUME NEW u \in Uploads, Requeue(u) PROVE JobOnce'
  <2>1. /\ queue' = Append(queue, u) /\ worker' = worker /\ ended[u] # "no"
        /\ ended'[u] = "no" /\ \A v \in Uploads \ {u} : ended'[v] = ended[v]
    BY <1>4 DEF Requeue, TypeOK
  <2> QED
    BY <1>2, <2>1 DEF JobOnce
<1>5. ASSUME NEW w \in Workers, Take(w) PROVE JobOnce'
  <2>1. /\ queue \in Seq(Uploads) /\ queue # <<>> /\ queue' = Tail(queue)
        /\ ended' = ended
    BY <1>5 DEF Take, TypeOK
  <2>2. PICK u \in Uploads : u = Head(queue) /\ queue[1] = u /\ 1 \in DOMAIN queue
    BY <2>1
  <2>3. \A i, j \in DOMAIN queue' : queue'[i] = queue'[j] => i = j
    BY <2>1 DEF JobOnce
  <2>4. \A i \in DOMAIN queue' : queue'[i] # u
    BY <2>1, <2>2 DEF JobOnce
  <2>5. \A v \in Uploads : InQueue(v) <=> InQueue(v)' \/ v = u
    BY <1>5, <2>2, TakenFromQueue
  <2>6. ~InQueue(u)'
    BY <2>4 DEF InQueue
  <2>7. \A x \in Workers : \A v \in worker[x].job : v \in Uploads /\ v # u
    BY <2>2, <2>5 DEF JobOnce, TypeOK, WorkerStates
  <2>8. worker'[w].job = {u} /\ \A x \in Workers \ {w} : worker'[x] = worker[x]
    BY <1>5, <2>2, TakeEffect
  <2>9. \A x \in Workers : \A v \in worker'[x].job : ~InQueue(v)'
    BY <2>5, <2>6, <2>7, <2>8 DEF JobOnce
  <2>10. \A x, y \in Workers : worker'[x].job \cap worker'[y].job # {} => x = y
    BY <2>7, <2>8 DEF JobOnce
  <2>11. ended[u] = "no"
    BY <2>5 DEF JobOnce
  <2>12. \A v \in Uploads : ended[v] # "no" =>
           ~InQueue(v)' /\ \A x \in Workers : v \notin worker'[x].job
    BY <2>5, <2>8, <2>11 DEF JobOnce
  <2> QED
    BY <2>1, <2>3, <2>9, <2>10, <2>12 DEF JobOnce
<1>6. ASSUME NEW w \in Workers, Ack(w) PROVE JobOnce'
  <2>1. UNCHANGED rq /\ worker'[w].job = {} /\ \A x \in Workers \ {w} : worker'[x] = worker[x]
    BY <1>6, IdleEffect DEF Ack
  <2> QED
    BY <2>1 DEF JobOnce, InQueue, rq
<1>7. ASSUME NEW u \in Uploads, Handle(u), ~Enqueue(u) PROVE UNCHANGED <<rq, worker>>
  BY <1>7 DEF Handle, Check, Insert, Put, Commit, HandlerDies
<1>8. ASSUME NEW w \in Workers, NEW u \in Uploads, Works(w, u) PROVE JobOnce'
  BY <1>1, <1>8, WorksEffect
<1>9. ASSUME NEW w \in Workers, NEW u \in Uploads, Drops(w, u) PROVE JobOnce'
  <2>1. \A x \in Workers \ {w} : u \notin worker[x].job
    BY <1>9, DropsEffect DEF JobOnce, Holds
  <2>2. ~InQueue(u)
    BY <1>9, DropsEffect DEF JobOnce, Holds
  <2> QED
    BY <1>9, <2>1, <2>2, DropsEffect DEF JobOnce, InQueue
<1>10. CASE UNCHANGED vars \/ \E f \in Files : Cite(f)
  BY <1>1, <1>10 DEF vars, Cite, rq
<1> QED
  BY <1>1, <1>3, <1>4, <1>5, <1>6, <1>7, <1>8, <1>9, <1>10, JobSteps

-----------------------------------------------------------------------------
(* What settled a resume is final until its own job runs again.                *)

Running(w, u) == Holds(w, u) /\ worker[w].pc \in {"fetch", "render", "persist", "fail"}
Settled(f) == row[f].state \in {"completed", "failed"}

\* A job runs on a row in processing, and only a run settles a row.
RunsStarted ==
  /\ \A w \in Workers, u \in Uploads :
       Running(w, u) => row[File(u)].state = "processing" /\ attempt[u] > 0
  /\ \A f \in Files : Settled(f) => \A u \in row[f].owner : attempt[u] > 0

LEMMA RunWrites ==
  ASSUME TypeOK, RunsStarted, NEW w \in Workers, NEW u \in Uploads, Works(w, u)
  PROVE  /\ \A f \in Files \ {File(u)} : row'[f] = row[f]
         /\ row'[File(u)].owner = row[File(u)].owner
         /\ \A v \in Uploads \ {u} : attempt'[v] = attempt[v]
         /\ \/ /\ row'[File(u)] = [row[File(u)] EXCEPT !.state = "processing", !.code = "none"]
               /\ row'[File(u)].state = "processing"
               /\ attempt'[u] = attempt[u] + 1
            \/ /\ Running(w, u) /\ worker'[w].pc # "ack" /\ row' = row
               /\ attempt' = attempt
            \/ /\ Running(w, u) /\ worker'[w].pc = "ack" /\ row[File(u)].state = "processing"
               /\ attempt' = attempt
<1>1. row \in [Files -> Rows] /\ File(u) \in Files /\ attempt \in [Uploads -> Nat]
  BY FileTyped DEF TypeOK
<1>2. CASE Begin(w, u)
  BY <1>1, <1>2 DEF Begin, Rows
<1>3. CASE Fetch(w, u) \/ RenderPage(w, u) \/ AnalysisFails(w, u)
  <2>1. Running(w, u) /\ row' = row /\ attempt' = attempt
    BY <1>3 DEF Fetch, RenderPage, AnalysisFails, Running, On
  <2>2. worker'[w].pc # "ack"
    BY <1>3, FetchEffect, NextPageEffect, CaughtEffect DEF RenderPage, AnalysisFails
  <2> QED
    BY <2>1, <2>2
<1>4. CASE Fail(w, u) \/ Persist(w, u)
  <2>1. Running(w, u) /\ worker'[w].pc = "ack" /\ attempt' = attempt
    BY <1>4, StepEffect DEF Fail, Persist, Running, On
  <2>2. row[File(u)].state = "processing"
    BY <2>1 DEF RunsStarted
  <2> QED
    BY <1>1, <1>4, <2>1, <2>2, RowWritten
<1> QED
  BY <1>2, <1>3, <1>4 DEF Works

LEMMA RunsStartedStep ==
  ASSUME TypeOK, Ownership, JobOnce, RunsStarted, [Next]_vars
  PROVE  RunsStarted'
<1>1. \A v \in Uploads : File(v)' = File(v) /\ File(v) \in Files
  BY FilesKept, FileTyped
<1>2. ASSUME UNCHANGED <<row, attempt>>,
             \A x \in Workers, v \in Uploads : Running(x, v)' => Running(x, v)
      PROVE  RunsStarted'
  BY <1>1, <1>2 DEF RunsStarted, Settled
<1>3. ASSUME NEW u \in Uploads, Commit(u) PROVE RunsStarted'
  <2>1. /\ UNCHANGED <<attempt, worker>> /\ row[File(u)].state = "none"
    BY <1>3 DEF Commit, Ownership, IndexHeld, Flushed
  <2>2. /\ \A f \in Files \ {File(u)} : row'[f] = row[f]
        /\ row'[File(u)].state = "queued"
    BY <1>3, CommitWritten
  <2>3. \A x \in Workers, v \in Uploads : Running(x, v)' => Running(x, v)
    BY <2>1 DEF Running, Holds
  <2>4. \A x \in Workers, v \in Uploads :
          Running(x, v)' => row'[File(v)].state = "processing" /\ attempt[v] > 0
    BY <1>1, <2>1, <2>2, <2>3 DEF RunsStarted
  <2>5. \A f \in Files : Settled(f)' => \A v \in row'[f].owner : attempt[v] > 0
    BY <2>2 DEF RunsStarted, Settled
  <2> QED
    BY <1>1, <2>1, <2>4, <2>5 DEF RunsStarted
<1>4. ASSUME NEW u \in Uploads, (Handle(u) /\ ~Commit(u)) \/ Requeue(u) PROVE RunsStarted'
  <2>1. UNCHANGED <<row, attempt, worker>>
    BY <1>4 DEF Handle, Check, Insert, Put, Enqueue, HandlerDies, Requeue
  <2> QED
    BY <1>2, <2>1 DEF Running, Holds
<1>5. ASSUME NEW w \in Workers, Take(w) \/ Ack(w) \/ \E u \in Uploads : Drops(w, u)
      PROVE  RunsStarted'
  <2>1. UNCHANGED <<row, attempt>>
    BY <1>5, DropsEffect DEF Take, Ack
  <2>2. \A x \in Workers, v \in Uploads : Running(x, v)' => Running(x, v)
    BY <1>5, TakeEffect, IdleEffect, DropsEffect DEF Ack, Running, Holds
  <2> QED
    BY <1>2, <2>1, <2>2
<1>6. ASSUME NEW w \in Workers, NEW u \in Uploads, Works(w, u) PROVE RunsStarted'
  <2>1. /\ Holds(w, u) /\ worker'[w].job = worker[w].job
        /\ \A x \in Workers \ {w} : worker'[x] = worker[x] /\ ~Holds(x, u)
    BY <1>6, WorksEffect DEF JobOnce, Holds
  <2>2. /\ Running(w, u) => row[File(u)].state = "processing" /\ attempt[u] > 0
        /\ attempt \in [Uploads -> Nat]
    BY DEF RunsStarted, TypeOK
  <2>3. /\ \A f \in Files \ {File(u)} : row'[f] = row[f]
        /\ row'[File(u)].owner = row[File(u)].owner
        /\ \A v \in Uploads \ {u} : attempt'[v] = attempt[v]
        /\ \/ row'[File(u)].state = "processing" /\ attempt'[u] = attempt[u] + 1
           \/ Running(w, u) /\ worker'[w].pc # "ack" /\ row' = row /\ attempt' = attempt
           \/ Running(w, u) /\ worker'[w].pc = "ack" /\ attempt' = attempt
    BY <1>6, RunWrites
  <2>4. \A v \in Uploads : attempt[v] > 0 => attempt'[v] > 0
    <3>1. attempt'[u] = attempt[u] + 1 \/ attempt'[u] = attempt[u]
      BY <2>3
    <3>2. attempt[u] > 0 => attempt'[u] > 0
      BY <2>2, <3>1
    <3> QED
      BY <2>3, <3>2
  <2>5. ASSUME NEW x \in Workers, NEW v \in Uploads, Running(x, v)'
        PROVE  row'[File(v)].state = "processing" /\ attempt'[v] > 0
    <3>1. CASE v = u
      <4>1. x = w
        BY <2>1, <2>5, <3>1 DEF Running, Holds
      <4>2. worker'[w].pc # "ack"
        BY <2>5, <4>1 DEF Running
      <4> QED
        <5>1. attempt[u] + 1 > 0
          BY <2>2
        <5> QED
          BY <1>1, <2>2, <2>3, <3>1, <4>2, <5>1
    <3>2. CASE v # u
      <4>1. x # w
        BY <2>1, <2>5, <3>2 DEF Running, Holds
      <4>2. Running(x, v)
        BY <2>1, <2>5, <4>1 DEF Running, Holds
      <4>3. row[File(v)].state = "processing" /\ attempt[v] > 0
        BY <4>2 DEF RunsStarted
      <4>4. File(v) # File(u)
        BY <2>1, <3>2, <4>2, OneCallPerRow DEF Running, Holds, HasJob
      <4> QED
        BY <1>1, <2>3, <3>2, <4>3, <4>4
    <3> QED
      BY <3>1, <3>2
  <2>6. ASSUME NEW f \in Files, Settled(f)'
        PROVE  \A v \in row'[f].owner : attempt'[v] > 0
    <3>1. CASE f # File(u)
      <4>1. row'[f] = row[f] /\ row[f].owner \subseteq Uploads
        BY <2>3, <3>1 DEF TypeOK, Rows
      <4> QED
        BY <2>4, <2>6, <4>1 DEF RunsStarted, Settled
    <3>2. CASE f = File(u)
      <4>1. row[f].owner = {u} /\ row'[f].owner = {u}
        BY <2>1, <2>3, <3>2, WorkerOwnsRow
      <4>2. Running(w, u) \/ row'[f].state = "processing"
        BY <2>3, <3>2
      <4> QED
        BY <2>2, <2>4, <2>6, <4>1, <4>2 DEF Settled
    <3> QED
      BY <3>1, <3>2
  <2> QED
    BY <1>1, <2>5, <2>6 DEF RunsStarted
<1>7. CASE UNCHANGED vars \/ \E f \in Files : Cite(f)
  <2>1. UNCHANGED <<row, attempt, worker>>
    BY <1>7 DEF vars, Cite
  <2> QED
    BY <1>2, <2>1 DEF Running, Holds
<1> QED
  BY <1>3, <1>4, <1>5, <1>6, <1>7, JobSteps

LEMMA JobsInductive == SafeSpec => [](JobOnce /\ RunsStarted)
<1>1. Init => JobOnce /\ RunsStarted
  <2> SUFFICES ASSUME Init PROVE JobOnce /\ RunsStarted
    OBVIOUS
  <2>1. /\ \A u \in Uploads : ended[u] = "no"
        /\ \A f \in Files : row[f] = NoRow
        /\ \A w \in Workers : worker[w] = Idle
        /\ queue = <<>>
    BY DEF Init
  <2> QED
    BY <2>1 DEF JobOnce, RunsStarted, Running, Settled, InQueue, Holds, Idle, NoRow
<1>2. ResumeInv /\ JobOnce /\ RunsStarted /\ [Next]_vars => (JobOnce /\ RunsStarted)'
  BY JobOnceStep, RunsStartedStep DEF ResumeInv
<1> QED
  BY <1>1, <1>2, ResumeInvInductive, PTL DEF SafeSpec

(* A resume that process_resume has completed or failed is touched by nothing    *)
(* but the next run of its own job, which an operator has put back, and its rows  *)
(* stay until that run ends: under every fault, crash, kill and requeue.         *)
THEOREM SettledResumesFinal == SafeSpec => SettledIsFinal
<1> DEFINE Final ==
      \A f \in Files :
        row[f].state \in {"completed", "failed"} /\ row'[f] # row[f] =>
          /\ row'[f] = [row[f] EXCEPT !.state = "processing", !.code = "none"]
          /\ \A u \in row[f].owner : attempt[u] > 0 /\ attempt'[u] = attempt[u] + 1
<1>1. ASSUME TypeOK, Ownership, JobOnce, RunsStarted, [Next]_vars PROVE Final
  <2>1. ASSUME row' = row PROVE Final
    BY <2>1
  <2>2. ASSUME NEW u \in Uploads, Commit(u) PROVE Final
    <3>1. row[File(u)].state = "none"
      BY <1>1, <2>2 DEF Commit, Ownership, IndexHeld, Flushed
    <3> QED
      BY <1>1, <2>2, <3>1, CommitWritten
  <2>3. ASSUME NEW u \in Uploads, (Handle(u) /\ ~Commit(u)) \/ Requeue(u) PROVE row' = row
    BY <1>1, <2>3 DEF Handle, Check, Insert, Put, Enqueue, HandlerDies, Requeue
  <2>4. ASSUME NEW w \in Workers, Take(w) \/ Ack(w) \/ \E u \in Uploads : Drops(w, u)
        PROVE  row' = row
    BY <1>1, <2>4, DropsEffect DEF Take, Ack
  <2>5. ASSUME NEW w \in Workers, NEW u \in Uploads, Works(w, u) PROVE Final
    <3>1. row[File(u)].owner = {u}
      BY <1>1, <2>5, WorksEffect, WorkerOwnsRow
    <3>2. Settled(File(u)) => attempt[u] > 0
      BY <1>1, <3>1, FileTyped DEF RunsStarted
    <3>3. Running(w, u) => row[File(u)].state = "processing"
      BY <1>1 DEF RunsStarted
    <3>4. /\ \A f \in Files \ {File(u)} : row'[f] = row[f]
          /\ \/ /\ row'[File(u)] = [row[File(u)] EXCEPT !.state = "processing", !.code = "none"]
                /\ attempt'[u] = attempt[u] + 1
             \/ row' = row
             \/ row[File(u)].state = "processing"
      BY <1>1, <2>5, RunWrites
    <3> QED
      BY <3>1, <3>2, <3>4 DEF Settled
  <2>6. CASE UNCHANGED vars \/ \E f \in Files : Cite(f)
    BY <2>1, <2>6 DEF vars, Cite
  <2> QED
    BY <1>1, <2>1, <2>2, <2>3, <2>4, <2>5, <2>6, JobSteps
<1>2. ResumeInv /\ JobOnce /\ RunsStarted /\ [Next]_vars => [Final]_vars
  BY <1>1 DEF ResumeInv
<1> QED
  BY <1>2, ResumeInvInductive, JobsInductive, PTL DEF SafeSpec, SettledIsFinal

-----------------------------------------------------------------------------
(* A job that is not both killed and requeued runs once.                       *)

\* Nobody requeues what was killed.
KilledForGood == ~({"crash", "requeue"} \subseteq Faults)

NothingEnded == "crash" \notin Faults => \A u \in Uploads : ended[u] = "no"

\* A job that waits has never run, and one that runs does so for the first time.
Fresh(u) == At(u, "enqueue") \/ InQueue(u) \/ \E w \in Workers : On(w, u, "begin")
FreshJobs ==
  /\ \A u \in Uploads : upload[u].answer = "none" => attempt[u] = 0
  /\ \A u \in Uploads : Fresh(u) => row[File(u)].state = "queued" /\ attempt[u] = 0
RunningJobs ==
  \A w \in Workers, u \in Uploads :
    Running(w, u) => row[File(u)].state = "processing" /\ attempt[u] = 1

\* Only a completed resume has an analysis that a match run could cite.
SettledRows ==
  \A f \in Files :
    /\ row[f].state # "completed" => row[f].analyses = {}
    /\ f \in cited => row[f].state = "completed"

RunOnce == JobOnce /\ NothingEnded /\ FreshJobs /\ RunningJobs /\ SettledRows

LEMMA HoldersHaveJobs ==
  ASSUME NEW u \in Uploads
  PROVE  /\ Fresh(u) => At(u, "enqueue") \/ HasJob(u)
         /\ \A w \in Workers : Holds(w, u) => HasJob(u)
  BY DEF Fresh, HasJob, On, Holds

(* No job raises, since the rows it would delete are cited only after it is the  *)
(* first to write any; so there is nothing to requeue.                          *)
LEMMA NothingRaises ==
  ASSUME TypeOK, RunOnce, KilledForGood, NEW u \in Uploads
  PROVE  /\ ~Requeue(u)
         /\ \A w \in Workers : ~PersistRaises(w, u)
<1>1. ~Requeue(u)
  BY DEF RunOnce, NothingEnded, Requeue, KilledForGood
<1>2. ASSUME NEW w \in Workers, PersistRaises(w, u) PROVE FALSE
  <2>1. Running(w, u) /\ File(u) \in cited /\ File(u) \in Files
    BY <1>2, FileTyped DEF PersistRaises, Running, On
  <2> QED
    BY <2>1 DEF RunOnce, RunningJobs, SettledRows
<1> QED
  BY <1>1, <1>2

(* The steps that are left.                                                      *)
LEMMA CalmSteps ==
  ASSUME TypeOK, RunOnce, KilledForGood, [Next]_vars
  PROVE  \/ \E u \in Uploads : Handle(u)
         \/ \E w \in Workers : Take(w) \/ Ack(w) \/ \E u \in Uploads : Works(w, u) \/ Crash(w, u)
         \/ \E f \in Files : Cite(f)
         \/ UNCHANGED vars
  BY NothingRaises DEF Next, Serve, Works

LEMMA NothingEndedStep ==
  ASSUME TypeOK, RunOnce, KilledForGood, [Next]_vars
  PROVE  NothingEnded'
<1> USE DEF RunOnce
<1>1. ASSUME ended' = ended PROVE NothingEnded'
  BY <1>1 DEF NothingEnded
<1>2. ASSUME NEW u \in Uploads, Handle(u) PROVE ended' = ended
  BY <1>2 DEF Handle, Check, Insert, Put, Commit, Enqueue, HandlerDies, rq
<1>3. ASSUME NEW w \in Workers, Take(w) \/ Ack(w) \/ \E u \in Uploads : Works(w, u)
      PROVE  ended' = ended
  BY <1>3, WorksEffect DEF Take, Ack, rq
<1>4. ASSUME NEW w \in Workers, NEW u \in Uploads, Crash(w, u) PROVE NothingEnded'
  BY <1>4 DEF Crash, NothingEnded
<1>5. CASE UNCHANGED vars \/ \E f \in Files : Cite(f)
  BY <1>1, <1>5 DEF vars, Cite, rq
<1> QED
  BY <1>1, <1>2, <1>3, <1>4, <1>5, CalmSteps

(* What a transaction or other work of a job does to its row: it was queued     *)
(* when the job begins and processing from there until it is settled.           *)
LEMMA WorkWrites ==
  ASSUME TypeOK, RunOnce, NEW w \in Workers, NEW u \in Uploads, Works(w, u)
  PROVE  /\ \A f \in Files \ {File(u)} : row'[f] = row[f]
         /\ row'[File(u)].owner = row[File(u)].owner
         /\ \A v \in Uploads \ {u} : attempt'[v] = attempt[v]
         /\ \/ /\ Begin(w, u) /\ worker'[w].pc = "fetch"
               /\ row[File(u)].state = "queued" /\ row'[File(u)].state = "processing"
               /\ row'[File(u)].analyses = row[File(u)].analyses
               /\ attempt'[u] = 1
            \/ /\ Running(w, u) /\ worker'[w].pc # "ack" /\ row' = row
               /\ attempt' = attempt
            \/ /\ Fail(w, u) /\ worker'[w].pc = "ack"
               /\ row[File(u)].state = "processing" /\ row'[File(u)].state = "failed"
               /\ row'[File(u)].analyses = row[File(u)].analyses
               /\ attempt' = attempt
            \/ /\ Persist(w, u) /\ worker'[w].pc = "ack"
               /\ row[File(u)].state = "processing" /\ row'[File(u)].state = "completed"
               /\ row'[File(u)].analyses = {1}
               /\ attempt' = attempt
<1> USE DEF RunOnce
<1>1. row \in [Files -> Rows] /\ File(u) \in Files /\ attempt \in [Uploads -> Nat]
  BY FileTyped DEF TypeOK
<1>2. CASE Begin(w, u)
  <2>1. Fresh(u)
    BY <1>2 DEF Begin, Fresh
  <2>2. row[File(u)].state = "queued" /\ attempt[u] = 0
    BY <2>1 DEF FreshJobs
  <2>3. worker'[w].pc = "fetch"
    BY <1>2, StepEffect DEF Begin
  <2> QED
    BY <1>1, <1>2, <2>2, <2>3 DEF Begin, Rows
<1>3. CASE Fetch(w, u) \/ RenderPage(w, u) \/ AnalysisFails(w, u)
  <2>1. Running(w, u) /\ row' = row /\ attempt' = attempt
    BY <1>3 DEF Fetch, RenderPage, AnalysisFails, Running, On
  <2>2. worker'[w].pc # "ack"
    BY <1>3, FetchEffect, NextPageEffect, CaughtEffect DEF RenderPage, AnalysisFails
  <2> QED
    BY <2>1, <2>2
<1>4. CASE Fail(w, u)
  <2>1. Running(w, u) /\ worker'[w].pc = "ack"
    BY <1>4, StepEffect DEF Fail, Running, On
  <2>2. row[File(u)].state = "processing"
    BY <2>1 DEF RunningJobs
  <2> QED
    BY <1>1, <1>4, <2>1, <2>2 DEF Fail, Rows
<1>5. CASE Persist(w, u)
  <2>1. Running(w, u) /\ worker'[w].pc = "ack"
    BY <1>5, StepEffect DEF Persist, Running, On
  <2>2. row[File(u)].state = "processing" /\ attempt[u] = 1
    BY <2>1 DEF RunningJobs
  <2> QED
    BY <1>1, <1>5, <2>1, <2>2 DEF Persist, Rows
<1> QED
  BY <1>2, <1>3, <1>4, <1>5 DEF Works

LEMMA FreshJobsStep ==
  ASSUME TypeOK, Ownership, RunOnce, KilledForGood, [Next]_vars
  PROVE  FreshJobs'
<1> USE DEF RunOnce
<1>1. \A v \in Uploads : File(v)' = File(v) /\ File(v) \in Files
  BY FilesKept, FileTyped
<1>2. ASSUME UNCHANGED <<row, attempt>>,
             \A v \in Uploads : /\ upload'[v].answer = "none" => upload[v].answer = "none"
                                /\ Fresh(v)' => Fresh(v)
      PROVE  FreshJobs'
  BY <1>1, <1>2 DEF FreshJobs
<1>3. ASSUME NEW u \in Uploads, Check(u) \/ Insert(u) \/ Put(u) \/ HandlerDies(u)
      PROVE  FreshJobs'
  <2>1. UNCHANGED <<row, attempt, rq, worker>>
    BY <1>3 DEF Check, Insert, Put, HandlerDies
  <2>2. \A v \in Uploads : /\ upload'[v].answer = "none" => upload[v].answer = "none"
                           /\ At(v, "enqueue")' => At(v, "enqueue")
    BY <1>3, GotoEffect, AnswerEffect DEF Check, Insert, Put, HandlerDies, At
  <2>3. \A v \in Uploads : Fresh(v)' => Fresh(v)
    BY <2>1, <2>2 DEF Fresh, InQueue, On, Holds, rq
  <2> QED
    BY <1>2, <2>1, <2>2, <2>3
<1>4. ASSUME NEW u \in Uploads, Commit(u) PROVE FreshJobs'
  <2>1. /\ UNCHANGED <<attempt, rq, worker>>
        /\ At(u, "commit") /\ row[File(u)].state = "none"
    BY <1>4 DEF Commit, Ownership, IndexHeld, Flushed
  <2>2. upload[u].answer = "none" /\ attempt[u] = 0
    BY <2>1 DEF Ownership, AnsweredLast, At, FreshJobs
  <2>3. /\ \A v \in Uploads \ {u} : upload'[v] = upload[v]
        /\ upload'[u].answer = upload[u].answer
    BY <1>4, GotoEffect DEF Commit
  <2>4. ASSUME NEW v \in Uploads \ {u}, Fresh(v)
        PROVE  row'[File(v)].state = "queued" /\ attempt[v] = 0
    <3>1. row[File(v)].state = "queued" /\ attempt[v] = 0
      BY <2>4 DEF FreshJobs
    <3> QED
      BY <1>1, <1>4, <2>1, <3>1, CommitWritten
  <2>5. \A v \in Uploads \ {u} : Fresh(v)' => Fresh(v)
    BY <2>1, <2>3 DEF Fresh, InQueue, On, Holds, At, rq
  <2>6. row'[File(u)].state = "queued"
    BY <1>4, CommitWritten
  <2> QED
    BY <1>1, <2>1, <2>2, <2>3, <2>4, <2>5, <2>6 DEF FreshJobs
<1>5. ASSUME NEW u \in Uploads, Enqueue(u) PROVE FreshJobs'
  <2>1. /\ UNCHANGED <<row, attempt, ended, worker>> /\ At(u, "enqueue")
        /\ queue' = Append(queue, u)
    BY <1>5 DEF Enqueue, store
  <2>2. \A v \in Uploads : InQueue(v)' => InQueue(v) \/ v = u
    BY <2>1, PutInQueue
  <2>3. \A v \in Uploads : /\ upload'[v].answer = "none" => upload[v].answer = "none"
                           /\ At(v, "enqueue")' => At(v, "enqueue")
    BY <1>5, AnswerEffect DEF Enqueue, At
  <2>4. \A v \in Uploads : Fresh(v)' => Fresh(v)
    BY <2>1, <2>2, <2>3 DEF Fresh, On, Holds
  <2> QED
    BY <1>2, <2>1, <2>3, <2>4
<1>6. ASSUME NEW w \in Workers, Take(w) PROVE FreshJobs'
  <2>1. UNCHANGED <<row, attempt, ended, upload>>
    BY <1>6 DEF Take
  <2>2. \A v \in Uploads : Fresh(v)' => Fresh(v)
    BY <1>6, <2>1, TakenFromQueue, TakeEffect DEF Fresh, On, Holds, At
  <2> QED
    BY <1>2, <2>1, <2>2
<1>7. ASSUME NEW w \in Workers, Ack(w) \/ \E u \in Uploads : Crash(w, u) PROVE FreshJobs'
  <2>1. UNCHANGED <<row, attempt, queue, upload>>
    BY <1>7 DEF Ack, Crash, rq
  <2>2. \A v \in Uploads : Fresh(v)' => Fresh(v)
    <3>1. worker'[w].pc = "idle" /\ \A x \in Workers \ {w} : worker'[x] = worker[x]
      BY <1>7, IdleEffect DEF Ack, Crash
    <3> QED
      BY <2>1, <3>1 DEF Fresh, On, Holds, InQueue, At
  <2> QED
    BY <1>2, <2>1, <2>2
<1>8. ASSUME NEW w \in Workers, NEW u \in Uploads, Works(w, u) PROVE FreshJobs'
  <2>1. /\ Holds(w, u) /\ HasJob(u) /\ ~InQueue(u)
        /\ \A x \in Workers \ {w} : ~Holds(x, u)
    BY <1>8, WorksEffect, HoldersHaveJobs DEF JobOnce, Holds
  <2>2. At(u, "answered") /\ upload[u].answer # "none"
    BY <2>1, WorkerOwnsRow
  <2>3. /\ UNCHANGED <<upload, rq>> /\ worker'[w].pc # "begin"
        /\ \A x \in Workers \ {w} : worker'[x] = worker[x]
    BY <1>8, WorksEffect
  <2>4. \A v \in Uploads : Fresh(v)' => Fresh(v) /\ v # u
    BY <2>1, <2>2, <2>3 DEF Fresh, On, Holds, InQueue, At, rq
  <2>5. ASSUME NEW v \in Uploads \ {u}, Fresh(v)
        PROVE  row'[File(v)] = row[File(v)] /\ attempt'[v] = attempt[v]
    BY <1>1, <1>8, <2>1, <2>5, OneCallPerRow, HoldersHaveJobs, WorkWrites
  <2>6. \A v \in Uploads : upload[v].answer = "none" => attempt'[v] = attempt[v]
    BY <1>8, <2>2, WorkWrites
  <2> QED
    BY <1>1, <2>3, <2>4, <2>5, <2>6 DEF FreshJobs
<1>9. CASE UNCHANGED vars \/ \E f \in Files : Cite(f)
  <2>1. UNCHANGED <<row, upload, rq, worker, attempt>>
    BY <1>9 DEF vars, Cite, rq
  <2> QED
    BY <1>2, <2>1 DEF Fresh, On, Holds, At, InQueue, rq
<1> QED
  BY <1>3, <1>4, <1>5, <1>6, <1>7, <1>8, <1>9, CalmSteps DEF Handle

LEMMA RunningJobsStep ==
  ASSUME TypeOK, Ownership, RunOnce, KilledForGood, [Next]_vars
  PROVE  RunningJobs' /\ SettledRows'
<1> USE DEF RunOnce
<1>1. \A v \in Uploads : File(v)' = File(v) /\ File(v) \in Files
  BY FilesKept, FileTyped
<1>2. ASSUME UNCHANGED <<row, attempt>>,
             \A x \in Workers, v \in Uploads : Running(x, v)' => Running(x, v)
      PROVE  RunningJobs'
  BY <1>1, <1>2 DEF RunningJobs
<1>3. ASSUME NEW u \in Uploads, Commit(u) PROVE RunningJobs' /\ SettledRows'
  <2>1. /\ UNCHANGED <<attempt, worker, cited>> /\ row[File(u)].state = "none"
    BY <1>3 DEF Commit, Ownership, IndexHeld, Flushed
  <2>2. \A f \in Files \ {File(u)} : row'[f] = row[f]
    BY <1>3, CommitWritten
  <2>3. row'[File(u)].analyses = {}
    BY <1>3, CommitWritten
  <2>4. RunningJobs'
    BY <1>1, <2>1, <2>2 DEF RunningJobs, Running, Holds
  <2>5. SettledRows'
    BY <2>1, <2>2, <2>3 DEF SettledRows
  <2> QED
    BY <2>4, <2>5
<1>4. ASSUME NEW u \in Uploads, Handle(u), ~Commit(u) PROVE RunningJobs' /\ SettledRows'
  <2>1. UNCHANGED <<row, attempt, worker, cited>>
    BY <1>4 DEF Handle, Check, Insert, Put, Enqueue, HandlerDies
  <2> QED
    BY <1>2, <2>1 DEF SettledRows, Running, Holds
<1>5. ASSUME NEW w \in Workers, Take(w) \/ Ack(w) \/ \E u \in Uploads : Crash(w, u)
      PROVE  RunningJobs' /\ SettledRows'
  <2>1. UNCHANGED <<row, attempt, cited>>
    BY <1>5 DEF Take, Ack, Crash
  <2>2. \A x \in Workers, v \in Uploads : Running(x, v)' => Running(x, v)
    BY <1>5, TakeEffect, IdleEffect DEF Ack, Crash, Running, Holds
  <2> QED
    BY <1>2, <2>1, <2>2 DEF SettledRows
<1>6. ASSUME NEW w \in Workers, NEW u \in Uploads, Works(w, u)
      PROVE  RunningJobs' /\ SettledRows'
  <2>1. /\ Holds(w, u) /\ worker'[w].job = worker[w].job /\ cited' = cited
        /\ \A x \in Workers \ {w} : worker'[x] = worker[x] /\ ~Holds(x, u)
    BY <1>6, WorksEffect DEF JobOnce, Holds
  <2>2. ASSUME NEW x \in Workers, NEW v \in Uploads, Running(x, v)'
        PROVE  row'[File(v)].state = "processing" /\ attempt'[v] = 1
    <3>1. CASE v = u
      <4>1. x = w
        BY <2>1, <2>2, <3>1 DEF Running, Holds
      <4>2. worker'[w].pc # "ack"
        BY <2>2, <4>1 DEF Running
      <4>3. Running(w, u) => row[File(u)].state = "processing" /\ attempt[u] = 1
        BY DEF RunningJobs
      <4> QED
        BY <1>6, <3>1, <4>2, <4>3, WorkWrites
    <3>2. CASE v # u
      <4>1. x # w
        BY <2>1, <2>2, <3>2 DEF Running, Holds
      <4>2. Running(x, v)
        BY <2>1, <2>2, <4>1 DEF Running, Holds
      <4>3. row[File(v)].state = "processing" /\ attempt[v] = 1
        BY <4>2 DEF RunningJobs
      <4>4. File(v) # File(u)
        BY <2>1, <3>2, <4>2, OneCallPerRow, HoldersHaveJobs DEF Running
      <4> QED
        BY <1>1, <1>6, <3>2, <4>3, <4>4, WorkWrites
    <3> QED
      BY <3>1, <3>2
  <2>3. RunningJobs'
    BY <1>1, <2>2 DEF RunningJobs
  <2>4. SettledRows'
    <3>1. /\ row'[File(u)].state # "completed" => row'[File(u)].analyses = {}
          /\ File(u) \in cited => row'[File(u)].state = "completed"
      <4>1. Running(w, u) => row[File(u)].state = "processing"
        BY DEF RunningJobs
      <4> QED
        BY <1>1, <1>6, <4>1, WorkWrites DEF SettledRows
    <3> QED
      BY <1>1, <1>6, <2>1, <3>1, WorkWrites DEF SettledRows
  <2> QED
    BY <2>3, <2>4
<1>7. ASSUME NEW f \in Files, Cite(f) PROVE RunningJobs' /\ SettledRows'
  <2>1. UNCHANGED <<row, attempt, worker>>
    BY <1>7 DEF Cite
  <2> QED
    BY <1>2, <1>7, <2>1 DEF Cite, SettledRows, Running, Holds
<1>8. CASE UNCHANGED vars
  BY <1>2, <1>8 DEF vars, SettledRows, Running, Holds
<1> QED
  BY <1>3, <1>4, <1>5, <1>6, <1>7, <1>8, CalmSteps

LEMMA RunOnceInductive ==
  ASSUME KilledForGood
  PROVE  SafeSpec => []RunOnce
<1>1. Init => RunOnce
  <2> SUFFICES ASSUME Init PROVE RunOnce
    OBVIOUS
  <2>1. /\ \A u \in Uploads : At(u, "new") /\ attempt[u] = 0 /\ ended[u] = "no"
        /\ \A f \in Files : row[f] = NoRow
        /\ \A w \in Workers : worker[w] = Idle
        /\ queue = <<>> /\ cited = {}
    BY DEF Init, At
  <2>2. \A u \in Uploads : ~Fresh(u)
    BY <2>1 DEF Fresh, InQueue, On, Idle, At
  <2> QED
    BY <2>1, <2>2 DEF RunOnce, JobOnce, NothingEnded, FreshJobs, RunningJobs, Running, SettledRows,
       At, Holds, Idle, NoRow
<1>2. ResumeInv /\ RunOnce /\ [Next]_vars => RunOnce'
  BY JobOnceStep, NothingEndedStep, FreshJobsStep, RunningJobsStep DEF ResumeInv, RunOnce
<1> QED
  BY <1>1, <1>2, ResumeInvInductive, PTL DEF SafeSpec

(* The four ways a row moves when no job runs twice, one row at a time.         *)
RowMoves(f) ==
  /\ \A g \in Files \ {f} : row'[g] = row[g]
  /\ \/ /\ row[f].state = "none" /\ row'[f].state = "queued"
        /\ row'[f].analyses = row[f].analyses
     \/ /\ row[f].state = "queued" /\ row'[f].state = "processing"
        /\ row'[f].analyses = row[f].analyses
     \/ /\ row[f].state = "processing" /\ row'[f].state = "failed"
        /\ row'[f].analyses = row[f].analyses
     \/ /\ row[f].state = "processing" /\ row'[f].state = "completed"
        /\ row'[f].analyses = {1}

LEMMA RowStep ==
  ASSUME TypeOK, Ownership, RunOnce, KilledForGood, [Next]_vars
  PROVE  row' = row \/ \E f \in Files : RowMoves(f)
<1>1. ASSUME NEW u \in Uploads, Handle(u), ~Commit(u) PROVE row' = row
  BY <1>1 DEF Handle, Check, Insert, Put, Enqueue, HandlerDies
<1>2. ASSUME NEW u \in Uploads, Commit(u) PROVE RowMoves(File(u))
  <2>1. File(u) \in Files /\ row[File(u)].state = "none"
    BY <1>2, FileTyped DEF Commit, Ownership, IndexHeld, Flushed
  <2>2. row[File(u)].analyses = {}
    BY <2>1 DEF RunOnce, SettledRows
  <2> QED
    BY <1>2, <2>1, <2>2, CommitWritten DEF RowMoves
<1>3. ASSUME NEW w \in Workers, Take(w) \/ Ack(w) \/ \E u \in Uploads : Crash(w, u)
      PROVE  row' = row
  BY <1>3 DEF Take, Ack, Crash
<1>4. ASSUME NEW w \in Workers, NEW u \in Uploads, Works(w, u)
      PROVE  row' = row \/ RowMoves(File(u))
  BY <1>4, WorkWrites DEF RowMoves
<1>5. CASE UNCHANGED vars \/ \E f \in Files : Cite(f)
  BY <1>5 DEF vars, Cite
<1> QED
  BY <1>1, <1>2, <1>3, <1>4, <1>5, FileTyped, CalmSteps

\* The phase of a resume whose row is in state s.
PhaseOf(s) ==
  CASE s = "none"                      -> "absent"
    [] s \in {"queued", "processing"} -> "open"
    [] s = "failed"                    -> "given_up"
    [] s = "completed"                 -> "decided"

LEMMA PhaseOfRow ==
  /\ Phase = [f \in Files |-> PhaseOf(row[f].state)]
  /\ Phase' = [f \in Files |-> PhaseOf(row'[f].state)]
  /\ PhaseOf("none") = "absent" /\ PhaseOf("failed") = "given_up"
  /\ PhaseOf("queued") = "open" /\ PhaseOf("processing") = "open"
  /\ PhaseOf("completed") = "decided"
<1>1. /\ Phase = [f \in Files |-> PhaseOf(row[f].state)]
      /\ Phase' = [f \in Files |-> PhaseOf(row'[f].state)]
  BY DEF Phase, PhaseOf
<1>2. /\ PhaseOf("none") = "absent" /\ PhaseOf("failed") = "given_up"
      /\ PhaseOf("queued") = "open" /\ PhaseOf("processing") = "open"
      /\ PhaseOf("completed") = "decided"
  BY DEF PhaseOf
<1> QED
  BY <1>1, <1>2

(* Under the same condition the handler, the queue and process_resume implement  *)
(* the safety part of WorkPromise: a resume is accepted once, decided or given   *)
(* up once, and what it was decided to hold is the rows of its only attempt.     *)
THEOREM ResumesKeepPromise ==
  ASSUME KilledForGood, MaxAttempts # 0
  PROVE  SafeSpec => Promise!SafeSpec
<1>1. Init => Promise!Init
  <2> SUFFICES ASSUME Init PROVE Promise!Init
    OBVIOUS
  <2>1. \A f \in Files : row[f] = NoRow
    BY DEF Init
  <2>2. Phase = [f \in Files |-> "absent"]
    BY <2>1, PhaseOfRow DEF NoRow
  <2>3. Analyses = [f \in Files |-> {}]
    BY <2>1 DEF Analyses, NoRow
  <2> QED
    BY <2>2, <2>3 DEF Promise!Init
<1>2. ASSUME ResumeInv, RunOnce, [Next]_vars PROVE [Promise!Next]_(Promise!promise)
  <2>1. CASE row' = row
    BY <2>1, PhaseOfRow DEF Promise!promise, Analyses
  <2>2. ASSUME NEW f \in Files, RowMoves(f) PROVE [Promise!Next]_(Promise!promise)
    <3>1. /\ Analyses = [g \in Files |-> row[g].analyses]
          /\ Analyses' = [g \in Files |-> row'[g].analyses]
          /\ \A g \in Files \ {f} : row'[g] = row[g]
      BY <2>2 DEF Analyses, RowMoves
    <3>2. ASSUME NEW s, row'[f].state = s PROVE Phase' = [Phase EXCEPT ![f] = PhaseOf(s)]
      BY <3>1, <3>2, PhaseOfRow
    <3>3. Phase[f] = PhaseOf(row[f].state)
      BY PhaseOfRow
    <3>4. CASE row[f].state = "none" /\ row'[f].state = "queued" /\ row'[f].analyses = row[f].analyses
      <4>1. Promise!Accept(f)
        BY <3>1, <3>2, <3>3, <3>4, PhaseOfRow DEF Promise!Accept
      <4> QED
        BY <4>1 DEF Promise!Next
    <3>5. CASE row[f].state = "queued" /\ row'[f].state = "processing"
               /\ row'[f].analyses = row[f].analyses
      <4>1. Phase' = Phase /\ Analyses' = Analyses
        BY <3>1, <3>2, <3>5, PhaseOfRow
      <4> QED
        BY <4>1 DEF Promise!promise
    <3>6. CASE row[f].state = "processing" /\ row'[f].state = "failed"
               /\ row'[f].analyses = row[f].analyses
      <4>1. Promise!GiveUp(f)
        BY <3>1, <3>2, <3>3, <3>6, PhaseOfRow DEF Promise!GiveUp
      <4> QED
        BY <4>1 DEF Promise!Next, Promise!Settle
    <3>7. CASE row[f].state = "processing" /\ row'[f].state = "completed"
               /\ row'[f].analyses = {1}
      <4>1. {1} \in {{n} : n \in 1..MaxAttempts}
        BY ConstantsOK
      <4>2. Analyses' = [Analyses EXCEPT ![f] = {1}]
        BY <3>1, <3>7
      <4>3. Phase[f] = "open" /\ Phase' = [Phase EXCEPT ![f] = "decided"]
        BY <3>2, <3>3, <3>7, PhaseOfRow
      <4>4. Promise!Decide(f)
        BY <4>1, <4>2, <4>3 DEF Promise!Decide
      <4> QED
        BY <4>4 DEF Promise!Next, Promise!Settle
    <3> QED
      BY <2>2, <3>4, <3>5, <3>6, <3>7 DEF RowMoves
  <2> QED
    BY <1>2, <2>1, <2>2, RowStep DEF ResumeInv
<1>3. ResumeInv /\ RunOnce /\ [Next]_vars => [Promise!Next]_(Promise!promise)
  BY <1>2
<1> QED
  BY <1>1, <1>3, ResumeInvInductive, RunOnceInductive, PTL DEF SafeSpec, Promise!SafeSpec
===============================================================================

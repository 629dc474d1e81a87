------------------------------- MODULE LlmProofs -------------------------------
(***************************************************************************)
(* What TLAPS proves of LlmCalls for every size of batch, every number of   *)
(* requirements and any age of an attestation: how often a batch is asked,  *)
(* what a refusal ends, that no requirement is left out, and what is        *)
(* recorded of it all.                                                      *)
(***************************************************************************)
EXTENDS LlmCalls, FiniteSetTheorems, TLAPS

-----------------------------------------------------------------------------
(* The inductive invariant.                                                    *)

\* The request that was the first attempt at the batch request i asks.
First(i) == i - sent[i].attempt + 1

\* The third attempt, and no other, is the fallback model's.
ModelOf(attempt) == IF attempt = 3 THEN "fallback" ELSE "first"

\* A request follows the first attempt at its batch, whose truncation alone
\* doubles its room; no attempt is made twice.
SentInOrder ==
  /\ \A i \in DOMAIN sent :
       /\ sent[i].batch \in 1..batch
       /\ sent[i].model = ModelOf(sent[i].attempt)
       /\ sent[i].attempt = 3 => set.fallback = "other"
       /\ First(i) \in DOMAIN sent
       /\ sent[i].doubled <=> sent[i].attempt > 1 /\ sent[First(i)].answer = "truncated"
  /\ \A i, j \in DOMAIN sent :
       sent[i].batch = sent[j].batch /\ sent[i].attempt = sent[j].attempt => i = j

\* The request the loop is about to send is a new one, and the attempts before
\* it are the last that were sent.
LoopInOrder ==
  /\ pc = "gate" => \A i \in DOMAIN sent : sent[i].batch < batch
  /\ pc = "request" =>
       /\ \A i \in DOMAIN sent : sent[i].batch < batch \/ sent[i].attempt < loop.attempt
       /\ loop.model = ModelOf(loop.attempt)
       /\ loop.attempt = 3 => set.fallback = "other"
       /\ loop.attempt - 1 <= Len(sent)
       /\ loop.doubled <=> /\ loop.attempt > 1
                           /\ sent[Len(sent) - loop.attempt + 2].answer = "truncated"

\* Each batch before the current one has one answer, and the current one has
\* one when all are in.
OneAnswerEach ==
  /\ batch \in 1..NumBatches
  /\ results = {i \in DOMAIN sent : sent[i].answer = "output"}
  /\ \A i, j \in results : sent[i].batch = sent[j].batch => i = j
  /\ pc \in {"gate", "request"} => \A i \in results : sent[i].batch < batch
  /\ \A k \in 1..(batch - 1) : \E i \in results : sent[i].batch = k
  /\ pc \in {"save", "completed"} =>
       batch = NumBatches /\ \E i \in results : sent[i].batch = batch

\* The code tells the last attempt from the moment the job fails.
Excused == {"unhandled", "llm_disabled", "privacy_gate"}
CodeKept ==
  /\ sent # <<>> \/ pc = "request" => set.key
  /\ pc \in {"fail", "failed"} /\ sent # <<>> /\ code \notin Excused =>
       code = IF sent[Len(sent)].answer = "refusal" THEN "llm_refused"
              ELSE CodeOf(sent[Len(sent)].answer)

LlmInv ==
  /\ TypeOK
  /\ SentInOrder
  /\ LoopInOrder
  /\ OneAnswerEach
  /\ CodeKept
  /\ RefusalIsFinal

-----------------------------------------------------------------------------
(* What a step does, as facts about the fields.                                *)

LEMMA Sent ==
  ASSUME TypeOK, NEW a \in Answers, Sends(a)
  PROVE  LET n == Len(sent) + 1 IN
         /\ sent' \in Seq(Requests) /\ Len(sent') = n /\ Len(sent) \in Nat
         /\ DOMAIN sent = 1..(n - 1) /\ DOMAIN sent' = 1..n
         /\ \A i \in 1..(n - 1) : sent'[i] = sent[i]
         /\ sent'[n].batch = batch /\ sent'[n].attempt = loop.attempt
         /\ sent'[n].model = loop.model /\ sent'[n].doubled = loop.doubled
         /\ sent'[n].answer = a
<1> DEFINE r == [batch |-> batch, attempt |-> loop.attempt, model |-> loop.model,
                 doubled |-> loop.doubled, answer |-> a]
<1>1. r \in Requests
  BY DEF TypeOK, Loops, Requests
<1>2. sent \in Seq(Requests) /\ sent' = Append(sent, r)
  BY DEF TypeOK, Sends
<1>3. /\ r.batch = batch /\ r.attempt = loop.attempt /\ r.model = loop.model
      /\ r.doubled = loop.doubled /\ r.answer = a
  OBVIOUS
<1> HIDE DEF r
<1> QED
  BY <1>1, <1>2, <1>3

LEMMA CodesTyped == \A a : CodeOf(a) \in Codes
  BY DEF CodeOf, Codes

LEMMA AgainTyped ==
  ASSUME TypeOK, NEW n \in 1..3, NEW e \in {"none"} \cup Failures
  PROVE  [loop EXCEPT !.attempt = n, !.error = e] \in Loops
  BY DEF TypeOK, Loops

LEMMA FallbackTyped ==
  ASSUME TypeOK, NEW n \in 1..3, NEW m \in {"first", "fallback"}, NEW e \in {"none"} \cup Failures
  PROVE  [loop EXCEPT !.attempt = n, !.model = m, !.error = e] \in Loops
  BY DEF TypeOK, Loops

LEMMA DoubledTyped ==
  ASSUME TypeOK, NEW n \in 1..3, NEW d \in BOOLEAN
  PROVE  [loop EXCEPT !.attempt = n, !.doubled = d] \in Loops
  BY DEF TypeOK, Loops

(* After a failed attempt the loop goes on to the next one, or gives up.       *)
LEMMA RetryEffect ==
  ASSUME TypeOK, LoopInOrder, pc = "request", NEW a \in Failures, Retry(a)
  PROVE  /\ loop' \in Loops /\ code' \in Codes
         /\ \/ /\ loop.attempt \in 1..2 /\ loop'.attempt = loop.attempt + 1
               /\ loop'.model = ModelOf(loop'.attempt)
               /\ loop'.attempt = 3 => set.fallback = "other"
               /\ loop'.doubled = loop.doubled /\ pc' = pc /\ code' = code
            \/ pc' = "fail" /\ code' = CodeOf(a)
<1>0. 2 \in 1..3 /\ 3 \in 1..3 /\ "fallback" \in {"first", "fallback"} /\ a \in {"none"} \cup Failures
  OBVIOUS
<1>1. loop \in Loops /\ code \in Codes /\ loop.model = ModelOf(loop.attempt)
  BY DEF TypeOK, LoopInOrder
<1>2. CASE /\ loop.attempt = 1 /\ UNCHANGED <<pc, code>>
           /\ loop' = [loop EXCEPT !.attempt = 2, !.error = a]
  <2>1. loop' \in Loops
    BY <1>0, <1>2, AgainTyped
  <2>2. loop'.attempt = 2 /\ loop'.model = loop.model /\ loop'.doubled = loop.doubled
    BY <1>1, <1>2 DEF Loops
  <2> QED
    BY <1>1, <1>2, <2>1, <2>2 DEF ModelOf
<1>3. CASE /\ loop.attempt = 2 /\ set.fallback = "other" /\ UNCHANGED <<pc, code>>
           /\ loop' = [loop EXCEPT !.attempt = 3, !.model = "fallback", !.error = a]
  <2>1. loop' \in Loops
    BY <1>0, <1>3, FallbackTyped
  <2>2. loop'.attempt = 3 /\ loop'.model = "fallback" /\ loop'.doubled = loop.doubled
    BY <1>1, <1>3 DEF Loops
  <2> QED
    BY <1>1, <1>3, <2>1, <2>2 DEF ModelOf
<1>4. CASE Fails(CodeOf(a)) /\ loop' = [loop EXCEPT !.error = a]
  BY <1>1, <1>4, CodesTyped DEF Loops, Fails
<1> QED
  BY <1>2, <1>3, <1>4 DEF Retry

(* There is a batch, and the last one reaches the last requirement.            *)
LEMMA NumBatchesTyped ==
  ASSUME TypeOK
  PROVE  NumBatches \in Nat /\ NumBatches >= 1
<1>1. job.size \in Nat /\ job.size >= 1 /\ BatchSize \in Nat /\ BatchSize >= 1
  BY BatchesOK DEF TypeOK, Jobs
<1>2. ASSUME NEW q, NEW n \in Nat, n >= 1, NEW b \in Nat, b >= 1, q = (n + b - 1) \div b
      PROVE  q \in Nat /\ q >= 1
  BY <1>2
<1> QED
  BY <1>1, <1>2 DEF NumBatches

-----------------------------------------------------------------------------
(* A request is sent.                                                          *)

LEMMA SentInOrderKept ==
  ASSUME TypeOK, SentInOrder, LoopInOrder, pc = "request", NEW a \in Answers, Sends(a),
         UNCHANGED set, batch >= 1, batch' \in {batch, batch + 1}
  PROVE  SentInOrder'
<1> DEFINE n == Len(sent) + 1
<1>1. /\ n \in Nat /\ Len(sent) = n - 1 /\ DOMAIN sent = 1..(n - 1) /\ DOMAIN sent' = 1..n
      /\ \A i \in 1..(n - 1) : sent'[i] = sent[i]
      /\ sent'[n].batch = batch /\ sent'[n].attempt = loop.attempt
      /\ sent'[n].model = loop.model /\ sent'[n].doubled = loop.doubled
  BY Sent
<1>2. /\ batch \in Nat /\ loop.attempt \in 1..3
      /\ \A i \in 1..(n - 1) : sent[i].attempt \in 1..3 /\ sent[i].batch \in Nat
  <2>1. \A i \in 1..(n - 1) : sent[i] \in Requests
    BY <1>1 DEF TypeOK
  <2> QED
    BY <2>1 DEF TypeOK, Loops, Requests
<1>3. /\ loop.model = ModelOf(loop.attempt) /\ (loop.attempt = 3 => set.fallback = "other")
      /\ loop.attempt - 1 <= n - 1
      /\ loop.doubled <=> loop.attempt > 1 /\ sent[n - loop.attempt + 1].answer = "truncated"
      /\ \A i \in 1..(n - 1) : sent[i].batch < batch \/ sent[i].attempt < loop.attempt
  <2>1. Len(sent) - loop.attempt + 2 = n - loop.attempt + 1
    BY <1>1, <1>2
  <2>2. loop.doubled <=> loop.attempt > 1 /\ sent[n - loop.attempt + 1].answer = "truncated"
    BY <2>1 DEF LoopInOrder
  <2> QED
    BY <1>1, <2>2 DEF LoopInOrder
<1> HIDE DEF n
<1>4. ASSUME NEW i \in 1..n
      PROVE  /\ sent'[i].batch \in 1..batch'
             /\ sent'[i].model = ModelOf(sent'[i].attempt)
             /\ sent'[i].attempt = 3 => set.fallback = "other"
             /\ First(i)' \in 1..n
             /\ sent'[i].doubled <=> sent'[i].attempt > 1 /\ sent'[First(i)'].answer = "truncated"
  <2>1. CASE i = n
    BY <1>1, <1>2, <1>3, <2>1 DEF First
  <2>2. CASE i # n
    <3>1. i \in 1..(n - 1) /\ sent'[i] = sent[i] /\ First(i)' = First(i) /\ First(i) \in 1..(n - 1)
      <4>1. i \in 1..(n - 1) /\ sent'[i] = sent[i]
        BY <1>1, <2>2
      <4>2. First(i)' = First(i)
        BY <4>1 DEF First
      <4>3. First(i) \in DOMAIN sent
        BY <1>1, <4>1 DEF SentInOrder
      <4> QED
        BY <1>1, <4>1, <4>2, <4>3
    <3>2. sent'[First(i)] = sent[First(i)]
      BY <1>1, <3>1
    <3>3. /\ sent[i].batch \in 1..batch /\ sent[i].model = ModelOf(sent[i].attempt)
          /\ sent[i].attempt = 3 => set.fallback = "other"
          /\ sent[i].doubled <=> sent[i].attempt > 1 /\ sent[First(i)].answer = "truncated"
      BY <1>1, <3>1 DEF SentInOrder
    <3>4. sent[i].batch \in 1..batch'
      BY <1>2, <3>3
    <3> QED
      BY <1>1, <3>1, <3>2, <3>3, <3>4
  <2> QED
    BY <2>1, <2>2
<1>5. ASSUME NEW i \in 1..n, NEW j \in 1..n,
             sent'[i].batch = sent'[j].batch, sent'[i].attempt = sent'[j].attempt
      PROVE  i = j
  <2>1. \A k \in 1..(n - 1) : ~(sent[k].batch = batch /\ sent[k].attempt = loop.attempt)
    BY <1>2, <1>3
  <2>2. CASE i # n /\ j # n
    <3>1. i \in 1..(n - 1) /\ j \in 1..(n - 1)
      BY <1>1, <2>2
    <3>2. sent[i].batch = sent[j].batch /\ sent[i].attempt = sent[j].attempt
      BY <1>1, <1>5, <3>1
    <3> QED
      BY <1>1, <3>1, <3>2 DEF SentInOrder
  <2> QED
    BY <1>1, <1>5, <2>1, <2>2
<1> QED
  BY <1>1, <1>4, <1>5 DEF SentInOrder

(* The attempts at the batch being asked, after another one was sent.          *)
LEMMA LoopGoesOn ==
  ASSUME TypeOK, LoopInOrder, pc = "request", NEW a \in Answers, Sends(a),
         pc' = "request", UNCHANGED <<set, batch>>,
         loop.attempt \in 1..2, loop'.attempt = loop.attempt + 1,
         loop'.model = ModelOf(loop'.attempt), loop'.attempt = 3 => set.fallback = "other",
         loop'.doubled <=> IF loop.attempt = 1 THEN a = "truncated" ELSE loop.doubled
  PROVE  LoopInOrder'
<1> DEFINE n == Len(sent) + 1
<1>1. /\ n \in Nat /\ Len(sent) = n - 1 /\ DOMAIN sent = 1..(n - 1) /\ DOMAIN sent' = 1..n
      /\ Len(sent') = n
      /\ \A i \in 1..(n - 1) : sent'[i] = sent[i]
      /\ sent'[n].batch = batch /\ sent'[n].attempt = loop.attempt
      /\ sent'[n].answer = a
  BY Sent
<1>2. /\ batch \in Nat /\ \A i \in 1..(n - 1) : sent[i].attempt \in 1..3 /\ sent[i].batch \in Nat
  <2>1. \A i \in 1..(n - 1) : sent[i] \in Requests
    BY <1>1 DEF TypeOK
  <2> QED
    BY <2>1 DEF TypeOK, Requests
<1>3. /\ loop.attempt - 1 <= n - 1
      /\ loop.doubled <=> loop.attempt > 1 /\ sent[n - loop.attempt + 1].answer = "truncated"
      /\ \A i \in 1..(n - 1) : sent[i].batch < batch \/ sent[i].attempt < loop.attempt
  BY <1>1 DEF LoopInOrder
<1> HIDE DEF n
<1>4. ASSUME NEW i \in 1..n PROVE sent'[i].batch < batch \/ sent'[i].attempt < loop'.attempt
  BY <1>1, <1>2, <1>3
<1>5. loop'.attempt - 1 <= n /\ loop'.attempt > 1
  BY <1>1, <1>3
<1>6. loop'.doubled <=> sent'[n - loop'.attempt + 2].answer = "truncated"
  <2>1. CASE loop.attempt = 1
    BY <1>1, <2>1
  <2>2. CASE loop.attempt = 2
    BY <1>1, <1>3, <2>2
  <2> QED
    BY <2>1, <2>2
<1> QED
  BY <1>1, <1>4, <1>5, <1>6 DEF LoopInOrder

(* Answers are told apart from the requests that failed.                       *)
LEMMA ResultsAfter ==
  ASSUME TypeOK, results = {i \in DOMAIN sent : sent[i].answer = "output"},
         NEW a \in Answers, Sends(a)
  PROVE  {i \in DOMAIN sent' : sent'[i].answer = "output"} =
           results \cup (IF a = "output" THEN {Len(sent) + 1} ELSE {})
<1> DEFINE n == Len(sent) + 1
<1>1. /\ n \in Nat /\ DOMAIN sent = 1..(n - 1) /\ DOMAIN sent' = 1..n
      /\ \A i \in 1..(n - 1) : sent'[i] = sent[i]
      /\ sent'[n].answer = a
  BY Sent
<1> HIDE DEF n
<1>2. \A i \in 1..n : sent'[i].answer = "output" <=>
                      (i \in results \/ (i = n /\ a = "output"))
  BY <1>1
<1>3. results \subseteq 1..n
  BY <1>1
<1> QED
  BY <1>1, <1>2, <1>3 DEF n

LEMMA TypedAfterSending ==
  ASSUME TypeOK, NEW a \in Answers, Sends(a), UNCHANGED <<job, set, age, ledger>>,
         pc' \in {"gate", "request", "save", "fail"}, batch' \in {batch, batch + 1},
         loop' \in Loops, alarm' \in {"armed", "fired"}, code' \in Codes,
         results' \subseteq results \cup {Len(sent) + 1}
  PROVE  TypeOK'
<1>1. /\ sent' \in Seq(Requests) /\ DOMAIN sent' = 1..(Len(sent) + 1)
      /\ DOMAIN sent = 1..Len(sent) /\ Len(sent) \in Nat
  BY Sent
<1>2. results' \subseteq DOMAIN sent' /\ ledger' \subseteq DOMAIN sent'
  BY <1>1 DEF TypeOK
<1> QED
  BY <1>1, <1>2 DEF TypeOK

(* An attempt that failed: the loop goes on, or the job fails with its code.   *)
LEMMA FailedAttempt ==
  ASSUME LlmInv, pc = "request", NEW a \in Failures, Sends(a),
         UNCHANGED <<job, set, age, batch, results, ledger>>, alarm' \in {"armed", "fired"},
         loop' \in Loops, code' \in Codes,
         \/ /\ loop.attempt \in 1..2 /\ loop'.attempt = loop.attempt + 1
            /\ loop'.model = ModelOf(loop'.attempt)
            /\ loop'.attempt = 3 => set.fallback = "other"
            /\ loop'.doubled <=> IF loop.attempt = 1 THEN a = "truncated" ELSE loop.doubled
            /\ pc' = pc /\ code' = code
         \/ pc' = "fail" /\ code' = CodeOf(a)
  PROVE  LlmInv'
<1> USE DEF LlmInv
<1>1. a \in Answers /\ a # "output" /\ a # "refusal" /\ pc' \in {"request", "fail"}
  BY DEF Answers, Failures
<1>2. TypeOK'
  BY <1>1, TypedAfterSending
<1>3. batch \in 1..NumBatches /\ batch >= 1
  BY DEF OneAnswerEach, TypeOK
<1>4. SentInOrder'
  BY <1>1, <1>3, SentInOrderKept
<1>5. LoopInOrder'
  <2>1. CASE pc' = "request"
    BY <1>1, <2>1, LoopGoesOn
  <2>2. CASE pc' = "fail"
    BY <2>2 DEF LoopInOrder
  <2> QED
    BY <1>1, <2>1, <2>2
<1>6. /\ DOMAIN sent = 1..Len(sent) /\ Len(sent') = Len(sent) + 1 /\ Len(sent) \in Nat
      /\ DOMAIN sent' = 1..(Len(sent) + 1)
      /\ \A i \in DOMAIN sent : sent'[i] = sent[i] /\ i # Len(sent) + 1
      /\ sent'[Len(sent')].answer = a
  BY <1>1, Sent
<1>7. results \subseteq DOMAIN sent
  BY DEF TypeOK
<1>8. OneAnswerEach'
  <2>1. NumBatches' = NumBatches
    BY DEF NumBatches, Whole
  <2>2. results' = {i \in DOMAIN sent' : sent'[i].answer = "output"}
    BY <1>1, ResultsAfter DEF OneAnswerEach
  <2>3. \A i \in results : sent'[i] = sent[i]
    BY <1>6, <1>7
  <2> QED
    BY <1>1, <1>3, <2>1, <2>2, <2>3 DEF OneAnswerEach
<1>9. CodeKept'
  BY <1>1, <1>6 DEF CodeKept
<1>10. RefusalIsFinal'
  BY <1>1, <1>6 DEF RefusalIsFinal
<1> QED
  BY <1>2, <1>4, <1>5, <1>8, <1>9, <1>10

LEMMA RequestStep ==
  ASSUME LlmInv,
         \/ Output \/ Refusal \/ Truncated \/ AlarmInRequest
         \/ \E answer \in {"invalid", "limited", "unavailable", "malformed"} : Failure(answer)
  PROVE  LlmInv'
<1> USE DEF LlmInv
<1>1. /\ pc = "request" /\ TypeOK /\ LoopInOrder /\ loop \in Loops /\ loop.attempt \in 1..3
      /\ code \in Codes /\ alarm \in {"armed", "fired"} /\ batch \in 1..NumBatches /\ batch \in Nat
      /\ batch >= 1 /\ {"output", "refusal"} \cup Failures = Answers
      /\ results \subseteq DOMAIN sent
  BY DEF Output, Refusal, Truncated, AlarmInRequest, Failure, TypeOK, Loops, OneAnswerEach, Answers
<1>2. ASSUME NEW a \in {"invalid", "limited", "unavailable", "malformed"}, Failure(a) PROVE LlmInv'
  <2>1. a \in Failures /\ a # "truncated"
    BY DEF Failures
  <2>2. loop.attempt = 1 => ~loop.doubled
    BY <1>1 DEF LoopInOrder
  <2> QED
    BY <1>1, <1>2, <2>1, <2>2, RetryEffect, FailedAttempt DEF Failure
<1>3. CASE AlarmInRequest
  <2>1. "cut" \in Failures /\ "cut" # "truncated"
    BY DEF Failures
  <2>2. loop.attempt = 1 => ~loop.doubled
    BY <1>1 DEF LoopInOrder
  <2> QED
    BY <1>1, <1>3, <2>1, <2>2, RetryEffect, FailedAttempt DEF AlarmInRequest
<1>4. CASE Truncated
  <2>1. /\ "truncated" \in Failures /\ Sends("truncated")
        /\ UNCHANGED <<job, set, age, batch, alarm, results, ledger>>
    BY <1>4 DEF Failures, Truncated
  <2>2. CASE /\ loop.attempt = 1 /\ UNCHANGED <<pc, code>>
             /\ loop' = [loop EXCEPT !.attempt = 2, !.doubled = TRUE]
    <3>1. 2 \in 1..3 /\ TRUE \in BOOLEAN
      OBVIOUS
    <3>2. loop' \in Loops
      BY <1>1, <2>2, <3>1, DoubledTyped
    <3>3. loop'.attempt = 2 /\ loop'.model = loop.model /\ loop'.doubled = TRUE
      BY <1>1, <2>2 DEF Loops
    <3>4. loop.model = "first" /\ ModelOf(2) = "first"
      BY <1>1, <2>2 DEF LoopInOrder, ModelOf
    <3>5. loop'.model = ModelOf(loop'.attempt)
      BY <3>3, <3>4
    <3> QED
      BY <1>1, <2>1, <2>2, <3>2, <3>3, <3>5, FailedAttempt
  <2>3. CASE loop.attempt # 1 /\ Retry("truncated")
    BY <1>1, <2>1, <2>3, RetryEffect, FailedAttempt
  <2> QED
    BY <1>4, <2>2, <2>3 DEF Truncated
<1>5. CASE Refusal
  <2>1. /\ "refusal" \in Answers /\ Sends("refusal") /\ pc' = "fail" /\ code' = "llm_refused"
        /\ UNCHANGED <<job, set, age, batch, loop, alarm, results, ledger>>
    BY <1>1, <1>5 DEF Refusal, Fails
  <2>2. /\ DOMAIN sent = 1..Len(sent) /\ Len(sent') = Len(sent) + 1 /\ Len(sent) \in Nat
        /\ DOMAIN sent' = 1..(Len(sent) + 1)
        /\ \A i \in DOMAIN sent : sent'[i] = sent[i] /\ i # Len(sent) + 1
        /\ sent'[Len(sent')].answer = "refusal"
    BY <1>1, <2>1, Sent
  <2>3. "llm_refused" \in Codes
    BY DEF Codes
  <2>4. TypeOK'
    BY <1>1, <2>1, <2>3, TypedAfterSending
  <2>5. SentInOrder'
    BY <1>1, <2>1, SentInOrderKept
  <2>6. LoopInOrder'
    BY <2>1 DEF LoopInOrder
  <2>7. OneAnswerEach'
    <3>1. NumBatches' = NumBatches
      BY <2>1 DEF NumBatches, Whole
    <3>2. results' = {i \in DOMAIN sent' : sent'[i].answer = "output"}
      BY <1>1, <2>1, ResultsAfter DEF OneAnswerEach
    <3>3. \A i \in results : sent'[i] = sent[i]
      BY <1>1, <2>2
    <3> QED
      BY <1>1, <2>1, <3>1, <3>2, <3>3 DEF OneAnswerEach
  <2>8. CodeKept'
    BY <1>1, <2>1, <2>2 DEF CodeKept
  <2>9. RefusalIsFinal'
    BY <1>1, <2>1, <2>2 DEF RefusalIsFinal
  <2> QED
    BY <2>4, <2>5, <2>6, <2>7, <2>8, <2>9
<1>6. CASE Output
  <2> DEFINE n == Len(sent) + 1
  <2>1. /\ "output" \in Answers /\ Sends("output") /\ results' = results \cup {n}
        /\ UNCHANGED <<job, set, age, loop, alarm, code, ledger>>
        /\ \/ batch < NumBatches /\ batch' = batch + 1 /\ pc' = "gate"
           \/ batch >= NumBatches /\ pc' = "save" /\ batch' = batch
    BY <1>1, <1>6 DEF Output
  <2>2. /\ DOMAIN sent = 1..(n - 1) /\ n \in Nat /\ DOMAIN sent' = 1..n
        /\ \A i \in 1..(n - 1) : sent'[i] = sent[i]
        /\ sent'[n].answer = "output" /\ sent'[n].batch = batch
    BY <1>1, <2>1, Sent
  <2>3. TypeOK'
    BY <1>1, <2>1, TypedAfterSending
  <2>4. SentInOrder'
    BY <1>1, <2>1, SentInOrderKept
  <2>5. results' = {i \in DOMAIN sent' : sent'[i].answer = "output"}
    BY <1>1, <2>1, ResultsAfter DEF OneAnswerEach
  <2> HIDE DEF n
  <2>6. LoopInOrder'
    <3>1. ASSUME NEW i \in 1..n PROVE sent'[i].batch \in 1..batch
      <4>1. CASE i = n
        BY <1>1, <2>2, <4>1
      <4>2. CASE i # n
        <5>1. i \in DOMAIN sent /\ sent'[i] = sent[i]
          BY <2>2, <4>2
        <5> QED
          BY <5>1 DEF SentInOrder
      <4> QED
        BY <4>1, <4>2
    <3> QED
      BY <1>1, <2>1, <2>2, <3>1 DEF LoopInOrder
  <2>7. OneAnswerEach'
    <3>1. NumBatches' = NumBatches
      BY <2>1 DEF NumBatches, Whole
    <3>2. \A i \in results : i \in 1..(n - 1) /\ sent'[i] = sent[i] /\ sent[i].batch < batch
      BY <1>1, <2>2 DEF OneAnswerEach
    <3>3. batch' \in 1..NumBatches /\ (pc' = "save" => batch' = NumBatches)
      BY <1>1, <2>1, NumBatchesTyped
    <3>4. \A i, j \in results' : sent'[i].batch = sent'[j].batch => i = j
      BY <1>1, <2>1, <2>2, <3>2 DEF OneAnswerEach
    <3>5. \A k \in 1..batch : \E i \in results' : sent'[i].batch = k
      <4> SUFFICES ASSUME NEW k \in 1..batch PROVE \E i \in results' : sent'[i].batch = k
        OBVIOUS
      <4>1. CASE k = batch
        BY <2>1, <2>2, <4>1
      <4>2. CASE k # batch
        <5>1. k \in 1..(batch - 1)
          BY <1>1, <4>2
        <5> QED
          BY <2>1, <3>2, <5>1 DEF OneAnswerEach
      <4> QED
        BY <4>1, <4>2
    <3>6. \A i \in results' : sent'[i].batch \in 1..batch
      <4>1. \A i \in results : sent[i].batch \in 1..batch
        BY <1>1 DEF SentInOrder
      <4> QED
        BY <1>1, <2>1, <2>2, <3>2, <4>1
    <3>7. pc' = "gate" => \A i \in results' : sent'[i].batch < batch'
      BY <1>1, <2>1, <3>6
    <3> QED
      BY <1>1, <2>1, <2>5, <3>1, <3>3, <3>4, <3>5, <3>7 DEF OneAnswerEach
  <2>8. CodeKept'
    BY <1>1, <2>1 DEF CodeKept
  <2>9. RefusalIsFinal'
    BY <1>1, <2>1, <2>2 DEF RefusalIsFinal
  <2> QED
    BY <2>3, <2>4, <2>6, <2>7, <2>8, <2>9
<1> QED
  BY <1>2, <1>3, <1>4, <1>5, <1>6

(* Between requests nothing that was sent or kept changes.                     *)
LEMMA QuietStep ==
  ASSUME LlmInv,
         \/ Enter \/ Save \/ Fail \/ AlarmBetween \/ AlarmInTransaction \/ Midnight
         \/ UNCHANGED vars
  PROVE  LlmInv'
<1> USE DEF LlmInv
<1>1. UNCHANGED <<job, set, batch, sent, results>>
  BY DEF Enter, Save, Fail, AlarmBetween, AlarmInTransaction, Midnight, vars, client
<1>2. SentInOrder'
  BY <1>1 DEF SentInOrder, First
<1>3. NumBatches' = NumBatches
  BY <1>1 DEF NumBatches, Whole
<1>4. CASE Enter
  <2>1. /\ pc = "gate" /\ loop' = Entered /\ UNCHANGED <<age, alarm, ledger>>
        /\ \/ pc' = "fail" /\ code' \in {"llm_disabled", "privacy_gate"}
           \/ pc' = "fail" /\ code' = "llm_unavailable" /\ ~set.key
           \/ pc' = "request" /\ code' = code /\ set.key
    BY <1>4 DEF Enter, Fails, GateCode
  <2>2. Entered \in Loops
    BY DEF Entered, Loops
  <2>3. TypeOK'
    BY <1>1, <2>1, <2>2 DEF TypeOK, Codes
  <2>4. LoopInOrder'
    BY <1>1, <2>1 DEF LoopInOrder, Entered, ModelOf, TypeOK
  <2>5. OneAnswerEach'
    BY <1>1, <1>3, <2>1 DEF OneAnswerEach
  <2>6. CodeKept'
    BY <1>1, <2>1 DEF CodeKept, Excused
  <2>7. RefusalIsFinal'
    BY <1>1, <2>1 DEF RefusalIsFinal
  <2> QED
    BY <1>2, <2>3, <2>4, <2>5, <2>6, <2>7
<1>5. CASE AlarmBetween \/ AlarmInTransaction \/ Fail
  <2>1. /\ UNCHANGED <<age, loop, ledger>> /\ alarm' \in {alarm, "fired"}
        /\ \/ pc \in {"gate", "request"} /\ pc' = "fail" /\ code' = "unhandled"
           \/ pc \in {"save", "fail"} /\ pc' = "raised" /\ code' = code
           \/ pc = "fail" /\ pc' = "failed" /\ code' = code
    BY <1>5 DEF AlarmBetween, AlarmInTransaction, Fail, Fails, client
  <2>2. TypeOK'
    BY <1>1, <2>1 DEF TypeOK, Codes
  <2>3. LoopInOrder' /\ OneAnswerEach'
    BY <1>1, <1>3, <2>1 DEF LoopInOrder, OneAnswerEach
  <2>4. CodeKept' /\ RefusalIsFinal'
    BY <1>1, <2>1 DEF CodeKept, Excused, RefusalIsFinal
  <2> QED
    BY <1>2, <2>2, <2>3, <2>4
<1>6. CASE Save
  <2>1. /\ pc = "save" /\ pc' = "completed" /\ ledger' = results
        /\ UNCHANGED <<age, loop, alarm, code>>
    BY <1>6 DEF Save, client
  <2>2. TypeOK'
    BY <1>1, <2>1 DEF TypeOK
  <2>3. LoopInOrder' /\ OneAnswerEach' /\ CodeKept' /\ RefusalIsFinal'
    BY <1>1, <1>3, <2>1 DEF LoopInOrder, OneAnswerEach, CodeKept, RefusalIsFinal
  <2> QED
    BY <1>2, <2>2, <2>3
<1>7. CASE Midnight \/ UNCHANGED vars
  <2>1. UNCHANGED <<pc, loop, alarm, code, ledger>> /\ age' \in {age, age + 1}
    BY <1>7 DEF Midnight, vars, client
  <2>2. TypeOK'
    BY <1>1, <2>1 DEF TypeOK
  <2>3. LoopInOrder' /\ OneAnswerEach' /\ CodeKept' /\ RefusalIsFinal'
    BY <1>1, <1>3, <2>1 DEF LoopInOrder, OneAnswerEach, CodeKept, RefusalIsFinal
  <2> QED
    BY <1>2, <2>2, <2>3
<1> QED
  BY <1>4, <1>5, <1>6, <1>7

LEMMA LlmInvInit == Init => LlmInv
<1> SUFFICES ASSUME Init PROVE LlmInv
  OBVIOUS
<1>1. /\ sent = <<>> /\ results = {} /\ ledger = {} /\ pc = "gate" /\ batch = 1
      /\ DOMAIN sent = {}
  BY DEF Init
<1>2. TypeOK
  <2>1. age \in Int
    BY BatchesOK DEF Init
  <2> QED
    BY <2>1 DEF Init, TypeOK, Entered, Loops, Codes
<1>3. SentInOrder /\ LoopInOrder /\ CodeKept /\ RefusalIsFinal
  BY <1>1 DEF SentInOrder, LoopInOrder, CodeKept, RefusalIsFinal
<1>4. OneAnswerEach
  BY <1>1, <1>2, NumBatchesTyped DEF OneAnswerEach
<1> QED
  BY <1>2, <1>3, <1>4 DEF LlmInv

LEMMA LlmInvInductive == SafeSpec => []LlmInv
<1>1. LlmInv /\ [Next]_vars => LlmInv'
  BY RequestStep, QuietStep DEF Next, Work
<1> QED
  BY LlmInvInit, <1>1, PTL DEF SafeSpec

-----------------------------------------------------------------------------
(* The theorems.                                                               *)

(* Through any number of batches, attempts and timeouts every variable keeps    *)
(* its type: the loop never counts beyond a third attempt.                      *)
THEOREM CallsTyped == SafeSpec => []TypeOK
<1>1. LlmInv => TypeOK
  BY DEF LlmInv
<1> QED
  BY LlmInvInductive, <1>1, PTL

(* match_resume_to_job and extract_job_requirements let LLMRefusedError pass     *)
(* their loop, and the worker does not go on to the batches that are left:       *)
(* nothing is sent after a refusal.                                             *)
THEOREM RefusalsFinal == SafeSpec => []RefusalIsFinal
<1>1. LlmInv => RefusalIsFinal
  BY DEF LlmInv
<1> QED
  BY LlmInvInductive, <1>1, PTL

(* The loop of AnthropicLLMClient sends at most two requests to the model and   *)
(* one to another fallback model for each batch, and doubles the room only      *)
(* after the first was truncated.                                               *)
THEOREM AttemptsBounded == SafeSpec => []AttemptsAreBounded
<1>1. ASSUME LlmInv, NEW k \in 1..NumBatches
      PROVE  LET of(m) == {i \in DOMAIN sent : sent[i].batch = k /\ sent[i].model = m} IN
             /\ Cardinality(of("first")) <= 2
             /\ Cardinality(of("fallback")) <= (IF set.fallback = "other" THEN 1 ELSE 0)
             /\ \A i \in of("first") \cup of("fallback") :
                  sent[i].doubled <=> /\ sent[i].attempt > 1
                                      /\ sent[i - sent[i].attempt + 1].answer = "truncated"
  <2> DEFINE first == {i \in DOMAIN sent : sent[i].batch = k /\ sent[i].model = "first"}
             other == {i \in DOMAIN sent : sent[i].batch = k /\ sent[i].model = "fallback"}
  <2>1. \A i \in DOMAIN sent :
          /\ sent[i].attempt \in 1..3
          /\ sent[i].model = ModelOf(sent[i].attempt)
          /\ sent[i].attempt = 3 => set.fallback = "other"
    <3>1. \A i \in DOMAIN sent : sent[i] \in Requests
      BY <1>1 DEF LlmInv, TypeOK
    <3> QED
      BY <1>1, <3>1 DEF LlmInv, SentInOrder, Requests
  <2>2. \A i, j \in DOMAIN sent :
          sent[i].batch = sent[j].batch /\ sent[i].attempt = sent[j].attempt => i = j
    BY <1>1 DEF LlmInv, SentInOrder
  <2>3. Cardinality(first) <= 2
    <3> DEFINE f == [i \in first |-> sent[i].attempt]
    <3>1. \A i \in first : sent[i].attempt \in 1..2
      BY <2>1 DEF ModelOf
    <3>2. f \in [first -> 1..2]
      BY <3>1
    <3>3. \A i, j \in first : f[i] = f[j] => i = j
      BY <2>2
    <3> HIDE DEF f, first
    <3>4. DOMAIN f = first
      BY <3>2
    <3>5. IsInjective(f)
      BY <3>3, <3>4 DEF IsInjective
    <3>6. f \in Injection(first, 1..2)
      BY <3>2, <3>5 DEF Injection
    <3>7. IsFiniteSet(1..2) /\ Cardinality(1..2) = 2
      <4>1. 1 \in Int /\ 2 \in Int
        OBVIOUS
      <4>2. IsFiniteSet(1..2) /\ Cardinality(1..2) = IF 1 > 2 THEN 0 ELSE 2 - 1 + 1
        BY <4>1, FS_Interval, Zenon
      <4> QED
        BY <4>2
    <3> QED
      BY <3>6, <3>7, FS_Injection
  <2>4. Cardinality(other) <= (IF set.fallback = "other" THEN 1 ELSE 0)
    <3>1. \A i \in other : sent[i].attempt = 3 /\ set.fallback = "other"
      BY <2>1 DEF ModelOf
    <3>2. \A i, j \in other : i = j
      BY <2>2, <3>1
    <3> HIDE DEF other
    <3>3. CASE other = {}
      BY <3>3, FS_EmptySet
    <3>4. ASSUME NEW i \in other
          PROVE  Cardinality(other) <= (IF set.fallback = "other" THEN 1 ELSE 0)
      <4>1. other = {i}
        BY <3>2
      <4>2. Cardinality(other) = 1
        BY <4>1, FS_Singleton
      <4> QED
        BY <3>1, <4>2
    <3> QED
      BY <3>3, <3>4
  <2>5. \A i \in first \cup other :
          sent[i].doubled <=> /\ sent[i].attempt > 1
                              /\ sent[i - sent[i].attempt + 1].answer = "truncated"
    BY <1>1 DEF LlmInv, SentInOrder, First
  <2> QED
    BY <2>3, <2>4, <2>5
<1>2. LlmInv => AttemptsAreBounded
  BY <1>1 DEF AttemptsAreBounded
<1> QED
  BY LlmInvInductive, <1>2, PTL

(* The intervals process_match cuts its requirements into cover each of them    *)
(* once, and a run is saved only when every batch has its one answer.           *)
THEOREM RequirementsAnswered == SafeSpec => []EveryRequirementAnswered
<1>1. ASSUME LlmInv, pc = "completed", NEW r \in 1..job.size
      PROVE  Cardinality({i \in results : r \in Asked(sent[i].batch)}) = 1
  <2> DEFINE k == IF Whole THEN 1 ELSE (r - 1) \div BatchSize + 1
             S == {i \in results : r \in Asked(sent[i].batch)}
  <2>1. /\ job.size \in Nat /\ job.size >= 1 /\ BatchSize \in Nat /\ BatchSize >= 1
        /\ r \in Nat /\ r >= 1 /\ r <= job.size
    BY <1>1, BatchesOK DEF LlmInv, TypeOK, Jobs
  <2>2. k \in 1..NumBatches
    <3>1. ASSUME NEW n \in Nat, NEW m \in Nat, n >= 1, n <= m, NEW b \in Nat, b >= 1
          PROVE  /\ (n - 1) \div b + 1 <= (m + b - 1) \div b
                 /\ (n - 1) \div b \in Nat /\ (m + b - 1) \div b \in Nat
      BY <3>1
    <3>2. /\ (r - 1) \div BatchSize + 1 <= (job.size + BatchSize - 1) \div BatchSize
          /\ (r - 1) \div BatchSize \in Nat
          /\ (job.size + BatchSize - 1) \div BatchSize \in Nat
      BY <2>1, <3>1
    <3>3. CASE Whole
      BY <3>3 DEF NumBatches
    <3>4. CASE ~Whole
      BY <3>2, <3>4 DEF NumBatches
    <3> QED
      BY <3>3, <3>4
  <2>3. \A b \in 1..NumBatches : r \in Asked(b) <=> b = k
    <3>1. CASE Whole
      BY <3>1 DEF NumBatches, Asked
    <3>2. CASE ~Whole
      <4>1. \A b \in 1..NumBatches : r \in Asked(b) <=> (r - 1) \div BatchSize = b - 1
        BY <3>2 DEF Asked
      <4>2. (r - 1) \div BatchSize \in Nat /\ k = (r - 1) \div BatchSize + 1
        BY <2>1, <3>2
      <4> QED
        BY <4>1, <4>2
    <3> QED
      BY <3>1, <3>2
  <2> HIDE DEF k
  <2>4. /\ \A i, j \in results : sent[i].batch = sent[j].batch => i = j
        /\ \E i \in results : sent[i].batch = k
        /\ \A i \in results : sent[i].batch \in 1..NumBatches
    <3>1. batch = NumBatches /\ results \subseteq DOMAIN sent /\ NumBatches \in Nat
      BY <1>1, NumBatchesTyped DEF LlmInv, OneAnswerEach, TypeOK
    <3>2. CASE k = batch
      BY <1>1, <3>1, <3>2 DEF LlmInv, OneAnswerEach, SentInOrder
    <3>3. CASE k # batch
      <4>1. k \in 1..(batch - 1)
        BY <2>2, <3>1, <3>3
      <4> QED
        BY <1>1, <3>1, <4>1 DEF LlmInv, OneAnswerEach, SentInOrder
    <3> QED
      BY <3>2, <3>3
  <2>5. PICK i \in results : sent[i].batch = k
    BY <2>4
  <2>6. S = {i}
    BY <2>3, <2>4, <2>5
  <2> HIDE DEF S
  <2>7. Cardinality(S) = 1
    BY <2>6, FS_Singleton
  <2> QED
    BY <2>7 DEF S
<1>2. LlmInv => EveryRequirementAnswered
  BY <1>1 DEF EveryRequirementAnswered
<1> QED
  BY LlmInvInductive, <1>2, PTL

(* The worker records the code of last_error, which the loop raises when it     *)
(* gives up: the error of the last request that was sent.                       *)
THEOREM CodesNameLastAttempt == SafeSpec => []CodeNamesLastAttempt
<1>1. LlmInv => CodeNamesLastAttempt
  BY DEF LlmInv, CodeKept, Excused, CodeNamesLastAttempt
<1> QED
  BY LlmInvInductive, <1>1, PTL

(* check_privacy_gate is asked again before each batch, and nothing that shuts  *)
(* it for good is ever undone: no request leaves from then on.                  *)
THEOREM ShutGates == SafeSpec => ShutGateHolds
<1> DEFINE Shut == ShutForGood /\ pc # "request"
<1>1. TypeOK /\ Shut /\ [Next]_vars => Shut'
  <2> SUFFICES ASSUME TypeOK, ShutForGood, pc # "request", [Next]_vars
               PROVE  ShutForGood' /\ pc' # "request"
    OBVIOUS
  <2>1. age \in Int /\ ValidDays \in Nat /\ set' = set /\ age' \in {age, age + 1}
    BY BatchesOK DEF TypeOK, Next, Work, Enter, Output, Refusal, Truncated, Failure, Save, Fail,
       AlarmInRequest, AlarmBetween, AlarmInTransaction, Midnight, vars
  <2>2. ShutForGood'
    BY <2>1 DEF ShutForGood
  <2>3. GateCode # "none"
    BY <2>1 DEF ShutForGood, GateCode
  <2>4. pc' # "request"
    BY <2>3 DEF Next, Work, Enter, Output, Refusal, Truncated, Failure, Save, Fail, Fails,
       AlarmInRequest, AlarmBetween, AlarmInTransaction, Midnight, vars
  <2> QED
    BY <2>2, <2>4
<1>2. pc = "gate" /\ ShutForGood => Shut
  OBVIOUS
<1>3. Shut => pc # "request"
  OBVIOUS
<1> HIDE DEF Shut
<1> QED
  BY CallsTyped, <1>1, <1>2, <1>3, PTL DEF SafeSpec, ShutGateHolds
===============================================================================

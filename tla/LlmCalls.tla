------------------------------- MODULE LlmCalls -------------------------------
(***************************************************************************)
(* What one job asks of the language model: the batches process_match cuts  *)
(* its requirements into (worker/matching.py), the privacy gate             *)
(* (llm/guard.py) and the retry and fallback loop of AnthropicLLMClient     *)
(* (llm/client.py), until the job settles.  extract_job_requirements asks   *)
(* the same way in a single batch.  MatchRuns and JobIntake see all of it   *)
(* as one step that answers or fails.                                       *)
(***************************************************************************)
EXTENDS Integers, Sequences, FiniteSets

CONSTANTS SingleBatch,      \* requirements asked for in one request
          BatchSize,        \* requirements of a batch when there are more
          MaxRequirements,  \* bound: requirements of a job description
          ValidDays,        \* oldest attestation the gate accepts, in days
          MaxAge            \* bound: age of the attestation

ASSUME BatchesOK == /\ SingleBatch \in Nat \ {0} /\ BatchSize \in Nat \ {0}
                    /\ MaxRequirements \in Nat /\ ValidDays \in Nat /\ MaxAge \in Nat

Jobs == [purpose : {"extraction", "matching"}, size : 1..MaxRequirements]

\* The settings the loop reads; they do not change while a job runs.
Settings == [mode : {"disabled", "fixtures_only", "production", "unknown"},
             fixture : BOOLEAN,   \* the documents are fixtures
             attested : BOOLEAN,  \* attestation id and a well-formed date are set
             key : BOOLEAN,       \* an API key is set
             fallback : {"same", "other"}]  \* the fallback model against the model

\* What comes of a request.  "cut": RQ's timeout interrupts it; "malformed": a
\* 200 whose body is no JSON.
Failures == {"invalid", "truncated", "limited", "unavailable", "malformed", "cut"}
Answers == {"output", "refusal"} \cup Failures

Codes == {"none", "llm_disabled", "privacy_gate", "llm_unavailable", "llm_refused",
          "llm_truncated", "schema_violation", "llm_rate_limited", "unhandled"}

VARIABLES job,      \* what is asked, and for how many requirements
          set,      \* the settings
          age,      \* age of the attestation in days, negative when postdated
          pc,       \* where the job is
          batch,    \* index of the batch being asked
          loop,     \* [attempt, model, doubled, error] of the client's loop
          alarm,    \* RQ's timeout: it goes off once
          code,     \* the failure code the row gets
          sent,     \* every request that left, and what came of it
          results,  \* indices into sent of the answers kept in memory
          ledger    \* the rows of llm_calls, as indices into sent

client == <<batch, loop>>
vars == <<job, set, age, pc, client, alarm, code, sent, results, ledger>>

Requests == [batch : Nat, attempt : 1..3, model : {"first", "fallback"}, doubled : BOOLEAN,
             answer : Answers]
Loops == [attempt : 1..3, model : {"first", "fallback"}, doubled : BOOLEAN,
          error : {"none"} \cup Failures]
Entered == [attempt |-> 1, model |-> "first", doubled |-> FALSE, error |-> "none"]

TypeOK ==
  /\ job \in Jobs /\ set \in Settings /\ age \in Int
  /\ pc \in {"gate", "request", "save", "fail", "completed", "failed", "raised"}
  /\ batch \in Nat /\ loop \in Loops
  /\ alarm \in {"armed", "fired"}
  /\ code \in Codes
  /\ sent \in Seq(Requests)
  /\ results \subseteq DOMAIN sent /\ ledger \subseteq DOMAIN sent

Init ==
  /\ job \in Jobs /\ set \in Settings /\ age \in -1..MaxAge
  /\ pc = "gate" /\ batch = 1 /\ loop = Entered
  /\ alarm = "armed" /\ code = "none"
  /\ sent = <<>> /\ results = {} /\ ledger = {}

-----------------------------------------------------------------------------
(* Batches: the intervals range(0, len, batch_size) cuts a list into.        *)

Whole == job.purpose = "extraction" \/ job.size <= SingleBatch
\* Mutant: the last, shorter batch is forgotten.
NumBatches_Floor == IF Whole THEN 1 ELSE job.size \div BatchSize
NumBatches == IF Whole THEN 1 ELSE (job.size + BatchSize - 1) \div BatchSize
Asked(k) == IF Whole THEN 1..job.size
            ELSE {r \in 1..job.size : (r - 1) \div BatchSize = k - 1}

-----------------------------------------------------------------------------
(* check_privacy_gate                                                        *)

\* Mutant: a postdated or expired attestation passes.
GateCode_AnyDate ==
  CASE set.mode = "disabled" -> "llm_disabled"
    [] set.mode = "fixtures_only" /\ set.fixture -> "none"
    [] set.mode = "production" /\ set.attested -> "none"
    [] OTHER -> "privacy_gate"
GateCode ==
  CASE set.mode = "disabled" -> "llm_disabled"
    [] set.mode = "fixtures_only" /\ set.fixture -> "none"
    [] set.mode = "production" /\ set.attested /\ age \in 0..ValidDays -> "none"
    [] OTHER -> "privacy_gate"

Fails(c) == pc' = "fail" /\ code' = c

\* The call of the client for one batch, up to its first request.
Enter ==
  /\ pc = "gate"
  /\ LET c == GateCode IN
       \/ c # "none" /\ Fails(c)
       \/ c = "none" /\ ~set.key /\ Fails("llm_unavailable")
       \/ c = "none" /\ set.key /\ pc' = "request" /\ UNCHANGED code
  /\ loop' = Entered
  /\ UNCHANGED <<job, set, age, batch, alarm, sent, results, ledger>>

-----------------------------------------------------------------------------
(* One turn of the client's loop.                                            *)

CodeOf(answer) ==
  CASE answer = "truncated" -> "llm_truncated"
    [] answer = "limited" -> "llm_rate_limited"
    [] answer = "unavailable" -> "llm_unavailable"
    [] OTHER -> "schema_violation"

Sends(answer) ==
  sent' = Append(sent, [batch |-> batch, attempt |-> loop.attempt, model |-> loop.model,
                        doubled |-> loop.doubled, answer |-> answer])

\* The exception handler of the loop: once more with the same model, then once
\* with the fallback model, whatever the error.
\* Mutant: the error of the first attempt is the one reported.
Retry_FirstError(answer) ==
  LET e == IF loop.error = "none" THEN answer ELSE loop.error IN
    \/ /\ loop.attempt = 1
       /\ loop' = [loop EXCEPT !.attempt = 2, !.error = e]
       /\ UNCHANGED <<pc, code>>
    \/ /\ loop.attempt = 2 /\ loop.model = "first" /\ set.fallback = "other"
       /\ loop' = [loop EXCEPT !.attempt = 3, !.model = "fallback", !.error = e]
       /\ UNCHANGED <<pc, code>>
    \/ /\ loop.attempt = 3 \/ (loop.attempt = 2 /\ set.fallback = "same")
       /\ Fails(CodeOf(e))
       /\ loop' = [loop EXCEPT !.error = e]
\* Mutant: every failure on the fallback model is tried again.
Retry_Unbounded(answer) ==
  /\ loop' = [loop EXCEPT !.attempt = @ + 1, !.model = "fallback", !.error = answer]
  /\ UNCHANGED <<pc, code>>
\* Mutant: the third attempt stays with the model that failed twice.
Retry_SameModel(answer) ==
  \/ /\ loop.attempt \in 1..2
     /\ loop' = [loop EXCEPT !.attempt = @ + 1, !.error = answer]
     /\ UNCHANGED <<pc, code>>
  \/ /\ loop.attempt = 3
     /\ Fails(CodeOf(answer))
     /\ loop' = [loop EXCEPT !.error = answer]
Retry(answer) ==
  \/ /\ loop.attempt = 1
     /\ loop' = [loop EXCEPT !.attempt = 2, !.error = answer]
     /\ UNCHANGED <<pc, code>>
  \/ /\ loop.attempt = 2 /\ loop.model = "first" /\ set.fallback = "other"
     /\ loop' = [loop EXCEPT !.attempt = 3, !.model = "fallback", !.error = answer]
     /\ UNCHANGED <<pc, code>>
  \/ /\ loop.attempt = 3 \/ (loop.attempt = 2 /\ set.fallback = "same")
     /\ Fails(CodeOf(answer))
     /\ loop' = [loop EXCEPT !.error = answer]

\* A validated output: the next batch is asked for, or all are in.
Output ==
  /\ pc = "request"
  /\ Sends("output")
  /\ results' = results \cup {Len(sent) + 1}
  /\ \/ batch < NumBatches /\ batch' = batch + 1 /\ pc' = "gate"
     \/ batch >= NumBatches /\ pc' = "save" /\ UNCHANGED batch
  /\ UNCHANGED <<job, set, age, loop, alarm, code, ledger>>

\* Mutant: a refusal is retried like any other failure.
Refusal_Retried ==
  /\ pc = "request"
  /\ Sends("refusal")
  /\ Retry("invalid")
  /\ UNCHANGED <<job, set, age, batch, alarm, results, ledger>>
Refusal ==
  /\ pc = "request"
  /\ Sends("refusal")
  /\ Fails("llm_refused")
  /\ UNCHANGED <<job, set, age, batch, loop, alarm, results, ledger>>

\* The first truncation doubles the room and goes round without an error.
Truncated ==
  /\ pc = "request"
  /\ Sends("truncated")
  /\ \/ /\ loop.attempt = 1
        /\ loop' = [loop EXCEPT !.attempt = 2, !.doubled = TRUE]
        /\ UNCHANGED <<pc, code>>
     \/ loop.attempt # 1 /\ Retry("truncated")
  /\ UNCHANGED <<job, set, age, batch, alarm, results, ledger>>

Failure(answer) ==
  /\ pc = "request"
  /\ Sends(answer)
  /\ Retry(answer)
  /\ UNCHANGED <<job, set, age, batch, alarm, results, ledger>>

\* RQ's timeout raises an exception wherever the job is.  In a request the
\* client's loop takes it for a failed attempt and the job runs on; between
\* requests process_match fails the run; in a transaction it ends the job.
AlarmInRequest ==
  /\ alarm = "armed" /\ pc = "request"
  /\ Sends("cut")
  /\ Retry("cut")
  /\ alarm' = "fired"
  /\ UNCHANGED <<job, set, age, batch, results, ledger>>

AlarmBetween ==
  /\ alarm = "armed" /\ pc \in {"gate", "request"}
  /\ Fails("unhandled")
  /\ alarm' = "fired"
  /\ UNCHANGED <<job, set, age, client, sent, results, ledger>>

AlarmInTransaction ==
  /\ alarm = "armed" /\ pc \in {"save", "fail"}
  /\ pc' = "raised" /\ alarm' = "fired"
  /\ UNCHANGED <<job, set, age, client, code, sent, results, ledger>>

-----------------------------------------------------------------------------
(* The last transaction of the job.                                          *)

\* The rows of llm_calls are written here and for answers only, whatever the docs
\* say of attempts, refusals and failures.
Save ==
  /\ pc = "save"
  /\ ledger' = results
  /\ pc' = "completed"
  /\ UNCHANGED <<job, set, age, client, alarm, code, sent, results>>

\* Mutant: the failure is raised instead of recorded.
Fail_Raises ==
  /\ pc = "fail"
  /\ pc' = "raised"
  /\ UNCHANGED <<job, set, age, client, alarm, code, sent, results, ledger>>
Fail ==
  /\ pc = "fail"
  /\ pc' = "failed"
  /\ UNCHANGED <<job, set, age, client, alarm, code, sent, results, ledger>>

Midnight ==
  /\ age < MaxAge
  /\ age' = age + 1
  /\ UNCHANGED <<job, set, pc, client, alarm, code, sent, results, ledger>>

Work ==
  \/ Enter \/ Output \/ Refusal \/ Truncated
  \/ \E answer \in {"invalid", "limited", "unavailable", "malformed"} : Failure(answer)
  \/ Save \/ Fail

Next == Work \/ AlarmInRequest \/ AlarmBetween \/ AlarmInTransaction \/ Midnight

SafeSpec == Init /\ [][Next]_vars
Spec == SafeSpec /\ WF_vars(Work)
-----------------------------------------------------------------------------

\* "A refusal is a decision to respect": it is the last thing the job hears
\* from any model, and the row says so unless RQ kills the job first.
RefusalIsFinal ==
  \A i \in DOMAIN sent : sent[i].answer = "refusal" =>
    i = Len(sent) /\ code = "llm_refused" /\ pc \in {"fail", "failed", "raised"}

\* "At most 1 retry, plus at most 1 fallback attempt" for each batch, with more
\* room only after a truncated first attempt, also when RQ's timeout is taken
\* for a failed attempt.
AttemptsAreBounded ==
  \A k \in 1..NumBatches :
    LET of(m) == {i \in DOMAIN sent : sent[i].batch = k /\ sent[i].model = m} IN
      /\ Cardinality(of("first")) <= 2
      /\ Cardinality(of("fallback")) <= (IF set.fallback = "other" THEN 1 ELSE 0)
      /\ \A i \in of("first") \cup of("fallback") :
           sent[i].doubled <=> /\ sent[i].attempt > 1
                              /\ sent[i - sent[i].attempt + 1].answer = "truncated"

\* A run completes only when every requirement has been in exactly one
\* answered request, whatever was retried or given up on the way.
EveryRequirementAnswered ==
  pc = "completed" =>
    \A r \in 1..job.size :
      Cardinality({i \in results : r \in Asked(sent[i].batch)}) = 1

\* The code on a failed row names what the last attempt came to, not an earlier
\* one, unless the timeout cut the job between requests.
CodeNamesLastAttempt ==
  pc = "failed" /\ sent # <<>> /\ code \notin {"unhandled", "llm_disabled", "privacy_gate"} =>
    code = IF sent[Len(sent)].answer = "refusal" THEN "llm_refused"
           ELSE CodeOf(sent[Len(sent)].answer)

\* Once the gate is reached shut for good, no request leaves any more: no
\* document of a user in fixtures_only mode, nothing without an attestation or
\* after its last day.  (Between a gate and its requests midnight may pass.)
ShutForGood ==
  \/ set.mode \in {"disabled", "unknown"}
  \/ set.mode = "fixtures_only" /\ ~set.fixture
  \/ set.mode = "production" /\ (~set.attested \/ age > ValidDays)
ShutGateHolds == [](pc = "gate" /\ ShutForGood => [](pc # "request"))

\* The job settles the row although the timeout may be swallowed; only in a
\* transaction does the timeout leave the row in progress.
Settles == <>(pc \in {"completed", "failed"} \/ (pc = "raised" /\ alarm = "fired"))
=============================================================================

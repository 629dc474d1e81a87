# CareerLayer in TLA+

A verification project for CareerLayer: TLA+ modules translated from the code of the API, the
worker, the scoring and integrity packages and the web client, TLC configurations that check them
on small instances, and TLAPS proofs, for every size of the system, of every safety property those
checks cover: of match runs, resumes, jobs, model calls, sign-in, pages, scores and the integrity
engine. Paths below are relative to `src/` of the repository; `routes/`, `models/` and `llm/` are
under `api/careerlayer_api/`, `worker/` stands for `worker/careerlayer_worker/`, `web/` for
`web/src/`, `detectors/` for `packages/integrity/careerlayer/integrity/detectors/`.

Run a model with `tlc -config MatchRaces.cfg MCMatchRuns`, a proof with
`tlapm MatchRunsProofs.tla`. `PROJECT.json` lists every run, the mutants each property was
tried against, and the source lines of every definition.

## 1. The system

A user uploads resumes (PDF) and job descriptions (PDF or pasted text) and asks for matches of
one with the other. Three processes share a database, a queue and an object store:

    browser --HTTP--> API (FastAPI, async) --rows--> Postgres <--rows-- worker (RQ, sync)
                         |  original.pdf -> S3 <- original.pdf, page images |
                         +--RPUSH job id--> Redis list --BLPOP--------------+--> LLM provider

Every creation follows the same pattern: check for a duplicate, insert a row `queued`, commit,
*then* enqueue a job; the worker takes the job, marks the row `processing`, computes for
seconds to minutes outside any transaction, and writes everything in a last transaction. RQ has
no retry configured (`queue.py`): a job that raises or is killed stays in the failed registry
until an operator requeues it.

### Components

| Component | State | Operations | Talks to | What is hard |
| --- | --- | --- | --- | --- |
| **Match runs** `routes/matches.py`, `worker/matching.py`, `models/match.py` | `match_runs` (unique by resume, job, prompt and scoring version), `claims`, `claim_evidence` | `create_match` (validate, look up, retry a failed run or insert, enqueue), `process_match` (two transactions around the model calls), `_fail_match_run` | reads rows of both pipelines; queue; LLM client; scoring | overlapping calls of a pair, commit-then-enqueue, two jobs of one run, rows read in one transaction and cited in another, kills |
| **Resume pipeline** `routes/resumes.py`, `worker/pipeline.py`, `storage.py` | `resumes` (unique by user, sha256), one analysis (extraction, spans, findings, skills, pages), objects in the store | `upload`, `process_resume` (`_run`, `_render_pages`, `_persist`, `_clear_previous`, `_fail`) | store, queue, integrity engine | objects and rows that do not commit together, pages stored one by one, reprocessing of a cited resume |
| **Job intake** `routes/jobs.py`, `worker/jd_pipeline.py`, `worker/requirement_extraction.py` | `job_descriptions` (unique by user, sha256), `requirements` | `create_job` (pasted or uploaded), `process_job_description`, `extract_job_requirements` | store, queue, LLM client | the text, and its sha256, is computed twice by different code; provenance offsets; exceptions no handler names |
| **LLM client** `llm/client.py`, `llm/guard.py` | the loop's attempt, model, room and last error; `llm_calls` | gate, request, retry, fallback, accounting | provider; RQ's timeout | who retries what, which error is reported, what is accounted for |
| **Scoring** `packages/scoring`, `_build_claim_record` | none (pure) | claims, score, gaps, projections | worker, gaps endpoint | rounding, two computations that must agree, monotonicity |
| **Sign-in** `routes/auth.py`, `deps.py`, `models/auth.py` | `login_tokens`, `sessions`, the browser's cookie | `sign_up`, `log_in`, `verify`, `log_out`, `me`, `complete_onboarding`; `current_user` | web client | a link must work once, though reads and writes of two requests interleave |
| **Read endpoints and event stream** `get_match`, `get_resume`, `match_events` | the generator's poll count | read the row, then what hangs on it; poll until settled | match and resume pages | several statements over changing rows; a stream that stops |
| **Web client** `web/lib/api.ts`, `web/lib/useResume.ts`, `web/app/app/matches/[matchId]/page.tsx` | what the page shows; timers, stream, requests in flight | `request` with its repetition, load, poll, stream, Try again, Retry Evaluation | sign-in, read endpoints | calls carried out twice, answers out of order, polling that ends |
| **Integrity engine** `packages/integrity`, with the discounts in `worker/skills.py` and `worker/matching.py` | findings, skills | six detectors, overlap of spans and findings, two discounts | both pipelines | geometry and thresholds; detectors that leave text to each other |
| Prompt versions `llm/prompts.py` | `prompt_versions` | check then insert | both workers and `create_match` | insert race |
| Intake checks `pdf_intake.py`, `jd_intake.py` | none | accept or reject | routes | limits |
| Infrastructure, design, eval | - | - | - | - |

### What makes each correct

* **Match runs**: a completed run is whole (one claim per requirement, the score of exactly
  those claims) and its score is backed by text that exists; it is final; a failure code means
  failed; nothing in progress is left with nobody in charge; every accepted run settles.
* **Resume pipeline**: one row per file; a committed row has its original; a completed resume
  has exactly one analysis and all its page images; it settles, and says why it failed.
* **Job intake**: requirements quote the stored text; a completed description never changes
  (matches rely on it); a duplicate is found; an uploaded one settles.
* **LLM client**: nothing leaves through a shut gate; a refusal is final; attempts are bounded;
  every requirement is asked for; the code names what happened.
* **Scoring**: bounded, reconstructible, and projections never promise less than the score or
  more than the points shown.
* **Sign-in**: a link opens one session, which the code keeps up to requests that overlap; what
  an answer told the user stays true (signed in, signed out, link no longer valid); every call ends.
* **Pages**: a page that shows work in progress is waiting for news of it, does not go back to
  an older state, and comes to show an outcome; the ways in which the code misses the first two
  are named and proved to be the only ones.
* **Integrity**: text nobody can see is worth nothing, honest text keeps its worth whatever
  else is in the document, and the two discounts agree.

## 2. Modules

| Module | Models | Checked by |
| --- | --- | --- |
| `WorkPromise` | what background work promises: absent, open, given up, decided; decided is final, open work settles | refined by `MatchRuns` (TLC and proof) and `ResumePipeline` (proof) |
| `MatchRuns` | `create_match`, queue, `process_match`, and what the two pipelines may do to the rows it reads | `MatchRaces`, `MatchSequential`, `MatchOverlap` |
| `ResumePipeline` | `upload`, the store, queue, `process_resume` | `ResumeFaults` |
| `JobIntake` | `create_job`, `process_job_description`, `extract_job_requirements` | `JobFaults`, `JobDuplicate` |
| `LlmCalls` | batches, gate, retry loop and accounting of one job | `LlmRetries` |
| `MatchScore` | claims, score, gaps and projections | `MatchScores` |
| `SignIn` | the handlers of `routes/auth.py` behind `request` of `api.ts`, one account, calls of several tabs | `SignIn`, `LinkSingleUse` |
| `ResultPages` | the match page and the resume page over a row that workers change, with the read endpoints and the event stream | `ResultPages` |
| `Integrity` | detectors D1 to D6, skill confidence, integrity factor of a claim | `Integrity` |
| `MC...` | the same with constants and symmetry for TLC | |
| `MatchRunsProofs` | theorems about `MatchRuns`, in three parts: what is whole, who is in charge, what is final | tlapm |
| `ResumeProofs`, `JobProofs`, `LlmProofs`, `SignInProofs`, `ResultPagesProofs`, `MatchScoreProofs`, `IntegrityProofs` | theorems about the module each `EXTENDS` | tlapm |

`MatchRuns` composes with its neighbours by containing them in small: its actions
`ResumeBegins/Persists/Fails` and `JobSettles` are the effect of `ResumePipeline` and
`JobIntake` on the columns a match reads, and `ResumePipeline.Cite` is the effect of a match on
the spans. That a completed description is frozen, which `JobSettles` assumes, is
`CompletedIsFrozen` of `JobIntake`. The model calls that are one step `Fail` or `Complete` in
`MatchRuns`, and `Ask` in `JobIntake`, are `LlmCalls` in full; the score that `MatchRuns` only
compares with its claims is `MatchScore` in full; the severity over a span that `MatchScore`
takes as given is what `Integrity` computes. `ResultPages` takes a row as the list of states it
goes through: the lists are behaviours of `MatchRuns` and `ResumePipeline` (complete, fail and
be retried, be processed again).

### How state and actions correspond to the code

*Grain.* A request handler is cut at its awaits, a worker task at its transactions: each
`session_scope()` block (`worker/db.py`) is one step, as is each access to the object store.
Between any two steps every other process may run. Statement-level interleavings inside one
transaction are not modelled (see 6).

*Identity.* A request creates at most one row and one job, so the request names both: a queue
is a sequence of requests, an object of the store belongs to an upload. Rows of `match_runs`,
and of `resumes`, are functions of the key of their unique index, so that a second insert is a
conflict. Spans are named by the extraction that wrote them: reprocessing replaces all.

*Faults* are a constant, a set of names, so that a run says which of them it admits:
`crash` (a worker or handler dies, RQ's timeout), `lost_enqueue` (Redis or the API fails after
the commit), `requeue` (an operator), `overlap` (calls in flight together), `reprocess`,
`storage`, `document`, `llm`, `cite`.

`MatchRuns`: `Validate`, `Lookup`, `Reset`/`Insert`, `Enqueue` are lines 70-230 of
`create_match` in order, cut where it awaits; the three checks of `Validate` (79, 99, 119) write
nothing and are one step. `Lookup` decides on what it read, `Reset` writes
whatever the row holds by then, `Insert` meets the unique index. `Begin` is the first
transaction of `process_match` (already completed, an obstacle with its code, or processing);
`Fail` is `_fail_match_run`; `Complete` is the last transaction, `CompleteRefused` the same
when a cited span is gone and the foreign key makes it roll back.

`ResumePipeline`: `Check`, `Insert` (a flush that waits for another uncommitted holder of the
key), `Put`, `Commit`, `Enqueue`; `Begin`, `Fetch`, `RenderPage` per page, `Persist` (delete the
analysis, write the new one, complete), `PersistRaises` (the delete breaks the CHECK of a met
claim), `Fail`. `RenderPage` may end in `render_failed` or, when MuPDF itself raises, in
`extraction_failed`. `FailureCodes` has no `ocr_unavailable`: `OcrUnavailable` is caught inside the
parser (`integrity/document.py`), so the code of that name is never stored.

`JobIntake`: a document is a pair of texts, what the API's extraction and the worker's make of
it. `Retext` overwrites text and sha256 with the worker's, `RetextRaises` is the unique index
refusing that. `Seed` is the insert of the prompt version by a worker that did not find it: of
two that do, one is refused and its job raises. The worker's branch for pasted descriptions is
unreachable: they are stored completed and never enqueued.

`LlmCalls`: `Enter` is `check_privacy_gate` and the key check, `Output`, `Refusal`,
`Truncated` and `Failure` are one turn of the loop each, `Retry` its exception handler, and the
three `Alarm` actions are RQ's timeout arriving in a request (swallowed by
`except Exception`), between requests, and in a transaction. `Save` succeeds: that a foreign key
may refuse the same transaction is `CompleteRefused` of `MatchRuns`.

`MatchScore`: decimals are integers (tenths, halves, 1/2000 for contributions), which is exact:
every factor is a multiple of its unit, so `quantize(0.0001)` never rounds a contribution and
the only rounding is the half-even of the final scores, which is modelled.

`SignIn`: a call of a page is sent several times, each time a request with a handler of its own
that runs on although nobody waits for it. `Sent` reads the cookie, `Resend` and `GiveUp` are
the loop of `request`, `Answered` takes the answer to the latest attempt and its cookie. Each
handler is `...Reads` (the selects) and `...Commits` or `...Inserts` (the rest, up to the
commit). That time passes is seen when a link or session is next looked at. A link is named
after the request that issued it, a session after the request that opened it, so
`OpenedBy(l)` finds every session a link has opened.

`ResultPages`: a version is a position in the row's list of states. `ReadRow` and `ReadParts`
are the statements of one handler; `LoadLands`, `PollLands`, `TickLands` and `ReloadLands` are
what the browser does with the answer, by who asked: the loading effect of the match page, an
interval set by `onerror`, a tick of `useResume`, its `reload`. An interval is never cleared but
by the poll that sees an outcome, since the cleanup that `onerror` returns is not used by
anyone. `load` is a closure over the claim that is selected: a request knows whether it was made
before there was one (`fresh`), and claims that answer such a request select their first one,
which makes a new `load` and runs both effects again (`LoadLands`, `StreamAnew`), as does
selecting another claim (`SelectClaim`). `TryAgain` is the button in place of a page with an
error, `RetryEvaluation` that on the page of a failed run, which despite its name only loads
again and stays until an answer shows another state. Two history variables serve the
properties only: `asked`, that the user asked for a load and loads have been under way ever
since, and `polled`, that what is shown was the answer to a poll.

`Integrity`: the two discounts have an overlap test each, as in the code: `OverlapsFlagged` on what
the detectors just returned (`skills.py`), `Overlapping` on the stored rows (`matching.py`).
Rectangles are `Box`es with `Common` area and `Within`; each detector is an
operator from a page to its reports; `Analyse` stores findings and a skill (what
`_persist` does), `Judge` the factor of a claim (what a later `process_match` does).
Fractions are compared by cross-multiplication, which is what the code's floats approximate; a
confidence is the nearest thousandth, either one at a tie, where the float decides. `DocumentsOK`
says what PyMuPDF gives: the box of a span is drawn around its characters, and what is odd about
a span is some of them.

## 3. Runs

| Run | Distinct states | Shows |
| --- | --- | --- |
| `match_races` | 840,066 | with everything overlapping and failing: completed runs are whole, their score counts spans that exist, code iff failed, nothing unattended, only a second call can change a completed run |
| `match_sequential` | 55,072 | one call at a time, nothing dies: `WorkPromise` is implemented, completed runs are final |
| `match_overlap` | violation | two overlapping calls break "Match runs are immutable once completed" |
| `resume_faults` | 212,056 | one row per file, originals present, completed resumes viewable, nobody unattended; a settled one is changed only by the next run of its own job; every one settles whose own job was not lost or killed |
| `job_faults` | 167,312 | frozen when completed, quotes match the text, uploads settle unless lost or killed or their job raised, on the prompt version too |
| `job_duplicate` | violation | the same PDF twice is accepted twice |
| `llm_retries` | 605,778 | refusals final, attempts bounded, all requirements asked, codes name the cause, gate, termination |
| `match_scores` | 62,874 | sound scores (`ScoreIsSound`: range, reconstruction), gaps that explain them, projections that are kept |
| `sign_in` | 375,542 | a link is used exactly if it opened a session, and a request sent after that opens none; answers stay true; every call ends |
| `link_single_use` | violation | two overlapping requests of one link, the second a repetition of the first, open two sessions |
| `result_pages` | 650,166 | pages wait for news, do not go back in time, show the outcome, up to the gaps named below |
| `integrity` | 146,030 | hidden text is worth nothing, honest text beside it all it can be |

`NeverForgotten` and `NeverOlder` name the ways in which the code may yet lose track or go back.
A page loses track in two: the resume page by the answer to Try again, since `reload` does not
poll on; and the match page by a load that finds a run that had ended taken up again, in the very
state the page shows, so that the effect with the stream does not run again. A page goes back in
three: answers are not numbered, so loads that are under way together with one the user asked
for may land in any order (two presses of Retry Evaluation take a page from completed back to
queued); so may a load that the poll of an interval has overtaken; and a poll that found a run
failed says so after the run was retried. TLC found each of them, nothing else within the bounds,
and the proofs say that there is nothing else.

### Bounds, and why they are enough

* *Match runs*: three calls over one resume and two descriptions, two workers, two extractions.
  Two calls of one pair are needed to overlap, a third to disturb what they settled; two
  workers to score one run at once; a second extraction to replace spans under a claim. One
  requirement suffices because claims of different requirements are never compared; the proofs
  cover any number. Calls, workers and requirements are symmetric (invariants and action
  properties only; the liveness runs use no symmetry).
* *Resumes*: two uploads, of one file or two, two workers, two pages, each job at most twice
  (`MaxAttempts`), all faults at once. Two uploads are the least that overlap, two pages the least
  with a "between pages", two attempts the least with a leftover; the proofs cover any number.
* *Job intake*: two calls, two texts, two workers, two attempts: the least with a collision
  between what one call stores and the other computes.
* *LLM*: up to five requirements, batches of three above four (25 and 20 in the code): whole
  requests, and two batches of which the last is short. Attestation from postdated to expired.
* *Sign-in*: two calls in flight, sent up to three and up to two times (ten in the code), a link
  and a session from before. Two calls are the least that share a cookie jar or a link, and
  three attempts the least with one that is neither first nor last.
* *Pages*: two requests in flight, two intervals, two polls of the stream (600), two failures,
  and rows that complete, fail and are retried, once or twice, or are processed again: a request
  that is overtaken needs a second one, a stream that ends without an event needs an end.
* *Integrity*: pages of up to three spans, in five places (inside, half outside, outside, over
  each other), with each way of being hidden or odd, under five sets of images before and after
  the text, with OCR or without, which confirms a line or not next to text that must keep its
  worth; and a second page that must not matter.
* *Scores*: three requirements in three lists that share skills in different ways, three clean
  spans (the cap of corroboration) and one under each severity, two candidates for up to three
  skills (five in the code).

Deadlock checking is off where every call may be answered and every job done: the system may
then stop.

### Fairness

`WF(Handle(q) /\ InFlight(q))`: a handler that was entered runs on; asyncio does not abandon a
request. `WF(Serve(w))`: a worker process keeps serving, RQ's loop blocks on the list. Users
owe nothing (a first call is not fair), nor do operators (`Requeue`), crashes or the alarm. In
`LlmCalls`, `WF(Work)`: a request ends, at the latest by the HTTP timeout. In `SignIn`, `WF` of
each call's loop: a fetch ends and a timer fires; the server owes nothing, since it may sleep
or be unreachable. In `ResultPages`, `WF` of each request, timer, of the generator and of the
browser's stream: a server that is up answers, failures are `Fails` and `StreamBreaks` and
their number is bounded; neither worker nor user owes anything.

## 4. Where code and documents disagree

1. `match_overlap`: `docs/phase-3-architecture.md:484` says runs are immutable once completed.
   `create_match` looks a run up, awaits, and resets it by primary key
   (`routes/matches.py:147-183`). Sequentially the sentence holds (`match_sequential`), and one
   call alone can never do it (`OverwriteNeedsRival`).
2. `job_duplicate`: `api/tests/test_jobs_api.py:150` says a duplicate PDF is found; after the
   worker has replaced the sha256 it is not.
3. `link_single_use`: `models/auth.py:19` calls a token "a single-use sign-in link", as does
   `docs/decisions/0005-passwordless-sign-in.md:35` and 61, and `api/tests/test_auth.py:64` says
   "One-time really means once". `verify` (`routes/auth.py:78-97`) reads `consumed_at` and writes
   it later without a lock, so requests that overlap each open a session, and `request` of
   `api.ts` makes such requests out of one click. What does hold is `UsedLinkOpensNothing`.

Differences that no run is spent on: `docs/phase-3-architecture.md:783-785`, 1114 and 1167 say
that `llm_calls` is written on every attempt, failures and refusals included; the code writes it
in the last transaction of a completed job only, for answers (`Save` of `LlmCalls`; no property
states either). `docs/phase-3-architecture.md:1152` says that a claim with one flagged and two clean
spans keeps credit at the reduced corroboration; 228 and the code (`worker/matching.py:498-541`)
take the worst finding over any evidence span, so one span under a high finding leaves nothing:
`HiddenIsDiscounted` follows 228. The table at 789-798 has one retry and no fallback
for truncation, rate limits and server errors, and a code `llm_timeout`, while the loop treats
all failures alike and has no such code; `llm/guard.py:21` says less than 365 days where the
check admits 365 (`GateCode`). Also:

* A job may raise what `process_job_description` does not catch: `RenderFailed`, database errors
  (`worker/jd_pipeline.py:42`), and the unique index on prompt versions when two workers seed the
  first one (`llm/prompts.py:89`). Its description then stays in processing, with no code, until
  an operator requeues it; `UploadsSettle` sets such a job apart.
* `worker/pipeline.py:40` says every step that can fail maps to a failure code; the
  IntegrityError of deleting spans that a claim cites does not (`PersistRaises`).
* `routes/resumes.py:54-55` promises a duplicate upload "the existing analysis"; the row may be
  failed, and then stays so for ever.
* `web/lib/api.ts:55-56`: "Retrying is safe precisely because the request did not arrive". The
  same branch takes a connection that broke after the server had answered; a repeated `verify`
  then gets `invalid_link` and its session is lost. And the 503 of a failing store
  (`routes/jobs.py:280`, `routes/resumes.py:83`) comes from the application.
* `web/lib/useResume.ts:12` keeps polling "while the backend says it is still working"; it does
  not after a failed poll, nor after Try again (`NeverForgotten`).
* `docs/phase-3-architecture.md:239-240` calls a scanned page with a text layer harmless;
  `detectors/off_canvas.py` does not skip invisible text, so a scan whose image is drawn after
  its text is reported high by D4. `HonestIsTrusted` is about the other order.
* A span without area is outside the page for D4 and within no finding, so never discounted;
  the box of D5 is that of a few characters, so a long span with an anomaly is not discounted;
  text covered by an image is found only if half of it is on the page. `Hidden` and `Drawn` say
  exactly what is covered.
* `worker/skills.py` rounds a confidence to thousandths: among 1800 or more mentions of one
  skill, a single flagged one no longer lowers it (`Shows`). The proof found this bound; at 1800,
  `round(0.9 * 1799 / 1800, 3)` is 0.9 again.

## 5. What is proved

TLC checks a handful of uploads, calls and workers; the theorems below hold for any sets of
them, any number of pages, attempts, batches, requirements, tabs, timers and polls, any
document, and any subset of the faults, crashes and requeues included. Every invariant and every
action property that a passing run checks is the statement of a theorem. The constants are
assumed to be what the modules say they are (`ConstantsOK`, `BatchesOK`, `SignInConstants`,
`PageConstants`, `InputsOK`, `DocumentsOK`: faults have known names, numbers are naturals, a
batch is not empty, the requirements of a job are finite, a box has integer corners), and TLC
evaluates these assumptions on every run. What a
theorem assumes beyond that is said below.

Each component has an inductive invariant: the initial states satisfy it, every step keeps it,
and it implies the properties. Its conjuncts are named after what they say, a lemma per helper
(`...Effect`, `...Typed`) states what it does to the fields of a record, one lemma per action
and conjunct follows where an action can disturb something, and the last step is temporal.
TLC checked each invariant on the instances of section 3, with the faults its theorem admits,
before it was proved.

### Match runs

| Theorem | Statement | Argument |
| --- | --- | --- |
| `TypeCorrect` | `[]TypeOK` | inductive; typing lemmas per helper, one step per action |
| `CodeCorrect` | `[]CodeIffFailed` | inductive given `TypeOK`; `RowWrites` lists what a step can do to a run's row |
| `EvidenceCorrect` | `[]ScoreHasEvidence` | from `CompletedIsWhole` (the score counts the claims that cite) and the lemma `EvidenceIsLive` (what they cite exists: `Complete` is refused when a span is gone, `ResumePersists` waits until none is cited) |
| `WholeCorrect` | `[]CompletedIsWhole` | not inductive alone: the worker compares with what it *read*. Strengthened by `ReadsAreFrozen` (a scoring worker holds the requirements of a description that is completed, and so are those of every completed run), which holds because a completed description never changes |
| `CarriedCorrect` | `[]InFlightIsCarried` | inductive with `OpenUnanswered` (a call still open has no answer yet); lemmas `KeptBy...` follow a waiting job from the queue to a worker to the registry, `CarriedBy...` treat the actions that change a row |
| `OverwritesNeedRivals` | `OverwriteNeedsRival` | a completed run was completed by a job (`CompletedByJob`), that job is in one place (`JobOnce`) and was made by an accepted call (`JobsAccepted`), so whoever writes the row next is another call or a job of one (`RivalsScored`) |
| `CompletedRunsFinal` | `CompletedIsFinal` | under `OneAtATime`. `Alone`: at most one call is in flight, at most one job of a pair is not done, and what that call or job found in the row is still there |
| `MatchesKeepPromise` | `Promise!SafeSpec` | under `OneAtATime`, from `Alone`, with `SomethingToScore` and `SpansBounded` to show that the claims of a completed run are a result of `WorkPromise` |

`OverwritesNeedRivals` counts calls, so it assumes that they are finitely many
(`IsFiniteSet(Requests)`). `OneAtATime` is that neither `overlap` nor `requeue` is among the
faults. It is needed: `match_overlap` refutes finality with the first, and TLC refutes it with
`crash` and `requeue` and no overlap (a call finds the run failed; the job that failed it, killed
before it was done and requeued, completes it; the call resets it). That it is enough, whatever
crashes, is lost after a commit or is processed again, is more than `match_sequential` checks.

### Resumes

`ResumeInv` has `RenderProgress` (a worker at page *p* has stored the pages before it),
`Ownership` and `OwnersCommitted` (the unique index has one holder per file, who is the owner
once it committed, and only accepted calls have jobs), `OriginalsFirst`, `AnalysesOfOneAttempt`
and `InFlightIsCarried`. None of the properties is inductive without it: that a resume is
viewable, for instance, needs what `_render_pages` did before `_persist` was reached.

| Theorem | Statement |
| --- | --- |
| `ResumesTyped`, `OneResumePerFile`, `CommittedRowsHaveOriginals`, `CompletedResumesViewable`, `ResumesInFlightCarried` | `[]` of `TypeOK`, `OnePerFile`, `CommittedHasOriginal`, `CompletedIsViewable`, `InFlightIsCarried` |
| `SettledResumesFinal` | `SettledIsFinal`, through crashes and requeues: a settled row changes only by the next run of its own job |
| `ResumesKeepPromise` | `Promise!SafeSpec`, under `KilledForGood` and `MaxAttempts # 0` |

`KilledForGood` is that `crash` and `requeue` are not both among the faults: with both, TLC shows
a completed resume whose job is killed before it is done, requeued and processed again, which
`WorkPromise` does not allow and `SettledIsFinal` names. Under it a job runs once (`RunOnce`: it
is in one place, has not begun while it waits, is at its first attempt while it runs, and only a
completed resume has an analysis to cite). `MaxAttempts` only
bounds the model; with none no job would be allowed to run, and there would be no result to name.

### Jobs

`JobInv` says that the RQ job of a call is in one place (`OneJob`), that the description a
worker is busy with is in progress and its text is still the one the worker was given
(`InHand`), and that requirements come with completion (`QuotesLast`). Without the first, a
second worker could overwrite the text between the model's answer and its storing.

| Theorem | Statement |
| --- | --- |
| `JobsTyped`, `RequirementsQuoteTheirText` | `[]TypeOK`, `[]QuotesMatchText` |
| `CompletedNeverWritten` | `CompletedIsFrozen`, through crashes and requeues |

### Model calls

`LlmInv` follows the loop: `SentInOrder` and `LoopInOrder` say which requests have been sent
before the one that is about to be (by batch, attempt and model, with the truncation that
doubled the room), `OneAnswerEach` that each batch before the current one has one answer,
`CodeKept` which code is recorded. That the intervals of the batches cover 1 to the
number of requirements once each is arithmetic over any size and any batch size
(`RequirementsAnswered`).

| Theorem | Statement |
| --- | --- |
| `CallsTyped`, `RefusalsFinal`, `AttemptsBounded`, `RequirementsAnswered`, `CodesNameLastAttempt` | `[]` of `TypeOK`, `RefusalIsFinal`, `AttemptsAreBounded`, `EveryRequirementAnswered`, `CodeNamesLastAttempt` |
| `ShutGates` | `ShutGateHolds` |

### Sign-in

`SignInInv`: the server sees attempts in the order they are made and only the answer to the
last counts (`CallsInOrder`, `RequestsInOrder`), a name is given once, when its request ends
(`NamesGivenOnce`), a cookie that was ever in the jar is of a session that was opened
(`CookiesOpened`), what an answer says is true while it is on its way (`AnswersHold`) and
not only when it was given, and a link is used exactly if it opened a session (`LinksOpen`).
`SessionsInv` adds who filled the jar (`JarFilled`), that a session was ended by a finished
request that carried its cookie (`EndedByCarrier`), and which answers a kind of call gets
(`AnswersGiven`).

| Theorem | Statement |
| --- | --- |
| `SignInTyped`, `UsedLinksOpenNothing`, `AnswersKept` | `[]` of `TypeOK`, `UsedLinkOpensNothing`, `AnswersStayTrue` |

### Pages

There are two inductive invariants. `TracksInv` holds of rows of any life: what a request has read
is past (`ReadsPast`), the requests of the two pages do not mix (`PagesApart`), and the stream and
the polling of the match page end with the work (`MatchWaits`). `OrderInv` says in which order
answers may land: of itself the match page loads once at a time until a claim is selected, and
only a poll overtakes the load (`MatchLoads`); from then on the row is the completed one
(`MatchEnds`); the resume page has one tick or one timer (`ResumeWaits`).

| Theorem | Statement |
| --- | --- |
| `PagesTyped`, `PagesNeverForgotten` | `[]TypeOK`, `NeverForgotten`, for rows of any life |
| `PagesNeverOlder` | `NeverOlder`, under `CompletedLast` |

`CompletedLast` says of the lives a match run may have that completed is the last state, which
is `CompletedRunsFinal`. A run that is completed twice, as `match_overlap` shows, can take the
page back in a further way, TLC finds: by a late answer to the poll that found it completed first.

### Scores

The score is a sum over the requirements of a job, in the model a fold. The induction theorems of
the library take an operator as a parameter, which no installed prover can instantiate; the
inductions here go through `WFMin` instead (`UpTo`, `OverRequirements`): the sets of requirements
that break a statement would have a smallest one. `SumsExist` shows in this way that the recursive
function behind the fold exists, `SumStep` what it does, and everything else about sums follows
from three lemmas: what holds of every share holds of the sum (`SumBound`), one changed share
changes the sum by as much (`SumChanged`), positive shares have a positive sum (`SumPositive`).
Half-even rounding stays within a half, never decreases and leaves whole numbers alone
(`RoundedNear`, `RoundedGrows`, `RoundedExact`), so inequalities of sums carry over to scores.
`ScoreInv` says that claims are built in order, each one of the few kinds that
`_build_claim_record` can store (`ClaimOK`), and that score and analysis are those of the stored
claims; `Shares` is the case analysis of what one claim adds.

| Theorem | Statement | Argument |
| --- | --- | --- |
| `ScoresAreSound` | `[]ScoreIsSound` | a share is at most what it is with trust, and that at most its weight; the weights have a positive sum (`ScoreBounds`); a share is the contribution that the worker stored (`Shares`) |
| `GapsExplainScores` | `[]GapsExplainScore` | a share that is no gap is four fifths of its weight or more and lost nothing to flagged evidence (`Shares`, `NoGaps`); one that did is an unverifiable gap (`LossIsExplained`) |
| `ProjectionsHonest` | `[]ProjectionsAreHonest` | closing more gaps never lowers a share (`ClosingGrows`), closing none is the score (`ClosingNothing`), closing one adds its own share up to rounding (`ClosingOne`) |

### Integrity

Findings and spans meet as rectangles only. `Rectangles` has what is needed of them: a common
area is at most that of the second box, that of a box with itself is its own, and it does not
shrink when the second box grows, all as products of lengths of any size. The box of a D5
finding lies in its span (`AroundCharacters`), so it has
nothing in common with a box that has nothing in common with the span.
`HiddenIsFlagged` goes through the ways to hide a span and names the detector that reports each,
although the detectors leave text to each other; `HonestIsUnflagged` goes through the reports of
all spans of the page and shows that none but an informative one lies over an honest span.
Honest text may share its page with lines that OCR does not confirm: D6 reports the box of a line,
and only what lies in that box is discounted.
`Confidences` and `Factors` turn this into the two discounts, each through its own overlap test;
`IntegrityInv` says that the findings are all that the document gives rise to, and that skill and
claim were judged by them.

| Theorem | Statement |
| --- | --- |
| `HiddenTextDiscounted`, `HonestTextTrusted` | `[]HiddenIsDiscounted`, `[]HonestIsTrusted`, for pages with any number of spans, images and lines |

### What is only model-checked

Liveness: that open work settles (the other half of `KeepsPromise` for match runs,
`ResumesSettle` for resumes), `UploadsSettle`, `Settles`, `CallsSettle`, `OutcomeIsShown`. They
follow from fairness, and the provers do not reason about `ENABLED`.

## 6. What is not modelled, and why

* *Statements inside a transaction.* At READ COMMITTED two last transactions of one run may
  overlap, and the ORM writes only the columns that changed. A step is a whole transaction here.
* *The match prompt's version* (`llm/prompts.py`), inserted by `create_match` and
  `process_match` as the extraction prompt's is by `Seed` of `JobIntake`: taken as present.
* *Parsing, rasterising, OCR, colours, text similarity*: data of `Integrity`, success or failure
  in the pipelines. Which spans mention a skill is any set of spans.
* *Pages*: the label of the stage (`liveStage`), leaving the page, a session that ends while a
  page polls, the gaps and list pages, which load once and show. The evidence page of a match
  (`matches/[matchId]/evidence/page.tsx`) follows a resume by `useResume` too, but is entered
  without its id and repeats its own load along with `reload`.
* *Sign-in*: display names, e-mail delivery (there is none: the answer holds the link), a second
  account, an answer whose body is lost after its cookie was stored. `AnswersStayTrue` is what the
  code keeps: it lets the late answer to a sign-out delete the cookie another tab has received
  since (that session stays live), a repeated sign-out end the session of the cookie it carries by
  then, and a repeated `verify` find its own link used.
* *Intake checks* (`pdf_intake.py`, `jd_intake.py`) and requests rejected with 422: they change
  nothing. The "missing" returns of the tasks: no row is ever deleted.
* *Migrations, settings, logging, health, deployment, design, the evaluation stub*: no logic of
  their own; the constraints that migrations create are modelled where they bite.
* *Failure codes of the model* are one code in `MatchRuns` and `JobIntake`; `LlmCalls` has all.

## 7. Plan

Order of construction, the most important behaviour first; done unless marked:

1. `WorkPromise`, `MatchRuns` with its three runs; proofs of its five invariants.
2. `ResumePipeline` and `JobIntake`, with the runs for their disagreements.
3. `LlmCalls` and `MatchScore`.
4. `SignIn`, `ResultPages` and `Integrity`; the prompt version in `JobIntake`.
5. Proofs of the safety properties of `ResumePipeline`, `JobIntake`, `LlmCalls`, `SignIn` and
   `ResultPages`; finality of match runs, and the safety part of `WorkPromise` for both.
6. Proofs of `MatchScore` and of `Integrity`, with the lemmas on sums, rounding and rectangles.
7. *Left*: `MatchRowWrites`, `Begin`, `Complete` and `_fail_match_run` at statement level, to
   see what two overlapping transactions can leave.

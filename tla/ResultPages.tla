----------------------------- MODULE ResultPages -----------------------------
(***************************************************************************)
(* How the page of a match run or of a resume follows its row while workers *)
(* change it: GET /v1/matches/{id} and /events (routes/matches.py), GET     *)
(* /v1/resumes/{id} (routes/resumes.py), each a row read before the rows    *)
(* that hang on it, and in the browser the match page (page.tsx: a stream,  *)
(* with polling when it breaks) and useResume.ts (polling).                 *)
(*                                                                          *)
(* The row is the list of the states it goes through; a position in the     *)
(* list is a version of the row.  Version 0 is nothing.                     *)
(***************************************************************************)
EXTENDS Naturals, Sequences

CONSTANTS Lives,        \* [{"match", "resume"} -> lists of states a row goes through]
          Slots,        \* bound: requests of the page in flight
          Timers,       \* bound: intervals of the page, 1..n
          MaxPolls,     \* polls of one event stream: 600 in the code
          MaxFailures   \* bound: requests that fail and streams that break

ASSUME PageConstants ==
  /\ Slots \in Nat \ {0} /\ Timers \in Nat \ {0} /\ MaxPolls \in Nat /\ MaxFailures \in Nat
  /\ \A p \in {"match", "resume"} :
       Lives[p] \subseteq Seq({"queued", "processing", "completed", "failed"}) \ {<<>>}

VARIABLES page,      \* which page it is
          life, now, \* the row: its states, and the version it is at
          shown,     \* the version the page shows
          error,     \* it shows an error and a Try again button
          chosen,    \* match: a claim is selected
          flight,    \* [1..Slots -> requests]
          timers,    \* intervals, or the one timeout, that are set
          stream,    \* the event stream, server and browser
          failures,
          asked,     \* history: the user asked for a load, and loads are under way since
          polled     \* history: what is shown was the answer to a poll

row == <<page, life, now>>
past == <<asked, polled>>
vars == <<row, shown, error, chosen, flight, timers, stream, failures, past>>

Versions == 0..Len(life)
State(v) == IF v = 0 THEN "none" ELSE life[v]
Working(v) == State(v) \in {"queued", "processing"}
Settled(v) == State(v) \in {"completed", "failed"}
\* The claims of a run, or the pages, findings and skills of a resume, are
\* written in the transaction that completes it.
HasParts(v) == \E w \in 1..v : life[w] = "completed"

Origins == {"load", "poll", "tick", "reload"}
Idle == [by |-> "none", timer |-> 0, fresh |-> FALSE, pc |-> "idle", at |-> 0, parts |-> FALSE]
Closed == [tab |-> FALSE, server |-> "none", polls |-> 0, event |-> "none"]
Opened == [Closed EXCEPT !.tab = TRUE]

TypeOK ==
  /\ page \in {"match", "resume"} /\ life \in Lives[page] /\ now \in 1..Len(life)
  /\ shown \in Versions /\ error \in BOOLEAN /\ chosen \in BOOLEAN
  /\ flight \in [1..Slots -> [by : Origins \cup {"none"}, timer : 0..Timers,
                              fresh : BOOLEAN,  \* a load made before a claim was selected
                              pc : {"idle", "sent", "row", "done"},
                              at : Versions, parts : BOOLEAN]]
  /\ timers \subseteq 1..Timers
  /\ stream \in [tab : BOOLEAN, server : {"none", "polling", "ended"},
                 polls : 0..MaxPolls, event : {"none", "complete", "failed"}]
  /\ failures \in 0..MaxFailures /\ asked \in BOOLEAN /\ polled \in BOOLEAN

Request(by, i) == [Idle EXCEPT !.by = by, !.timer = i, !.pc = "sent"]
\* The closure of load has the claim that was selected when it was made.
Load(fresh) == [Request("load", 0) EXCEPT !.fresh = fresh]
Free(f) == {s \in 1..Slots : f[s] = Idle}
\* The flight f with one more request.
With(f, request) ==
  LET s == CHOOSE s \in Free(f) : \A t \in Free(f) : s <= t IN [f EXCEPT ![s] = request]

Init ==
  /\ page \in {"match", "resume"} /\ life \in Lives[page] /\ now \in 1..Len(life)
  /\ shown = 0 /\ error = FALSE /\ chosen = FALSE
  /\ flight = With([s \in 1..Slots |-> Idle],
                   IF page = "match" THEN Load(TRUE) ELSE Request("tick", 0))
  /\ timers = {} /\ stream = Closed /\ failures = 0 /\ asked = FALSE /\ polled = FALSE

-----------------------------------------------------------------------------
(* The worker, and whoever has a failed run or a resume done again.          *)

RowMoves ==
  /\ now < Len(life)
  /\ now' = now + 1
  /\ UNCHANGED <<page, life, shown, error, chosen, flight, timers, stream, failures, past>>

-----------------------------------------------------------------------------
(* get_match and get_resume: statements of one handler, each of which sees   *)
(* what is committed by then.                                                *)

Handles == UNCHANGED <<row, shown, error, chosen, timers, stream, failures, past>>

ReadRow(s) ==
  /\ flight[s].pc = "sent"
  /\ flight' = [flight EXCEPT ![s].pc = "row", ![s].at = now]
  /\ Handles

\* Mutant: the row is refreshed last.
ReadParts_RowLast(s) ==
  /\ flight[s].pc = "row"
  /\ flight' = [flight EXCEPT ![s].pc = "done", ![s].at = now]
  /\ Handles
ReadParts(s) ==
  /\ flight[s].pc = "row"
  /\ flight' = [flight EXCEPT ![s].pc = "done", ![s].parts = HasParts(now)]
  /\ Handles

-----------------------------------------------------------------------------
(* The event generator of match_events, and the stream in the browser.       *)

StreamAccepted ==
  /\ stream.tab /\ stream.server = "none"
  /\ stream' = [stream EXCEPT !.server = "polling"]
  /\ UNCHANGED <<row, shown, error, chosen, flight, timers, failures, past>>

\* Events other than the last change a label only.  After the last poll the
\* stream ends without one.
\* Mutant: the stream goes on until the work is settled.
StreamPolls_Endless ==
  /\ stream.server = "polling"
  /\ stream' =
       IF Settled(now)
       THEN [stream EXCEPT !.server = "ended",
                           !.event = IF State(now) = "failed" THEN "failed" ELSE "complete"]
       ELSE [stream EXCEPT !.polls = @ + 1]
  /\ UNCHANGED <<row, shown, error, chosen, flight, timers, failures, past>>
StreamPolls ==
  /\ stream.server = "polling"
  /\ stream' =
       IF stream.polls = MaxPolls THEN [stream EXCEPT !.server = "ended"]
       ELSE IF Settled(now)
       THEN [stream EXCEPT !.server = "ended",
                           !.event = IF State(now) = "failed" THEN "failed" ELSE "complete"]
       ELSE [stream EXCEPT !.polls = @ + 1]
  /\ UNCHANGED <<row, shown, error, chosen, flight, timers, failures, past>>

\* Both events close the stream and load the run again.
EventArrives ==
  /\ stream.tab /\ stream.event # "none" /\ Free(flight) # {}
  /\ stream' = Closed
  /\ flight' = With(flight, Load(~chosen))
  /\ error' = FALSE
  /\ UNCHANGED <<row, shown, chosen, timers, failures, past>>

\* onerror: the connection breaks, or ended without an event.
\* Mutant: the browser's own reconnecting is relied on.
StreamBreaks_NoPolling ==
  /\ stream.tab
  /\ \/ stream.server = "ended" /\ stream.event = "none" /\ UNCHANGED failures
     \/ failures < MaxFailures /\ failures' = failures + 1
  /\ stream' = Closed
  /\ UNCHANGED <<row, shown, error, chosen, flight, timers, past>>
StreamBreaks ==
  /\ stream.tab
  /\ \/ stream.server = "ended" /\ stream.event = "none" /\ UNCHANGED failures
     \/ failures < MaxFailures /\ failures' = failures + 1
  /\ stream' = Closed
  /\ \E i \in 1..Timers \ timers : timers' = timers \cup {i}
  /\ UNCHANGED <<row, shown, error, chosen, flight, past>>

-----------------------------------------------------------------------------
(* The browser.                                                              *)

\* An interval goes on; the timeout of useResume is over when it fires.
TimerFires(i) ==
  /\ i \in timers /\ Free(flight) # {}
  /\ IF page = "match"
     THEN flight' = With(flight, Request("poll", i)) /\ UNCHANGED timers
     ELSE flight' = With(flight, Request("tick", 0)) /\ timers' = timers \ {i}
  /\ UNCHANGED <<row, shown, error, chosen, stream, failures, past>>

\* The effect of the match page runs when the state it shows is another one.
StreamAnew(v) == IF Working(v) THEN Opened ELSE Closed
StreamAfter(v) == IF State(v) = State(shown) THEN stream ELSE StreamAnew(v)

\* Claims that answer a load from before any was selected select their first one,
\* which makes a new load and runs both effects again.
LoadLands(s) ==
  LET v == flight[s].at  selects == flight[s].parts /\ flight[s].fresh
      rest == [flight EXCEPT ![s] = Idle]
  IN /\ flight[s].by = "load"
     /\ shown' = v /\ polled' = FALSE
     /\ stream' = IF selects THEN StreamAnew(v) ELSE StreamAfter(v)
     /\ chosen' = (chosen \/ selects)
     /\ flight' = IF selects THEN With(rest, Load(FALSE)) ELSE rest
     /\ error' = (error /\ ~selects)
     /\ UNCHANGED timers

\* Mutant: a poll shows whatever it is answered.
PollLands_Anything(s) ==
  LET v == flight[s].at IN
    /\ flight[s].by = "poll"
    /\ shown' = v /\ stream' = StreamAfter(v) /\ polled' = TRUE
    /\ timers' = IF Settled(v) THEN timers \ {flight[s].timer} ELSE timers
    /\ flight' = [flight EXCEPT ![s] = Idle]
    /\ UNCHANGED <<error, chosen>>
\* Mutant: the polling goes on when the run failed.
PollLands_CompletedOnly(s) ==
  LET v == flight[s].at IN
    /\ flight[s].by = "poll"
    /\ IF State(v) = "completed"
       THEN /\ shown' = v /\ stream' = StreamAfter(v) /\ polled' = TRUE
            /\ timers' = timers \ {flight[s].timer}
       ELSE UNCHANGED <<shown, stream, timers, polled>>
    /\ flight' = [flight EXCEPT ![s] = Idle]
    /\ UNCHANGED <<error, chosen>>
PollLands(s) ==
  LET v == flight[s].at IN
    /\ flight[s].by = "poll"
    /\ IF Settled(v)
       THEN /\ shown' = v /\ stream' = StreamAfter(v) /\ polled' = TRUE
            /\ timers' = timers \ {flight[s].timer}
       ELSE UNCHANGED <<shown, stream, timers, polled>>
    /\ flight' = [flight EXCEPT ![s] = Idle]
    /\ UNCHANGED <<error, chosen>>

TickLands(s) ==
  LET v == flight[s].at IN
    /\ flight[s].by = "tick"
    /\ shown' = v /\ error' = FALSE
    /\ timers' = IF Working(v) THEN {1} ELSE timers
    /\ flight' = [flight EXCEPT ![s] = Idle]
    /\ UNCHANGED <<chosen, stream, polled>>

ReloadLands(s) ==
  /\ flight[s].by = "reload"
  /\ shown' = flight[s].at /\ error' = FALSE
  /\ flight' = [flight EXCEPT ![s] = Idle]
  /\ UNCHANGED <<chosen, timers, stream, polled>>

\* Loads are under way, the polls of an interval aside.
Loading(f) == \E s \in 1..Slots : f[s].by \notin {"none", "poll"}

Lands(s) ==
  /\ flight[s].pc = "done"
  /\ LoadLands(s) \/ PollLands(s) \/ TickLands(s) \/ ReloadLands(s)
  /\ asked' = (asked /\ Loading(flight'))
  /\ UNCHANGED <<row, failures>>

\* The request is given up.  A poll of the match page does not mind.
Fails(s) ==
  /\ flight[s] # Idle /\ failures < MaxFailures
  /\ failures' = failures + 1
  /\ flight' = [flight EXCEPT ![s] = Idle]
  /\ error' = (error \/ flight[s].by # "poll")
  /\ asked' = (asked /\ Loading(flight'))
  /\ UNCHANGED <<row, shown, chosen, timers, stream, polled>>

Asks(request) == Free(flight) # {} /\ flight' = With(flight, request) /\ asked' = TRUE

\* Try again, in place of the page when there is an error.  It stays while
\* useResume loads again, so it can be used twice.
TryAgain ==
  /\ error
  /\ IF page = "match" THEN error' = FALSE /\ Asks(Load(~chosen))
     ELSE Asks(Request("reload", 0)) /\ UNCHANGED error
  /\ UNCHANGED <<row, shown, chosen, timers, stream, failures, polled>>

\* Retry Evaluation, on the page of a failed run, loads it again and no more.  It
\* stays until an answer shows another state, so it can be used twice.
RetryEvaluation ==
  /\ page = "match" /\ ~error /\ State(shown) = "failed"
  /\ Asks(Load(~chosen))
  /\ UNCHANGED <<row, shown, error, chosen, timers, stream, failures, polled>>

\* Selecting a claim makes a new load, which runs both effects again.
SelectClaim ==
  /\ page = "match" /\ ~error /\ State(shown) = "completed"
  /\ Asks(Load(FALSE))
  /\ chosen' = TRUE /\ stream' = StreamAnew(shown)
  /\ UNCHANGED <<row, shown, error, timers, failures, polled>>

Next ==
  \/ RowMoves
  \/ StreamAccepted \/ StreamPolls \/ EventArrives \/ StreamBreaks
  \/ \E s \in 1..Slots : ReadRow(s) \/ ReadParts(s) \/ Lands(s) \/ Fails(s)
  \/ \E i \in 1..Timers : TimerFires(i)
  \/ TryAgain \/ RetryEvaluation \/ SelectClaim

\* The server answers and the browser's timers fire.  Neither the worker nor the
\* user owes anything; the network may fail MaxFailures times.
Fairness ==
  /\ \A s \in 1..Slots : WF_vars(ReadRow(s) \/ ReadParts(s) \/ Lands(s))
  /\ \A i \in 1..Timers : WF_vars(TimerFires(i))
  /\ WF_vars(StreamAccepted \/ StreamPolls) /\ WF_vars(EventArrives \/ StreamBreaks)

Spec == Init /\ [][Next]_vars /\ Fairness
-----------------------------------------------------------------------------

\* Something will still bring news to the page.  A poll will not: unless its
\* interval is set it is the last one, and it may find the work still going on.
Pending == Loading(flight) \/ timers # {} \/ stream.tab
Forgotten == Working(shown) /\ ~error /\ ~Pending

\* A page that shows work in progress is waiting for news of it.  There are two
\* ways to be left with none: useResume does not poll on after Try again, and the
\* match page does not open its stream again when it loads a run that had ended
\* and finds it taken up again, in the very state it shows.
NeverForgotten ==
  [][~Forgotten /\ Forgotten' =>
       \E s \in 1..Slots :
         /\ Lands(s) /\ Working(flight[s].at)
         /\ \/ flight[s].by = "reload"
            \/ /\ flight[s].by = "load" /\ State(flight[s].at) = State(shown)
               /\ \E v \in 1..now : Settled(v)]_vars

\* The loads that the pages make of themselves never overtake each other, so that
\* a page goes back to an older version of its row in three ways only: by loads
\* that are under way together with one the user asked for, since no answer is
\* numbered; by a load that the poll of an interval has overtaken; and by a poll
\* that found a run failed which was retried since.  An answer that says completed
\* has the parts that completed it.
NeverOlder ==
  [][/\ shown' < shown =>
          \E s \in 1..Slots :
            /\ Lands(s)
            /\ IF flight[s].by = "poll" THEN State(flight[s].at) = "failed"
               ELSE asked \/ polled
     /\ \A s \in 1..Slots :
          Lands(s) /\ State(flight[s].at) = "completed" => flight[s].parts]_vars

\* Once the work is settled an outcome of it comes to be shown, or an error with
\* its button, unless the work is taken up again first or the page has lost
\* track as above.
OutcomeIsShown == Settled(now) ~> Settled(shown) \/ error \/ Forgotten \/ ~Settled(now)
=============================================================================

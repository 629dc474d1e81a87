--------------------------- MODULE ResultPagesProofs ---------------------------
(***************************************************************************)
(* What TLAPS proves of ResultPages for rows of any life, any number of     *)
(* requests in flight, timers, polls of a stream and failures of the        *)
(* network: how a page may go back, and how it may lose track of its row.   *)
(***************************************************************************)
EXTENDS ResultPages, WellFoundedInduction, FiniteSetTheorems, TLAPS

\* A match run that is completed stays as it is, which MatchRuns shows of calls
\* that do not overlap.
CompletedLast ==
  \A l \in Lives["match"] : \A v \in 1..(Len(l) - 1) : l[v] # "completed"

-----------------------------------------------------------------------------
(* The inductive invariants: what holds of any rows, and, of match runs that   *)
(* stay completed, in which order answers may land.                            *)

By(origin) == {s \in 1..Slots : flight[s].by = origin}
\* The handler of s has read the row.
HasRead(s) == flight[s].pc \in {"row", "done"}
\* The work was settled once.
HadEnded == \E v \in 1..now : Settled(v)

\* What is read was there by then, and the parts are read after the row.
ReadsPast ==
  /\ shown <= now
  /\ \A s \in 1..Slots :
       /\ flight[s].by = "none" <=> flight[s].pc = "idle"
       /\ flight[s].pc = "idle" => flight[s] = Idle
       /\ flight[s].at <= now
       /\ HasRead(s) => flight[s].at > 0
       /\ flight[s].parts => HasParts(now)
       /\ flight[s].pc = "done" /\ State(flight[s].at) = "completed" => flight[s].parts

PagesApart ==
  /\ page = "match" => By("tick") = {} /\ By("reload") = {}
  /\ page = "resume" => By("load") = {} /\ By("poll") = {} /\ ~chosen /\ stream = Closed
  /\ By("reload") # {} => asked

\* The stream and the polling of the match page end with the work.
MatchWaits ==
  page = "match" =>
    /\ stream.event # "none" => HadEnded
    /\ Working(shown) /\ ~stream.tab => timers # {} \/ HadEnded

TracksInv ==
  /\ TypeOK
  /\ ReadsPast
  /\ PagesApart
  /\ MatchWaits

\* Of itself the match page loads once at a time until a claim is selected, and
\* only a poll overtakes the load.  From then on the row is the completed one.
MatchLoads ==
  page = "match" /\ ~asked =>
    /\ ~chosen =>
         /\ \A s, t \in By("load") : s = t
         /\ By("load") # {} => ~stream.tab
    /\ \A s \in By("load") : HasRead(s) =>
         IF chosen THEN flight[s].at = now ELSE polled \/ shown <= flight[s].at

MatchEnds == page = "match" /\ chosen => now = Len(life) /\ State(now) = "completed"

\* The resume page polls by one request after another until one fails.
ResumeWaits ==
  page = "resume" =>
    /\ timers \subseteq {1}
    /\ \A s, t \in By("tick") : s = t
    /\ By("tick") # {} => timers = {}
    /\ By("tick") # {} \/ timers # {} => ~error /\ By("reload") = {}
    /\ \A s \in By("tick") : HasRead(s) => shown <= flight[s].at

OrderInv ==
  /\ MatchLoads
  /\ MatchEnds
  /\ ResumeWaits

-----------------------------------------------------------------------------
(* Rows, versions and requests.                                                *)

States == {"queued", "processing", "completed", "failed"}
Flights == [by : Origins \cup {"none"}, timer : 0..Timers, fresh : BOOLEAN,
            pc : {"idle", "sent", "row", "done"}, at : Versions, parts : BOOLEAN]

LEMMA LifeTypes ==
  ASSUME TypeOK
  PROVE  /\ Len(life) \in Nat /\ Len(life) >= 1
         /\ \A v \in 1..Len(life) : life[v] \in States /\ State(v) = life[v]
         /\ now \in Nat /\ 1 <= now /\ now <= Len(life)
         /\ shown \in Nat /\ shown <= Len(life)
<1>1. life \in Seq(States) \ {<<>>}
  BY PageConstants DEF TypeOK, States
<1> QED BY <1>1 DEF TypeOK, State, Versions

LEMMA StateTypes ==
  ASSUME TypeOK, NEW v \in Versions
  PROVE  /\ v \in Nat /\ v <= Len(life)
         /\ State(v) \in States \cup {"none"}
         /\ Working(v) => ~Settled(v)
         /\ Settled(v) => State(v) \in {"completed", "failed"}
BY LifeTypes DEF Versions, State, Working, Settled

LEMMA CompletedIsLast ==
  ASSUME TypeOK, CompletedLast, page = "match", NEW v \in Versions, State(v) = "completed"
  PROVE  v = Len(life)
<1>1. v \in 1..Len(life) /\ life[v] = "completed"
  BY LifeTypes DEF Versions, State
<1>2. life \in Lives["match"]
  BY DEF TypeOK
<1>3. ~(v \in 1..(Len(life) - 1))
  BY <1>1, <1>2 DEF CompletedLast
<1> QED BY <1>1, <1>3, LifeTypes

LEMMA PartsAreLast ==
  ASSUME TypeOK, CompletedLast, page = "match", HasParts(now)
  PROVE  now = Len(life) /\ State(now) = "completed"
<1>1. PICK w \in 1..now : life[w] = "completed"
  BY DEF HasParts
<1>2. w \in Versions /\ State(w) = "completed"
  BY <1>1, LifeTypes DEF Versions, State
<1> QED BY <1>1, <1>2, CompletedIsLast, LifeTypes

\* The least of the free slots: the intervals 1..n are ordered as their ends.
LEMMA LeastExists ==
  ASSUME NEW N \in Nat, NEW S \in SUBSET (1..N), S # {}
  PROVE  \E m \in S : \A n \in S : m <= n
<1> DEFINE U == 1..N
           T == {1..n : n \in S}
<1>1. IsFiniteSet(U)
  <2>1. 1 \in Int /\ N \in Int
    OBVIOUS
  <2> QED BY <2>1, FS_Interval, Zenon
<1>2. IsWellFoundedOn(StrictSubsetOrdering(U), SUBSET U)
  BY <1>1, FS_StrictSubsetOrderingWellFounded, FS_FiniteSubsetsOfFinite
<1>3. T \subseteq SUBSET U /\ T # {}
  <2>1. \A n \in S : 1..n \subseteq 1..N
    OBVIOUS
  <2>2. \A x \in T : x \in SUBSET (1..N)
    BY <2>1, Zenon
  <2>3. T # {}
    BY Zenon
  <2> QED BY <2>2, <2>3, Zenon
<1> HIDE DEF T, U
<1>4. PICK x \in T : \A y \in T : ~(<<y, x>> \in StrictSubsetOrdering(U))
  BY <1>2, <1>3, WFMin
<1>5. PICK m \in S : x = 1..m
  BY <1>4 DEF T
<1>6. ASSUME NEW n \in S, n < m
      PROVE  FALSE
  <2>1. n \in Nat /\ m \in 1..m /\ m \notin 1..n /\ m \in Nat
    BY <1>6
  <2>2. 1..n \subseteq 1..m /\ 1..n # 1..m
    BY <1>6, <2>1
  <2>3. 1..n \in T
    BY DEF T
  <2> QED BY <1>3, <1>4, <1>5, <2>2, <2>3 DEF StrictSubsetOrdering
<1> QED BY <1>6

\* The flight g is f with the request r in a slot that was free.
Added(f, g, r) ==
  \E s \in 1..Slots : /\ f[s] = Idle /\ g[s] = r
                      /\ \A t \in 1..Slots : t # s => g[t] = f[t]
Dropped(f, g, s) == g[s] = Idle /\ \A t \in 1..Slots : t # s => g[t] = f[t]

LEMMA IdleRow ==
  /\ Idle.by = "none" /\ Idle.timer = 0 /\ Idle.pc = "idle" /\ Idle.at = 0 /\ Idle.parts = FALSE
  /\ Len(life) \in Nat => Idle \in Flights
<1>1. 0 \in 0..Timers
  BY PageConstants
<1> QED BY <1>1 DEF Idle, Flights, Versions

\* A request that the page makes and the server has not seen.
Requests(by) == {r \in Flights : r.by = by /\ r.pc = "sent" /\ r.at = 0 /\ r.parts = FALSE}

LEMMA RequestRow ==
  ASSUME NEW by \in Origins, NEW i \in 0..Timers, Len(life) \in Nat
  PROVE  Request(by, i) \in Requests(by)
BY IdleRow DEF Request, Requests, Flights

LEMMA LoadRow ==
  ASSUME NEW fresh \in BOOLEAN, Len(life) \in Nat
  PROVE  Load(fresh) \in Requests("load")
<1>1. "load" \in Origins /\ 0 \in 0..Timers
  BY PageConstants DEF Origins
<1>2. Request("load", 0) \in Requests("load")
  BY <1>1, RequestRow
<1> QED BY <1>2 DEF Load, Requests, Flights

LEMMA WithAddsOne ==
  ASSUME Len(life) \in Nat, NEW f \in [1..Slots -> Flights], Free(f) # {}, NEW r \in Flights
  PROVE  With(f, r) \in [1..Slots -> Flights] /\ Added(f, With(f, r), r)
<1>1. \E s \in Free(f) : \A t \in Free(f) : s <= t
  <2>1. Free(f) \in SUBSET (1..Slots) /\ Slots \in Nat
    BY PageConstants DEF Free
  <2> QED BY <2>1, LeastExists
<1> DEFINE s == CHOOSE s \in Free(f) : \A t \in Free(f) : s <= t
<1>2. s \in Free(f)
  BY <1>1
<1>3. With(f, r) = [f EXCEPT ![s] = r]
  BY DEF With
<1> HIDE DEF s
<1>4. s \in 1..Slots /\ f[s] = Idle
  BY <1>2 DEF Free
<1> QED BY <1>3, <1>4 DEF Added

\* The requests that the pages make.
LEMMA WithAdds ==
  ASSUME TypeOK, NEW f \in [1..Slots -> Flights], Free(f) # {}
  PROVE  /\ \A fresh \in BOOLEAN : LET r == Load(fresh) g == With(f, r) IN
              r \in Requests("load") /\ g \in [1..Slots -> Flights] /\ Added(f, g, r)
         /\ \A by \in Origins, i \in 0..Timers : LET r == Request(by, i) g == With(f, r) IN
              r \in Requests(by) /\ g \in [1..Slots -> Flights] /\ Added(f, g, r)
<1>1. Len(life) \in Nat
  BY LifeTypes
<1>2. \A by : Requests(by) \subseteq Flights
  BY DEF Requests
<1>3. ASSUME NEW fresh \in BOOLEAN
      PROVE  LET r == Load(fresh) g == With(f, r) IN
             r \in Requests("load") /\ g \in [1..Slots -> Flights] /\ Added(f, g, r)
  <2>1. Load(fresh) \in Requests("load")
    BY <1>1, LoadRow
  <2> QED BY <1>1, <1>2, <2>1, WithAddsOne
<1>4. ASSUME NEW by \in Origins, NEW i \in 0..Timers
      PROVE  LET r == Request(by, i) g == With(f, r) IN
             r \in Requests(by) /\ g \in [1..Slots -> Flights] /\ Added(f, g, r)
  <2>1. Request(by, i) \in Requests(by)
    BY <1>1, RequestRow
  <2> QED BY <1>1, <1>2, <2>1, WithAddsOne
<1> QED BY <1>3, <1>4

Streams == [tab : BOOLEAN, server : {"none", "polling", "ended"},
            polls : 0..MaxPolls, event : {"none", "complete", "failed"}]

LEMMA StreamRows ==
  /\ Closed \in Streams /\ Closed.tab = FALSE
  /\ Opened \in Streams /\ Opened.tab = TRUE
<1>1. 0 \in 0..MaxPolls
  BY PageConstants
<1>2. Closed \in Streams /\ Closed.tab = FALSE
  BY <1>1 DEF Closed, Streams
<1>3. Opened \in Streams /\ Opened.tab = TRUE
  BY <1>2 DEF Opened, Streams
<1> QED BY <1>2, <1>3

Fixed == page' = page /\ life' = life
Moved == /\ shown' \in Versions /\ error' \in BOOLEAN /\ chosen' \in BOOLEAN
         /\ flight' \in [1..Slots -> Flights] /\ timers' \subseteq 1..Timers
         /\ stream' \in Streams /\ failures' \in 0..MaxFailures
         /\ asked' \in BOOLEAN /\ polled' \in BOOLEAN

LEMMA Typed ==
  /\ TypeOK => /\ shown \in Versions /\ error \in BOOLEAN /\ chosen \in BOOLEAN
               /\ flight \in [1..Slots -> Flights] /\ timers \subseteq 1..Timers
               /\ stream \in Streams /\ failures \in 0..MaxFailures
               /\ asked \in BOOLEAN /\ polled \in BOOLEAN
  /\ TypeOK /\ Fixed /\ now' \in 1..Len(life) /\ Moved => TypeOK'
BY DEF TypeOK, Fixed, Moved, Flights, Versions, Streams

LEMMA DropIsTyped ==
  ASSUME TypeOK, NEW s \in 1..Slots
  PROVE  LET g == [flight EXCEPT ![s] = Idle] IN
         g \in [1..Slots -> Flights] /\ Dropped(flight, g, s)
BY Typed, IdleRow, LifeTypes DEF Dropped

\* What the server does to request s while it reads.
ReadEffect(s) ==
  /\ flight' \in [1..Slots -> Flights]
  /\ \A t \in 1..Slots : t # s => flight'[t] = flight[t]
  /\ flight'[s].by = flight[s].by /\ HasRead(s)' /\ ~(flight[s].pc = "idle")

LEMMA ReadRowEffect ==
  ASSUME TypeOK, NEW s \in 1..Slots, ReadRow(s)
  PROVE  /\ ReadEffect(s) /\ flight'[s].pc = "row" /\ flight'[s].at = now
         /\ flight'[s].parts = flight[s].parts
<1>1. flight[s] \in Flights /\ now \in Versions
  BY Typed, LifeTypes DEF Versions
<1> DEFINE r == [flight[s] EXCEPT !.pc = "row", !.at = now]
<1>2. /\ r \in Flights /\ r.pc = "row" /\ r.at = now /\ r.by = flight[s].by
      /\ r.parts = flight[s].parts
  BY <1>1 DEF Flights
<1>3. flight' = [flight EXCEPT ![s] = r] /\ flight[s].pc = "sent"
  BY DEF ReadRow
<1> HIDE DEF r
<1> QED BY <1>2, <1>3, Typed DEF ReadEffect, HasRead

LEMMA ReadPartsEffect ==
  ASSUME TypeOK, NEW s \in 1..Slots, ReadParts(s)
  PROVE  /\ ReadEffect(s) /\ flight'[s].pc = "done" /\ flight'[s].at = flight[s].at
         /\ flight'[s].parts <=> HasParts(now)
         /\ HasRead(s)
<1>1. flight[s] \in Flights /\ HasParts(now) \in BOOLEAN
  BY Typed DEF HasParts
<1> DEFINE r == [flight[s] EXCEPT !.pc = "done", !.parts = HasParts(now)]
<1>2. /\ r \in Flights /\ r.pc = "done" /\ r.at = flight[s].at /\ r.by = flight[s].by
      /\ r.parts = HasParts(now)
  BY <1>1 DEF Flights
<1>3. flight' = [flight EXCEPT ![s] = r] /\ flight[s].pc = "row"
  BY DEF ReadParts
<1> HIDE DEF r
<1> QED BY <1>2, <1>3, Typed DEF ReadEffect, HasRead

\* The three steps by which the user asks for a load.
UserAsks == TryAgain \/ RetryEvaluation \/ SelectClaim

LEMMA AsksRequest ==
  ASSUME TypeOK, UserAsks
  PROVE  /\ UNCHANGED <<row, shown, timers, failures, polled>> /\ asked' = TRUE
         /\ error' \in {error, FALSE} /\ chosen' \in {chosen, TRUE}
         /\ flight' \in [1..Slots -> Flights]
         /\ \E by \in {IF page = "match" THEN "load" ELSE "reload"} :
              \E r \in Requests(by) : Added(flight, flight', r)
<1>1. /\ flight \in [1..Slots -> Flights] /\ chosen \in BOOLEAN
      /\ "reload" \in Origins /\ 0 \in 0..Timers
  BY Typed, PageConstants DEF Origins
<1>2. Free(flight) # {}
  BY DEF UserAsks, TryAgain, RetryEvaluation, SelectClaim, Asks
<1>3. CASE page = "match"
  <2>1. \E fresh \in BOOLEAN : flight' = With(flight, Load(fresh))
    BY <1>1, <1>3 DEF UserAsks, TryAgain, RetryEvaluation, SelectClaim, Asks
  <2>2. /\ flight' \in [1..Slots -> Flights]
        /\ \E r \in Requests("load") : Added(flight, flight', r)
    BY <1>1, <1>2, <2>1, WithAdds
  <2> QED BY <1>3, <2>2 DEF UserAsks, TryAgain, RetryEvaluation, SelectClaim, Asks
<1>4. CASE page # "match"
  <2>1. TryAgain /\ flight' = With(flight, Request("reload", 0))
    BY <1>4 DEF UserAsks, TryAgain, RetryEvaluation, SelectClaim, Asks
  <2>2. /\ flight' \in [1..Slots -> Flights]
        /\ \E r \in Requests("reload") : Added(flight, flight', r)
    BY <1>1, <1>2, <2>1, WithAdds
  <2> QED BY <1>4, <2>1, <2>2 DEF TryAgain, Asks
<1> QED BY <1>3, <1>4

LEMMA TypesKept ==
  ASSUME TypeOK, Next
  PROVE  TypeOK'
<1>1. /\ flight \in [1..Slots -> Flights] /\ stream \in Streams
      /\ \A s \in 1..Slots : flight[s].at \in Versions
      /\ Closed \in Streams /\ Opened \in Streams
  BY Typed, StreamRows DEF Flights
<1>2. /\ "load" \in Origins /\ "reload" \in Origins /\ "poll" \in Origins
      /\ "tick" \in Origins /\ 0 \in 0..Timers /\ \A i \in 1..Timers : i \in 0..Timers
      /\ {1} \subseteq 1..Timers /\ MaxPolls \in Nat /\ MaxFailures \in Nat
  BY PageConstants DEF Origins
<1>3. \A f \in [1..Slots -> Flights] : Free(f) # {} =>
        /\ \A by \in Origins, i \in 0..Timers : With(f, Request(by, i)) \in [1..Slots -> Flights]
        /\ \A fresh \in BOOLEAN : With(f, Load(fresh)) \in [1..Slots -> Flights]
  BY WithAdds
<1>4. \A s \in 1..Slots : [flight EXCEPT ![s] = Idle] \in [1..Slots -> Flights]
  BY DropIsTyped
<1>5. CASE RowMoves
  BY <1>5, LifeTypes, Typed DEF RowMoves, Fixed, Moved, past
<1>6. CASE StreamAccepted
  BY <1>1, <1>6, Typed DEF StreamAccepted, Streams, Fixed, Moved, row, past, TypeOK
<1>7. CASE StreamPolls
  <2>1. stream' \in Streams
    <3>1. CASE stream.polls = MaxPolls
      BY <1>1, <1>7, <3>1 DEF StreamPolls, Streams
    <3>2. CASE stream.polls # MaxPolls /\ Settled(now)
      <4> DEFINE last == IF State(now) = "failed" THEN "failed" ELSE "complete"
      <4>1. stream' = [stream EXCEPT !.server = "ended", !.event = last]
        BY <1>7, <3>2 DEF StreamPolls
      <4>2. last \in {"none", "complete", "failed"}
        OBVIOUS
      <4> HIDE DEF last
      <4> QED BY <1>1, <4>1, <4>2 DEF Streams
    <3>3. CASE stream.polls # MaxPolls /\ ~Settled(now)
      BY <1>1, <1>2, <1>7, <3>3 DEF StreamPolls, Streams
    <3> QED BY <3>1, <3>2, <3>3
  <2>2. UNCHANGED <<row, shown, error, chosen, flight, timers, failures, past>>
    BY <1>7 DEF StreamPolls
  <2> QED BY <2>1, <2>2, Typed DEF Fixed, Moved, row, past, TypeOK
<1>8. CASE EventArrives
  BY <1>1, <1>2, <1>3, <1>8, Typed DEF EventArrives, Fixed, Moved, row, past, TypeOK
<1>9. CASE StreamBreaks
  BY <1>1, <1>2, <1>9, Typed DEF StreamBreaks, Fixed, Moved, row, past, TypeOK
<1>10. ASSUME NEW s \in 1..Slots, ReadRow(s) \/ ReadParts(s)
       PROVE  TypeOK'
  <2>1. flight' \in [1..Slots -> Flights]
    BY <1>10, ReadRowEffect, ReadPartsEffect DEF ReadEffect
  <2> QED BY <1>10, <2>1, Typed DEF ReadRow, ReadParts, Handles, Fixed, Moved, row, past, TypeOK
<1>11. ASSUME NEW s \in 1..Slots, Lands(s)
       PROVE  TypeOK'
  <2> DEFINE rest == [flight EXCEPT ![s] = Idle]
  <2>1. rest \in [1..Slots -> Flights] /\ Free(rest) # {}
    BY <1>1, <1>4 DEF Free
  <2> HIDE DEF rest
  <2>2. page' = page /\ life' = life /\ now' = now /\ failures' = failures
    BY <1>11 DEF Lands, row
  <2>3. \A v \in Versions : StreamAfter(v) \in Streams /\ StreamAnew(v) \in Streams
    BY <1>1 DEF StreamAfter, StreamAnew
  <2>8. asked' \in BOOLEAN
    BY <1>11, Typed DEF Lands
  <2>4. CASE LoadLands(s)
    <3>1. flight' \in {With(rest, Load(FALSE)), rest}
      BY <2>4 DEF LoadLands, rest
    <3>2. flight' \in [1..Slots -> Flights]
      BY <1>2, <1>3, <2>1, <3>1
    <3>3. shown' \in Versions /\ stream' \in Streams
      BY <1>1, <2>3, <2>4 DEF LoadLands
    <3>4. chosen' \in BOOLEAN /\ error' \in BOOLEAN /\ timers' = timers /\ polled' = FALSE
      BY <2>4, Typed DEF LoadLands
    <3> QED BY <2>2, <2>8, <3>2, <3>3, <3>4, Typed DEF Fixed, Moved, TypeOK
  <2>5. CASE PollLands(s)
    <3>1. flight' = rest /\ error' = error /\ chosen' = chosen
      BY <2>5 DEF PollLands, rest
    <3>2. shown' \in Versions /\ stream' \in Streams /\ timers' \subseteq timers
      BY <1>1, <2>3, <2>5, Typed DEF PollLands
    <3>3. polled' \in BOOLEAN
      BY <2>5, Typed DEF PollLands
    <3> QED BY <2>1, <2>2, <2>8, <3>1, <3>2, <3>3, Typed DEF Fixed, Moved, TypeOK
  <2>6. CASE TickLands(s)
    BY <1>1, <1>2, <2>1, <2>2, <2>6, <2>8, Typed DEF TickLands, rest, Fixed, Moved, TypeOK
  <2>7. CASE ReloadLands(s)
    BY <1>1, <2>1, <2>2, <2>7, <2>8, Typed DEF ReloadLands, rest, Fixed, Moved, TypeOK
  <2> QED BY <1>11, <2>4, <2>5, <2>6, <2>7 DEF Lands
<1>12. ASSUME NEW s \in 1..Slots, Fails(s)
       PROVE  TypeOK'
  <2>1. flight' \in [1..Slots -> Flights] /\ error' \in BOOLEAN /\ failures' \in 0..MaxFailures
        /\ asked' \in BOOLEAN
    BY <1>2, <1>4, <1>12 DEF Fails, TypeOK
  <2> QED BY <1>12, <2>1, Typed DEF Fails, Fixed, Moved, row, past, TypeOK
<1>13. ASSUME NEW i \in 1..Timers, TimerFires(i)
       PROVE  TypeOK'
  <2>1. flight' \in [1..Slots -> Flights] /\ timers' \subseteq timers
    BY <1>1, <1>2, <1>3, <1>13 DEF TimerFires
  <2> QED BY <1>13, <2>1, Typed DEF TimerFires, Fixed, Moved, row, past, TypeOK
<1>14. CASE UserAsks
  <2>1. stream' \in Streams
    BY <1>1, <1>14 DEF UserAsks, TryAgain, RetryEvaluation, SelectClaim, StreamAnew
  <2> QED BY <1>14, <2>1, AsksRequest, Typed DEF Fixed, Moved, row, TypeOK
<1> QED BY <1>5, <1>6, <1>7, <1>8, <1>9, <1>10, <1>11, <1>12, <1>13, <1>14 DEF Next, UserAsks

-----------------------------------------------------------------------------
(* What a step keeps.                                                          *)

Kept == TracksInv' /\ (CompletedLast /\ OrderInv => OrderInv')

\* Requests only go, or are new ones, which have read nothing.
LEMMA ReadsPastKept ==
  ASSUME TracksInv, UNCHANGED row,
         shown' = shown \/ \E s \in 1..Slots : shown' = flight[s].at,
         \A t \in 1..Slots : \/ flight'[t] = flight[t]
                             \/ flight'[t] = Idle
                             \/ \E by \in Origins : flight'[t] \in Requests(by)
  PROVE  /\ ReadsPast'
         /\ \A t \in 1..Slots : HasRead(t)' => HasRead(t) /\ flight'[t] = flight[t]
         /\ \A v : (State(v)' = State(v)) /\ (Working(v)' <=> Working(v))
         /\ HadEnded' <=> HadEnded
<1> USE DEF TracksInv
<1>1. page' = page /\ life' = life /\ now' = now
  BY DEF row
<1>2. now \in Nat /\ shown' <= now'
  BY <1>1, LifeTypes DEF ReadsPast
<1>3. ASSUME NEW t \in 1..Slots, ~(flight'[t] = flight[t])
      PROVE  /\ ~HasRead(t)' /\ flight'[t].at = 0 /\ ~flight'[t].parts
             /\ flight'[t].by = "none" <=> flight'[t].pc = "idle"
             /\ flight'[t].pc = "idle" => flight'[t] = Idle
             /\ flight'[t].pc # "done"
  BY <1>3, IdleRow DEF Requests, HasRead, Origins
<1>4. \A v : (State(v)' = State(v)) /\ (Working(v)' <=> Working(v)) /\ (Settled(v)' <=> Settled(v))
  BY <1>1 DEF State, Working, Settled
<1>5. HasParts(now)' <=> HasParts(now)
  BY <1>1 DEF HasParts
<1>6. HadEnded' <=> HadEnded
  BY <1>1, <1>4 DEF HadEnded
<1>7. ASSUME NEW t \in 1..Slots
      PROVE  /\ flight'[t].by = "none" <=> flight'[t].pc = "idle"
             /\ flight'[t].pc = "idle" => flight'[t] = Idle
             /\ flight'[t].at <= now'
             /\ HasRead(t)' => flight'[t].at > 0
             /\ flight'[t].parts => HasParts(now)'
             /\ flight'[t].pc = "done" /\ State(flight[t].at)' = "completed" => flight'[t].parts
  <2>1. CASE flight'[t] = flight[t]
    <3>1. HasRead(t)' <=> HasRead(t)
      BY <2>1 DEF HasRead
    <3>2. State(flight[t].at)' = State(flight[t].at)
      BY <1>1, <2>1 DEF State
    <3> QED BY <1>1, <1>5, <2>1, <3>1, <3>2 DEF ReadsPast
  <2>2. CASE ~(flight'[t] = flight[t])
    BY <1>1, <1>2, <1>3, <2>2
  <2> QED BY <2>1, <2>2
<1>8. ReadsPast'
  BY <1>2, <1>7 DEF ReadsPast
<1>9. \A t \in 1..Slots : HasRead(t)' => HasRead(t) /\ flight'[t] = flight[t]
  BY <1>3 DEF HasRead
<1> QED BY <1>4, <1>6, <1>8, <1>9

LEMMA AddedFacts ==
  ASSUME TracksInv, NEW by \in Origins, NEW r \in Requests(by), Added(flight, flight', r),
         UNCHANGED <<row, shown>>
  PROVE  /\ ReadsPast'
         /\ \A t \in 1..Slots : HasRead(t)' => HasRead(t) /\ flight'[t] = flight[t]
         /\ \A v : (State(v)' = State(v)) /\ (Working(v)' <=> Working(v))
         /\ HadEnded' <=> HadEnded
         /\ Working(shown)' <=> Working(shown)
         /\ \A o \in Origins \ {by} : By(o)' = By(o)
         /\ \E s \in 1..Slots : By(by)' = By(by) \cup {s} /\ ~HasRead(s)'
<1>1. PICK s \in 1..Slots :
        /\ flight[s] = Idle /\ flight'[s] = r
        /\ \A t \in 1..Slots : t # s => flight'[t] = flight[t]
  BY DEF Added
<1>2. flight'[s].by = by /\ flight'[s].pc = "sent"
  BY <1>1 DEF Requests
<1>3. flight[s].by = "none" /\ "none" \notin Origins
  BY <1>1, IdleRow DEF Origins
<1>4. /\ ReadsPast'
      /\ \A t \in 1..Slots : HasRead(t)' => HasRead(t) /\ flight'[t] = flight[t]
      /\ \A v : (State(v)' = State(v)) /\ (Working(v)' <=> Working(v))
      /\ HadEnded' <=> HadEnded
  BY <1>1, ReadsPastKept
<1>5. Working(shown)' <=> Working(shown)
  BY DEF Working, State, row
<1>6. \A o \in Origins \ {by} : By(o)' = By(o)
  BY <1>1, <1>2, <1>3 DEF By
<1>7. By(by)' = By(by) \cup {s} /\ ~HasRead(s)'
  BY <1>1, <1>2 DEF By, HasRead
<1> QED BY <1>4, <1>5, <1>6, <1>7

LEMMA DroppedFacts ==
  ASSUME TracksInv, NEW s \in 1..Slots, Dropped(flight, flight', s), UNCHANGED row,
         shown' = shown \/ shown' = flight[s].at
  PROVE  /\ ReadsPast'
         /\ \A t \in 1..Slots : HasRead(t)' => t # s /\ HasRead(t) /\ flight'[t] = flight[t]
         /\ \A v : (State(v)' = State(v)) /\ (Working(v)' <=> Working(v))
         /\ HadEnded' <=> HadEnded
         /\ By("load")' = By("load") \ {s} /\ By("poll")' = By("poll") \ {s}
         /\ By("tick")' = By("tick") \ {s} /\ By("reload")' = By("reload") \ {s}
<1>1. /\ flight'[s] = Idle
      /\ \A t \in 1..Slots : t # s => flight'[t] = flight[t]
  BY DEF Dropped
<1>2. flight'[s].by = "none" /\ flight'[s].pc = "idle"
  BY <1>1, IdleRow
<1>3. /\ ReadsPast'
      /\ \A t \in 1..Slots : HasRead(t)' => HasRead(t) /\ flight'[t] = flight[t]
      /\ \A v : (State(v)' = State(v)) /\ (Working(v)' <=> Working(v))
      /\ HadEnded' <=> HadEnded
  BY <1>1, ReadsPastKept
<1>4. ~HasRead(s)'
  BY <1>2 DEF HasRead
<1>5. ASSUME NEW o \in Origins
      PROVE  By(o)' = By(o) \ {s}
  BY <1>1, <1>2 DEF By, Origins
<1> QED BY <1>3, <1>4, <1>5 DEF Origins

\* Nothing the user asked for is under way when no load is.
LEMMA AskedAfter ==
  ASSUME TracksInv, asked' = (asked /\ Loading(flight'))
  PROVE  \/ asked' = TRUE
         \/ asked = FALSE
         \/ By("load")' = {} /\ By("tick")' = {} /\ By("reload")' = {}
<1>1. asked \in BOOLEAN
  BY Typed DEF TracksInv
<1>2. ~Loading(flight') => By("load")' = {} /\ By("tick")' = {} /\ By("reload")' = {}
  BY DEF Loading, By
<1> QED BY <1>1, <1>2

-----------------------------------------------------------------------------
(* The row and the stream.                                                     *)

LEMMA RowMovesKeeps == ASSUME TracksInv, RowMoves PROVE Kept
<1> USE DEF TracksInv, RowMoves, past
<1>1. /\ now \in Nat /\ 1 <= now /\ now < Len(life) /\ Len(life) \in Nat
      /\ now' = now + 1 /\ shown \in Nat
  BY LifeTypes
<1>2. TypeOK'
  BY TypesKept DEF Next, Lands
<1>3. \A v : (State(v)' = State(v)) /\ (Working(v)' <=> Working(v)) /\ (Settled(v)' <=> Settled(v))
  BY DEF State, Working, Settled
<1>4. ReadsPast'
  <2>1. HasParts(now) => HasParts(now')
    BY <1>1 DEF HasParts
  <2>2. HasParts(now)' <=> HasParts(now')
    BY DEF HasParts
  <2>3. \A s \in 1..Slots : flight[s].at \in Nat
    BY Typed, StateTypes DEF Flights
  <2>4. \A v : State(v)' = State(v)
    BY DEF State
  <2> QED BY <1>1, <2>1, <2>2, <2>3, <2>4 DEF ReadsPast, HasRead
<1>5. PagesApart'
  BY DEF PagesApart, By
<1>6. HadEnded => HadEnded'
  BY <1>1, <1>3 DEF HadEnded
<1>7. Working(shown)' <=> Working(shown)
  BY DEF Working, State
<1>8. MatchWaits'
  BY <1>6, <1>7 DEF MatchWaits
<1>9. ASSUME OrderInv PROVE OrderInv'
  <2>1. page = "match" => ~chosen
    BY <1>1, <1>9 DEF OrderInv, MatchEnds
  <2>2. MatchLoads' /\ MatchEnds'
    BY <1>9, <2>1 DEF OrderInv, MatchLoads, MatchEnds, By, HasRead
  <2>3. ResumeWaits'
    BY <1>9 DEF OrderInv, ResumeWaits, By, HasRead
  <2> QED BY <2>2, <2>3 DEF OrderInv
<1> QED BY <1>2, <1>4, <1>5, <1>8, <1>9 DEF Kept

LEMMA StreamServesKeeps == ASSUME TracksInv, StreamAccepted \/ StreamPolls PROVE Kept
<1> USE DEF TracksInv
<1>1. /\ UNCHANGED <<row, shown, error, chosen, flight, timers, failures, past>>
      /\ stream'.tab = stream.tab
      /\ stream'.event = stream.event \/ Settled(now)
  <2>1. stream \in Streams
    BY Typed
  <2>2. CASE StreamAccepted
    BY <2>1, <2>2 DEF StreamAccepted, Streams
  <2>3. CASE StreamPolls
    BY <2>1, <2>3 DEF StreamPolls, Streams
  <2> QED BY <2>2, <2>3
<1>2. page = "match"
  BY StreamRows DEF StreamAccepted, StreamPolls, PagesApart, Closed, TypeOK
<1>3. TypeOK'
  BY TypesKept DEF Next, Lands
<1>4. /\ ReadsPast' /\ (HadEnded' <=> HadEnded)
      /\ Working(shown)' <=> Working(shown)
  BY <1>1, ReadsPastKept DEF Working, State, row
<1>5. PagesApart'
  BY <1>1, <1>2 DEF PagesApart, By, row, past
<1>6. Settled(now) => HadEnded
  BY LifeTypes DEF HadEnded
<1>7. MatchWaits'
  BY <1>1, <1>2, <1>4, <1>6 DEF MatchWaits
<1>8. ASSUME OrderInv PROVE OrderInv'
  BY <1>1, <1>2, <1>8 DEF OrderInv, MatchLoads, MatchEnds, ResumeWaits, By, HasRead, State, row, past
<1> QED BY <1>3, <1>4, <1>5, <1>7, <1>8 DEF Kept

LEMMA EventArrivesKeeps == ASSUME TracksInv, EventArrives PROVE Kept
<1> USE DEF TracksInv
<1>1. /\ UNCHANGED <<row, shown, chosen, timers, failures, past>>
      /\ stream.tab /\ stream.event # "none" /\ stream' = Closed
  BY DEF EventArrives
<1>2. PICK r \in Requests("load") : Added(flight, flight', r)
  <2>1. chosen \in BOOLEAN /\ flight \in [1..Slots -> Flights]
    BY Typed
  <2>2. flight' = With(flight, Load(~chosen)) /\ Free(flight) # {}
    BY DEF EventArrives
  <2> QED BY <2>1, <2>2, WithAdds
<1>3. /\ ReadsPast' /\ (HadEnded' <=> HadEnded)
      /\ Working(shown)' <=> Working(shown)
      /\ \A o \in Origins \ {"load"} : By(o)' = By(o)
      /\ \E s \in 1..Slots : By("load")' = By("load") \cup {s} /\ ~HasRead(s)'
      /\ \A s \in 1..Slots : HasRead(s)' => HasRead(s) /\ flight'[s] = flight[s]
  BY <1>1, <1>2, AddedFacts DEF Origins
<1>4. page = "match" /\ Closed.tab = FALSE /\ Closed.event = "none"
  BY <1>1, StreamRows DEF PagesApart, TypeOK, Closed
<1>5. TypeOK'
  BY TypesKept DEF Next, Lands
<1>6. PagesApart'
  BY <1>1, <1>3, <1>4 DEF PagesApart, Origins, row
<1>7. MatchWaits'
  BY <1>1, <1>3, <1>4 DEF MatchWaits
<1>8. ASSUME OrderInv PROVE OrderInv'
  <2>1. MatchLoads'
    <3> SUFFICES ASSUME ~asked PROVE MatchLoads'
      BY <1>1 DEF MatchLoads, past
    <3>1. ~chosen => By("load") = {}
      BY <1>1, <1>4, <1>8 DEF OrderInv, MatchLoads
    <3>2. \A s \in By("load")' : HasRead(s)' => s \in By("load") /\ HasRead(s) /\ flight'[s] = flight[s]
      BY <1>3 DEF By
    <3> QED BY <1>1, <1>3, <1>4, <1>8, <3>1, <3>2 DEF OrderInv, MatchLoads, row, past
  <2>2. MatchEnds' /\ ResumeWaits'
    BY <1>1, <1>4, <1>8 DEF OrderInv, MatchEnds, ResumeWaits, State, row
  <2> QED BY <2>1, <2>2 DEF OrderInv
<1> QED BY <1>3, <1>5, <1>6, <1>7, <1>8 DEF Kept

LEMMA StreamBreaksKeeps == ASSUME TracksInv, StreamBreaks PROVE Kept
<1> USE DEF TracksInv
<1>1. /\ UNCHANGED <<row, shown, chosen, error, flight, past>>
      /\ stream.tab /\ stream' = Closed /\ timers' # {}
  BY DEF StreamBreaks
<1>2. page = "match" /\ Closed.tab = FALSE /\ Closed.event = "none"
  BY <1>1, StreamRows DEF PagesApart, TypeOK, Closed
<1>3. TypeOK'
  BY TypesKept DEF Next, Lands
<1>4. ReadsPast'
  BY <1>1, ReadsPastKept
<1>5. PagesApart'
  BY <1>1, <1>2 DEF PagesApart, By, row, past
<1>6. MatchWaits'
  BY <1>1, <1>2 DEF MatchWaits
<1>7. ASSUME OrderInv PROVE OrderInv'
  BY <1>1, <1>2, <1>7 DEF OrderInv, MatchLoads, MatchEnds, ResumeWaits, By, HasRead, State, row, past
<1> QED BY <1>3, <1>4, <1>5, <1>6, <1>7 DEF Kept

-----------------------------------------------------------------------------
(* Requests that read, are made, and are given up.                             *)

LEMMA ReadsKeep ==
  ASSUME TracksInv, NEW s \in 1..Slots, ReadRow(s) \/ ReadParts(s)
  PROVE  Kept
<1> USE DEF TracksInv
<1>1. UNCHANGED <<row, shown, error, chosen, timers, stream, failures, past>>
  BY DEF ReadRow, ReadParts, Handles
<1>2. /\ ReadEffect(s)
      /\ \/ /\ flight'[s].pc = "row" /\ flight'[s].at = now
            /\ flight'[s].parts = flight[s].parts
         \/ /\ flight'[s].pc = "done" /\ flight'[s].at = flight[s].at /\ HasRead(s)
            /\ flight'[s].parts <=> HasParts(now)
  BY ReadRowEffect, ReadPartsEffect
<1>3. /\ now \in Nat /\ 1 <= now /\ now <= Len(life) /\ shown <= now
      /\ flight[s].at \in Nat
  BY LifeTypes, Typed, StateTypes DEF Flights, ReadsPast
<1>4. /\ \A o : By(o)' = By(o)
      /\ \A t \in 1..Slots : t # s => flight'[t] = flight[t] /\ (HasRead(t)' <=> HasRead(t))
      /\ page' = page /\ life' = life /\ now' = now /\ shown' = shown
      /\ \A v : State(v)' = State(v)
      /\ HasParts(now)' <=> HasParts(now)
  BY <1>1, <1>2 DEF ReadEffect, By, HasRead, row, State, HasParts
<1>5. HasRead(s)' /\ flight[s].by # "none"
  BY <1>2 DEF ReadEffect, ReadsPast
<1>6. TypeOK'
  BY TypesKept DEF Next, Lands
<1>7. ReadsPast'
  <2>1. flight'[s].pc = "done" /\ State(flight'[s].at) = "completed" => HasParts(now)
    <3> SUFFICES ASSUME flight'[s].pc = "done", State(flight'[s].at) = "completed"
                 PROVE  HasParts(now)
      OBVIOUS
    <3>1. flight'[s].at = flight[s].at /\ HasRead(s)
      BY <1>2
    <3>2. flight[s].at \in 1..now
      BY <1>3, <3>1 DEF ReadsPast
    <3>3. life[flight[s].at] = "completed"
      BY <3>1, <3>2 DEF State
    <3> QED BY <3>2, <3>3 DEF HasParts
  <2>2. ASSUME NEW t \in 1..Slots, t # s
        PROVE  /\ flight'[t].by = "none" <=> flight'[t].pc = "idle"
               /\ flight'[t].pc = "idle" => flight'[t] = Idle
               /\ flight'[t].at <= now'
               /\ HasRead(t)' => flight'[t].at > 0
               /\ flight'[t].parts => HasParts(now)'
               /\ flight'[t].pc = "done" /\ State(flight[t].at)' = "completed"
                    => flight'[t].parts
    BY <1>4, <2>2 DEF ReadsPast, State
  <2>3. /\ flight'[s].by # "none" /\ flight'[s].pc # "idle"
        /\ flight'[s].at <= now' /\ flight'[s].at > 0
        /\ flight'[s].parts => HasParts(now)'
        /\ flight'[s].pc = "done" /\ State(flight[s].at)' = "completed"
             => flight'[s].parts
    <3>1. State(flight[s].at)' = State(flight'[s].at)
      BY <1>4 DEF State
    <3>2. flight'[s].by = flight[s].by
      BY <1>2 DEF ReadEffect
    <3> QED BY <1>2, <1>3, <1>4, <1>5, <2>1, <3>1, <3>2 DEF ReadsPast
  <2> QED BY <1>3, <1>4, <2>2, <2>3 DEF ReadsPast
<1>8. PagesApart'
  BY <1>1, <1>4 DEF PagesApart, past
<1>9. MatchWaits'
  BY <1>1, <1>4 DEF MatchWaits, HadEnded, Settled, Working, State
<1>10. ASSUME OrderInv PROVE OrderInv'
  <2>1. \A t \in 1..Slots : HasRead(t)' =>
          \/ flight'[t].at = now
          \/ flight'[t].at = flight[t].at /\ HasRead(t)
    BY <1>2, <1>4
  <2>2. \A o : By(o) \subseteq 1..Slots
    BY DEF By
  <2>3. MatchLoads'
    BY <1>1, <1>3, <1>4, <1>10, <2>1, <2>2 DEF OrderInv, MatchLoads, past
  <2>4. MatchEnds'
    BY <1>1, <1>4, <1>10 DEF OrderInv, MatchEnds, State
  <2>5. ResumeWaits'
    BY <1>1, <1>3, <1>4, <1>10, <2>1, <2>2 DEF OrderInv, ResumeWaits
  <2> QED BY <2>3, <2>4, <2>5 DEF OrderInv
<1> QED BY <1>6, <1>7, <1>8, <1>9, <1>10 DEF Kept

LEMMA TimerFiresKeeps == ASSUME TracksInv, NEW i \in 1..Timers, TimerFires(i) PROVE Kept
<1> USE DEF TracksInv
<1>1. /\ UNCHANGED <<row, shown, error, chosen, stream, failures, past>>
      /\ i \in timers /\ Free(flight) # {}
  BY DEF TimerFires
<1>2. /\ "poll" \in Origins /\ "tick" \in Origins /\ 0 \in 0..Timers /\ i \in 0..Timers
      /\ flight \in [1..Slots -> Flights]
  BY Typed, PageConstants DEF Origins
<1>3. TypeOK'
  BY TypesKept DEF Next, Lands
<1>4. CASE page = "match"
  <2>1. timers' = timers /\ flight' = With(flight, Request("poll", i))
    BY <1>4 DEF TimerFires
  <2>2. PICK r \in Requests("poll") : Added(flight, flight', r)
    BY <1>1, <1>2, <2>1, WithAdds
  <2>3. /\ ReadsPast' /\ (HadEnded' <=> HadEnded)
        /\ Working(shown)' <=> Working(shown)
        /\ \A o \in Origins \ {"poll"} : By(o)' = By(o)
        /\ \A s \in 1..Slots : HasRead(s)' => HasRead(s) /\ flight'[s] = flight[s]
    BY <1>1, <1>2, <2>2, AddedFacts
  <2>4. By("load")' = By("load") /\ By("tick")' = By("tick") /\ By("reload")' = By("reload")
    BY <2>3 DEF Origins
  <2>5. PagesApart' /\ MatchWaits'
    BY <1>1, <1>4, <2>1, <2>3, <2>4 DEF PagesApart, MatchWaits, row, past
  <2>6. ASSUME OrderInv PROVE OrderInv'
    <3>1. \A s \in By("load") : HasRead(s)' => HasRead(s) /\ flight'[s] = flight[s]
      BY <2>3 DEF By
    <3> QED BY <1>1, <1>4, <2>4, <2>6, <3>1
               DEF OrderInv, MatchLoads, MatchEnds, ResumeWaits, State, row, past
  <2> QED BY <1>3, <2>3, <2>5, <2>6 DEF Kept
<1>5. CASE page = "resume"
  <2>1. timers' = timers \ {i} /\ flight' = With(flight, Request("tick", 0))
    BY <1>5 DEF TimerFires
  <2>2. PICK r \in Requests("tick") : Added(flight, flight', r)
    BY <1>1, <1>2, <2>1, WithAdds
  <2>3. /\ ReadsPast'
        /\ \A o \in Origins \ {"tick"} : By(o)' = By(o)
        /\ \E s \in 1..Slots : By("tick")' = By("tick") \cup {s} /\ ~HasRead(s)'
    BY <1>1, <1>2, <2>2, AddedFacts
  <2>4. By("load")' = By("load") /\ By("poll")' = By("poll") /\ By("reload")' = By("reload")
    BY <2>3 DEF Origins
  <2>5. PagesApart' /\ MatchWaits'
    BY <1>1, <1>5, <2>4 DEF PagesApart, MatchWaits, row, past
  <2>6. ASSUME OrderInv PROVE OrderInv'
    <3>1. timers = {1} /\ timers' = {} /\ By("tick") = {} /\ By("reload") = {} /\ ~error
      BY <1>1, <1>5, <2>1, <2>6 DEF OrderInv, ResumeWaits
    <3>2. ResumeWaits'
      BY <1>1, <2>3, <2>4, <3>1 DEF ResumeWaits
    <3> QED BY <1>1, <1>5, <3>2 DEF OrderInv, MatchLoads, MatchEnds, row
  <2> QED BY <1>3, <2>3, <2>5, <2>6 DEF Kept
<1> QED BY <1>4, <1>5 DEF TypeOK

LEMMA UserAsksKeeps == ASSUME TracksInv, UserAsks PROVE Kept
<1> USE DEF TracksInv
<1> DEFINE by == IF page = "match" THEN "load" ELSE "reload"
<1>1. /\ UNCHANGED <<row, shown, timers, failures, polled>> /\ asked' = TRUE
      /\ \E r \in Requests(by) : Added(flight, flight', r)
  BY AsksRequest
<1>2. by \in Origins
  BY DEF Origins
<1> HIDE DEF by
<1>3. /\ ReadsPast' /\ (HadEnded' <=> HadEnded)
      /\ Working(shown)' <=> Working(shown)
      /\ \A o \in Origins \ {by} : By(o)' = By(o)
  BY <1>1, <1>2, AddedFacts
<1>4. /\ By("tick")' = By("tick") /\ By("poll")' = By("poll")
      /\ page = "match" => By("reload")' = By("reload")
      /\ page = "resume" => By("load")' = By("load")
  BY <1>3 DEF Origins, by
<1>5. TypeOK'
  BY TypesKept DEF Next, UserAsks
<1>6. page = "resume" => TryAgain /\ error /\ UNCHANGED <<error, chosen, stream>>
  BY DEF UserAsks, TryAgain, RetryEvaluation, SelectClaim
<1>7. PagesApart'
  BY <1>1, <1>4, <1>6 DEF PagesApart, row
<1>8. MatchWaits'
  <2>1. CASE SelectClaim
    <3>1. ~Working(shown) /\ stream' = Closed /\ Closed.event = "none"
      BY <2>1 DEF SelectClaim, StreamAnew, Working, Closed
    <3> QED BY <1>3, <3>1 DEF MatchWaits
  <2>2. CASE ~SelectClaim
    <3>1. stream' = stream
      BY <2>2 DEF UserAsks, TryAgain, RetryEvaluation
    <3> QED BY <1>1, <1>3, <3>1 DEF MatchWaits, row
  <2> QED BY <2>1, <2>2
<1>9. ASSUME CompletedLast, OrderInv PROVE OrderInv'
  <2>1. MatchLoads'
    BY <1>1 DEF MatchLoads
  <2>2. MatchEnds'
    <3>1. CASE SelectClaim
      <4>1. page = "match" /\ State(shown) = "completed" /\ shown \in Versions
        BY <3>1, Typed DEF SelectClaim
      <4>2. shown = Len(life)
        BY <1>9, <4>1, CompletedIsLast
      <4>3. now = Len(life)
        BY <4>2, LifeTypes DEF ReadsPast
      <4> QED BY <1>1, <4>1, <4>2, <4>3 DEF MatchEnds, State, row
    <3>2. CASE ~SelectClaim
      <4>1. chosen' = chosen
        BY <3>2 DEF UserAsks, TryAgain, RetryEvaluation
      <4> QED BY <1>1, <1>9, <4>1 DEF OrderInv, MatchEnds, State, row
    <3> QED BY <3>1, <3>2
  <2>3. ResumeWaits'
    <3> SUFFICES ASSUME page = "resume" PROVE ResumeWaits'
      BY <1>1 DEF ResumeWaits, row
    <3>1. By("tick") = {} /\ timers = {}
      BY <1>6, <1>9 DEF OrderInv, ResumeWaits
    <3> QED BY <1>1, <1>4, <3>1 DEF ResumeWaits
  <2> QED BY <2>1, <2>2, <2>3 DEF OrderInv
<1> QED BY <1>3, <1>5, <1>7, <1>8, <1>9 DEF Kept

LEMMA FailsKeeps == ASSUME TracksInv, NEW s \in 1..Slots, Fails(s) PROVE Kept
<1> USE DEF TracksInv
<1>1. /\ UNCHANGED <<row, shown, chosen, timers, stream, polled>>
      /\ error' = (error \/ flight[s].by # "poll")
      /\ flight' = [flight EXCEPT ![s] = Idle] /\ flight[s] # Idle
      /\ asked' = (asked /\ Loading(flight'))
  BY DEF Fails
<1>2. Dropped(flight, flight', s)
  BY <1>1, DropIsTyped
<1>3. /\ ReadsPast' /\ (HadEnded' <=> HadEnded)
      /\ \A v : (State(v)' = State(v)) /\ (Working(v)' <=> Working(v))
      /\ \A t \in 1..Slots : HasRead(t)' => t # s /\ HasRead(t) /\ flight'[t] = flight[t]
      /\ By("load")' = By("load") \ {s} /\ By("poll")' = By("poll") \ {s}
      /\ By("tick")' = By("tick") \ {s} /\ By("reload")' = By("reload") \ {s}
  BY <1>1, <1>2, DroppedFacts
<1>4. \/ asked' = TRUE
      \/ asked = FALSE
      \/ By("load")' = {} /\ By("tick")' = {} /\ By("reload")' = {}
  BY <1>1, AskedAfter
<1>5. TypeOK'
  BY TypesKept DEF Next
<1>6. PagesApart'
  BY <1>1, <1>3, <1>4 DEF PagesApart, row
<1>7. MatchWaits'
  <2>1. Working(shown)' <=> Working(shown)
    BY <1>1 DEF Working, State, row
  <2> QED BY <1>1, <1>3, <2>1 DEF MatchWaits, row
<1>8. ASSUME OrderInv PROVE OrderInv'
  <2>1. MatchLoads'
    <3>1. CASE By("load")' = {}
      BY <3>1 DEF MatchLoads
    <3>2. CASE asked = FALSE
      <4>1. By("load") \subseteq 1..Slots
        BY DEF By
      <4> QED BY <1>1, <1>3, <1>8, <3>2, <4>1 DEF OrderInv, MatchLoads, row
    <3>3. CASE asked' = TRUE
      BY <3>3 DEF MatchLoads
    <3> QED BY <1>4, <3>1, <3>2, <3>3
  <2>2. MatchEnds'
    BY <1>1, <1>8 DEF OrderInv, MatchEnds, State, row
  <2>3. ResumeWaits'
    <3> SUFFICES ASSUME page = "resume" PROVE ResumeWaits'
      BY <1>1 DEF ResumeWaits, row
    <3>1. flight[s].by \in Origins
      BY <1>1, Typed DEF ReadsPast, Flights
    <3>2. s \in By("tick") \/ s \in By("reload")
      BY <3>1 DEF PagesApart, Origins, By
    <3>3. By("tick")' = {} /\ timers' = {}
      BY <1>1, <1>3, <1>8, <3>2 DEF OrderInv, ResumeWaits
    <3> QED BY <3>3 DEF ResumeWaits
  <2> QED BY <2>1, <2>2, <2>3 DEF OrderInv
<1> QED BY <1>3, <1>5, <1>6, <1>7, <1>8 DEF Kept

-----------------------------------------------------------------------------
(* Answers that land.                                                          *)

LEMMA PollLandsKeeps ==
  ASSUME TracksInv, NEW s \in 1..Slots, Lands(s), PollLands(s)
  PROVE  Kept
<1> USE DEF TracksInv
<1> DEFINE v == flight[s].at
<1>1. /\ UNCHANGED <<row, failures, error, chosen>> /\ flight[s].by = "poll"
      /\ flight' = [flight EXCEPT ![s] = Idle]
      /\ asked' = (asked /\ Loading(flight'))
      /\ \/ Settled(v) /\ shown' = v /\ stream' = StreamAfter(v) /\ polled' = TRUE
         \/ UNCHANGED <<shown, stream, timers, polled>>
  BY DEF Lands, PollLands
<1>2. Dropped(flight, flight', s)
  BY <1>1, DropIsTyped
<1>3. /\ ReadsPast' /\ (HadEnded' <=> HadEnded)
      /\ \A u : (State(u)' = State(u)) /\ (Working(u)' <=> Working(u))
      /\ \A t \in 1..Slots : HasRead(t)' => t # s /\ HasRead(t) /\ flight'[t] = flight[t]
      /\ By("load")' = By("load") \ {s} /\ By("poll")' = By("poll") \ {s}
      /\ By("tick")' = By("tick") \ {s} /\ By("reload")' = By("reload") \ {s}
  BY <1>1, <1>2, DroppedFacts
<1>4. \/ asked' = TRUE
      \/ asked = FALSE
      \/ By("load")' = {} /\ By("tick")' = {} /\ By("reload")' = {}
  BY <1>1, AskedAfter
<1>5. page = "match" /\ s \notin By("load")
  BY <1>1 DEF By, PagesApart, TypeOK
<1>6. v \in Versions
  BY Typed DEF Flights
<1>7. \/ shown' = v /\ ~Working(shown)' /\ stream' \in {stream, Closed} /\ polled' = TRUE
      \/ UNCHANGED <<shown, stream, timers, polled>> /\ (Working(shown)' <=> Working(shown))
  <2>1. CASE Settled(v) /\ shown' = v /\ stream' = StreamAfter(v) /\ polled' = TRUE
    <3>1. Working(shown)' <=> Working(v)
      BY <1>1, <2>1 DEF Working, State, row
    <3> QED BY <1>6, <2>1, <3>1, StateTypes DEF StreamAfter, StreamAnew
  <2>2. CASE UNCHANGED <<shown, stream, timers, polled>>
    BY <1>1, <2>2 DEF Working, State, row
  <2> QED BY <1>1, <2>1, <2>2
<1>8. TypeOK'
  BY TypesKept DEF Next
<1>9. PagesApart'
  BY <1>1, <1>3, <1>4, <1>5 DEF PagesApart, row
<1>10. Closed.event = "none" /\ Closed.tab = FALSE
  BY DEF Closed
<1>11. MatchWaits'
  BY <1>3, <1>5, <1>7, <1>10 DEF MatchWaits
<1>12. ASSUME OrderInv PROVE OrderInv'
  <2>1. MatchLoads'
    <3>1. CASE By("load")' = {}
      BY <3>1 DEF MatchLoads
    <3>2. CASE asked = FALSE
      <4>1. By("load")' = By("load") /\ \A t \in By("load") : HasRead(t)' => HasRead(t) /\ flight'[t] = flight[t]
        BY <1>3, <1>5 DEF By
      <4>2. polled' = TRUE \/ (shown' = shown /\ polled' = polled)
        BY <1>7
      <4>3. By("load") # {} /\ ~stream.tab => ~stream'.tab
        BY <1>7, <1>10
      <4> QED BY <1>1, <1>5, <1>12, <3>2, <4>1, <4>2, <4>3 DEF OrderInv, MatchLoads, row
    <3>3. CASE asked' = TRUE
      BY <3>3 DEF MatchLoads
    <3> QED BY <1>4, <3>1, <3>2, <3>3
  <2>2. MatchEnds' /\ ResumeWaits'
    BY <1>1, <1>5, <1>12 DEF OrderInv, MatchEnds, ResumeWaits, State, row
  <2> QED BY <2>1, <2>2 DEF OrderInv
<1> QED BY <1>3, <1>8, <1>9, <1>11, <1>12 DEF Kept

LEMMA ResumeLandsKeeps ==
  ASSUME TracksInv, NEW s \in 1..Slots, Lands(s), TickLands(s) \/ ReloadLands(s)
  PROVE  Kept
<1> USE DEF TracksInv
<1> DEFINE v == flight[s].at
<1>1. /\ UNCHANGED <<row, failures, chosen, stream>>
      /\ shown' = v /\ error' = FALSE
      /\ \/ flight[s].by = "tick" /\ timers' \in {{1}, timers}
         \/ flight[s].by = "reload" /\ timers' = timers
      /\ flight' = [flight EXCEPT ![s] = Idle]
      /\ asked' = (asked /\ Loading(flight'))
  BY DEF Lands, TickLands, ReloadLands
<1>2. Dropped(flight, flight', s)
  BY <1>1, DropIsTyped
<1>3. /\ ReadsPast'
      /\ By("load")' = By("load") \ {s} /\ By("poll")' = By("poll") \ {s}
      /\ By("tick")' = By("tick") \ {s} /\ By("reload")' = By("reload") \ {s}
  BY <1>1, <1>2, DroppedFacts
<1>4. \/ asked' = TRUE
      \/ asked = FALSE
      \/ By("load")' = {} /\ By("tick")' = {} /\ By("reload")' = {}
  BY <1>1, AskedAfter
<1>5. /\ page = "resume"
      /\ s \in By("tick") \/ (s \in By("reload") /\ timers' = timers)
  BY <1>1 DEF By, PagesApart, TypeOK
<1>6. TypeOK'
  BY TypesKept DEF Next
<1>7. PagesApart'
  BY <1>1, <1>3, <1>4, <1>5 DEF PagesApart, row
<1>8. MatchWaits' /\ MatchLoads' /\ MatchEnds'
  BY <1>1, <1>5 DEF MatchWaits, MatchLoads, MatchEnds, row
<1>9. ASSUME OrderInv PROVE OrderInv'
  <2>1. ResumeWaits'
    <3>1. CASE s \in By("tick")
      <4>1. By("tick")' = {} /\ timers \subseteq {1} /\ By("reload") = {}
        BY <1>3, <1>5, <1>9, <3>1 DEF OrderInv, ResumeWaits
      <4> QED BY <1>1, <1>3, <4>1 DEF ResumeWaits
    <3>2. CASE s \in By("reload") /\ timers' = timers
      <4>1. By("tick") = {} /\ timers = {}
        BY <1>5, <1>9, <3>2 DEF OrderInv, ResumeWaits
      <4>2. By("tick")' = {} /\ timers' = {}
        BY <1>3, <3>2, <4>1
      <4> QED BY <4>2 DEF ResumeWaits
    <3> QED BY <1>5, <3>1, <3>2
  <2> QED BY <1>8, <2>1 DEF OrderInv
<1> QED BY <1>3, <1>6, <1>7, <1>8, <1>9 DEF Kept

\* What the stream and the polling are after a load that shows version v.
LEMMA LoadWaits ==
  ASSUME TracksInv, NEW v \in Versions, UNCHANGED row, shown' = v, timers' = timers,
         stream' = StreamAnew(v) \/ stream' = StreamAfter(v), HadEnded' <=> HadEnded
  PROVE  MatchWaits'
<1>1. Working(shown)' <=> Working(v)
  BY DEF Working, State, row
<1>2. /\ Opened.tab = TRUE /\ Opened.event = "none" /\ Closed.event = "none"
  BY DEF Opened, Closed
<1>3. CASE stream' = StreamAnew(v)
  BY <1>1, <1>2, <1>3 DEF StreamAnew, MatchWaits
<1>4. CASE stream' = stream /\ State(v) = State(shown)
  <2>1. Working(v) <=> Working(shown)
    BY <1>4 DEF Working
  <2> QED BY <1>1, <1>4, <2>1 DEF TracksInv, MatchWaits, row
<1> QED BY <1>3, <1>4 DEF StreamAfter

\* A load that does not select a claim only goes.
LEMMA LoadLandsOnly ==
  ASSUME TracksInv, NEW s \in 1..Slots, Lands(s), LoadLands(s),
         ~(flight[s].parts /\ flight[s].fresh)
  PROVE  Kept
<1> USE DEF TracksInv
<1> DEFINE v == flight[s].at
<1>1. /\ UNCHANGED <<row, failures, timers>> /\ flight[s].by = "load"
      /\ shown' = v /\ stream' = StreamAfter(v) /\ chosen' = chosen
      /\ flight' = [flight EXCEPT ![s] = Idle]
      /\ asked' = (asked /\ Loading(flight'))
  BY Typed DEF Lands, LoadLands
<1>2. Dropped(flight, flight', s)
  BY <1>1, DropIsTyped
<1>3. /\ ReadsPast' /\ (HadEnded' <=> HadEnded)
      /\ \A u : (State(u)' = State(u)) /\ (Working(u)' <=> Working(u))
      /\ \A t \in 1..Slots : HasRead(t)' => t # s /\ HasRead(t) /\ flight'[t] = flight[t]
      /\ By("load")' = By("load") \ {s} /\ By("poll")' = By("poll") \ {s}
      /\ By("tick")' = By("tick") \ {s} /\ By("reload")' = By("reload") \ {s}
  BY <1>1, <1>2, DroppedFacts
<1>4. \/ asked' = TRUE
      \/ asked = FALSE
      \/ By("load")' = {} /\ By("tick")' = {} /\ By("reload")' = {}
  BY <1>1, AskedAfter
<1>5. page = "match" /\ s \in By("load") /\ v \in Versions
  BY <1>1, Typed DEF By, PagesApart, TypeOK, Flights
<1>6. TypeOK'
  BY TypesKept DEF Next
<1>7. PagesApart'
  BY <1>1, <1>3, <1>4, <1>5 DEF PagesApart, row
<1>8. MatchWaits'
  BY <1>1, <1>3, <1>5, LoadWaits
<1>9. ASSUME OrderInv PROVE OrderInv'
  <2>1. MatchLoads'
    <3>1. CASE By("load")' = {}
      BY <3>1 DEF MatchLoads
    <3>2. CASE asked = FALSE /\ chosen
      <4>1. \A t \in By("load")' : HasRead(t)' => flight'[t].at = now
        <5>1. By("load") \subseteq 1..Slots
          BY DEF By
        <5> QED BY <1>3, <1>5, <1>9, <3>2, <5>1 DEF OrderInv, MatchLoads
      <4> QED BY <1>1, <3>2, <4>1 DEF MatchLoads, row
    <3>3. CASE asked = FALSE /\ ~chosen
      BY <1>3, <1>5, <1>9, <3>1, <3>3 DEF OrderInv, MatchLoads
    <3>4. CASE asked' = TRUE
      BY <3>4 DEF MatchLoads
    <3> QED BY <1>4, <3>1, <3>2, <3>3, <3>4
  <2>2. MatchEnds' /\ ResumeWaits'
    BY <1>1, <1>5, <1>9 DEF OrderInv, MatchEnds, ResumeWaits, State, row
  <2> QED BY <2>1, <2>2 DEF OrderInv
<1> QED BY <1>3, <1>6, <1>7, <1>8, <1>9 DEF Kept

\* One that selects a claim is followed by another.
LEMMA LoadLandsSelects ==
  ASSUME TracksInv, NEW s \in 1..Slots, Lands(s), LoadLands(s),
         flight[s].parts /\ flight[s].fresh
  PROVE  Kept
<1> USE DEF TracksInv
<1> DEFINE v == flight[s].at
           rest == [flight EXCEPT ![s] = Idle]
<1>1. /\ UNCHANGED <<row, failures, timers>> /\ flight[s].by = "load"
      /\ shown' = v /\ stream' = StreamAnew(v) /\ chosen' = TRUE
      /\ flight' = With(rest, Load(FALSE))
      /\ asked' = (asked /\ Loading(flight'))
  BY DEF Lands, LoadLands
<1>2. rest \in [1..Slots -> Flights] /\ Dropped(flight, rest, s)
  BY DropIsTyped
<1>3. s \in Free(rest)
  BY <1>2 DEF Free, Dropped
<1> HIDE DEF rest
<1>4. PICK r \in Requests("load") : Added(rest, flight', r)
  BY <1>1, <1>2, <1>3, WithAdds
<1>5. PICK n \in 1..Slots :
        /\ rest[n] = Idle /\ flight'[n] = r
        /\ \A t \in 1..Slots : t # n => flight'[t] = rest[t]
  BY <1>4 DEF Added
<1>6. flight'[n].by = "load" /\ flight'[n].pc = "sent" /\ "load" \in Origins
  BY <1>5 DEF Requests, Origins
<1>7. \A t \in 1..Slots : \/ t = n
                          \/ t = s /\ flight'[t] = Idle
                          \/ t # s /\ flight'[t] = flight[t]
  BY <1>2, <1>5 DEF Dropped
<1>8. /\ ReadsPast' /\ (HadEnded' <=> HadEnded)
      /\ \A t \in 1..Slots : HasRead(t)' => HasRead(t) /\ flight'[t] = flight[t]
      /\ \A u : (State(u)' = State(u)) /\ (Working(u)' <=> Working(u))
  <2>1. \A t \in 1..Slots : \/ flight'[t] = flight[t]
                            \/ flight'[t] = Idle
                            \/ \E by \in Origins : flight'[t] \in Requests(by)
    BY <1>4, <1>5, <1>6, <1>7
  <2> QED BY <1>1, <2>1, ReadsPastKept
<1>9. \A t \in 1..Slots : HasRead(t)' => t # n /\ t # s
  <2>1. ~HasRead(n)'
    BY <1>6 DEF HasRead
  <2>2. s # n => ~HasRead(s)'
    BY <1>7, IdleRow DEF HasRead
  <2> QED BY <2>1, <2>2
<1>10. page = "match" /\ s \in By("load") /\ v \in Versions
  BY <1>1, Typed DEF By, PagesApart, TypeOK, Flights
<1>11. By("tick")' = {} /\ By("reload")' = {}
  <2>1. \A t \in 1..Slots : flight'[t].by # "tick" /\ flight'[t].by # "reload"
    BY <1>6, <1>7, <1>10, IdleRow DEF PagesApart, By
  <2> QED BY <2>1 DEF By
<1>12. TypeOK'
  BY TypesKept DEF Next
<1>13. PagesApart'
  BY <1>1, <1>10, <1>11 DEF PagesApart, row
<1>14. MatchWaits'
  BY <1>1, <1>8, <1>10, LoadWaits
<1>15. ASSUME CompletedLast, OrderInv PROVE OrderInv'
  <2>1. now = Len(life) /\ State(now) = "completed"
    <3>1. HasParts(now)
      BY DEF ReadsPast
    <3> QED BY <1>10, <1>15, <3>1, PartsAreLast
  <2>2. MatchLoads'
    <3>1. asked' <=> asked
      BY <1>1, <1>6 DEF Loading
    <3>2. ASSUME ~asked, NEW t \in By("load")', HasRead(t)'
          PROVE  flight'[t].at = now
      <4>1. t \in 1..Slots /\ t # s /\ HasRead(t) /\ flight'[t] = flight[t] /\ flight[t].by = "load"
        BY <1>8, <1>9, <3>2 DEF By
      <4>2. t \in By("load")
        BY <4>1 DEF By
      <4> QED BY <1>10, <1>15, <3>2, <4>1, <4>2 DEF OrderInv, MatchLoads
    <3> QED BY <1>1, <3>1, <3>2 DEF MatchLoads, row
  <2>3. MatchEnds' /\ ResumeWaits'
    BY <1>1, <1>10, <2>1 DEF MatchEnds, ResumeWaits, State, row
  <2> QED BY <2>2, <2>3 DEF OrderInv
<1> QED BY <1>8, <1>12, <1>13, <1>14, <1>15 DEF Kept

-----------------------------------------------------------------------------
(* The theorems.                                                               *)

LEMMA InitInv == ASSUME Init PROVE TracksInv /\ OrderInv
<1> DEFINE none == [s \in 1..Slots |-> Idle]
           by == IF page = "match" THEN "load" ELSE "tick"
           r == IF page = "match" THEN Load(TRUE) ELSE Request("tick", 0)
<1>1. /\ page \in {"match", "resume"} /\ life \in Lives[page] /\ now \in 1..Len(life)
      /\ shown = 0 /\ error = FALSE /\ chosen = FALSE /\ timers = {} /\ stream = Closed
      /\ failures = 0 /\ flight = With(none, r) /\ asked = FALSE /\ polled = FALSE
  BY DEF Init
<1>2. Len(life) \in Nat /\ now \in Nat /\ now >= 1
  <2>1. life \in Seq(States)
    BY <1>1, PageConstants DEF States
  <2> QED BY <1>1, <2>1
<1>3. by \in Origins /\ r \in Requests(by)
  <2>1. "tick" \in Origins /\ 0 \in 0..Timers
    BY PageConstants DEF Origins
  <2> QED BY <1>2, <2>1, LoadRow, RequestRow DEF Origins
<1>4. none \in [1..Slots -> Flights] /\ 1 \in Free(none) /\ \A t \in 1..Slots : none[t] = Idle
  BY <1>2, IdleRow, PageConstants DEF Free
<1>5. /\ page = "match" => by = "load"
      /\ page = "resume" => by = "tick"
  OBVIOUS
<1> HIDE DEF none, by, r
<1>6. r \in Flights
  BY <1>3 DEF Requests
<1>7. flight \in [1..Slots -> Flights] /\ Added(none, flight, r)
  BY <1>1, <1>2, <1>4, <1>6, WithAddsOne
<1>8. PICK n \in 1..Slots : flight[n] = r /\ \A t \in 1..Slots : t # n => flight[t] = Idle
  BY <1>4, <1>7 DEF Added
<1>9. /\ flight[n].by = by /\ flight[n].pc = "sent" /\ flight[n].at = 0
      /\ flight[n].parts = FALSE
  BY <1>3, <1>8 DEF Requests
<1>10. TypeOK
  <2>1. 0 \in Versions /\ 0 \in 0..MaxFailures
    BY <1>2, PageConstants DEF Versions
  <2> QED BY <1>1, <1>7, <2>1, StreamRows DEF TypeOK, Flights, Streams
<1>11. ReadsPast
  BY <1>1, <1>2, <1>3, <1>8, <1>9, IdleRow DEF ReadsPast, HasRead, Origins
<1>12. /\ \A o \in Origins : By(o) = IF o = by THEN {n} ELSE {}
       /\ \A t \in 1..Slots : ~HasRead(t)
  BY <1>8, <1>9, IdleRow DEF By, Origins, HasRead
<1>13. Closed.tab = FALSE /\ Closed.event = "none" /\ ~Working(0)
  BY DEF Closed, Working, State
<1>14. /\ page = "match" => By("load") = {n} /\ By("poll") = {} /\ By("tick") = {}
       /\ page = "resume" => By("tick") = {n} /\ By("poll") = {} /\ By("load") = {}
       /\ By("reload") = {}
  BY <1>1, <1>5, <1>12 DEF Origins
<1>15. PagesApart /\ MatchWaits
  BY <1>1, <1>13, <1>14 DEF PagesApart, MatchWaits
<1>16. MatchLoads /\ MatchEnds /\ ResumeWaits
  BY <1>1, <1>12, <1>13, <1>14 DEF MatchLoads, MatchEnds, ResumeWaits
<1> QED BY <1>10, <1>11, <1>15, <1>16 DEF TracksInv, OrderInv

LEMMA NextInv == ASSUME TracksInv, [Next]_vars PROVE Kept
<1>1. CASE RowMoves
  BY <1>1, RowMovesKeeps
<1>2. CASE StreamAccepted \/ StreamPolls
  BY <1>2, StreamServesKeeps
<1>3. CASE EventArrives
  BY <1>3, EventArrivesKeeps
<1>4. CASE StreamBreaks
  BY <1>4, StreamBreaksKeeps
<1>5. ASSUME NEW s \in 1..Slots, ReadRow(s) \/ ReadParts(s)
      PROVE  Kept
  BY <1>5, ReadsKeep
<1>6. ASSUME NEW s \in 1..Slots, Lands(s)
      PROVE  Kept
  BY <1>6, LoadLandsOnly, LoadLandsSelects, PollLandsKeeps, ResumeLandsKeeps DEF Lands
<1>7. ASSUME NEW s \in 1..Slots, Fails(s)
      PROVE  Kept
  BY <1>7, FailsKeeps
<1>8. ASSUME NEW i \in 1..Timers, TimerFires(i)
      PROVE  Kept
  BY <1>8, TimerFiresKeeps
<1>9. CASE UserAsks
  BY <1>9, UserAsksKeeps
<1>10. CASE UNCHANGED vars
  <2>1. UNCHANGED <<page, life, now, shown, error, chosen, flight, timers, stream, failures,
                    asked, polled>>
    BY <1>10 DEF vars, row, past
  <2>2. TypeOK'
    BY <2>1 DEF TracksInv, TypeOK, Versions
  <2>3. /\ \A o : By(o)' = By(o)
        /\ \A s \in 1..Slots : HasRead(s)' <=> HasRead(s)
        /\ \A v : State(v)' = State(v)
        /\ \A v : (Working(v)' <=> Working(v)) /\ (Settled(v)' <=> Settled(v))
    BY <2>1 DEF By, HasRead, State, Working, Settled
  <2>4. /\ ReadsPast' /\ (HadEnded' <=> HadEnded)
        /\ Working(shown)' <=> Working(shown)
    BY <2>1, ReadsPastKept DEF row, Working, State
  <2>5. PagesApart' /\ MatchWaits'
    BY <2>1, <2>3, <2>4 DEF TracksInv, PagesApart, MatchWaits
  <2>6. ASSUME OrderInv PROVE OrderInv'
    <3>1. \A o : By(o) \subseteq 1..Slots
      BY DEF By
    <3>2. MatchLoads'
      BY <2>1, <2>3, <2>6, <3>1 DEF OrderInv, MatchLoads
    <3>3. MatchEnds' /\ ResumeWaits'
      BY <2>1, <2>3, <2>6, <3>1 DEF OrderInv, MatchEnds, ResumeWaits, State
    <3> QED BY <3>2, <3>3 DEF OrderInv
  <2> QED BY <2>2, <2>4, <2>5, <2>6 DEF Kept, TracksInv
<1> QED BY <1>1, <1>2, <1>3, <1>4, <1>5, <1>6, <1>7, <1>8, <1>9, <1>10 DEF Next, UserAsks

LEMMA AlwaysTracks == Spec => []TracksInv
<1>1. Init => TracksInv
  BY InitInv
<1>2. TracksInv /\ [Next]_vars => TracksInv'
  BY NextInv DEF Kept
<1> QED BY <1>1, <1>2, PTL DEF Spec

LEMMA AlwaysOrdered == ASSUME CompletedLast PROVE Spec => [](TracksInv /\ OrderInv)
<1>1. Init => TracksInv /\ OrderInv
  BY InitInv
<1>2. TracksInv /\ OrderInv /\ [Next]_vars => (TracksInv /\ OrderInv)'
  BY NextInv DEF Kept
<1> QED BY <1>1, <1>2, PTL DEF Spec

\* match_events, get_match, get_resume and the pages: whatever the row goes through,
\* the pages stay in states their code can be in.
THEOREM PagesTyped == Spec => []TypeOK
<1>1. TracksInv => TypeOK
  BY DEF TracksInv
<1> QED BY <1>1, AlwaysTracks, PTL

\* What NeverOlder and NeverForgotten say of a step.
MovesOn ==
  /\ shown' < shown =>
       \E s \in 1..Slots :
         /\ Lands(s)
         /\ IF flight[s].by = "poll" THEN State(flight[s].at) = "failed"
            ELSE asked \/ polled
  /\ \A s \in 1..Slots :
       Lands(s) /\ State(flight[s].at) = "completed" => flight[s].parts

LosesTrack ==
  ~Forgotten /\ Forgotten' =>
    \E s \in 1..Slots :
      /\ Lands(s) /\ Working(flight[s].at)
      /\ \/ flight[s].by = "reload"
         \/ /\ flight[s].by = "load" /\ State(flight[s].at) = State(shown)
            /\ \E v \in 1..now : Settled(v)

LEMMA OnlyLandsShow ==
  ASSUME TypeOK, Next, shown' # shown
  PROVE  \E s \in 1..Slots : Lands(s)
BY DEF Next, RowMoves, StreamAccepted, StreamPolls, EventArrives, StreamBreaks, ReadRow,
       ReadParts, Handles, Fails, TimerFires, TryAgain, RetryEvaluation, SelectClaim

\* The load effect and poll of page.tsx, and tick of useResume.ts, over get_match and
\* get_resume: of match runs that stay completed and of any resumes, no answer takes a
\* page back but one that lands while a load the user asked for is under way with it
\* (Try again, Retry Evaluation, another claim), a load a poll has overtaken, and a
\* poll that found the run failed; and whatever says completed comes with what
\* completed it.
THEOREM PagesNeverOlder == ASSUME CompletedLast PROVE Spec => NeverOlder
<1>1. TracksInv /\ OrderInv /\ [Next]_vars => [MovesOn]_vars
  <2> SUFFICES ASSUME TracksInv, OrderInv, Next PROVE MovesOn
    OBVIOUS
  <2> USE DEF TracksInv, OrderInv
  <2>1. ASSUME NEW s \in 1..Slots, Lands(s), State(flight[s].at) = "completed"
        PROVE  flight[s].parts
    BY <2>1 DEF ReadsPast, Lands
  <2>2. ASSUME shown' < shown
        PROVE  \E s \in 1..Slots :
                 /\ Lands(s)
                 /\ IF flight[s].by = "poll" THEN State(flight[s].at) = "failed"
                    ELSE asked \/ polled
    <3>1. shown \in Nat /\ now \in Nat /\ shown <= now /\ now <= Len(life)
      BY LifeTypes DEF ReadsPast
    <3>2. PICK s \in 1..Slots : Lands(s)
      BY <2>2, <3>1, OnlyLandsShow
    <3>3. HasRead(s) /\ flight[s].at \in Versions /\ flight[s].at \in Nat
      BY <3>2, Typed, StateTypes DEF Lands, HasRead, Flights
    <3>4. CASE LoadLands(s)
      <4>1. s \in By("load") /\ shown' = flight[s].at /\ flight[s].by = "load"
        BY <3>4 DEF LoadLands, By
      <4>2. page = "match"
        BY <4>1 DEF PagesApart, TypeOK
      <4>3. ASSUME ~asked, ~polled
            PROVE  shown <= flight[s].at
        BY <3>1, <3>3, <4>1, <4>2, <4>3 DEF MatchLoads
      <4>4. asked \/ polled
        BY <2>2, <3>1, <3>3, <4>1, <4>3
      <4> QED BY <3>2, <4>1, <4>4
    <3>5. CASE PollLands(s)
      <4>1. s \in By("poll") /\ flight[s].by = "poll"
        BY <3>5 DEF PollLands, By
      <4>2. Settled(flight[s].at) /\ shown' = flight[s].at
        BY <2>2, <3>1, <3>5 DEF PollLands
      <4>3. page = "match"
        BY <4>1 DEF PagesApart, TypeOK
      <4>4. State(flight[s].at) # "completed"
        BY <2>2, <3>1, <3>3, <4>2, <4>3, CompletedIsLast
      <4>5. State(flight[s].at) = "failed"
        BY <4>2, <4>4 DEF Settled
      <4> QED BY <3>2, <4>1, <4>5
    <3>6. CASE TickLands(s)
      <4>1. s \in By("tick") /\ shown' = flight[s].at
        BY <3>6 DEF TickLands, By
      <4>2. page = "resume"
        BY <4>1 DEF PagesApart, TypeOK
      <4>3. shown <= flight[s].at
        BY <3>3, <4>1, <4>2 DEF ResumeWaits
      <4> QED BY <2>2, <3>1, <3>3, <4>1, <4>3
    <3>7. CASE ReloadLands(s)
      <4>1. flight[s].by = "reload" /\ By("reload") # {}
        BY <3>7 DEF ReloadLands, By
      <4> QED BY <3>2, <4>1 DEF PagesApart
    <3> QED BY <3>2, <3>4, <3>5, <3>6, <3>7 DEF Lands
  <2> QED BY <2>1, <2>2 DEF MovesOn
<1> QED BY <1>1, AlwaysOrdered, PTL DEF Spec, NeverOlder, MovesOn

LEMMA AddedIsPending ==
  ASSUME TypeOK, NEW f \in [1..Slots -> Flights], NEW by \in Origins \ {"poll"},
         NEW r \in Requests(by), Added(f, flight', r)
  PROVE  Pending'
<1>1. PICK s \in 1..Slots : flight'[s] = r
  BY DEF Added
<1>2. flight'[s].by \notin {"none", "poll"}
  BY <1>1 DEF Requests, Origins
<1> QED BY <1>2 DEF Pending, Loading

\* What does not touch the loads, the timers, the stream or what is shown.
LEMMA QuietKeepsTrack ==
  ASSUME TypeOK, UNCHANGED <<page, life, shown, error, timers>>, stream'.tab = stream.tab,
         \A s \in 1..Slots : flight[s].by \notin {"none", "poll"} => flight'[s].by = flight[s].by
  PROVE  Forgotten' => Forgotten
<1>1. Loading(flight) => Loading(flight')
  BY DEF Loading
<1>2. Working(shown)' <=> Working(shown)
  BY DEF Working, State
<1> QED BY <1>1, <1>2 DEF Forgotten, Pending

LEMMA LandsLosesTrack ==
  ASSUME TracksInv, NEW s \in 1..Slots, Lands(s), ~Forgotten, Forgotten'
  PROVE  /\ Working(flight[s].at)
         /\ \/ flight[s].by = "reload"
            \/ flight[s].by = "load" /\ State(flight[s].at) = State(shown) /\ HadEnded
<1> USE DEF TracksInv
<1> DEFINE v == flight[s].at
<1>1. life' = life /\ page' = page
  BY DEF Lands, row
<1>2. Working(shown)' /\ ~error' /\ ~Pending'
  BY DEF Forgotten
<1>3. v \in Versions /\ flight \in [1..Slots -> Flights]
  BY Typed DEF Flights
<1>4. shown' = v => Working(v)
  BY <1>1, <1>2 DEF Working, State
<1>5. CASE LoadLands(s)
  <2> DEFINE rest == [flight EXCEPT ![s] = Idle]
  <2>1. rest \in [1..Slots -> Flights] /\ s \in Free(rest)
    BY <1>3, DropIsTyped DEF Free
  <2>2. shown' = v /\ flight[s].by = "load" /\ timers' = timers
    BY <1>5 DEF LoadLands
  <2>3. page = "match"
    BY <2>2 DEF PagesApart, By, TypeOK
  <2>4. ASSUME flight[s].parts /\ flight[s].fresh PROVE FALSE
    <3>1. flight' = With(rest, Load(FALSE))
      BY <1>5, <2>4 DEF LoadLands
    <3>2. Load(FALSE) \in Requests("load") /\ Added(rest, flight', Load(FALSE))
      BY <2>1, <3>1, WithAdds
    <3> QED BY <1>2, <2>1, <3>2, AddedIsPending DEF Origins
  <2>5. stream' = StreamAfter(v)
    BY <1>5, <2>4 DEF LoadLands
  <2>6. ~stream'.tab /\ timers' = {}
    BY <1>2 DEF Pending
  <2>7. State(v) = State(shown) /\ stream' = stream
    BY <1>4, <2>2, <2>5, <2>6, StreamRows DEF StreamAfter, StreamAnew
  <2>8. Working(shown)
    BY <1>4, <2>2, <2>7 DEF Working
  <2>9. HadEnded
    BY <2>2, <2>3, <2>6, <2>7, <2>8 DEF MatchWaits
  <2> QED BY <1>4, <2>2, <2>7, <2>9
<1>6. CASE PollLands(s)
  <2>1. ~Settled(v)
    <3> SUFFICES ASSUME Settled(v) PROVE FALSE
      OBVIOUS
    <3>1. shown' = v
      BY <1>6 DEF PollLands
    <3> QED BY <1>3, <1>4, <3>1, StateTypes
  <2>2. /\ UNCHANGED <<shown, timers, error, stream>> /\ flight[s].by = "poll"
        /\ flight' = [flight EXCEPT ![s] = Idle]
    BY <1>6, <2>1 DEF PollLands
  <2>3. \A t \in 1..Slots : t # s => flight'[t] = flight[t]
    BY <1>3, <2>2
  <2> QED BY <1>1, <2>2, <2>3, QuietKeepsTrack
<1>7. CASE TickLands(s)
  <2>1. Working(v)
    BY <1>4, <1>7 DEF TickLands
  <2>2. timers' = {1}
    BY <1>7, <2>1 DEF TickLands
  <2> QED BY <1>2, <2>2 DEF Pending
<1>8. CASE ReloadLands(s)
  BY <1>4, <1>8 DEF ReloadLands
<1> QED BY <1>5, <1>6, <1>7, <1>8 DEF Lands

\* onerror, the intervals, the buttons and the effects of page.tsx, and useResume.ts: of
\* rows of any life, a page that shows work in progress stops waiting for news of it by
\* an answer to Try again of useResume, or by a load that finds a run that had ended
\* taken up again, and in no other way.
THEOREM PagesNeverForgotten == Spec => NeverForgotten
<1>1. TracksInv /\ [Next]_vars => [LosesTrack]_vars
  <2> SUFFICES ASSUME TracksInv, Next, ~Forgotten, Forgotten'
               PROVE  \E s \in 1..Slots :
                        /\ Lands(s) /\ Working(flight[s].at)
                        /\ \/ flight[s].by = "reload"
                           \/ /\ flight[s].by = "load" /\ State(flight[s].at) = State(shown)
                              /\ HadEnded
    BY DEF LosesTrack, HadEnded
  <2> USE DEF TracksInv
  <2>1. ~error' /\ ~Pending' /\ Working(shown)'
    BY DEF Forgotten
  <2>2. flight \in [1..Slots -> Flights] /\ chosen \in BOOLEAN
    BY Typed
  <2>3. CASE RowMoves
    BY <2>3, QuietKeepsTrack DEF RowMoves
  <2>4. CASE StreamAccepted \/ StreamPolls
    <3>1. /\ UNCHANGED <<row, shown, error, flight, timers>> /\ stream'.tab = stream.tab
      BY <2>4, Typed DEF StreamAccepted, StreamPolls, Streams
    <3> QED BY <3>1, QuietKeepsTrack DEF row
  <2>5. CASE EventArrives
    <3>1. flight' = With(flight, Load(~chosen)) /\ Free(flight) # {}
      BY <2>5 DEF EventArrives
    <3>2. \E r \in Requests("load") : Added(flight, flight', r)
      BY <2>2, <3>1, WithAdds
    <3> QED BY <2>1, <2>2, <3>2, AddedIsPending DEF Origins
  <2>6. CASE StreamBreaks
    BY <2>1, <2>6 DEF StreamBreaks, Pending
  <2>7. ASSUME NEW s \in 1..Slots, ReadRow(s) \/ ReadParts(s)
        PROVE  FALSE
    <3>1. ReadEffect(s) /\ UNCHANGED <<row, shown, error, timers, stream>>
      BY <2>7, ReadRowEffect, ReadPartsEffect DEF ReadRow, ReadParts, Handles
    <3>2. \A t \in 1..Slots : flight'[t].by = flight[t].by
      BY <3>1 DEF ReadEffect
    <3> QED BY <3>1, <3>2, QuietKeepsTrack DEF row
  <2>8. ASSUME NEW s \in 1..Slots, Fails(s)
        PROVE  FALSE
    <3>1. /\ flight[s].by = "poll" /\ ~error /\ UNCHANGED <<row, shown, timers, stream>>
          /\ flight' = [flight EXCEPT ![s] = Idle]
      BY <2>1, <2>8 DEF Fails
    <3>2. error' = error
      <4>1. error' = (error \/ flight[s].by # "poll") /\ error \in BOOLEAN
        BY <2>8, Typed DEF Fails
      <4> QED BY <3>1, <4>1
    <3>3. \A t \in 1..Slots : t # s => flight'[t] = flight[t]
      BY <2>2, <3>1
    <3> QED BY <3>1, <3>2, <3>3, QuietKeepsTrack DEF row
  <2>9. ASSUME NEW i \in 1..Timers, TimerFires(i)
        PROVE  FALSE
    <3>1. /\ UNCHANGED <<row, shown, error, stream>> /\ Free(flight) # {}
          /\ "tick" \in Origins /\ "poll" \in Origins /\ 0 \in 0..Timers /\ i \in 0..Timers
      BY <2>9, PageConstants DEF TimerFires, Origins
    <3>2. CASE page = "match"
      BY <2>1, <2>9, <3>2 DEF TimerFires, Pending
    <3>3. CASE page # "match"
      <4>1. flight' = With(flight, Request("tick", 0))
        BY <2>9, <3>3 DEF TimerFires
      <4>2. \E r \in Requests("tick") : Added(flight, flight', r)
        BY <2>2, <3>1, <4>1, WithAdds
      <4> QED BY <2>1, <2>2, <3>1, <4>2, AddedIsPending
    <3> QED BY <3>2, <3>3
  <2>10. CASE UserAsks
    BY <2>1, <2>2, <2>10, AsksRequest, AddedIsPending DEF Origins
  <2>11. CASE \E s \in 1..Slots : Lands(s)
    BY <2>11, LandsLosesTrack
  <2> QED
    BY <2>3, <2>4, <2>5, <2>6, <2>7, <2>8, <2>9, <2>10, <2>11 DEF Next, UserAsks
<1> QED BY <1>1, AlwaysTracks, PTL DEF Spec, NeverForgotten, LosesTrack

=============================================================================

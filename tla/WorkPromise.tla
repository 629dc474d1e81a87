----------------------------- MODULE WorkPromise -----------------------------
(***************************************************************************)
(* What a piece of background work (the analysis of a resume, a match run)  *)
(* promises to the user who asked for it, with no queue, no worker and no   *)
(* object store in sight: once accepted it is open, open work is eventually *)
(* decided or given up, work that was given up may be accepted again, and a *)
(* decided result is never touched again (docs/phase-3-architecture.md,     *)
(* "Re-running a match").  TLC checks MatchRuns against it; that MatchRuns  *)
(* and ResumePipeline implement its safety part is proved.                  *)
(***************************************************************************)
CONSTANTS Works,      \* the keys of the unique index of the table
          Results,    \* what decided work may hold
          NoResult    \* what work holds until it is decided

VARIABLES phase,      \* [Works -> {"absent", "open", "given_up", "decided"}]
          result      \* [Works -> Results \cup {NoResult}]

promise == <<phase, result>>

Init ==
  /\ phase = [r \in Works |-> "absent"]
  /\ result = [r \in Works |-> NoResult]

\* The work is created, or retried after it was given up.
Accept(r) ==
  /\ phase[r] \in {"absent", "given_up"}
  /\ phase' = [phase EXCEPT ![r] = "open"]
  /\ UNCHANGED result

\* It ends with its result, which never changes afterwards.
Decide(r) ==
  /\ phase[r] = "open"
  /\ phase' = [phase EXCEPT ![r] = "decided"]
  /\ \E x \in Results : result' = [result EXCEPT ![r] = x]

\* It ends with a failure code and no result.
GiveUp(r) ==
  /\ phase[r] = "open"
  /\ phase' = [phase EXCEPT ![r] = "given_up"]
  /\ UNCHANGED result

Settle(r) == Decide(r) \/ GiveUp(r)

Next == \E r \in Works : Accept(r) \/ Settle(r)

SafeSpec == Init /\ [][Next]_promise

Spec == SafeSpec /\ \A r \in Works : WF_promise(Settle(r))
===============================================================================

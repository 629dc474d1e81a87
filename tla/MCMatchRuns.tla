----------------------------- MODULE MCMatchRuns -----------------------------
(* Small instances of MatchRuns for TLC. *)
EXTENDS MatchRuns, TLC

\* Workers and requirements are interchangeable; requests are too, since each
\* pair is chosen in the initial states.
Interchangeable ==
  Permutations(Requests) \cup Permutations(Workers) \cup Permutations(Requirements)
==============================================================================

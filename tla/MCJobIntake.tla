----------------------------- MODULE MCJobIntake -----------------------------
(* Small instances of JobIntake for TLC. *)
EXTENDS JobIntake, TLC

\* Every call chooses its document, and every document its texts, in the initial
\* states; for invariants and action properties only.
Interchangeable == Permutations(Calls) \cup Permutations(Workers) \cup Permutations(Texts)
==============================================================================

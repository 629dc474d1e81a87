---------------------------- MODULE MCResultPages ----------------------------
(***************************************************************************)
(* ResultPages for TLC: a row that completes, fails, is retried after a     *)
(* failure, or, for a resume, is processed again.                           *)
(***************************************************************************)
EXTENDS ResultPages

Q == "queued"
P == "processing"
C == "completed"
F == "failed"

RowLives ==
  [p \in {"match", "resume"} |->
     IF p = "match"
     THEN {<<Q, P, C>>, <<Q, F, Q, P, C>>, <<Q, P, F, Q, P, C>>, <<Q, F, Q, F, Q, C>>}
     ELSE {<<Q, P, C, P, C>>, <<Q, P, F, P, C>>}]
=============================================================================

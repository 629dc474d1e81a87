------------------------------ MODULE MCLlmCalls ------------------------------
(***************************************************************************)
(* LlmCalls for TLC: job descriptions of up to five requirements, batches   *)
(* of three when there are more than four.                                  *)
(***************************************************************************)
EXTENDS LlmCalls
=============================================================================

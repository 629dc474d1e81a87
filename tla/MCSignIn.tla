------------------------------- MODULE MCSignIn -------------------------------
(***************************************************************************)
(* SignIn for TLC: two calls, sent up to three and up to two times.         *)
(***************************************************************************)
EXTENDS SignIn

Patience == <<3, 2>>
=============================================================================

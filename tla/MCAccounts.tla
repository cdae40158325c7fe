------------------------------ MODULE MCAccounts ------------------------------
(***************************************************************************)
(* Two requests of administrators at a time, and one session.              *)
(***************************************************************************)
EXTENDS Accounts

CONSTANTS ann, bob, s1, r1, r2
=============================================================================

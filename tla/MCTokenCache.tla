---------------------------- MODULE MCTokenCache ----------------------------
(* TokenCache with sets small enough for TLC.                              *)
EXTENDS TokenCache, TLC

CONSTANTS u1, t1
OneOwner == t1 :> u1
=============================================================================

----------------------------- MODULE MCDispatch -----------------------------
(***************************************************************************)
(* Small instances of Dispatch.  Descriptors and heap addresses are        *)
(* interchangeable; workers are not (the server tries them in order).      *)
(***************************************************************************)
EXTENDS Dispatch, TLC

Interchangeable == Permutations(Fds) \cup Permutations(Tasks)
=============================================================================

------------------------------ MODULE MCConfig ------------------------------
(***************************************************************************)
(* Small instances of ConfigRefresh.                                       *)
(***************************************************************************)
EXTENDS ConfigRefresh
=============================================================================

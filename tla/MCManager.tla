----------------------------- MODULE MCManager -----------------------------
(***************************************************************************)
(* Manager on small instances for TLC.                                     *)
(***************************************************************************)
EXTENDS Manager, TLC

=============================================================================

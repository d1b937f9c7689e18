----------------------------- MODULE MCWatchSet -----------------------------
(***************************************************************************)
(* WatchSet on a small tree for TLC.                                       *)
(***************************************************************************)
EXTENDS WatchSet, TLC

=============================================================================

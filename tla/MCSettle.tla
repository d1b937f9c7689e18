------------------------------ MODULE MCSettle ------------------------------
(***************************************************************************)
(* Settle on small instances for TLC.                                      *)
(***************************************************************************)
EXTENDS Settle, TLC

FileSymmetry == Permutations(Files)

=============================================================================

---------------------------- MODULE MCStandalone ----------------------------
(***************************************************************************)
(* Standalone on small instances for TLC.                                  *)
(***************************************************************************)
EXTENDS Standalone, TLC

CONSTANTS d1, d2, d3

\* Two of the three have names that differ in case only.
MCFoldOf == (d1 :> d1) @@ (d2 :> d1) @@ (d3 :> d3)

\* Every graph of references in the first configuration, none in the other.
MCValues == <<[Keys -> SUBSET Keys], {[k \in Keys |-> {}]}>>

=============================================================================

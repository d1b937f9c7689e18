---------------------------- MODULE MCOwnership ----------------------------
(***************************************************************************)
(* Ownership on small instances for TLC. State directories and socket      *)
(* paths are interchangeable, so the first process is given one of each.   *)
(***************************************************************************)
EXTENDS Ownership, TLC

MCInit == /\ Init
          /\ proc[1].dir = CHOOSE s \in Dirs : TRUE
          /\ proc[1].socket = CHOOSE k \in Sockets : TRUE

MCSpec == MCInit /\ [][Next]_vars /\ Fairness

=============================================================================

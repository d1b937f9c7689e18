---------------------------- MODULE MCSupervisor ----------------------------
(***************************************************************************)
(* Supervisor on small instances for TLC.                                  *)
(***************************************************************************)
EXTENDS Supervisor, TLC

CONSTANTS p1, p2, p3, c1, c2, q1, q2

\* Two of the three paths are one file.
MCFileOf == (p1 :> p1) @@ (p2 :> p1) @@ (p3 :> p3)

\* A database each; one edit makes it the same, under two paths.
MCInitialUses == {(c1 :> p1) @@ (c2 :> p3)}

\* The same file under another path, or the file of the other configuration.
MCEditsTo == (c1 :> {p2}) @@ (c2 :> {p2})

\* One client that may stay attached, one that does the rest.
MCKinds == (q1 :> {"run"}) @@ (q2 :> {"start", "known", "stop"})

=============================================================================

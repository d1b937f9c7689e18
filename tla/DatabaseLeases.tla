--------------------------- MODULE DatabaseLeases ---------------------------
(***************************************************************************)
(* What starting and ending instances comes to for a worker pool: an       *)
(* instance gets its configuration and its database file for itself, all   *)
(* instances of one request together, keeps both unchanged until its end   *)
(* is published, and never gets them back.                                 *)
(***************************************************************************)
EXTENDS Integers

VARIABLES leases,  \* [instance, config, file] of each active instance
          issued   \* instances ever started, which are numbered

vars == <<leases, issued>>

Init == leases = {} /\ issued = 0

\* A new lease is for a new instance and shares nothing with another, old or new.
Take == /\ leases \subseteq leases'
        /\ issued' >= issued
        /\ \A l \in leases' \ leases :
              /\ l.instance \in issued + 1..issued'
              /\ \A h \in leases' : l # h => /\ l.instance # h.instance
                                             /\ l.config # h.config
                                             /\ l.file # h.file

Drop == /\ \E l \in leases : leases' = leases \ {l}
        /\ UNCHANGED issued

Next == Take \/ Drop

Spec == Init /\ [][Next]_vars

=============================================================================

------------------------- MODULE InstanceLifecycle -------------------------
(***************************************************************************)
(* What the manager promises of registered instances, with views, rows,    *)
(* goroutines and requests forgotten: a wish changes only by a start or a  *)
(* stop that was accepted, and outlives every end of the daemon; a new     *)
(* daemon resumes exactly what is wanted and still valid before it serves; *)
(* an instance runs once at a time and is told to end only if it is to be  *)
(* stopped or the daemon ends; ownership is given up when nothing runs.    *)
(***************************************************************************)

CONSTANT Configs   \* configuration files, by identity

VARIABLES daemon,  \* what the daemon process is doing
          wish,    \* wish[c]: what was last asked of the instance of c
          valid,   \* instances whose configuration the daemon can run
          active,  \* instances that run
          told     \* instances that run and were told to end

vars == <<daemon, wish, valid, active, told>>

Init == /\ daemon = "down"
        /\ wish = [c \in Configs |-> "never"]
        /\ valid = {} /\ active = {} /\ told = {}

\* A new daemon reads what is registered; some of it may have become invalid.
Open == /\ daemon = "down" /\ daemon' = "restoring"
        /\ valid' \in SUBSET {c \in Configs : wish[c] # "never"}
        /\ UNCHANGED <<wish, active, told>>

Restore == /\ daemon = "restoring" /\ daemon' = "up"
           /\ active' = {c \in valid : wish[c] = "running"}
           /\ UNCHANGED <<wish, valid, told>>

\* Several instances start together or not at all.
Start(S) == /\ daemon = "up"
            /\ S \cap active = {}
            /\ wish' = [c \in Configs |-> IF c \in S THEN "running" ELSE wish[c]]
            /\ valid' = valid \cup S
            /\ active' = active \cup S
            /\ UNCHANGED <<daemon, told>>

Stop(c) == /\ daemon = "up"
           /\ wish[c] # "never"
           /\ wish' = [wish EXCEPT ![c] = "stopped"]
           /\ UNCHANGED <<daemon, valid, active, told>>

\* A stop reaches the instance, which may have ended meanwhile.
Tell(c) == /\ c \in active /\ wish[c] = "stopped"
           /\ told' = told \cup {c}
           /\ UNCHANGED <<daemon, wish, valid, active>>

\* Told or not, an instance may end.
End(c) == /\ c \in active
          /\ active' = active \ {c} /\ told' = told \ {c}
          /\ UNCHANGED <<daemon, wish, valid>>

\* The daemon ends in order, and everything is told to end with it.
TellAll == /\ daemon \in {"restoring", "up", "ending"} /\ daemon' = "ending"
           /\ told' = active
           /\ UNCHANGED <<wish, valid, active>>

Release == /\ daemon = "ending" /\ daemon' = "released"
           /\ active = {}
           /\ UNCHANGED <<wish, valid, active, told>>

\* The process is gone, and what ran in it; before it released anything, by a crash.
Gone == /\ daemon # "down" /\ daemon' = "down"
        /\ valid' = {} /\ active' = {} /\ told' = {}
        /\ UNCHANGED wish

Next == \/ Open \/ Restore \/ TellAll \/ Release \/ Gone
        \/ \E S \in SUBSET Configs : Start(S)
        \/ \E c \in Configs : Stop(c) \/ Tell(c) \/ End(c)

Spec == Init /\ [][Next]_vars

=============================================================================

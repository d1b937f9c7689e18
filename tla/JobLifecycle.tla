---------------------------- MODULE JobLifecycle ----------------------------
(***************************************************************************)
(* What the durable queue promises, with the tables forgotten: a job is    *)
(* submitted at most once per key, is worked on by one attempt at a time,  *)
(* every attempt has a number of its own, an interrupted attempt is handed *)
(* out again whatever the retry limit says, a failed attempt is handed out *)
(* again only within the limit, and an outcome is final.                   *)
(***************************************************************************)
EXTENDS Integers

CONSTANTS Keys,         \* identities of discovered file versions
          RetryLimits   \* the values max_retries may have

VARIABLES phase,        \* phase[k]: where the job of key k is
          attempt,      \* attempt[k]: number of the latest attempt, 0 for none
          limit         \* limit[k]: max_retries recorded at submission

vars == <<phase, attempt, limit>>

Phases == {"ABSENT", "QUEUED", "RUNNING", "SUCCEEDED", "FAILED"}

Init == /\ phase = [k \in Keys |-> "ABSENT"]
        /\ attempt = [k \in Keys |-> 0]
        /\ limit = [k \in Keys |-> 0]

Submit(k) == /\ phase[k] = "ABSENT"
             /\ phase' = [phase EXCEPT ![k] = "QUEUED"]
             /\ \E m \in RetryLimits : limit' = [limit EXCEPT ![k] = m]
             /\ UNCHANGED attempt

Begin(k) == /\ phase[k] = "QUEUED"
            /\ phase' = [phase EXCEPT ![k] = "RUNNING"]
            /\ attempt' = [attempt EXCEPT ![k] = @ + 1]
            /\ UNCHANGED limit

\* The running attempt ends; a failure is final only beyond the retry limit.
End(k, outcome) == /\ phase[k] = "RUNNING"
                   /\ \/ outcome = "SUCCEEDED"
                      \/ outcome = "QUEUED" /\ attempt[k] <= limit[k]
                      \/ outcome = "FAILED" /\ attempt[k] > limit[k]
                   /\ phase' = [phase EXCEPT ![k] = outcome]
                   /\ UNCHANGED <<attempt, limit>>

\* A start of the queue's owner interrupts every running attempt at once.
InterruptAll == /\ phase' = [k \in Keys |-> IF phase[k] = "RUNNING" THEN "QUEUED"
                                                                    ELSE phase[k]]
                /\ UNCHANGED <<attempt, limit>>

Next == \/ \E k \in Keys : \/ Submit(k)
                           \/ Begin(k)
                           \/ \E outcome \in Phases : End(k, outcome)
        \/ InterruptAll

Spec == Init /\ [][Next]_vars

=============================================================================

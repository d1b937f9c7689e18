----------------------------- MODULE QueueStore -----------------------------
(***************************************************************************)
(* The durable queue of internal/queue: three SQLite tables and the        *)
(* transactions on them. Row ids are AUTOINCREMENT and rows are never      *)
(* deleted, so a table is a sequence and an id is an index. A transaction  *)
(* is one action: it commits all of its statements or, when a statement    *)
(* affects no row (ErrInvalidTransition), none of them.                    *)
(*                                                                         *)
(* Next lets any caller make any call at any time, so what holds here      *)
(* holds whatever the workers, or a second process on the same database    *)
(* file, do.                                                               *)
(***************************************************************************)
EXTENDS Integers, Sequences, FiniteSets

CONSTANTS Keys,          \* (watch name, path, fingerprint) triples
          RetryLimits,   \* values of queue.max_retries
          RetryDelay,    \* queue.retry_delay
          PipelineLen    \* commands of a pipeline, recorded as sequence 1, 2, ...

ASSUME StoreAssumption == /\ RetryLimits \subseteq Nat
                          /\ RetryDelay \in Nat
                          /\ PipelineLen \in Nat \ {0}

VARIABLES jobs,       \* table jobs
          runs,       \* table runs
          commands,   \* table command_executions
          now         \* the clock s.timestamp() reads

storeVars == <<jobs, runs, commands, now>>

JobStatuses == {"QUEUED", "RUNNING", "SUCCEEDED", "FAILED"}
RunStatuses == {"RUNNING", "SUCCEEDED", "FAILED"}

Job == [key : Keys, status : JobStatuses, attempts : Nat,
        maxRetries : RetryLimits, availableAt : Nat]
Run == [job : Nat, attempt : Nat, status : RunStatuses]
Command == [run : Nat, sequence : Nat, status : RunStatuses]

\* The columns the UPDATE statements set.
WithStatus(row, status) == [row EXCEPT !.status = status]
Claimed(job, n) == [job EXCEPT !.status = "RUNNING", !.attempts = n]
Available(job, status, at) == [job EXCEPT !.status = status, !.availableAt = at]

JobIDs == DOMAIN jobs
RunIDs == DOMAIN runs
CommandIDs == DOMAIN commands

StoreTypeOK == /\ jobs \in Seq(Job)
               /\ runs \in Seq(Run)
               /\ commands \in Seq(Command)
               /\ now \in Nat

StoreInit == /\ jobs = <<>>
             /\ runs = <<>>
             /\ commands = <<>>
             /\ now = 0

----------------------------------------------------------------------------
(* Discovery: INSERT ... ON CONFLICT (watch, path, fingerprint) DO NOTHING. *)

Recorded(k) == \E j \in JobIDs : jobs[j].key = k

\* Mutant: ON CONFLICT DO UPDATE, a rediscovered file is queued again.
EnqueueMutantRequeues(k, m) ==
    /\ jobs' = IF Recorded(k)
               THEN [j \in JobIDs |-> IF jobs[j].key = k
                                      THEN WithStatus(jobs[j], "QUEUED")
                                      ELSE jobs[j]]
               ELSE Append(jobs, [key |-> k, status |-> "QUEUED", attempts |-> 0,
                                  maxRetries |-> m, availableAt |-> now])
    /\ UNCHANGED <<runs, commands, now>>

Enqueue(k, m) ==
    /\ \/ Recorded(k) /\ UNCHANGED jobs
       \/ /\ ~Recorded(k)
          /\ jobs' = Append(jobs, [key |-> k, status |-> "QUEUED", attempts |-> 0,
                                   maxRetries |-> m, availableAt |-> now])
    /\ UNCHANGED <<runs, commands, now>>

----------------------------------------------------------------------------
(* Claim: ORDER BY available_at, id LIMIT 1 over the due jobs, and the run  *)
(* row in the same transaction.                                             *)

\* Mutant: the claim does not ask for QUEUED.
DueMutantAnyUnfinished == {j \in JobIDs : /\ jobs[j].status \in {"QUEUED", "RUNNING"}
                                          /\ jobs[j].availableAt <= now}

Due == {j \in JobIDs : jobs[j].status = "QUEUED" /\ jobs[j].availableAt <= now}

Precedes(i, j) == \/ jobs[i].availableAt < jobs[j].availableAt
                  \/ jobs[i].availableAt = jobs[j].availableAt /\ i <= j

\* Mutant: the claim forgets attempts = attempts + 1.
ClaimMutantSameAttempt ==
    /\ \E j \in Due :
         /\ \A i \in Due : Precedes(j, i)
         /\ jobs' = [jobs EXCEPT ![j].status = "RUNNING"]
         /\ runs' = Append(runs, [job |-> j, attempt |-> jobs[j].attempts,
                                  status |-> "RUNNING"])
    /\ UNCHANGED <<commands, now>>

Claim ==
    /\ \E j \in Due :
         /\ \A i \in Due : Precedes(j, i)
         /\ jobs' = [jobs EXCEPT ![j] = Claimed(@, jobs[j].attempts + 1)]
         /\ runs' = Append(runs, [job |-> j, attempt |-> jobs[j].attempts + 1,
                                  status |-> "RUNNING"])
    /\ UNCHANGED <<commands, now>>

----------------------------------------------------------------------------
(* The two ways an attempt ends. Both transactions need the run and its job *)
(* to be RUNNING; otherwise nothing is written.                             *)

\* Mutant: the run's own status is not checked, only the job's.
OpenMutantAnyRun(j, r) == /\ r \in RunIDs
                          /\ runs[r].job = j
                          /\ j \in JobIDs
                          /\ jobs[j].status = "RUNNING"

Open(j, r) == /\ r \in RunIDs
              /\ runs[r].job = j
              /\ runs[r].status = "RUNNING"
              /\ j \in JobIDs
              /\ jobs[j].status = "RUNNING"

Succeed(j, r) ==
    /\ Open(j, r)
    /\ runs' = [runs EXCEPT ![r] = WithStatus(@, "SUCCEEDED")]
    /\ jobs' = [jobs EXCEPT ![j] = WithStatus(@, "SUCCEEDED")]
    /\ UNCHANGED <<commands, now>>

\* Mutant: open command rows are left as they are.
CloseCommandsMutantLeavesOpen(S) == UNCHANGED commands

CloseCommands(S) ==
    commands' = [c \in CommandIDs |->
                   IF commands[c].run \in S /\ commands[c].status = "RUNNING"
                   THEN WithStatus(commands[c], "FAILED")
                   ELSE commands[c]]

\* Mutant: max_retries counts attempts instead of retries after the first.
HasRetriesMutantOffByOne(j) == jobs[j].attempts < jobs[j].maxRetries

\* Mutant: one retry too many.
HasRetriesMutantExtraRetry(j) == jobs[j].attempts <= jobs[j].maxRetries + 1

HasRetries(j) == jobs[j].attempts <= jobs[j].maxRetries

Fail(j, r) ==
    /\ Open(j, r)
    /\ CloseCommands({r})
    /\ runs' = [runs EXCEPT ![r] = WithStatus(@, "FAILED")]
    /\ jobs' = [jobs EXCEPT ![j] = IF HasRetries(j)
                                   THEN Available(@, "QUEUED", now + RetryDelay)
                                   ELSE Available(@, "FAILED", now)]
    /\ UNCHANGED now

----------------------------------------------------------------------------
(* Recovery at startup: everything left RUNNING is interrupted history, and *)
(* every interrupted job is due again at once, max_retries or not.          *)

\* Mutant: recovery requeues the jobs and forgets their runs.
RecoverRunningMutantKeepsRuns ==
    /\ CloseCommands(Nat)
    /\ jobs' = [j \in JobIDs |-> IF jobs[j].status = "RUNNING"
                                 THEN Available(jobs[j], "QUEUED", now)
                                 ELSE jobs[j]]
    /\ UNCHANGED <<runs, now>>

RecoverRunning ==
    /\ CloseCommands(Nat)
    /\ runs' = [r \in RunIDs |-> IF runs[r].status = "RUNNING"
                                 THEN WithStatus(runs[r], "FAILED")
                                 ELSE runs[r]]
    /\ jobs' = [j \in JobIDs |-> IF jobs[j].status = "RUNNING"
                                 THEN Available(jobs[j], "QUEUED", now)
                                 ELSE jobs[j]]
    /\ UNCHANGED now

----------------------------------------------------------------------------
(* Command history: INSERT ... SELECT FROM runs WHERE status = RUNNING,     *)
(* under UNIQUE (run_id, sequence), and the one update that closes a row.   *)

CanStartCommand(r, s) ==
    /\ r \in RunIDs
    /\ runs[r].status = "RUNNING"
    /\ \A c \in CommandIDs : ~(commands[c].run = r /\ commands[c].sequence = s)

StartCommand(r, s) ==
    /\ CanStartCommand(r, s)
    /\ commands' = Append(commands, [run |-> r, sequence |-> s, status |-> "RUNNING"])
    /\ UNCHANGED <<jobs, runs, now>>

CanCompleteCommand(c) == c \in CommandIDs /\ commands[c].status = "RUNNING"

CompleteCommand(c, outcome) ==
    /\ CanCompleteCommand(c)
    /\ outcome \in {"SUCCEEDED", "FAILED"}
    /\ commands' = [commands EXCEPT ![c] = WithStatus(@, outcome)]
    /\ UNCHANGED <<jobs, runs, now>>

----------------------------------------------------------------------------

Tick == now' = now + 1 /\ UNCHANGED <<jobs, runs, commands>>

StoreNext ==
    \/ \E k \in Keys, m \in RetryLimits : Enqueue(k, m)
    \/ Claim
    \/ \E j \in JobIDs, r \in RunIDs : Succeed(j, r) \/ Fail(j, r)
    \/ RecoverRunning
    \/ \E r \in RunIDs, s \in 1..PipelineLen : StartCommand(r, s)
    \/ \E c \in CommandIDs, outcome \in RunStatuses : CompleteCommand(c, outcome)
    \/ Tick

StoreSpec == StoreInit /\ [][StoreNext]_storeVars

----------------------------------------------------------------------------
(* Properties of the tables under any sequence of calls.                    *)

\* A job is RUNNING exactly while one of its runs is, and that run is the
\* attempt the job counts: Claim, Succeed, Fail and RecoverRunning keep the two
\* tables in step although each row is guarded by its own status alone.
OneOpenRun ==
    /\ \A r \in RunIDs : runs[r].status = "RUNNING" =>
          /\ runs[r].job \in JobIDs
          /\ jobs[runs[r].job].status = "RUNNING"
          /\ runs[r].attempt = jobs[runs[r].job].attempts
    /\ \A j \in JobIDs : jobs[j].status = "RUNNING" =>
          \E r \in RunIDs : /\ runs[r].job = j
                            /\ runs[r].status = "RUNNING"

\* Runs name existing jobs and number the job's attempts without repetition, so
\* the UNIQUE (job_id, attempt) constraint never makes a Claim fail, however
\* recoveries and retries alternate.
AttemptNumbering ==
    /\ \A r \in RunIDs : /\ runs[r].job \in JobIDs
                         /\ runs[r].attempt \in 1..jobs[runs[r].job].attempts
    /\ \A q, r \in RunIDs :
          (runs[q].job = runs[r].job /\ runs[q].attempt = runs[r].attempt) => q = r

\* A job's outcome is the outcome of its last run: a SUCCEEDED run exists only
\* for a SUCCEEDED job and is its last attempt, and a FAILED job has used its
\* first attempt and every retry of max_retries (queue.Fail).
OutcomeMatchesHistory ==
    /\ \A r \in RunIDs : runs[r].status = "SUCCEEDED" =>
          /\ runs[r].job \in JobIDs
          /\ jobs[runs[r].job].status = "SUCCEEDED"
          /\ runs[r].attempt = jobs[runs[r].job].attempts
    /\ \A j \in JobIDs : jobs[j].status = "SUCCEEDED" =>
          \E r \in RunIDs : runs[r].job = j /\ runs[r].status = "SUCCEEDED"
    /\ \A j \in JobIDs : jobs[j].status = "FAILED" =>
          jobs[j].attempts > jobs[j].maxRetries

\* A FAILED run has no command left RUNNING: Fail and RecoverRunning close the
\* commands of the runs they end, so history never shows a command in progress
\* under an attempt that is over.
FailedRunsAreClosed ==
    \A c \in CommandIDs :
        /\ commands[c].run \in RunIDs
        /\ commands[c].status = "RUNNING" => runs[commands[c].run].status # "FAILED"

FinishedRowsKept ==
    /\ \A r \in RunIDs : runs[r].status # "RUNNING" => runs'[r] = runs[r]
    /\ \A c \in CommandIDs : commands[c].status # "RUNNING" => commands'[c] = commands[c]
    /\ \A j \in JobIDs : jobs[j].status \in {"SUCCEEDED", "FAILED"} => jobs'[j] = jobs[j]

\* Finished rows are history: no call, by a late worker or by another process,
\* rewrites a run, a command or a job once its status is terminal.
HistoryIsFinal == [][FinishedRowsKept]_storeVars

\* The inductive invariant: OneOpenRun alone is not preserved by Succeed, which
\* needs the open run of a job to be unique (AttemptNumbering).
StoreInv == /\ StoreTypeOK
            /\ OneOpenRun
            /\ AttemptNumbering
            /\ OutcomeMatchesHistory
            /\ FailedRunsAreClosed

----------------------------------------------------------------------------
(* The tables implement the abstract life cycle of a job.                   *)

NoJob == [status |-> "ABSENT", attempts |-> 0, maxRetries |-> 0]

RowOf(k) == CHOOSE j \in JobIDs : jobs[j].key = k

\* The job of each key, which no two jobs share.
jobOf == [k \in Keys |-> IF Recorded(k) THEN jobs[RowOf(k)] ELSE NoJob]

Lifecycle == INSTANCE JobLifecycle WITH
    phase <- [k \in Keys |-> jobOf[k].status],
    attempt <- [k \in Keys |-> jobOf[k].attempts],
    limit <- [k \in Keys |-> jobOf[k].maxRetries]

\* The store implements JobLifecycle: each transaction is one step of one job's
\* life, or the interruption of all running ones, or invisible.
ImplementsLifecycle == Lifecycle!Spec

=============================================================================

----------------------------- MODULE WorkerPool -----------------------------
(***************************************************************************)
(* daemon.Run over one queue database: the instance's life (recover, watch *)
(* and work, cancel, join, or die), its watcher's deliveries, and the      *)
(* workers of internal/worker, each in its own goroutine. Every store call *)
(* of a worker is a step of its own, so other workers, a cancellation, a   *)
(* crash or another process act between any two of them.                   *)
(*                                                                         *)
(* Several instances share the database when InstanceOf says so: the       *)
(* manager prevents it inside one daemon, nothing prevents two standalone  *)
(* processes from doing it.                                                *)
(***************************************************************************)
EXTENDS QueueStore

CONSTANTS Instances,     \* daemon.Run activations that use the database
          Workers,       \* worker goroutines of all instances
          InstanceOf,    \* the instance a worker belongs to
          MaxCrashes,    \* bound: process deaths
          MaxStops,      \* bound: requested stops (context cancellations)
          MaxFaults,     \* bound: store calls that fail and roll back
          MaxRejects,    \* bound: pipelines refused before a command starts
          MaxIdleTime    \* bound: clock value up to which time passes unasked

ASSUME PoolAssumption == /\ InstanceOf \in [Workers -> Instances]
                         /\ {MaxCrashes, MaxStops, MaxFaults, MaxRejects, MaxIdleTime}
                                \subseteq Nat

VARIABLES up,          \* up[i]: daemon.Run is past recovery and has not returned
          cancelled,   \* cancelled[i]: its run context is cancelled
          watching,    \* watching[i]: its watcher goroutine runs
          worker,      \* worker[w]: program counter and locals of a worker
          crashes, stops, faults, rejects   \* what the environment did so far

instanceVars == <<up, cancelled, watching>>
budgetVars == <<crashes, stops, faults, rejects>>
vars == <<storeVars, instanceVars, worker, budgetVars>>

\* pc: the store call or wait the worker is about to make. run, step and
\* command are processJob's locals: RunID, index + 1 and commandID.
PCs == {"claim", "poll", "start", "execute", "complete", "succeed", "fail", "returned"}

WorkerState == [pc : PCs, run : Nat, step : Nat, command : Nat, ok : BOOLEAN]

At(pc) == [pc |-> pc, run |-> 0, step |-> 0, command |-> 0, ok |-> FALSE]

Goto(w, pc) == worker' = [worker EXCEPT ![w] = At(pc)]

PoolTypeOK == /\ StoreTypeOK
              /\ up \in [Instances -> BOOLEAN]
              /\ cancelled \in [Instances -> BOOLEAN]
              /\ watching \in [Instances -> BOOLEAN]
              /\ worker \in [Workers -> WorkerState]
              /\ crashes \in 0..MaxCrashes
              /\ stops \in 0..MaxStops
              /\ faults \in 0..MaxFaults
              /\ rejects \in 0..MaxRejects

PoolInit == /\ StoreInit
            /\ up = [i \in Instances |-> FALSE]
            /\ cancelled = [i \in Instances |-> FALSE]
            /\ watching = [i \in Instances |-> FALSE]
            /\ worker = [w \in Workers |-> At("returned")]
            /\ crashes = 0 /\ stops = 0 /\ faults = 0 /\ rejects = 0

WorkersOf(i) == {w \in Workers : InstanceOf[w] = i}

Cancelled(w) == cancelled[InstanceOf[w]]

----------------------------------------------------------------------------
(* The instance.                                                            *)

\* Mutant: the instance starts without recovering what was left RUNNING.
StartMutantNoRecovery(i) ==
    /\ ~up[i]
    /\ up' = [up EXCEPT ![i] = TRUE]
    /\ cancelled' = [cancelled EXCEPT ![i] = FALSE]
    /\ watching' = [watching EXCEPT ![i] = TRUE]
    /\ worker' = [w \in Workers |-> IF InstanceOf[w] = i THEN At("claim") ELSE worker[w]]
    /\ UNCHANGED <<storeVars, budgetVars>>

\* Open, RecoverRunning, then the watcher and the pool start.
Start(i) ==
    /\ ~up[i]
    /\ RecoverRunning
    /\ up' = [up EXCEPT ![i] = TRUE]
    /\ cancelled' = [cancelled EXCEPT ![i] = FALSE]
    /\ watching' = [watching EXCEPT ![i] = TRUE]
    /\ worker' = [w \in Workers |-> IF InstanceOf[w] = i THEN At("claim") ELSE worker[w]]
    /\ UNCHANGED budgetVars

\* A stop request or a signal cancels the run context.
Stop(i) ==
    /\ up[i] /\ ~cancelled[i]
    /\ stops < MaxStops
    /\ stops' = stops + 1
    /\ cancelled' = [cancelled EXCEPT ![i] = TRUE]
    /\ UNCHANGED <<storeVars, up, watching, worker, crashes, faults, rejects>>

\* The watcher's handler enqueues a settled file, seen again after every start.
Discover(i, k, m) ==
    /\ watching[i] /\ ~cancelled[i]
    /\ Enqueue(k, m)
    /\ UNCHANGED <<instanceVars, worker, budgetVars>>

\* The handler's Enqueue fails, or the watcher gives up by itself: its goroutine
\* returns the error.
WatcherFails(i) ==
    /\ watching[i]
    /\ faults < MaxFaults
    /\ faults' = faults + 1
    /\ watching' = [watching EXCEPT ![i] = FALSE]
    /\ UNCHANGED <<storeVars, up, cancelled, worker, crashes, stops, rejects>>

\* first := <-results; cancel(): the watcher's return cancels the workers.
FirstResult(i) ==
    /\ up[i] /\ ~watching[i] /\ ~cancelled[i]
    /\ cancelled' = [cancelled EXCEPT ![i] = TRUE]
    /\ UNCHANGED <<storeVars, up, watching, worker, budgetVars>>

WatcherReturn(i) ==
    /\ watching[i] /\ cancelled[i]
    /\ watching' = [watching EXCEPT ![i] = FALSE]
    /\ UNCHANGED <<storeVars, up, cancelled, worker, budgetVars>>

\* daemon.Run returns only when the watcher and all workers have returned.
Join(i) ==
    /\ up[i] /\ ~watching[i]
    /\ \A w \in WorkersOf(i) : worker[w].pc = "returned"
    /\ up' = [up EXCEPT ![i] = FALSE]
    /\ cancelled' = [cancelled EXCEPT ![i] = FALSE]
    /\ UNCHANGED <<storeVars, watching, worker, budgetVars>>

\* The process dies: committed transactions stay, everything else is lost.
Crash(i) ==
    /\ up[i]
    /\ crashes < MaxCrashes
    /\ crashes' = crashes + 1
    /\ up' = [up EXCEPT ![i] = FALSE]
    /\ cancelled' = [cancelled EXCEPT ![i] = FALSE]
    /\ watching' = [watching EXCEPT ![i] = FALSE]
    /\ worker' = [w \in Workers |-> IF InstanceOf[w] = i THEN At("returned") ELSE worker[w]]
    /\ UNCHANGED <<storeVars, stops, faults, rejects>>

----------------------------------------------------------------------------
(* A worker: consume and processJob.                                        *)

\* Mutant: a claim refused by the cancelled context is retried at once.
ReturnMutantOnlyFromPoll(w) ==
    /\ worker[w].pc = "poll" /\ Cancelled(w)
    /\ Goto(w, "returned")
    /\ UNCHANGED <<storeVars, instanceVars, budgetVars>>

Return(w) ==
    /\ worker[w].pc \in {"claim", "poll"} /\ Cancelled(w)
    /\ Goto(w, "returned")
    /\ UNCHANGED <<storeVars, instanceVars, budgetVars>>

ClaimJob(w) ==
    /\ worker[w].pc = "claim" /\ ~Cancelled(w)
    /\ Claim
    /\ worker' = [worker EXCEPT ![w] = [At("start") EXCEPT !.run = Len(runs) + 1, !.step = 1]]
    /\ UNCHANGED <<instanceVars, budgetVars>>

ClaimNothing(w) ==
    /\ worker[w].pc = "claim" /\ ~Cancelled(w)
    /\ Due = {}
    /\ Goto(w, "poll")
    /\ UNCHANGED <<storeVars, instanceVars, budgetVars>>

PollElapsed(w) ==
    /\ worker[w].pc = "poll"
    /\ Goto(w, "claim")
    /\ UNCHANGED <<storeVars, instanceVars, budgetVars>>

\* The watch is no longer configured, or the expanded command is invalid.
Reject(w) ==
    /\ worker[w].pc = "start"
    /\ rejects < MaxRejects
    /\ rejects' = rejects + 1
    /\ worker' = [worker EXCEPT ![w].pc = "fail"]
    /\ UNCHANGED <<storeVars, instanceVars, crashes, stops, faults>>

\* Mutant: a cancelled worker drops its job instead of failing the attempt.
StartStepMutantDropsJob(w) ==
    /\ worker[w].pc = "start"
    /\ \/ /\ ~Cancelled(w)
          /\ StartCommand(worker[w].run, worker[w].step)
          /\ worker' = [worker EXCEPT ![w].pc = "execute", ![w].command = Len(commands) + 1]
       \/ /\ Cancelled(w) \/ ~CanStartCommand(worker[w].run, worker[w].step)
          /\ Goto(w, "claim")
          /\ UNCHANGED storeVars
    /\ UNCHANGED <<instanceVars, budgetVars>>

\* StartCommand runs under the run context, so a cancelled worker cannot start.
StartStep(w) ==
    /\ worker[w].pc = "start"
    /\ \/ /\ ~Cancelled(w)
          /\ StartCommand(worker[w].run, worker[w].step)
          /\ worker' = [worker EXCEPT ![w].pc = "execute", ![w].command = Len(commands) + 1]
       \/ /\ Cancelled(w) \/ ~CanStartCommand(worker[w].run, worker[w].step)
          /\ worker' = [worker EXCEPT ![w].pc = "fail"]
          /\ UNCHANGED storeVars
    /\ UNCHANGED <<instanceVars, budgetVars>>

\* The command ends by itself, by its timeout or by the cancellation.
Execute(w, ok) ==
    /\ worker[w].pc = "execute"
    /\ worker' = [worker EXCEPT ![w].pc = "complete", ![w].ok = ok]
    /\ UNCHANGED <<storeVars, instanceVars, budgetVars>>

\* Mutant: the last command of the pipeline is skipped.
AfterStepMutantSkipsLast(w) == IF worker[w].step < PipelineLen - 1
                               THEN [worker[w] EXCEPT !.pc = "start", !.step = @ + 1]
                               ELSE [worker[w] EXCEPT !.pc = "succeed"]

AfterStep(w) == IF worker[w].step < PipelineLen
                THEN [worker[w] EXCEPT !.pc = "start", !.step = @ + 1]
                ELSE [worker[w] EXCEPT !.pc = "succeed"]

CompleteStep(w) ==
    /\ worker[w].pc = "complete"
    /\ \/ /\ CompleteCommand(worker[w].command, IF worker[w].ok THEN "SUCCEEDED" ELSE "FAILED")
          /\ worker' = [worker EXCEPT ![w] = IF worker[w].ok
                                             THEN AfterStep(w)
                                             ELSE [@ EXCEPT !.pc = "fail"]]
       \/ /\ ~CanCompleteCommand(worker[w].command)
          /\ worker' = [worker EXCEPT ![w].pc = "fail"]
          /\ UNCHANGED storeVars
    /\ UNCHANGED <<instanceVars, budgetVars>>

\* Both ends of an attempt: a refused transaction is only logged.
EndRun(w, pc, Transaction(_, _)) ==
    LET r == worker[w].run
        j == runs[r].job
    IN  /\ worker[w].pc = pc
        /\ \/ Transaction(j, r)
           \/ ~Open(j, r) /\ UNCHANGED storeVars
        /\ Goto(w, "claim")
        /\ UNCHANGED <<instanceVars, budgetVars>>

SucceedRun(w) == EndRun(w, "succeed", Succeed)

FailRun(w) == EndRun(w, "fail", Fail)

\* A store call fails with its transaction rolled back (a busy or full database).
StoreFault(w) ==
    /\ worker[w].pc \in {"claim", "start", "complete", "succeed", "fail"}
    /\ faults < MaxFaults
    /\ faults' = faults + 1
    /\ CASE worker[w].pc = "claim" -> Goto(w, "poll")
         [] worker[w].pc \in {"start", "complete"} -> worker' = [worker EXCEPT ![w].pc = "fail"]
         [] worker[w].pc \in {"succeed", "fail"} -> Goto(w, "claim")
    /\ UNCHANGED <<storeVars, instanceVars, crashes, stops, rejects>>

----------------------------------------------------------------------------

\* Time passes up to the bound, and as long as a queued job waits for it.
ClockTick ==
    /\ \/ now < MaxIdleTime
       \/ \E j \in JobIDs : jobs[j].status = "QUEUED" /\ jobs[j].availableAt > now
    /\ Tick
    /\ UNCHANGED <<instanceVars, worker, budgetVars>>

WorkerStep(w) == \/ Return(w) \/ ClaimJob(w) \/ ClaimNothing(w) \/ PollElapsed(w)
                 \/ StartStep(w) \/ CompleteStep(w) \/ SucceedRun(w) \/ FailRun(w)
                 \/ \E ok \in BOOLEAN : Execute(w, ok)

InstanceStep(i) == Start(i) \/ WatcherReturn(i) \/ FirstResult(i) \/ Join(i)

Environment == \/ \E i \in Instances : \/ Stop(i) \/ WatcherFails(i) \/ Crash(i)
                                       \/ \E k \in Keys, m \in RetryLimits : Discover(i, k, m)
               \/ \E w \in Workers : Reject(w) \/ StoreFault(w)

PoolNext == \/ \E i \in Instances : InstanceStep(i)
            \/ \E w \in Workers : WorkerStep(w)
            \/ ClockTick
            \/ Environment

PoolSpec == PoolInit /\ [][PoolNext]_vars

\* Goroutines are scheduled, time passes, commands end (by themselves, by their
\* timeout or killed), and an instance that is down is started again. What the
\* environment may do it need not do.
Fairness == /\ \A w \in Workers : WF_vars(WorkerStep(w))
            /\ \A i \in Instances : WF_vars(InstanceStep(i))
            /\ WF_vars(ClockTick)

FairPoolSpec == PoolSpec /\ Fairness

----------------------------------------------------------------------------
(* Safety, whoever shares the database.                                     *)

Holds(w) == worker[w].pc \in {"start", "execute", "complete", "succeed", "fail"}

\* Of two workers on the same job, at most one holds an attempt the store still
\* accepts: a recovery by another process fences the earlier worker off.
OneLiveAttempt ==
    \A v, w \in Workers :
        (/\ v # w /\ Holds(v) /\ Holds(w)
         /\ runs[worker[v].run].job = runs[worker[w].run].job) =>
            \/ runs[worker[v].run].status # "RUNNING"
            \/ runs[worker[w].run].status # "RUNNING"

\* A command is RUNNING only under a RUNNING run. The store alone does not say
\* so (Succeed closes no command); the workers complete or fail every command
\* they started before they end the run.
OpenCommandsHaveOpenRuns ==
    \A c \in CommandIDs : commands[c].status = "RUNNING" =>
                            runs[commands[c].run].status = "RUNNING"

RanStep(r, s) == \E c \in CommandIDs : /\ commands[c].run = r
                                       /\ commands[c].sequence = s
                                       /\ commands[c].status = "SUCCEEDED"

\* A step starts only after all earlier steps of the same attempt succeeded, and
\* a run is SUCCEEDED only if its whole pipeline did: a worker whose attempt was
\* taken away by another process's recovery cannot complete it.
PipelineInOrder ==
    /\ \A c \in CommandIDs : \A s \in 1..(commands[c].sequence - 1) :
          RanStep(commands[c].run, s)
    /\ \A r \in RunIDs : runs[r].status = "SUCCEEDED" =>
          \A s \in 1..PipelineLen : RanStep(r, s)

----------------------------------------------------------------------------
(* Safety when one instance owns the database.                              *)

\* A worker's attempt is still open when it makes its next call, so no call is
\* refused with ErrInvalidTransition and no job is executed by two workers.
HeldRunsAreOpen ==
    \A w \in Workers : Holds(w) =>
        /\ Open(runs[worker[w].run].job, worker[w].run)
        /\ worker[w].pc = "start" => CanStartCommand(worker[w].run, worker[w].step)
        /\ worker[w].pc \in {"execute", "complete"} => CanCompleteCommand(worker[w].command)

Abandoned == {j \in JobIDs : /\ jobs[j].status = "RUNNING"
                             /\ \A w \in Workers : Holds(w) => runs[worker[w].run].job # j}

\* While an instance is up, a job is RUNNING with no worker on it only if that
\* many store calls failed (a Succeed or Fail that could not be persisted): a
\* graceful stop, a retry or a recovery never strands a job.
AbandonedOnlyByFaults ==
    (\E i \in Instances : up[i]) => Cardinality(Abandoned) <= faults

\* Recovery ignores max_retries, so crashes and failed persistence add attempts,
\* one each, and nothing else does.
AttemptBudget ==
    \A j \in JobIDs : jobs[j].attempts <= jobs[j].maxRetries + 1 + crashes + faults

\* The rows are well formed through every fault, and attempts stay within their budget.
PoolInv == PoolTypeOK /\ AttemptBudget

----------------------------------------------------------------------------
(* Liveness.                                                                *)

Ended(k) == \E j \in JobIDs : jobs[j].key = k /\ jobs[j].status \in {"SUCCEEDED", "FAILED"}

\* Every recorded job ends, or is stranded by a store fault until the next start.
EveryJobEnds ==
    \A k \in Keys : Recorded(k) ~> (Ended(k) \/ \E j \in Abandoned : jobs[j].key = k /\ faults > 0)

\* A cancelled instance comes down: its workers and its watcher all return.
StopCompletes == \A i \in Instances : cancelled[i] ~> ~up[i]

----------------------------------------------------------------------------
(* What README.md, "delivery and recovery", says of every job.              *)

\* Execution is at least once: a job does not end FAILED without one command of
\* it ever having been started.
AtLeastOnce ==
    \A j \in JobIDs : jobs[j].status = "FAILED" =>
        \E c \in CommandIDs : runs[commands[c].run].job = j

=============================================================================

-------------------------- MODULE WorkerPoolProofs --------------------------
(***************************************************************************)
(* What the workers of internal/worker do to the queue, for every number   *)
(* of workers, jobs and instances, however the workers are spread over     *)
(* instances, and every bound on faults, stops and crashes. What needs one *)
(* instance to own the database assumes SoleInstance.                      *)
(***************************************************************************)
EXTENDS WorkerPool, QueueStoreProofs, FiniteSetTheorems

----------------------------------------------------------------------------
(* The inductive invariant, whoever shares the database.                    *)

Executing(w) == worker[w].pc \in {"execute", "complete"}

\* The steps a worker is past have succeeded.
PastStepsRan(w) == \A t \in 1..(worker[w].step - 1) : RanStep(worker[w].run, t)

\* The commands of a held run: none beyond the step, none at it before it is
\* started, and only the one being executed is open unless the attempt failed.
CommandsOfHolder(w) ==
    \A c \in CommandIDs : commands[c].run = worker[w].run =>
        /\ commands[c].sequence <= worker[w].step
        /\ worker[w].pc = "start" => commands[c].sequence # worker[w].step
        /\ commands[c].status = "RUNNING" =>
              worker[w].pc = "fail" \/ (Executing(w) /\ c = worker[w].command)

\* processJob's locals describe the rows of the run the worker claimed.
HolderInv(w) ==
    Holds(w) => /\ worker[w].run \in RunIDs
                /\ worker[w].step \in 1..PipelineLen
                /\ PastStepsRan(w)
                /\ CommandsOfHolder(w)
                /\ Executing(w) => /\ worker[w].command \in CommandIDs
                                   /\ commands[worker[w].command].run = worker[w].run
                                   /\ commands[worker[w].command].sequence = worker[w].step
                /\ worker[w].pc = "succeed" => /\ worker[w].step = PipelineLen
                                               /\ RanStep(worker[w].run, PipelineLen)

\* A run is held by the worker that claimed it and by no other.
RunsAreNotShared ==
    \A v, w \in Workers : (v # w /\ Holds(v) /\ Holds(w)) => worker[v].run # worker[w].run

HistoryInv == /\ \A w \in Workers : HolderInv(w)
              /\ RunsAreNotShared
              /\ PipelineInOrder
              /\ OpenCommandsHaveOpenRuns

PoolIInv == PoolTypeOK /\ StoreInv /\ HistoryInv

----------------------------------------------------------------------------
(* What every transaction leaves of the history.                            *)

\* Rows stay, a command keeps its run and its sequence, is not reopened, and
\* stays SUCCEEDED.
RowsKept ==
    /\ RunIDs \subseteq RunIDs'
    /\ CommandIDs \subseteq CommandIDs'
    /\ \A c \in CommandIDs :
          /\ commands'[c].run = commands[c].run
          /\ commands'[c].sequence = commands[c].sequence
          /\ commands'[c].status = "RUNNING" => commands[c].status = "RUNNING"
          /\ commands[c].status = "SUCCEEDED" => commands'[c].status = "SUCCEEDED"

\* A step that ran has run for ever.
LEMMA RanStepKept ==
    ASSUME RowsKept, NEW r, NEW s, RanStep(r, s)
    PROVE  RanStep(r, s)'
BY DEF RowsKept, RanStep

\* A holder that does not move keeps its facts while no command of its run is added.
LEMMA HolderKept ==
    ASSUME RowsKept, NEW w \in Workers, HolderInv(w),
           worker'[w] = worker[w],
           Holds(w) => \A c \in CommandIDs' : commands'[c].run = worker[w].run => c \in CommandIDs
    PROVE  HolderInv(w)'
<1> SUFFICES ASSUME Holds(w)
             PROVE  HolderInv(w)'
  BY DEF HolderInv, Holds
<1>1. PastStepsRan(w)'
  BY RanStepKept DEF HolderInv, PastStepsRan, RanStep, RowsKept
<1>2. CommandsOfHolder(w)'
  BY DEF HolderInv, CommandsOfHolder, Executing, RowsKept
<1>3. worker[w].pc = "succeed" => RanStep(worker[w].run, PipelineLen)'
  BY RanStepKept DEF HolderInv, RanStep, RowsKept
<1> QED
  BY <1>1, <1>2, <1>3 DEF HolderInv, RowsKept, Executing, RanStep

\* The recorded pipelines stay in order while neither a command is added nor a run
\* becomes SUCCEEDED.
LEMMA PipelineKept ==
    ASSUME RowsKept, PipelineInOrder, CommandIDs' = CommandIDs,
           \A r \in RunIDs' : runs'[r].status = "SUCCEEDED" =>
               r \in RunIDs /\ runs[r].status = "SUCCEEDED"
    PROVE  PipelineInOrder'
BY RanStepKept DEF PipelineInOrder, RowsKept, RanStep

\* Closing commands rewrites the status of open rows only.
LEMMA CloseCommandsKeepsRows ==
    ASSUME StoreTypeOK, NEW S, CloseCommands(S), RunIDs \subseteq RunIDs'
    PROVE  RowsKept /\ CommandIDs' = CommandIDs
<1>1. CommandIDs' = CommandIDs
  BY CloseCommandsFacts
<1>2. ASSUME NEW c \in CommandIDs
      PROVE  /\ commands'[c].run = commands[c].run
             /\ commands'[c].sequence = commands[c].sequence
             /\ commands'[c].status = "RUNNING" => commands[c].status = "RUNNING"
             /\ commands[c].status = "SUCCEEDED" => commands'[c].status = "SUCCEEDED"
  <2>1. commands'[c] = IF commands[c].run \in S /\ commands[c].status = "RUNNING"
                       THEN WithStatus(commands[c], "FAILED") ELSE commands[c]
    BY <1>2 DEF CloseCommands, CommandIDs
  <2>2. commands[c] \in Command
    BY <1>2, RowTypes
  <2> QED
    BY <2>1, <2>2 DEF WithStatus, Command
<1> QED
  BY <1>1, <1>2 DEF RowsKept

\* Workers that keep their runs, or let go of them, share none.
LEMMA SharingKept ==
    ASSUME RunsAreNotShared,
           \A v \in Workers : /\ worker'[v].run = worker[v].run
                              /\ Holds(v)' => Holds(v)
    PROVE  RunsAreNotShared'
<1> SUFFICES ASSUME NEW v \in Workers, NEW w \in Workers, v # w, Holds(v)', Holds(w)'
             PROVE  worker'[v].run # worker'[w].run
  BY DEF RunsAreNotShared
<1>1. Holds(v) /\ Holds(w)
  OBVIOUS
<1> QED
  BY <1>1 DEF RunsAreNotShared

----------------------------------------------------------------------------
(* Types.                                                                   *)

\* The variables of the pool, the tables apart.
PoolTypeRest == /\ up \in [Instances -> BOOLEAN]
                /\ cancelled \in [Instances -> BOOLEAN]
                /\ watching \in [Instances -> BOOLEAN]
                /\ worker \in [Workers -> WorkerState]
                /\ crashes \in 0..MaxCrashes
                /\ stops \in 0..MaxStops
                /\ faults \in 0..MaxFaults
                /\ rejects \in 0..MaxRejects

\* A worker that holds nothing is well formed.
LEMMA AtIsState == ASSUME NEW pc \in PCs PROVE At(pc) \in WorkerState
BY DEF At, WorkerState

\* The fields of a worker.
LEMMA WorkerRow ==
    ASSUME PoolTypeRest, NEW w \in Workers
    PROVE  /\ worker[w] \in WorkerState
           /\ worker[w].pc \in PCs /\ worker[w].run \in Nat /\ worker[w].step \in Nat
           /\ worker[w].command \in Nat /\ worker[w].ok \in BOOLEAN
BY DEF PoolTypeRest, WorkerState

\* The pool's variables keep their types.
LEMMA StepKeepsTypes ==
    ASSUME PoolTypeRest, StoreTypeOK, PoolNext
    PROVE  PoolTypeRest'
<1> USE PoolAssumption
<1>0. {"claim", "poll", "returned", "start", "fail", "execute", "complete", "succeed"} \subseteq PCs
  BY DEF PCs
<1>1. Len(runs) + 1 \in Nat /\ Len(commands) + 1 \in Nat
  BY LenProperties DEF StoreTypeOK
<1>2. \A w \in Workers : /\ worker[w] \in WorkerState
                         /\ worker[w].pc \in PCs /\ worker[w].run \in Nat
                         /\ worker[w].step \in Nat
                         /\ worker[w].command \in Nat /\ worker[w].ok \in BOOLEAN
  BY WorkerRow
<1>3. ASSUME NEW w \in Workers, NEW pc \in PCs, Goto(w, pc)
      PROVE  worker' \in [Workers -> WorkerState]
  BY <1>3, AtIsState DEF Goto, PoolTypeRest
<1>4. ASSUME NEW w \in Workers, worker' = [worker EXCEPT ![w].pc = "fail"]
      PROVE  worker' \in [Workers -> WorkerState]
  BY <1>0, <1>4 DEF PoolTypeRest, WorkerState
<1>5. ASSUME NEW i \in Instances, InstanceStep(i)
      PROVE  PoolTypeRest'
  <2>1. CASE Start(i)
    BY <1>0, <2>1, AtIsState DEF Start, PoolTypeRest, budgetVars
  <2> QED
    BY <1>5, <2>1 DEF InstanceStep, WatcherReturn, FirstResult, Join, PoolTypeRest, budgetVars
<1>6. ASSUME NEW i \in Instances, Stop(i) \/ WatcherFails(i) \/ Crash(i)
                                  \/ \E k \in Keys, m \in RetryLimits : Discover(i, k, m)
      PROVE  PoolTypeRest'
  <2>1. CASE Stop(i)
    BY <2>1 DEF Stop, PoolTypeRest
  <2>2. CASE WatcherFails(i)
    BY <2>2 DEF WatcherFails, PoolTypeRest
  <2>3. CASE Crash(i)
    BY <1>0, <2>3, AtIsState DEF Crash, PoolTypeRest
  <2> QED
    BY <1>6, <2>1, <2>2, <2>3 DEF Discover, PoolTypeRest, instanceVars, budgetVars
<1>7. ASSUME NEW w \in Workers, Reject(w) \/ StoreFault(w)
      PROVE  PoolTypeRest'
  <2>1. CASE Reject(w)
    <3>1. worker' \in [Workers -> WorkerState]
      BY <1>4, <2>1 DEF Reject
    <3> QED
      BY <2>1, <3>1 DEF Reject, PoolTypeRest, instanceVars
  <2>2. CASE StoreFault(w)
    <3>1. worker' \in [Workers -> WorkerState]
      BY <1>0, <1>3, <1>4, <2>2 DEF StoreFault
    <3> QED
      BY <2>2, <3>1 DEF StoreFault, PoolTypeRest, instanceVars
  <2> QED
    BY <1>7, <2>1, <2>2
<1>8. ASSUME NEW w \in Workers, WorkerStep(w)
      PROVE  PoolTypeRest'
  <2>1. UNCHANGED <<instanceVars, budgetVars>>
    BY <1>8 DEF WorkerStep, Return, ClaimJob, ClaimNothing, PollElapsed, StartStep, CompleteStep,
                SucceedRun, FailRun, EndRun, Execute
  <2>2. CASE Return(w) \/ ClaimNothing(w) \/ PollElapsed(w) \/ SucceedRun(w) \/ FailRun(w)
    <3>1. Goto(w, "returned") \/ Goto(w, "poll") \/ Goto(w, "claim")
      BY <2>2 DEF Return, ClaimNothing, PollElapsed, SucceedRun, FailRun, EndRun
    <3> QED
      BY <1>0, <1>3, <2>1, <3>1 DEF PoolTypeRest, instanceVars, budgetVars
  <2>3. CASE ClaimJob(w)
    <3>1. [At("start") EXCEPT !.run = Len(runs) + 1, !.step = 1] \in WorkerState
      BY <1>0, <1>1 DEF At, WorkerState
    <3> QED
      BY <2>1, <2>3, <3>1 DEF ClaimJob, PoolTypeRest, instanceVars, budgetVars
  <2>4. CASE StartStep(w)
    <3>1. worker' \in [Workers -> WorkerState]
      <4>1. CASE worker' = [worker EXCEPT ![w].pc = "execute", ![w].command = Len(commands) + 1]
        BY <1>0, <1>1, <4>1 DEF PoolTypeRest, WorkerState
      <4> QED
        BY <1>4, <2>4, <4>1 DEF StartStep
    <3> QED
      BY <2>1, <3>1 DEF PoolTypeRest, instanceVars, budgetVars
  <2>5. CASE CompleteStep(w)
    <3>1. AfterStep(w) \in WorkerState /\ [worker[w] EXCEPT !.pc = "fail"] \in WorkerState
      <4>1. worker[w] \in WorkerState /\ worker[w].step + 1 \in Nat
        BY <1>2
      <4> QED
        BY <1>0, <4>1 DEF AfterStep, WorkerState
    <3>2. worker' \in [Workers -> WorkerState]
      BY <1>4, <2>5, <3>1 DEF CompleteStep, PoolTypeRest
    <3> QED
      BY <2>1, <3>2 DEF PoolTypeRest, instanceVars, budgetVars
  <2>6. ASSUME NEW ok \in BOOLEAN, Execute(w, ok)
        PROVE  PoolTypeRest'
    <3>1. worker' \in [Workers -> WorkerState]
      BY <1>0, <2>6 DEF Execute, PoolTypeRest, WorkerState
    <3> QED
      BY <2>1, <3>1 DEF PoolTypeRest, instanceVars, budgetVars
  <2> QED
    BY <1>8, <2>2, <2>3, <2>4, <2>5, <2>6 DEF WorkerStep
<1>9. CASE ClockTick
  BY <1>9 DEF ClockTick, PoolTypeRest, instanceVars, budgetVars
<1> QED
  BY <1>5, <1>6, <1>7, <1>8, <1>9 DEF PoolNext, Environment

----------------------------------------------------------------------------
(* The history is kept by steps that write nothing.                         *)

\* What a worker does between two transactions: nothing, let go of its run, give
\* the attempt up, or finish executing.
MovesOnly(w) ==
    \/ worker'[w] = worker[w]
    \/ worker'[w].pc \in {"claim", "poll", "returned"}
    \/ /\ Holds(w)
       /\ worker'[w].run = worker[w].run /\ worker'[w].step = worker[w].step
       /\ worker'[w].command = worker[w].command
       /\ \/ worker'[w].pc = "fail"
          \/ worker[w].pc = "execute" /\ worker'[w].pc = "complete"

\* Nothing that is written in no table changes what the tables say of a holder.
LEMMA MovesKeepHistory ==
    ASSUME HistoryInv, UNCHANGED <<runs, commands>>,
           \A w \in Workers : MovesOnly(w)
    PROVE  HistoryInv'
<1>1. \A r, s : RanStep(r, s)' <=> RanStep(r, s)
  BY DEF RanStep, CommandIDs
<1>2. PipelineInOrder' /\ OpenCommandsHaveOpenRuns'
  BY DEF HistoryInv, PipelineInOrder, OpenCommandsHaveOpenRuns, RanStep, CommandIDs, RunIDs
<1>3. RunsAreNotShared'
  BY DEF HistoryInv, RunsAreNotShared, MovesOnly, Holds
<1>4. ASSUME NEW w \in Workers
      PROVE  HolderInv(w)'
  <2>1. HolderInv(w) /\ MovesOnly(w)
    BY DEF HistoryInv
  <2>2. CASE worker'[w] = worker[w]
    <3>1. RowsKept
      BY DEF RowsKept, RunIDs, CommandIDs
    <3> QED
      BY <2>1, <2>2, <3>1, HolderKept DEF CommandIDs
  <2>3. CASE worker'[w].pc \in {"claim", "poll", "returned"}
    BY <2>3 DEF HolderInv, Holds
  <2>4. CASE /\ Holds(w)
             /\ worker'[w].run = worker[w].run /\ worker'[w].step = worker[w].step
             /\ worker'[w].command = worker[w].command
             /\ \/ worker'[w].pc = "fail"
                \/ worker[w].pc = "execute" /\ worker'[w].pc = "complete"
    <3>1. PastStepsRan(w)'
      BY <2>1, <2>4 DEF HolderInv, PastStepsRan, RanStep, CommandIDs
    <3>2. CommandsOfHolder(w)'
      BY <2>1, <2>4 DEF HolderInv, CommandsOfHolder, Executing, CommandIDs
    <3> QED
      BY <2>1, <2>4, <3>1, <3>2 DEF HolderInv, Executing, RunIDs, CommandIDs
  <2> QED
    BY <2>1, <2>2, <2>3, <2>4 DEF MovesOnly
<1> QED
  BY <1>2, <1>3, <1>4 DEF HistoryInv

----------------------------------------------------------------------------
(* The history is kept by every transaction.                                *)

\* Recovery at the start of an instance closes every open row, whoever holds it.
LEMMA StartKeepsHistory ==
    ASSUME StoreTypeOK, PoolTypeRest, HistoryInv, NEW i \in Instances, Start(i)
    PROVE  HistoryInv'
<1>1. /\ RecoverRunning /\ CloseCommands(Nat)
      /\ \A w \in Workers : worker'[w] = worker[w] \/ worker'[w].pc = "claim"
  BY DEF Start, RecoverRunning, At
<1>2. RunIDs' = RunIDs /\ \A r \in RunIDs : runs'[r].status = "SUCCEEDED" => runs[r].status = "SUCCEEDED"
  <2>1. \A r \in RunIDs : WithStatus(runs[r], "FAILED").status = "FAILED"
    BY RowTypes, RunRow DEF RunStatuses
  <2> QED
    BY <1>1, <2>1 DEF RecoverRunning, RunIDs
<1>3. RowsKept /\ CommandIDs' = CommandIDs
  BY <1>1, <1>2, CloseCommandsKeepsRows
<1>4. \A c \in CommandIDs : commands'[c].status # "RUNNING"
  BY <1>1, CloseCommandsFacts, RowTypes
<1>5. PipelineInOrder'
  BY <1>2, <1>3, PipelineKept DEF HistoryInv
<1>6. OpenCommandsHaveOpenRuns'
  BY <1>3, <1>4 DEF OpenCommandsHaveOpenRuns
<1>7. RunsAreNotShared'
  BY <1>1 DEF HistoryInv, RunsAreNotShared, Holds
<1>8. ASSUME NEW w \in Workers
      PROVE  HolderInv(w)'
  <2>1. CASE worker'[w] = worker[w]
    BY <1>3, <2>1, HolderKept DEF HistoryInv
  <2>2. CASE worker'[w].pc = "claim"
    BY <2>2 DEF HolderInv, Holds
  <2> QED
    BY <1>1, <2>1, <2>2
<1> QED
  BY <1>5, <1>6, <1>7, <1>8 DEF HistoryInv

\* A claimed run is new: nobody holds it and it has no commands.
LEMMA ClaimKeepsHistory ==
    ASSUME StoreInv, PoolTypeRest, HistoryInv, NEW w \in Workers, ClaimJob(w)
    PROVE  HistoryInv'
<1> DEFINE new == Len(runs) + 1
<1>1. StoreTypeOK /\ runs \in Seq(Run) /\ UNCHANGED commands
  BY DEF StoreInv, StoreTypeOK, ClaimJob, Claim
<1>2. /\ worker'[w].pc = "start" /\ worker'[w].run = new /\ worker'[w].step = 1
      /\ \A v \in Workers : v # w => worker'[v] = worker[v]
  BY DEF ClaimJob, At, PoolTypeRest
<1>3. /\ RunIDs' = RunIDs \cup {new} /\ new \notin RunIDs
      /\ \A r \in RunIDs : runs'[r] = runs[r]
      /\ runs'[new].status = "RUNNING"
  <2>1. PICK j \in Due : runs' = Append(runs, [job |-> j, attempt |-> jobs[j].attempts + 1,
                                               status |-> "RUNNING"])
    BY DEF ClaimJob, Claim
  <2>2. [job |-> j, attempt |-> jobs[j].attempts + 1, status |-> "RUNNING"] \in Run
    BY <1>1, RowTypes DEF Run, RunStatuses, Due
  <2> QED
    BY <1>1, <2>1, <2>2, AppendRow DEF RunIDs
<1> HIDE DEF new
<1>4. RowsKept /\ CommandIDs' = CommandIDs
  BY <1>1, <1>3 DEF RowsKept, CommandIDs
<1>5. \A c \in CommandIDs : commands[c].run # new
  BY <1>3 DEF StoreInv, FailedRunsAreClosed
<1>6. PipelineInOrder'
  BY <1>3, <1>4, PipelineKept DEF HistoryInv
<1>7. OpenCommandsHaveOpenRuns'
  BY <1>1, <1>3, <1>4 DEF HistoryInv, OpenCommandsHaveOpenRuns, StoreInv, FailedRunsAreClosed
<1>8. RunsAreNotShared'
  <2>1. \A v \in Workers : Holds(v) => worker[v].run # new
    BY <1>3 DEF HistoryInv, HolderInv
  <2> QED
    BY <1>2, <2>1 DEF HistoryInv, RunsAreNotShared, Holds
<1>9. ASSUME NEW v \in Workers, v # w
      PROVE  HolderInv(v)'
  BY <1>2, <1>4, <1>9, HolderKept DEF HistoryInv
<1>10. HolderInv(w)'
  <2>1. PastStepsRan(w)'
    BY <1>2 DEF PastStepsRan
  <2>2. CommandsOfHolder(w)'
    BY <1>1, <1>2, <1>4, <1>5 DEF CommandsOfHolder
  <2> QED
    BY <1>2, <1>3, <2>1, <2>2, StoreAssumption DEF HolderInv, Executing
<1> QED
  BY <1>6, <1>7, <1>8, <1>9, <1>10 DEF HistoryInv

\* A started command is the next of its pipeline, and its holder's alone.
LEMMA StartStepKeepsHistory ==
    ASSUME StoreInv, PoolTypeRest, HistoryInv, NEW w \in Workers, worker[w].pc = "start",
           StartCommand(worker[w].run, worker[w].step),
           worker' = [worker EXCEPT ![w].pc = "execute", ![w].command = Len(commands) + 1]
    PROVE  HistoryInv'
<1>0. PICK r, s, new : r = worker[w].run /\ s = worker[w].step /\ new = Len(commands) + 1
  OBVIOUS
<1>1. /\ StoreTypeOK /\ commands \in Seq(Command) /\ UNCHANGED runs
      /\ runs[r].status = "RUNNING"
  BY <1>0 DEF StoreInv, StoreTypeOK, StartCommand, CanStartCommand
<1>2. Holds(w) /\ HolderInv(w) /\ r \in RunIDs /\ s \in 1..PipelineLen /\ PastStepsRan(w)
  BY <1>0 DEF HistoryInv, HolderInv, Holds
<1>3. /\ worker'[w].pc = "execute" /\ worker'[w].run = r /\ worker'[w].step = s
      /\ worker'[w].command = new
      /\ \A v \in Workers : v # w => worker'[v] = worker[v]
  BY <1>0, WorkerRow DEF PoolTypeRest, WorkerState
<1>4. /\ CommandIDs' = CommandIDs \cup {new} /\ new \notin CommandIDs
      /\ \A c \in CommandIDs : commands'[c] = commands[c]
      /\ commands'[new].run = r /\ commands'[new].sequence = s /\ commands'[new].status = "RUNNING"
  <2>1. [run |-> r, sequence |-> s, status |-> "RUNNING"] \in Command
    BY <1>0, WorkerRow DEF Command, RunStatuses
  <2> QED
    BY <1>0, <1>1, <2>1, AppendRow DEF CommandIDs, StartCommand
<1>5. RowsKept
  BY <1>1, <1>4 DEF RowsKept, RunIDs
<1>6. \A t \in 1..(s - 1) : RanStep(r, t)'
  BY <1>0, <1>2, <1>5, RanStepKept DEF PastStepsRan
<1>7. PipelineInOrder'
  <2>1. ASSUME NEW c \in CommandIDs', NEW t \in 1..(commands'[c].sequence - 1)
        PROVE  RanStep(commands[c].run, t)'
    <3>1. CASE c = new
      BY <1>4, <1>6, <2>1, <3>1 DEF RanStep
    <3>2. CASE c \in CommandIDs
      <4>1. RanStep(commands[c].run, t)
        BY <1>4, <2>1, <3>2 DEF HistoryInv, PipelineInOrder
      <4> QED
        BY <1>4, <1>5, <3>2, <4>1 DEF RanStep, RowsKept
    <3> QED
      BY <1>4, <3>1, <3>2
  <2>2. ASSUME NEW q \in RunIDs', runs'[q].status = "SUCCEEDED", NEW t \in 1..PipelineLen
        PROVE  RanStep(q, t)'
    <3>1. RanStep(q, t)
      BY <1>1, <2>2 DEF HistoryInv, PipelineInOrder, RunIDs
    <3> QED
      BY <1>5, <3>1, RanStepKept
  <2> QED
    BY <2>1, <2>2 DEF PipelineInOrder, RanStep
<1>8. OpenCommandsHaveOpenRuns'
  BY <1>1, <1>4 DEF HistoryInv, OpenCommandsHaveOpenRuns
<1>9. RunsAreNotShared'
  <2>1. \A v \in Workers : worker'[v].run = worker[v].run /\ (Holds(v)' => Holds(v))
    BY <1>0, <1>2, <1>3 DEF Holds
  <2> QED
    BY <2>1, SharingKept DEF HistoryInv
<1>10. ASSUME NEW v \in Workers, v # w
       PROVE  HolderInv(v)'
  <2>1. Holds(v) => worker[v].run # r
    BY <1>0, <1>2, <1>10 DEF HistoryInv, RunsAreNotShared
  <2> QED
    BY <1>3, <1>4, <1>5, <1>10, <2>1, HolderKept DEF HistoryInv
<1>11. HolderInv(w)'
  <2>1. PastStepsRan(w)'
    BY <1>3, <1>6 DEF PastStepsRan, RanStep
  <2>2. \A c \in CommandIDs : commands[c].run = r => /\ commands[c].sequence <= s
                                                     /\ commands[c].status # "RUNNING"
    BY <1>0, <1>2 DEF HolderInv, CommandsOfHolder, Executing
  <2>3. s <= s
    BY <1>2, StoreAssumption
  <2>4. CommandsOfHolder(w)'
    BY <1>3, <1>4, <2>2, <2>3 DEF CommandsOfHolder, Executing
  <2> QED
    BY <1>1, <1>2, <1>3, <1>4, <2>1, <2>4 DEF HolderInv, Executing, RunIDs
<1> QED
  BY <1>7, <1>8, <1>9, <1>10, <1>11 DEF HistoryInv

\* A completed command is its holder's, which moves on only if it SUCCEEDED.
LEMMA CompleteStepKeepsHistory ==
    ASSUME StoreInv, PoolTypeRest, HistoryInv, NEW w \in Workers, worker[w].pc = "complete",
           CompleteCommand(worker[w].command, IF worker[w].ok THEN "SUCCEEDED" ELSE "FAILED"),
           worker' = [worker EXCEPT ![w] = IF worker[w].ok
                                           THEN AfterStep(w)
                                           ELSE [@ EXCEPT !.pc = "fail"]]
    PROVE  HistoryInv'
<1>0. PICK r, s, d, st : /\ r = worker[w].run /\ s = worker[w].step /\ d = worker[w].command
                         /\ st = IF worker[w].ok THEN "SUCCEEDED" ELSE "FAILED"
  OBVIOUS
<1>1. /\ StoreTypeOK /\ commands \in Seq(Command) /\ UNCHANGED runs
      /\ d \in CommandIDs /\ commands[d].status = "RUNNING"
  BY <1>0 DEF StoreInv, StoreTypeOK, CompleteCommand, CanCompleteCommand
<1>2. /\ Holds(w) /\ HolderInv(w) /\ r \in RunIDs /\ s \in 1..PipelineLen /\ PastStepsRan(w)
      /\ commands[d].run = r /\ commands[d].sequence = s
      /\ \A c \in CommandIDs : commands[c].run = r =>
            commands[c].sequence <= s /\ (commands[c].status = "RUNNING" => c = d)
  BY <1>0 DEF HistoryInv, HolderInv, Holds, Executing, CommandsOfHolder
<1>3. /\ CommandIDs' = CommandIDs
      /\ \A c \in CommandIDs : c # d => commands'[c] = commands[c]
      /\ commands'[d].run = r /\ commands'[d].sequence = s /\ commands'[d].status = st
  <2>1. commands[d] \in Command /\ st \in RunStatuses
    BY <1>0, <1>1, RowTypes DEF RunStatuses
  <2>2. /\ WithStatus(commands[d], st) \in Command
        /\ WithStatus(commands[d], st).status = st
        /\ WithStatus(commands[d], st).run = commands[d].run
        /\ WithStatus(commands[d], st).sequence = commands[d].sequence
    BY <2>1 DEF WithStatus, Command
  <2>3. commands' = [commands EXCEPT ![d] = WithStatus(commands[d], st)]
    BY <1>0 DEF CompleteCommand
  <2> QED
    BY <1>1, <1>2, <2>2, <2>3, UpdateRow DEF CommandIDs
<1>4. /\ \A v \in Workers : v # w => worker'[v] = worker[v]
      /\ worker'[w].run = r
      /\ \/ /\ st = "SUCCEEDED" /\ s < PipelineLen
            /\ worker'[w].pc = "start" /\ worker'[w].step = s + 1
         \/ /\ st = "SUCCEEDED" /\ s = PipelineLen
            /\ worker'[w].pc = "succeed" /\ worker'[w].step = s
         \/ worker'[w].pc = "fail" /\ worker'[w].step = s
  <2>1. worker \in [Workers -> WorkerState] /\ worker[w] \in WorkerState
    BY DEF PoolTypeRest
  <2>2. worker'[w] = IF worker[w].ok THEN AfterStep(w) ELSE [worker[w] EXCEPT !.pc = "fail"]
    BY <2>1
  <2>3. s < PipelineLen \/ s = PipelineLen
    BY <1>2, StoreAssumption
  <2>4. /\ [worker[w] EXCEPT !.pc = "fail"].run = r
        /\ [worker[w] EXCEPT !.pc = "fail"].step = s
        /\ [worker[w] EXCEPT !.pc = "fail"].pc = "fail"
    BY <1>0, <2>1 DEF WorkerState
  <2>5. /\ AfterStep(w).run = r
        /\ s < PipelineLen => AfterStep(w).pc = "start" /\ AfterStep(w).step = s + 1
        /\ s = PipelineLen => AfterStep(w).pc = "succeed" /\ AfterStep(w).step = s
    BY <1>0, <1>2, <2>1, StoreAssumption DEF WorkerState, AfterStep
  <2> QED
    BY <1>0, <2>1, <2>2, <2>3, <2>4, <2>5
<1>5. RowsKept
  BY <1>0, <1>1, <1>2, <1>3 DEF RowsKept, RunIDs
<1>6. PipelineInOrder'
  BY <1>1, <1>3, <1>5, PipelineKept DEF HistoryInv, RunIDs
<1>7. OpenCommandsHaveOpenRuns'
  BY <1>0, <1>1, <1>3 DEF HistoryInv, OpenCommandsHaveOpenRuns
<1>8. RunsAreNotShared'
  <2>1. \A v \in Workers : worker'[v].run = worker[v].run /\ (Holds(v)' => Holds(v))
    BY <1>0, <1>2, <1>4 DEF Holds
  <2> QED
    BY <2>1, SharingKept DEF HistoryInv
<1>9. ASSUME NEW v \in Workers, v # w
      PROVE  HolderInv(v)'
  BY <1>3, <1>4, <1>5, <1>9, HolderKept DEF HistoryInv
<1>10. HolderInv(w)'
  <2>1. \A t \in 1..(s - 1) : RanStep(r, t)'
    BY <1>0, <1>2, <1>5, RanStepKept DEF PastStepsRan
  <2>2. st = "SUCCEEDED" => RanStep(r, s)'
    BY <1>1, <1>3 DEF RanStep
  <2>3. \A c \in CommandIDs' : commands'[c].run = r =>
           commands'[c].sequence <= s /\ commands'[c].status # "RUNNING"
    BY <1>0, <1>2, <1>3, <1>5 DEF RowsKept
  <2>4. s \in Nat /\ s >= 1 /\ s <= PipelineLen /\ PipelineLen \in Nat
    BY <1>2, StoreAssumption
  <2>5. RunIDs' = RunIDs
    BY <1>1 DEF RunIDs
  <2>6. \A c \in CommandIDs' : commands'[c].run = r => commands'[c].sequence \in Nat
    BY <1>3, <1>5, RowTypes, <1>1 DEF Command, RowsKept
  <2>7. CASE /\ st = "SUCCEEDED" /\ s < PipelineLen
             /\ worker'[w].pc = "start" /\ worker'[w].step = s + 1
    <3>1. s + 1 \in 1..PipelineLen /\ (s + 1) - 1 = s
      BY <2>4, <2>7
    <3>2. \A t \in 1..s : t = s \/ t \in 1..(s - 1)
      BY <2>4
    <3>3. PastStepsRan(w)'
      BY <1>4, <2>1, <2>2, <2>7, <3>1, <3>2 DEF PastStepsRan, RanStep
    <3>4. \A n \in Nat : n <= s => n <= s + 1 /\ n # s + 1
      BY <2>4
    <3>5. CommandsOfHolder(w)'
      BY <1>4, <2>3, <2>6, <2>7, <3>4 DEF CommandsOfHolder
    <3> QED
      BY <1>2, <1>4, <2>5, <2>7, <3>1, <3>3, <3>5 DEF HolderInv, Executing
  <2>8. CASE worker'[w].step = s /\ worker'[w].pc # "start" /\ ~Executing(w)'
    <3>1. PastStepsRan(w)'
      BY <1>4, <2>1, <2>8 DEF PastStepsRan, RanStep
    <3>2. CommandsOfHolder(w)'
      BY <1>4, <2>3, <2>8 DEF CommandsOfHolder
    <3>3. worker'[w].pc = "succeed" => s = PipelineLen /\ RanStep(r, s)'
      BY <1>4, <2>2
    <3> QED
      BY <1>2, <1>4, <2>5, <2>8, <3>1, <3>2, <3>3 DEF HolderInv, Executing, RanStep
  <2> QED
    BY <1>4, <2>7, <2>8 DEF Executing
<1> QED
  BY <1>6, <1>7, <1>8, <1>9, <1>10 DEF HistoryInv

\* A run is SUCCEEDED by the worker that took it through its whole pipeline and
\* left no command open.
LEMMA SucceedKeepsHistory ==
    ASSUME StoreInv, PoolTypeRest, HistoryInv, NEW w \in Workers, worker[w].pc = "succeed",
           Succeed(runs[worker[w].run].job, worker[w].run), Goto(w, "claim")
    PROVE  HistoryInv'
<1>0. PICK r : r = worker[w].run
  OBVIOUS
<1>1. /\ StoreTypeOK /\ runs \in Seq(Run) /\ UNCHANGED commands /\ r \in RunIDs
  BY <1>0 DEF StoreInv, StoreTypeOK, Succeed, Open
<1>2. RunIDs' = RunIDs /\ \A q \in RunIDs : q # r => runs'[q] = runs[q]
  <2>1. WithStatus(runs[r], "SUCCEEDED") \in Run
    BY <1>1, RowTypes, RunRow DEF RunStatuses
  <2> QED
    BY <1>0, <1>1, <2>1, UpdateRow DEF Succeed, RunIDs
<1>3. /\ worker'[w].pc = "claim"
      /\ \A v \in Workers : v # w => worker'[v] = worker[v]
  BY DEF Goto, At, PoolTypeRest
<1>4. RowsKept /\ CommandIDs' = CommandIDs
  BY <1>1, <1>2 DEF RowsKept, CommandIDs
<1>5. Holds(w) /\ HolderInv(w)
  BY DEF HistoryInv, Holds
<1>6. \A t \in 1..PipelineLen : RanStep(r, t)
  <2>1. \A t \in 1..PipelineLen : t = PipelineLen \/ t \in 1..(PipelineLen - 1)
    BY StoreAssumption
  <2> QED
    BY <1>0, <1>5, <2>1 DEF HolderInv, PastStepsRan
<1>7. PipelineInOrder'
  <2>1. \A c \in CommandIDs' : \A t \in 1..(commands[c].sequence - 1) : RanStep(commands[c].run, t)
    BY <1>4 DEF HistoryInv, PipelineInOrder
  <2>2. \A q \in RunIDs : runs'[q].status = "SUCCEEDED" => \A t \in 1..PipelineLen : RanStep(q, t)
    BY <1>2, <1>6 DEF HistoryInv, PipelineInOrder
  <2> QED
    BY <1>1, <1>2, <1>4, <2>1, <2>2 DEF PipelineInOrder, RanStep
<1>8. OpenCommandsHaveOpenRuns'
  <2>1. \A c \in CommandIDs : commands[c].run = r => commands[c].status # "RUNNING"
    BY <1>0, <1>5 DEF HolderInv, CommandsOfHolder, Executing
  <2> QED
    BY <1>1, <1>2, <1>4, <2>1 DEF HistoryInv, OpenCommandsHaveOpenRuns, StoreInv, FailedRunsAreClosed
<1>9. RunsAreNotShared'
  BY <1>3 DEF HistoryInv, RunsAreNotShared, Holds
<1>10. ASSUME NEW v \in Workers
       PROVE  HolderInv(v)'
  <2>1. CASE v = w
    BY <1>3, <2>1 DEF HolderInv, Holds
  <2> QED
    BY <1>3, <1>4, <2>1, HolderKept DEF HistoryInv
<1> QED
  BY <1>7, <1>8, <1>9, <1>10 DEF HistoryInv

\* A failed run closes its own commands and touches no other holder's.
LEMMA FailKeepsHistory ==
    ASSUME StoreInv, PoolTypeRest, HistoryInv, NEW w \in Workers, worker[w].pc = "fail",
           Fail(runs[worker[w].run].job, worker[w].run), Goto(w, "claim")
    PROVE  HistoryInv'
<1>0. PICK r : r = worker[w].run
  OBVIOUS
<1>1. /\ StoreTypeOK /\ runs \in Seq(Run) /\ CloseCommands({r}) /\ r \in RunIDs
  BY <1>0 DEF StoreInv, StoreTypeOK, Fail, Open
<1>2. /\ RunIDs' = RunIDs /\ runs'[r].status = "FAILED"
      /\ \A q \in RunIDs : q # r => runs'[q] = runs[q]
  <2>1. WithStatus(runs[r], "FAILED") \in Run /\ WithStatus(runs[r], "FAILED").status = "FAILED"
    BY <1>1, RowTypes, RunRow DEF RunStatuses
  <2> QED
    BY <1>0, <1>1, <2>1, UpdateRow DEF Fail, RunIDs
<1>3. /\ worker'[w].pc = "claim"
      /\ \A v \in Workers : v # w => worker'[v] = worker[v]
  BY DEF Goto, At, PoolTypeRest
<1>4. RowsKept /\ CommandIDs' = CommandIDs
  BY <1>1, <1>2, CloseCommandsKeepsRows
<1>5. PipelineInOrder'
  BY <1>2, <1>4, PipelineKept DEF HistoryInv
<1>6. OpenCommandsHaveOpenRuns'
  <2>1. \A c \in CommandIDs : /\ commands'[c].run = commands[c].run
                              /\ commands'[c].status = "RUNNING" =>
                                    commands[c].status = "RUNNING" /\ commands[c].run # r
    BY <1>1, CloseCommandsFacts
  <2>2. ASSUME NEW c \in CommandIDs, commands'[c].status = "RUNNING"
        PROVE  runs'[commands'[c].run].status = "RUNNING"
    <3>1. /\ commands'[c].run = commands[c].run /\ commands[c].run # r
          /\ commands[c].status = "RUNNING"
      BY <2>1, <2>2
    <3>2. commands[c].run \in RunIDs /\ runs[commands[c].run].status = "RUNNING"
      BY <3>1 DEF HistoryInv, OpenCommandsHaveOpenRuns, StoreInv, FailedRunsAreClosed
    <3> QED
      BY <1>2, <3>1, <3>2
  <2> QED
    BY <1>4, <2>2 DEF OpenCommandsHaveOpenRuns
<1>7. RunsAreNotShared'
  BY <1>3 DEF HistoryInv, RunsAreNotShared, Holds
<1>8. ASSUME NEW v \in Workers
      PROVE  HolderInv(v)'
  <2>1. CASE v = w
    BY <1>3, <2>1 DEF HolderInv, Holds
  <2> QED
    BY <1>3, <1>4, <2>1, HolderKept DEF HistoryInv
<1> QED
  BY <1>5, <1>6, <1>7, <1>8 DEF HistoryInv

----------------------------------------------------------------------------
(* Every step of the pool keeps the invariant.                              *)

\* The steps that write nothing but the clock.
LEMMA QuietStepKeepsInv ==
    ASSUME StoreInv, HistoryInv, UNCHANGED <<jobs, runs, commands>>, now' \in Nat,
           \A w \in Workers : MovesOnly(w)
    PROVE  StoreInv' /\ HistoryInv'
BY TablesUnchangedKeepInv, MovesKeepHistory

\* A worker that lets go of its run, or gives the attempt up, only moves.
LEMMA GotoMovesOnly ==
    ASSUME PoolTypeRest, NEW w \in Workers, NEW pc \in {"claim", "poll", "returned"}, Goto(w, pc)
    PROVE  \A v \in Workers : MovesOnly(v)
BY DEF Goto, At, MovesOnly, PoolTypeRest

\* A worker that gives up keeps its locals.
LEMMA FailMovesOnly ==
    ASSUME PoolTypeRest, NEW w \in Workers, Holds(w), worker' = [worker EXCEPT ![w].pc = "fail"]
    PROVE  \A v \in Workers : MovesOnly(v)
<1>1. worker'[w] = [worker[w] EXCEPT !.pc = "fail"] /\ worker[w] \in WorkerState
  BY DEF PoolTypeRest
<1>2. /\ worker'[w].run = worker[w].run /\ worker'[w].step = worker[w].step
      /\ worker'[w].command = worker[w].command /\ worker'[w].pc = "fail"
  BY <1>1 DEF WorkerState
<1>3. \A v \in Workers : v # w => worker'[v] = worker[v]
  BY DEF PoolTypeRest
<1> QED
  BY <1>2, <1>3 DEF MovesOnly

\* The instance's own steps and the environment's.
LEMMA InstanceStepKeepsInv ==
    ASSUME PoolTypeRest, StoreInv, HistoryInv, NEW i \in Instances,
           InstanceStep(i) \/ Stop(i) \/ WatcherFails(i) \/ Crash(i)
                           \/ \E k \in Keys, m \in RetryLimits : Discover(i, k, m)
    PROVE  StoreInv' /\ HistoryInv'
<1>1. StoreTypeOK /\ now \in Nat
  BY DEF StoreInv, StoreTypeOK
<1>2. CASE Start(i)
  BY <1>1, <1>2, StartKeepsHistory, RecoverKeepsInv DEF Start
<1>3. ASSUME NEW k \in Keys, NEW m \in RetryLimits, Discover(i, k, m)
      PROVE  StoreInv' /\ HistoryInv'
  <2>1. Enqueue(k, m) /\ UNCHANGED <<runs, commands>> /\ \A w \in Workers : MovesOnly(w)
    BY <1>3 DEF Discover, Enqueue, MovesOnly
  <2> QED
    BY <2>1, EnqueueKeepsInv, MovesKeepHistory
<1>4. CASE Crash(i)
  <2>1. UNCHANGED storeVars /\ \A w \in Workers : MovesOnly(w)
    BY <1>4 DEF Crash, MovesOnly, At
  <2> QED
    BY <1>1, <2>1, QuietStepKeepsInv DEF storeVars
<1>5. CASE Stop(i) \/ WatcherFails(i) \/ WatcherReturn(i) \/ FirstResult(i) \/ Join(i)
  <2>1. UNCHANGED storeVars /\ \A w \in Workers : MovesOnly(w)
    BY <1>5 DEF Stop, WatcherFails, WatcherReturn, FirstResult, Join, MovesOnly
  <2> QED
    BY <1>1, <2>1, QuietStepKeepsInv DEF storeVars
<1> QED
  BY <1>2, <1>3, <1>4, <1>5 DEF InstanceStep

\* A worker's steps, and the faults and refusals it meets.
LEMMA WorkerStepKeepsInv ==
    ASSUME PoolTypeRest, StoreInv, HistoryInv, NEW w \in Workers,
           WorkerStep(w) \/ Reject(w) \/ StoreFault(w)
    PROVE  StoreInv' /\ HistoryInv'
<1>1. StoreTypeOK /\ now \in Nat
  BY DEF StoreInv, StoreTypeOK
<1>2. ASSUME UNCHANGED storeVars, \A v \in Workers : MovesOnly(v)
      PROVE  StoreInv' /\ HistoryInv'
  BY <1>1, <1>2, QuietStepKeepsInv DEF storeVars
<1>3. ASSUME UNCHANGED storeVars, Goto(w, "claim") \/ Goto(w, "poll") \/ Goto(w, "returned")
      PROVE  StoreInv' /\ HistoryInv'
  BY <1>2, <1>3, GotoMovesOnly
<1>4. ASSUME UNCHANGED storeVars, Holds(w), worker' = [worker EXCEPT ![w].pc = "fail"]
      PROVE  StoreInv' /\ HistoryInv'
  BY <1>2, <1>4, FailMovesOnly
<1>5. CASE Return(w) \/ ClaimNothing(w) \/ PollElapsed(w)
  BY <1>3, <1>5 DEF Return, ClaimNothing, PollElapsed
<1>6. CASE ClaimJob(w)
  BY <1>6, ClaimKeepsInv, ClaimKeepsHistory DEF ClaimJob
<1>7. CASE StartStep(w)
  <2>1. CASE /\ StartCommand(worker[w].run, worker[w].step)
             /\ worker' = [worker EXCEPT ![w].pc = "execute", ![w].command = Len(commands) + 1]
    <3>1. worker[w].run \in RunIDs /\ worker[w].step \in 1..PipelineLen /\ worker[w].pc = "start"
      BY <1>7 DEF HistoryInv, HolderInv, Holds, StartStep
    <3> QED
      BY <2>1, <3>1, StartCommandKeepsInv, StartStepKeepsHistory
  <2> QED
    BY <1>4, <1>7, <2>1 DEF StartStep, Holds
<1>8. ASSUME NEW ok \in BOOLEAN, Execute(w, ok)
      PROVE  StoreInv' /\ HistoryInv'
  <2>1. worker[w] \in WorkerState /\ worker[w].pc = "execute"
    BY <1>8, WorkerRow DEF Execute
  <2>2. /\ worker'[w].run = worker[w].run /\ worker'[w].step = worker[w].step
        /\ worker'[w].command = worker[w].command /\ worker'[w].pc = "complete"
    BY <1>8, <2>1 DEF Execute, WorkerState, PoolTypeRest
  <2>3. \A v \in Workers : v # w => worker'[v] = worker[v]
    BY <1>8 DEF Execute, PoolTypeRest
  <2> QED
    BY <1>2, <1>8, <2>1, <2>2, <2>3 DEF Execute, MovesOnly, Holds
<1>9. CASE CompleteStep(w)
  <2>1. CASE /\ CompleteCommand(worker[w].command, IF worker[w].ok THEN "SUCCEEDED" ELSE "FAILED")
             /\ worker' = [worker EXCEPT ![w] = IF worker[w].ok
                                                THEN AfterStep(w)
                                                ELSE [@ EXCEPT !.pc = "fail"]]
    <3>1. worker[w].command \in CommandIDs /\ worker[w].pc = "complete"
      BY <1>9 DEF HistoryInv, HolderInv, Holds, Executing, CompleteStep
    <3> QED
      BY <2>1, <3>1, CompleteCommandKeepsInv, CompleteStepKeepsHistory
  <2> QED
    BY <1>4, <1>9, <2>1 DEF CompleteStep, Holds
<1>10. CASE SucceedRun(w)
  <2>1. worker[w].pc = "succeed" /\ Goto(w, "claim")
    BY <1>10 DEF SucceedRun, EndRun
  <2>2. CASE Succeed(runs[worker[w].run].job, worker[w].run)
    BY <2>1, <2>2, SucceedKeepsInv, SucceedKeepsHistory
  <2> QED
    BY <1>3, <1>10, <2>1, <2>2 DEF SucceedRun, EndRun
<1>11. CASE FailRun(w)
  <2>1. worker[w].pc = "fail" /\ Goto(w, "claim")
    BY <1>11 DEF FailRun, EndRun
  <2>2. CASE Fail(runs[worker[w].run].job, worker[w].run)
    BY <2>1, <2>2, FailKeepsInv, FailKeepsHistory
  <2> QED
    BY <1>3, <1>11, <2>1, <2>2 DEF FailRun, EndRun
<1>12. CASE Reject(w)
  BY <1>4, <1>12 DEF Reject, Holds
<1>13. CASE StoreFault(w)
  BY <1>3, <1>4, <1>13 DEF StoreFault, Holds
<1> QED
  BY <1>5, <1>6, <1>7, <1>8, <1>9, <1>10, <1>11, <1>12, <1>13 DEF WorkerStep

\* PoolIInv is inductive.
LEMMA PoolStepKeepsInv == PoolIInv /\ [PoolNext]_vars => PoolIInv'
<1> SUFFICES ASSUME PoolIInv, [PoolNext]_vars
             PROVE  PoolIInv'
  OBVIOUS
<1>1. PoolTypeRest /\ StoreInv /\ HistoryInv /\ StoreTypeOK /\ now \in Nat
  BY DEF PoolIInv, PoolTypeOK, PoolTypeRest, StoreTypeOK
<1>2. PoolTypeRest'
  <2>1. CASE PoolNext
    BY <1>1, <2>1, StepKeepsTypes
  <2>2. CASE UNCHANGED vars
    BY <1>1, <2>2 DEF PoolTypeRest, vars, instanceVars, budgetVars
  <2> QED
    BY <2>1, <2>2
<1>3. StoreInv' /\ HistoryInv'
  <2>1. CASE ClockTick
    <3>1. UNCHANGED <<jobs, runs, commands>> /\ now' \in Nat /\ \A w \in Workers : MovesOnly(w)
      BY <1>1, <2>1 DEF ClockTick, Tick, MovesOnly
    <3> QED
      BY <1>1, <3>1, QuietStepKeepsInv
  <2>2. CASE UNCHANGED vars
    <3>1. UNCHANGED <<jobs, runs, commands>> /\ now' \in Nat /\ \A w \in Workers : MovesOnly(w)
      BY <1>1, <2>2 DEF vars, storeVars, MovesOnly
    <3> QED
      BY <1>1, <3>1, QuietStepKeepsInv
  <2> QED
    BY <1>1, <2>1, <2>2, InstanceStepKeepsInv, WorkerStepKeepsInv DEF PoolNext, Environment
<1> QED
  BY <1>2, <1>3 DEF PoolIInv, PoolTypeOK, PoolTypeRest, StoreInv

\* Before the first start, the invariant holds.
LEMMA PoolInitEstablishesInv == PoolInit => PoolIInv
<1> SUFFICES ASSUME PoolInit
             PROVE  PoolIInv
  OBVIOUS
<1>1. StoreInv /\ RunIDs = {} /\ CommandIDs = {}
  BY InitEstablishesInv DEF PoolInit, StoreInit, RunIDs, CommandIDs
<1>2. \A w \in Workers : worker[w] \in WorkerState /\ worker[w].pc = "returned"
  BY AtIsState DEF PoolInit, PCs, At
<1>3. PoolTypeOK
  BY <1>1, <1>2, PoolAssumption DEF PoolInit, PoolTypeOK, StoreInv
<1>4. HistoryInv
  BY <1>1, <1>2 DEF HistoryInv, HolderInv, Holds, RunsAreNotShared, PipelineInOrder,
                    OpenCommandsHaveOpenRuns
<1> QED
  BY <1>1, <1>3, <1>4 DEF PoolIInv

----------------------------------------------------------------------------
(* Theorems for any number of instances on one database.                    *)

\* The tables, the workers' locals and the history agree in every state: PoolIInv
\* holds whoever shares the database.
THEOREM PoolConsistent == PoolSpec => []PoolIInv
BY PoolInitEstablishesInv, PoolStepKeepsInv, PTL DEF PoolSpec

\* A step starts only after all earlier steps of its attempt succeeded, and a run
\* is SUCCEEDED only if its whole pipeline did.
THEOREM PoolPipelineInOrder == PoolSpec => []PipelineInOrder
<1>1. PoolIInv => PipelineInOrder
  BY DEF PoolIInv, HistoryInv
<1> QED
  BY <1>1, PoolConsistent, PTL

\* History never shows a command in progress under a run that is over.
THEOREM PoolOpenCommandsHaveOpenRuns == PoolSpec => []OpenCommandsHaveOpenRuns
<1>1. PoolIInv => OpenCommandsHaveOpenRuns
  BY DEF PoolIInv, HistoryInv
<1> QED
  BY <1>1, PoolConsistent, PTL

\* Two workers on the same job are never both on an attempt the store accepts.
\* They hold different runs (RunsAreNotShared), and of a job's runs one is open.
THEOREM PoolOneLiveAttempt == PoolSpec => []OneLiveAttempt
<1>1. PoolIInv => OneLiveAttempt
  <2> SUFFICES ASSUME PoolIInv, NEW v \in Workers, NEW w \in Workers,
                      v # w, Holds(v), Holds(w),
                      runs[worker[v].run].job = runs[worker[w].run].job,
                      runs[worker[v].run].status = "RUNNING",
                      runs[worker[w].run].status = "RUNNING"
               PROVE  FALSE
    BY DEF OneLiveAttempt
  <2>1. /\ worker[v].run \in RunIDs /\ worker[w].run \in RunIDs
        /\ worker[v].run # worker[w].run
    BY DEF PoolIInv, HistoryInv, HolderInv, RunsAreNotShared
  <2>2. runs[worker[v].run].attempt = runs[worker[w].run].attempt
    BY <2>1 DEF PoolIInv, StoreInv, OneOpenRun
  <2> QED
    BY <2>1, <2>2 DEF PoolIInv, StoreInv, AttemptNumbering
<1> QED
  BY <1>1, PoolConsistent, PTL

----------------------------------------------------------------------------
(* The pool is a user of the store: all that is proved of StoreSpec holds   *)
(* of the database under the pool.                                          *)

\* A step of the pool is a call of the store or leaves the tables alone.
LEMMA PoolStepIsStoreStep == PoolIInv /\ [PoolNext]_vars => [StoreNext]_storeVars
<1> SUFFICES ASSUME PoolIInv, PoolNext, ~UNCHANGED storeVars
             PROVE  StoreNext
  BY DEF vars
<1>1. ASSUME NEW i \in Instances, InstanceStep(i)
      PROVE  StoreNext
  BY <1>1 DEF InstanceStep, Start, WatcherReturn, FirstResult, Join, StoreNext
<1>2. ASSUME NEW i \in Instances, Stop(i) \/ WatcherFails(i) \/ Crash(i)
                                  \/ \E k \in Keys, m \in RetryLimits : Discover(i, k, m)
      PROVE  StoreNext
  BY <1>2 DEF Stop, WatcherFails, Crash, Discover, StoreNext
<1>3. ASSUME NEW w \in Workers, Reject(w) \/ StoreFault(w)
      PROVE  StoreNext
  BY <1>3 DEF Reject, StoreFault
<1>4. ASSUME NEW w \in Workers, WorkerStep(w)
      PROVE  StoreNext
  <2>1. HolderInv(w)
    BY DEF PoolIInv, HistoryInv
  <2>2. CASE ClaimJob(w)
    BY <2>2 DEF ClaimJob, StoreNext
  <2>3. CASE StartStep(w)
    <3>1. /\ StartCommand(worker[w].run, worker[w].step)
          /\ worker[w].run \in RunIDs /\ worker[w].step \in 1..PipelineLen
      BY <2>1, <2>3 DEF StartStep, HolderInv, Holds
    <3> QED
      BY <3>1 DEF StoreNext
  <2>4. CASE CompleteStep(w)
    <3>1. PICK st \in RunStatuses : CompleteCommand(worker[w].command, st)
      BY <2>4 DEF CompleteStep, RunStatuses
    <3>2. worker[w].command \in CommandIDs
      BY <3>1 DEF CompleteCommand, CanCompleteCommand
    <3> QED
      BY <3>1, <3>2 DEF StoreNext
  <2>5. CASE SucceedRun(w) \/ FailRun(w)
    <3>1. PICK r, j : r = worker[w].run /\ j = runs[r].job
      OBVIOUS
    <3>2. Succeed(j, r) \/ Fail(j, r)
      BY <2>5, <3>1 DEF SucceedRun, FailRun, EndRun
    <3>3. j \in JobIDs /\ r \in RunIDs
      BY <3>2 DEF Succeed, Fail, Open
    <3> QED
      BY <3>2, <3>3 DEF StoreNext
  <2> QED
    BY <1>4, <2>2, <2>3, <2>4, <2>5 DEF WorkerStep, Return, ClaimNothing, PollElapsed, Execute
<1>5. CASE ClockTick
  BY <1>5 DEF ClockTick, StoreNext
<1> QED
  BY <1>1, <1>2, <1>3, <1>4, <1>5 DEF PoolNext, Environment

\* The workers, the watcher's handler and the recovery make only the calls the store
\* offers, in a state in which it offers them: the pool implements StoreSpec.
THEOREM PoolImplementsStore == PoolSpec => StoreSpec
<1>1. PoolInit => StoreInit
  BY DEF PoolInit
<1> QED
  BY <1>1, PoolConsistent, PoolStepIsStoreStep, PTL DEF PoolSpec, StoreSpec

\* Under the pool too, each job runs through the life cycle of JobLifecycle.
COROLLARY PoolImplementsLifecycle == PoolSpec => ImplementsLifecycle
BY PoolImplementsStore, StoreImplementsLifecycle

----------------------------------------------------------------------------
(* One instance owns the database.                                          *)

SoleInstance == \A i, j \in Instances : i = j

\* Held attempts are open, and so is the command being executed.
HolderIsOpen(w) ==
    Holds(w) => /\ runs[worker[w].run].status = "RUNNING"
                /\ Executing(w) => commands[worker[w].command].status = "RUNNING"

HoldersAreOpen == \A w \in Workers : HolderIsOpen(w)

\* An instance that is down has no worker running.
DownIsIdle == \A w \in Workers : ~up[InstanceOf[w]] => worker[w].pc = "returned"

SoleIInv == /\ PoolIInv
            /\ HoldersAreOpen
            /\ DownIsIdle

\* A holder that does not move stays open while its run and its command do.
LEMMA OpenKept ==
    ASSUME NEW w \in Workers, HolderInv(w), HolderIsOpen(w), worker'[w] = worker[w],
           Holds(w) => /\ runs'[worker[w].run].status = runs[worker[w].run].status
                       /\ \A c \in CommandIDs : commands[c].run = worker[w].run =>
                             commands'[c].status = commands[c].status
    PROVE  HolderIsOpen(w)'
BY DEF HolderInv, HolderIsOpen, Holds, Executing

\* Moving without writing keeps a holder open.
LEMMA MovesKeepOpen ==
    ASSUME UNCHANGED <<runs, commands>>, NEW w \in Workers, HolderIsOpen(w), MovesOnly(w)
    PROVE  HolderIsOpen(w)'
BY DEF HolderIsOpen, Holds, Executing, MovesOnly

\* A start, stop, end or crash of the only instance leaves no holder of an ended run.
LEMMA InstanceStepKeepsOpen ==
    ASSUME SoleInstance, SoleIInv, NEW i \in Instances,
           InstanceStep(i) \/ Stop(i) \/ WatcherFails(i) \/ Crash(i)
                           \/ \E k \in Keys, m \in RetryLimits : Discover(i, k, m)
    PROVE  HoldersAreOpen' /\ DownIsIdle'
<1>1. /\ \A w \in Workers : InstanceOf[w] = i
      /\ up \in [Instances -> BOOLEAN]
  BY PoolAssumption DEF SoleInstance, SoleIInv, PoolIInv, PoolTypeOK
<1>2. CASE Start(i)
  <2>1. \A w \in Workers : worker'[w].pc = "claim" /\ up'[InstanceOf[w]]
    BY <1>1, <1>2 DEF Start, At
  <2> QED
    BY <2>1 DEF HoldersAreOpen, HolderIsOpen, Holds, DownIsIdle
<1>3. CASE Crash(i)
  <2>1. \A w \in Workers : worker'[w].pc = "returned"
    BY <1>1, <1>3 DEF Crash, At
  <2> QED
    BY <2>1 DEF HoldersAreOpen, HolderIsOpen, Holds, DownIsIdle
<1>4. CASE \/ WatcherReturn(i) \/ FirstResult(i) \/ Join(i) \/ Stop(i) \/ WatcherFails(i)
           \/ \E k \in Keys, m \in RetryLimits : Discover(i, k, m)
  <2>1. UNCHANGED <<runs, commands, worker>>
    BY <1>4 DEF WatcherReturn, FirstResult, Join, Stop, WatcherFails, Discover, Enqueue, storeVars
  <2>2. HoldersAreOpen'
    BY <2>1 DEF SoleIInv, HoldersAreOpen, HolderIsOpen, Holds, Executing
  <2>3. CASE Join(i)
    BY <1>1, <2>1, <2>2, <2>3 DEF Join, WorkersOf, DownIsIdle
  <2>4. CASE UNCHANGED up
    BY <2>1, <2>2, <2>4 DEF SoleIInv, DownIsIdle
  <2> QED
    BY <1>4, <2>2, <2>3, <2>4 DEF WatcherReturn, FirstResult, Stop, WatcherFails, Discover,
                                  instanceVars
<1> QED
  BY <1>2, <1>3, <1>4 DEF InstanceStep

\* A worker's step leaves the runs and commands of the other holders open, and its
\* own until it ends the attempt.
LEMMA WorkerStepKeepsOpen ==
    ASSUME SoleIInv, NEW w \in Workers, WorkerStep(w) \/ Reject(w) \/ StoreFault(w)
    PROVE  HoldersAreOpen' /\ DownIsIdle'
<1>1. /\ PoolTypeRest /\ StoreInv /\ HistoryInv /\ StoreTypeOK
      /\ \A v \in Workers : HolderInv(v) /\ HolderIsOpen(v)
  BY DEF SoleIInv, HoldersAreOpen, PoolIInv, PoolTypeOK, PoolTypeRest, HistoryInv
<1>2. worker[w].pc # "returned" /\ UNCHANGED up /\ \A v \in Workers : v # w => worker'[v] = worker[v]
  <2>1. CASE WorkerStep(w)
    BY <1>1, <2>1 DEF WorkerStep, Return, ClaimJob, ClaimNothing, PollElapsed, StartStep,
              CompleteStep, SucceedRun, FailRun, EndRun, Execute, Goto, instanceVars, PoolTypeRest
  <2> QED
    BY <1>1, <2>1 DEF Reject, StoreFault, Goto, instanceVars, PoolTypeRest
<1>3. DownIsIdle'
  BY <1>2 DEF SoleIInv, DownIsIdle
<1> SUFFICES HoldersAreOpen'
  BY <1>3
<1>4. ASSUME UNCHANGED storeVars, Goto(w, "claim") \/ Goto(w, "poll") \/ Goto(w, "returned")
      PROVE  HoldersAreOpen'
  BY <1>1, <1>4, GotoMovesOnly, MovesKeepOpen DEF storeVars, HoldersAreOpen
<1>5. ASSUME UNCHANGED storeVars, Holds(w), worker' = [worker EXCEPT ![w].pc = "fail"]
      PROVE  HoldersAreOpen'
  BY <1>1, <1>5, FailMovesOnly, MovesKeepOpen DEF storeVars, HoldersAreOpen
<1>6. ASSUME HolderIsOpen(w)', Holds(w),
             \A q \in RunIDs : q # worker[w].run => runs'[q].status = runs[q].status,
             \A c \in CommandIDs : commands[c].run # worker[w].run =>
                                      commands'[c].status = commands[c].status
      PROVE  HoldersAreOpen'
  <2>1. ASSUME NEW v \in Workers, v # w
        PROVE  HolderIsOpen(v)'
    <3>1. Holds(v) => worker[v].run \in RunIDs /\ worker[v].run # worker[w].run
      BY <1>1, <1>6, <2>1 DEF HistoryInv, RunsAreNotShared, HolderInv
    <3> QED
      BY <1>1, <1>2, <1>6, <2>1, <3>1, OpenKept
  <2> QED
    BY <1>6, <2>1 DEF HoldersAreOpen
<1>7. CASE Return(w) \/ ClaimNothing(w) \/ PollElapsed(w)
  BY <1>4, <1>7 DEF Return, ClaimNothing, PollElapsed
<1>8. CASE ClaimJob(w)
  <2>0. PICK j \in Due : runs' = Append(runs, [job |-> j, attempt |-> jobs[j].attempts + 1,
                                               status |-> "RUNNING"])
    BY <1>8 DEF ClaimJob, Claim
  <2>1. [job |-> j, attempt |-> jobs[j].attempts + 1, status |-> "RUNNING"] \in Run
    BY <1>1, RowTypes DEF Run, RunStatuses, Due
  <2>2. /\ \A r \in RunIDs : runs'[r] = runs[r]
        /\ runs'[Len(runs) + 1].status = "RUNNING"
    BY <1>1, <2>0, <2>1, AppendRow DEF RunIDs, StoreTypeOK
  <2>3. worker'[w].run = Len(runs) + 1 /\ worker'[w].pc = "start" /\ UNCHANGED commands
    BY <1>1, <1>8 DEF ClaimJob, Claim, At, PoolTypeRest
  <2>4. ASSUME NEW v \in Workers, v # w
        PROVE  HolderIsOpen(v)'
    BY <1>1, <1>2, <2>2, <2>3, <2>4, OpenKept DEF HolderInv
  <2>5. HolderIsOpen(w)'
    BY <2>2, <2>3 DEF HolderIsOpen, Executing
  <2> QED
    BY <2>4, <2>5 DEF HoldersAreOpen
<1>9. CASE StartStep(w)
  <2>1. CASE /\ StartCommand(worker[w].run, worker[w].step)
             /\ worker' = [worker EXCEPT ![w].pc = "execute", ![w].command = Len(commands) + 1]
    <3>1. Holds(w) /\ UNCHANGED runs /\ runs[worker[w].run].status = "RUNNING"
      BY <1>9, <2>1 DEF StartStep, Holds, StartCommand, CanStartCommand
    <3>2. [run |-> worker[w].run, sequence |-> worker[w].step, status |-> "RUNNING"] \in Command
      BY <1>1, WorkerRow DEF Command, RunStatuses
    <3>3. /\ \A c \in CommandIDs : commands'[c] = commands[c]
          /\ commands'[Len(commands) + 1].status = "RUNNING"
      BY <1>1, <2>1, <3>2, AppendRow DEF CommandIDs, StoreTypeOK, StartCommand
    <3>4. worker'[w].run = worker[w].run /\ worker'[w].command = Len(commands) + 1
      BY <1>1, <2>1, WorkerRow DEF PoolTypeRest, WorkerState
    <3>5. HolderIsOpen(w)'
      BY <3>1, <3>3, <3>4 DEF HolderIsOpen
    <3> QED
      BY <1>6, <3>1, <3>3, <3>5
  <2> QED
    BY <1>5, <1>9, <2>1 DEF StartStep, Holds
<1>10. ASSUME NEW ok \in BOOLEAN, Execute(w, ok)
       PROVE  HoldersAreOpen'
  <2>1. worker[w] \in WorkerState /\ worker[w].pc = "execute" /\ UNCHANGED <<runs, commands>>
    BY <1>1, <1>10, WorkerRow DEF Execute, storeVars
  <2>2. worker'[w].run = worker[w].run /\ worker'[w].command = worker[w].command
    BY <1>1, <1>10, <2>1 DEF Execute, WorkerState, PoolTypeRest
  <2>3. Holds(w) /\ HolderIsOpen(w)'
    BY <1>1, <2>1, <2>2 DEF HolderIsOpen, Holds, Executing
  <2> QED
    BY <1>6, <2>1, <2>3
<1>11. CASE CompleteStep(w)
  <2>1. Holds(w) /\ Executing(w) /\ worker[w].command \in CommandIDs
           /\ commands[worker[w].command].run = worker[w].run
    BY <1>1, <1>11 DEF CompleteStep, Holds, Executing, HolderInv
  <2>2. CASE /\ CompleteCommand(worker[w].command, IF worker[w].ok THEN "SUCCEEDED" ELSE "FAILED")
             /\ worker' = [worker EXCEPT ![w] = IF worker[w].ok
                                                THEN AfterStep(w)
                                                ELSE [@ EXCEPT !.pc = "fail"]]
    <3>1. UNCHANGED runs /\ \A c \in CommandIDs : c # worker[w].command => commands'[c] = commands[c]
      BY <1>1, <2>2 DEF CompleteCommand, StoreTypeOK, CommandIDs
    <3>2. worker'[w].run = worker[w].run /\ worker'[w].pc \in {"start", "succeed", "fail"}
      <4>1. worker[w] \in WorkerState
        BY <1>1, WorkerRow
      <4>2. worker'[w] = IF worker[w].ok THEN AfterStep(w) ELSE [worker[w] EXCEPT !.pc = "fail"]
        BY <1>1, <2>2 DEF PoolTypeRest
      <4> QED
        BY <4>1, <4>2 DEF AfterStep, WorkerState
    <3>3. HolderIsOpen(w)'
      BY <1>1, <2>1, <3>1, <3>2 DEF HolderIsOpen, Executing
    <3> QED
      BY <1>6, <2>1, <3>1, <3>3
  <2> QED
    BY <1>5, <1>11, <2>1, <2>2 DEF CompleteStep
<1>12. CASE SucceedRun(w) \/ FailRun(w)
  <2>1. Holds(w) /\ Goto(w, "claim") /\ HolderIsOpen(w)'
    BY <1>1, <1>12 DEF SucceedRun, FailRun, EndRun, Holds, Goto, At, HolderIsOpen, PoolTypeRest
  <2>2. CASE Succeed(runs[worker[w].run].job, worker[w].run)
    <3>1. UNCHANGED commands /\ \A q \in RunIDs : q # worker[w].run => runs'[q] = runs[q]
      BY <1>1, <2>2 DEF Succeed, StoreTypeOK, RunIDs
    <3> QED
      BY <1>6, <2>1, <3>1
  <2>3. CASE Fail(runs[worker[w].run].job, worker[w].run)
    <3>1. \A q \in RunIDs : q # worker[w].run => runs'[q] = runs[q]
      BY <1>1, <2>3 DEF Fail, StoreTypeOK, RunIDs
    <3>2. \A c \in CommandIDs : commands[c].run # worker[w].run => commands'[c] = commands[c]
      BY <1>1, <2>3 DEF Fail, CloseCommands, StoreTypeOK, CommandIDs
    <3> QED
      BY <1>6, <2>1, <3>1, <3>2
  <2> QED
    BY <1>4, <1>12, <2>1, <2>2, <2>3 DEF SucceedRun, FailRun, EndRun
<1>13. CASE Reject(w)
  BY <1>5, <1>13 DEF Reject, Holds
<1>14. CASE StoreFault(w)
  BY <1>4, <1>5, <1>14 DEF StoreFault, Holds
<1> QED
  BY <1>7, <1>8, <1>9, <1>10, <1>11, <1>12, <1>13, <1>14 DEF WorkerStep

\* Every step of a pool with one instance keeps its invariant.
LEMMA SoleStepKeepsInv ==
    ASSUME SoleInstance
    PROVE  SoleIInv /\ [PoolNext]_vars => SoleIInv'
<1> SUFFICES ASSUME SoleIInv, [PoolNext]_vars
             PROVE  SoleIInv'
  OBVIOUS
<1>1. PoolIInv'
  BY PoolStepKeepsInv DEF SoleIInv
<1>2. HoldersAreOpen' /\ DownIsIdle'
  <2>1. CASE ClockTick \/ UNCHANGED vars
    <3>1. UNCHANGED <<runs, commands, worker, up>>
      BY <2>1 DEF ClockTick, Tick, vars, storeVars, instanceVars
    <3> QED
      BY <3>1 DEF SoleIInv, HoldersAreOpen, HolderIsOpen, Holds, Executing, DownIsIdle
  <2> QED
    BY <2>1, InstanceStepKeepsOpen, WorkerStepKeepsOpen DEF PoolNext, Environment
<1> QED
  BY <1>1, <1>2 DEF SoleIInv

\* Before the first start, the invariant of one instance holds.
LEMMA SoleInitEstablishesInv == PoolInit => SoleIInv
<1> SUFFICES ASSUME PoolInit
             PROVE  SoleIInv
  OBVIOUS
<1>1. \A w \in Workers : worker[w].pc = "returned"
  BY DEF PoolInit, At
<1> QED
  BY <1>1, PoolInitEstablishesInv DEF SoleIInv, HoldersAreOpen, HolderIsOpen, Holds, DownIsIdle

\* With one instance on the database, a worker that holds a run holds an open one.
THEOREM SoleConsistent ==
    ASSUME SoleInstance
    PROVE  PoolSpec => []SoleIInv
BY SoleInitEstablishesInv, SoleStepKeepsInv, PTL DEF PoolSpec

\* No store call of a worker is refused with ErrInvalidTransition.
LEMMA NoCallRefused == SoleIInv => HeldRunsAreOpen
<1> SUFFICES ASSUME SoleIInv, NEW w \in Workers, Holds(w)
             PROVE  /\ Open(runs[worker[w].run].job, worker[w].run)
                    /\ worker[w].pc = "start" => CanStartCommand(worker[w].run, worker[w].step)
                    /\ worker[w].pc \in {"execute", "complete"} =>
                          CanCompleteCommand(worker[w].command)
  BY DEF HeldRunsAreOpen
<1>1. HolderInv(w) /\ HolderIsOpen(w) /\ OneOpenRun
  BY DEF SoleIInv, HoldersAreOpen, PoolIInv, HistoryInv, StoreInv
<1>2. Open(runs[worker[w].run].job, worker[w].run)
  BY <1>1 DEF HolderInv, HolderIsOpen, OneOpenRun, Open
<1>3. worker[w].pc = "start" => CanStartCommand(worker[w].run, worker[w].step)
  BY <1>1 DEF HolderInv, HolderIsOpen, CommandsOfHolder, CanStartCommand
<1>4. Executing(w) => CanCompleteCommand(worker[w].command)
  BY <1>1 DEF HolderInv, HolderIsOpen, CanCompleteCommand
<1> QED
  BY <1>2, <1>3, <1>4 DEF Executing

\* While one instance owns the database the attempt of every worker is open when it
\* makes its next call.
THEOREM PoolHeldRunsAreOpen ==
    ASSUME SoleInstance
    PROVE  PoolSpec => []HeldRunsAreOpen
BY SoleConsistent, NoCallRefused, PTL

----------------------------------------------------------------------------
(* The attempt budget and the abandoned jobs.                               *)

\* AttemptBudget is not inductive: a job that may be claimed again, now or after a
\* recovery, must have an attempt of its budget left.
BudgetInv ==
    \A j \in JobIDs :
        /\ jobs[j].attempts <= jobs[j].maxRetries + 1 + crashes + faults
        /\ (jobs[j].status = "QUEUED" \/ j \in Abandoned) =>
              jobs[j].attempts <= jobs[j].maxRetries + crashes + faults

OwnerInv == BudgetInv /\ AbandonedOnlyByFaults

\* There are finitely many abandoned jobs.
LEMMA AbandonedFinite ==
    ASSUME StoreTypeOK
    PROVE  IsFiniteSet(Abandoned) /\ Cardinality(Abandoned) \in Nat
<1>1. IsFiniteSet(JobIDs)
  <2>1. Len(jobs) \in Nat /\ JobIDs = 1..Len(jobs)
    BY LenProperties DEF StoreTypeOK, JobIDs
  <2> QED
    BY <2>1, FS_Interval
<1>2. Abandoned \in SUBSET JobIDs
  BY DEF Abandoned
<1> QED
  BY <1>1, <1>2, FS_Subset, FS_CardinalityType

\* A step abandons only jobs whose holders let them go.
LEMMA AbandonedWithin ==
    ASSUME NEW X,
           \A j \in JobIDs' : (jobs'[j].status = "RUNNING" /\ j \notin X) =>
               j \in JobIDs /\ jobs[j].status = "RUNNING",
           \A w \in Workers : (Holds(w) /\ runs[worker[w].run].job \notin X) =>
               Holds(w)' /\ runs'[worker'[w].run].job = runs[worker[w].run].job
    PROVE  Abandoned' \subseteq Abandoned \cup X
<1> SUFFICES ASSUME NEW j \in Abandoned', j \notin X
             PROVE  j \in Abandoned
  OBVIOUS
<1>1. /\ j \in JobIDs' /\ jobs'[j].status = "RUNNING"
      /\ \A w \in Workers : Holds(w)' => runs'[worker'[w].run].job # j
  BY DEF Abandoned
<1>2. j \in JobIDs /\ jobs[j].status = "RUNNING"
  BY <1>1
<1>3. ASSUME NEW w \in Workers, Holds(w)
      PROVE  runs[worker[w].run].job # j
  BY <1>1, <1>3
<1> QED
  BY <1>2, <1>3 DEF Abandoned

\* More crashes and faults allow for more attempts.
LEMMA BudgetArithmetic ==
    ASSUME NEW a \in Nat, NEW m \in Nat, NEW c \in Nat, NEW f \in Nat,
           NEW d \in Nat, NEW g \in Nat, d >= c, g >= f
    PROVE  /\ a <= m + 1 + c + f => a <= m + 1 + d + g
           /\ a <= m + c + f => a <= m + d + g
           /\ a <= m => a <= m + d + g
           /\ (a <= m + 1 + c + f /\ d + g > c + f) => a <= m + d + g
OBVIOUS

\* The budgets grow, and a job becomes claimable again only within its retries or by
\* a fault or a crash.
LEMMA BudgetKept ==
    ASSUME StoreTypeOK, BudgetInv,
           crashes \in Nat, faults \in Nat, crashes' \in Nat, faults' \in Nat,
           crashes' >= crashes, faults' >= faults, JobIDs' = JobIDs,
           \A j \in JobIDs : /\ jobs'[j].attempts = jobs[j].attempts
                             /\ jobs'[j].maxRetries = jobs[j].maxRetries
                             /\ (jobs'[j].status = "QUEUED" \/ j \in Abandoned') =>
                                   \/ jobs[j].status = "QUEUED" \/ j \in Abandoned
                                   \/ jobs[j].attempts <= jobs[j].maxRetries
                                   \/ crashes' + faults' > crashes + faults
    PROVE  BudgetInv'
<1> SUFFICES ASSUME NEW j \in JobIDs
             PROVE  /\ jobs[j].attempts <= jobs[j].maxRetries + 1 + crashes' + faults'
                    /\ (jobs'[j].status = "QUEUED" \/ j \in Abandoned') =>
                          jobs[j].attempts <= jobs[j].maxRetries + crashes' + faults'
  BY DEF BudgetInv
<1>1. PICK a \in Nat, m \in Nat : a = jobs[j].attempts /\ m = jobs[j].maxRetries
  BY RowTypes
<1>2. a <= m + 1 + crashes + faults
  BY <1>1 DEF BudgetInv
<1>3. a <= m + 1 + crashes' + faults'
  BY <1>2, BudgetArithmetic
<1>4. ASSUME jobs'[j].status = "QUEUED" \/ j \in Abandoned'
      PROVE  a <= m + crashes' + faults'
  <2>1. CASE jobs[j].status = "QUEUED" \/ j \in Abandoned
    <3>1. a <= m + crashes + faults
      BY <1>1, <2>1 DEF BudgetInv
    <3> QED
      BY <3>1, BudgetArithmetic
  <2>2. CASE a <= m
    BY <2>2, BudgetArithmetic
  <2>3. CASE crashes' + faults' > crashes + faults
    BY <1>2, <2>3, BudgetArithmetic
  <2> QED
    BY <1>1, <1>4, <2>1, <2>2, <2>3
<1> QED
  BY <1>1, <1>3, <1>4

\* The count of abandoned jobs grows with the faults.
LEMMA CountKept ==
    ASSUME StoreTypeOK, AbandonedOnlyByFaults, faults \in Nat, faults' \in Nat,
           (\E i \in Instances : up'[i]) => \E i \in Instances : up[i],
           \/ Abandoned' \subseteq Abandoned /\ faults' >= faults
           \/ faults' = faults + 1 /\ \E j : Abandoned' \subseteq Abandoned \cup {j}
    PROVE  AbandonedOnlyByFaults'
<1> SUFFICES ASSUME \E i \in Instances : up[i]
             PROVE  Cardinality(Abandoned') <= faults'
  BY DEF AbandonedOnlyByFaults
<1>1. /\ IsFiniteSet(Abandoned) /\ Cardinality(Abandoned) \in Nat
      /\ Cardinality(Abandoned) <= faults
  BY AbandonedFinite DEF AbandonedOnlyByFaults
<1>2. CASE Abandoned' \subseteq Abandoned /\ faults' >= faults
  <2>1. Cardinality(Abandoned') <= Cardinality(Abandoned) /\ Cardinality(Abandoned') \in Nat
    BY <1>1, <1>2, FS_Subset, FS_CardinalityType
  <2> QED
    BY <1>1, <1>2, <2>1
<1>3. ASSUME NEW j, Abandoned' \subseteq Abandoned \cup {j}, faults' = faults + 1
      PROVE  Cardinality(Abandoned') <= faults'
  <2>1. /\ IsFiniteSet(Abandoned \cup {j})
        /\ Cardinality(Abandoned \cup {j}) \in Nat
        /\ Cardinality(Abandoned \cup {j}) <= Cardinality(Abandoned) + 1
    <3>1. /\ IsFiniteSet(Abandoned \cup {j})
          /\ Cardinality(Abandoned \cup {j}) =
                IF j \in Abandoned THEN Cardinality(Abandoned) ELSE Cardinality(Abandoned) + 1
      BY <1>1, FS_AddElement
    <3> QED
      BY <1>1, <3>1
  <2>2. /\ Cardinality(Abandoned') <= Cardinality(Abandoned \cup {j})
        /\ Cardinality(Abandoned') \in Nat
    BY <1>3, <2>1, FS_Subset, FS_CardinalityType
  <2> QED
    BY <1>1, <1>3, <2>1, <2>2
<1> QED
  BY <1>2, <1>3

BudgetTypes == crashes \in Nat /\ faults \in Nat /\ crashes' \in Nat /\ faults' \in Nat

\* What the budget adds up are numbers.
LEMMA BudgetTypesHold ==
    ASSUME PoolTypeRest, PoolTypeRest'
    PROVE  BudgetTypes
BY PoolAssumption DEF PoolTypeRest, BudgetTypes

\* A step that writes neither jobs nor runs and lets go of no run.
LEMMA NoJobWrittenKeepsOwner ==
    ASSUME StoreTypeOK, OwnerInv, BudgetTypes, UNCHANGED <<jobs, runs>>,
           crashes' = crashes, faults' >= faults,
           (\E i \in Instances : up'[i]) => \E i \in Instances : up[i],
           \A w \in Workers : Holds(w) => Holds(w)' /\ worker'[w].run = worker[w].run
    PROVE  OwnerInv'
<1>1. JobIDs' = JobIDs
  BY DEF JobIDs
<1>2. Abandoned' \subseteq Abandoned
  <2>1. \A w \in Workers : Holds(w) =>
           Holds(w)' /\ runs'[worker'[w].run].job = runs[worker[w].run].job
    OBVIOUS
  <2>2. Abandoned' \subseteq Abandoned \cup {}
    BY <1>1, <2>1, AbandonedWithin
  <2> QED
    BY <2>2
<1>3. crashes' >= crashes
  BY DEF BudgetTypes
<1>4. BudgetInv'
  BY <1>1, <1>2, <1>3, BudgetKept DEF OwnerInv, BudgetTypes
<1>5. AbandonedOnlyByFaults'
  BY <1>2, CountKept DEF OwnerInv, BudgetTypes
<1> QED
  BY <1>4, <1>5 DEF OwnerInv

\* A discovered file adds a QUEUED job without attempts, or nothing.
LEMMA DiscoverKeepsOwner ==
    ASSUME StoreInv, OwnerInv, BudgetTypes, NEW k \in Keys, NEW m \in RetryLimits,
           Enqueue(k, m), UNCHANGED <<up, worker, crashes, faults>>
    PROVE  OwnerInv'
<1> DEFINE row == [key |-> k, status |-> "QUEUED", attempts |-> 0,
                   maxRetries |-> m, availableAt |-> now]
<1>1. StoreTypeOK /\ jobs \in Seq(Job) /\ UNCHANGED <<runs, commands>> /\ faults' >= faults
  BY DEF StoreInv, StoreTypeOK, Enqueue, BudgetTypes
<1>2. CASE UNCHANGED jobs
  BY <1>1, <1>2, NoJobWrittenKeepsOwner DEF Holds
<1>3. CASE jobs' = Append(jobs, row)
  <2>1. row \in Job /\ row.status = "QUEUED" /\ row.attempts = 0 /\ row.maxRetries = m /\ m \in Nat
    BY <1>1, StoreAssumption DEF StoreTypeOK, Job, JobStatuses
  <2>2. PICK new : new = Len(jobs) + 1
    OBVIOUS
  <2> HIDE DEF row
  <2>3. /\ JobIDs' = JobIDs \cup {new} /\ new \notin JobIDs
        /\ \A j \in JobIDs : jobs'[j] = jobs[j]
        /\ jobs'[new] = row
    BY <1>1, <1>3, <2>1, <2>2, AppendRow DEF JobIDs
  <2>4. Abandoned' \subseteq Abandoned \cup {}
    BY <1>1, <2>1, <2>3, AbandonedWithin DEF Holds
  <2>5. \A j \in JobIDs :
          /\ jobs'[j].attempts <= jobs'[j].maxRetries + 1 + crashes' + faults'
          /\ (jobs'[j].status = "QUEUED" \/ j \in Abandoned') =>
                jobs'[j].attempts <= jobs'[j].maxRetries + crashes' + faults'
    BY <2>3, <2>4 DEF OwnerInv, BudgetInv
  <2>6. /\ row.attempts <= row.maxRetries + 1 + crashes' + faults'
        /\ row.attempts <= row.maxRetries + crashes' + faults'
    BY <2>1 DEF BudgetTypes
  <2>7. BudgetInv'
    BY <2>3, <2>5, <2>6 DEF BudgetInv
  <2>8. AbandonedOnlyByFaults'
    BY <1>1, <2>4, CountKept DEF OwnerInv, BudgetTypes
  <2> QED
    BY <2>7, <2>8 DEF OwnerInv
<1> QED
  BY <1>2, <1>3 DEF Enqueue

\* Recovery requeues what no worker holds: while the instance is down, everything.
LEMMA StartKeepsOwner ==
    ASSUME SoleInstance, SoleIInv, OwnerInv, BudgetTypes, NEW i \in Instances, Start(i)
    PROVE  OwnerInv'
<1>1. StoreTypeOK /\ now \in Nat /\ UNCHANGED <<crashes, faults>>
  BY DEF SoleIInv, PoolIInv, PoolTypeOK, StoreTypeOK, Start, budgetVars
<1>2. /\ JobIDs' = JobIDs
      /\ \A j \in JobIDs : jobs'[j] = IF jobs[j].status = "RUNNING"
                                      THEN Available(jobs[j], "QUEUED", now) ELSE jobs[j]
  BY DEF Start, RecoverRunning, JobIDs
<1>3. \A j \in JobIDs : /\ jobs'[j].status # "RUNNING"
                        /\ jobs'[j].attempts = jobs[j].attempts
                        /\ jobs'[j].maxRetries = jobs[j].maxRetries
                        /\ jobs'[j].status = "QUEUED" => jobs[j].status \in {"QUEUED", "RUNNING"}
  <2>1. \A j \in JobIDs : jobs[j] \in Job
    BY <1>1, RowTypes
  <2>2. ASSUME NEW j \in JobIDs
        PROVE  /\ Available(jobs[j], "QUEUED", now).status = "QUEUED"
               /\ Available(jobs[j], "QUEUED", now).attempts = jobs[j].attempts
               /\ Available(jobs[j], "QUEUED", now).maxRetries = jobs[j].maxRetries
    <3>1. jobs[j] \in Job /\ "QUEUED" \in JobStatuses
      BY <2>1 DEF JobStatuses
    <3> QED
      BY <1>1, <3>1, AvailableRow
  <2> QED
    BY <1>2, <2>2
<1>4. \A w \in Workers : ~Holds(w)
  BY PoolAssumption DEF SoleInstance, SoleIInv, DownIsIdle, Start, Holds
<1>5. \A j \in JobIDs : jobs[j].status = "RUNNING" => j \in Abandoned
  BY <1>4 DEF Abandoned
<1>6. Abandoned' = {}
  BY <1>2, <1>3 DEF Abandoned
<1>7. BudgetInv'
  <2>1. crashes' >= crashes /\ faults' >= faults
    BY <1>1 DEF BudgetTypes
  <2> QED
    BY <1>1, <1>2, <1>3, <1>5, <1>6, <2>1, BudgetKept DEF OwnerInv, BudgetTypes
<1>8. AbandonedOnlyByFaults'
  <2>1. Cardinality(Abandoned') = 0
    BY <1>6, FS_EmptySet
  <2> QED
    BY <2>1 DEF AbandonedOnlyByFaults, BudgetTypes
<1> QED
  BY <1>7, <1>8 DEF OwnerInv

\* A crash is paid for by the budget of crashes.
LEMMA CrashKeepsOwner ==
    ASSUME SoleInstance, SoleIInv, OwnerInv, BudgetTypes, NEW i \in Instances, Crash(i)
    PROVE  OwnerInv'
<1>1. /\ StoreTypeOK /\ UNCHANGED <<jobs, runs, faults>> /\ crashes' = crashes + 1
  BY DEF SoleIInv, PoolIInv, PoolTypeOK, Crash, storeVars
<1>2. BudgetInv'
  <2>1. JobIDs' = JobIDs /\ crashes' >= crashes /\ faults' >= faults
          /\ crashes' + faults' > crashes + faults
    BY <1>1 DEF BudgetTypes, JobIDs
  <2> QED
    BY <1>1, <2>1, BudgetKept DEF OwnerInv, BudgetTypes
<1>3. \A n \in Instances : ~up'[n]
  BY DEF SoleInstance, SoleIInv, PoolIInv, PoolTypeOK, Crash
<1> QED
  BY <1>2, <1>3 DEF OwnerInv, AbandonedOnlyByFaults

\* A claim takes a QUEUED job, which has an attempt left, and holds it.
LEMMA ClaimKeepsOwner ==
    ASSUME SoleIInv, OwnerInv, BudgetTypes, NEW w \in Workers, ClaimJob(w)
    PROVE  OwnerInv'
<1>1. /\ StoreTypeOK /\ jobs \in Seq(Job) /\ runs \in Seq(Run) /\ PoolTypeRest
      /\ UNCHANGED <<up, crashes, faults>> /\ ~Holds(w)
  BY DEF SoleIInv, PoolIInv, PoolTypeOK, PoolTypeRest, StoreTypeOK, ClaimJob, instanceVars,
         budgetVars, Holds
<1>2. PICK j \in Due :
        /\ jobs' = [jobs EXCEPT ![j] = Claimed(@, jobs[j].attempts + 1)]
        /\ runs' = Append(runs, [job |-> j, attempt |-> jobs[j].attempts + 1,
                                 status |-> "RUNNING"])
  BY DEF ClaimJob, Claim
<1>3. j \in JobIDs /\ jobs[j].status = "QUEUED" /\ jobs[j] \in Job /\ jobs[j].attempts \in Nat
  BY <1>1, RowTypes DEF Due
<1>4. PICK new : new = Len(runs) + 1
  OBVIOUS
<1>5. /\ \A r \in RunIDs : runs'[r] = runs[r]
      /\ runs'[new].job = j
  <2>1. [job |-> j, attempt |-> jobs[j].attempts + 1, status |-> "RUNNING"] \in Run
    BY <1>1, <1>3, RowTypes DEF Run, RunStatuses
  <2> QED
    BY <1>1, <1>2, <1>4, <2>1, AppendRow DEF RunIDs
<1>6. /\ JobIDs' = JobIDs /\ \A n \in JobIDs : n # j => jobs'[n] = jobs[n]
      /\ jobs'[j].status = "RUNNING" /\ jobs'[j].attempts = jobs[j].attempts + 1
      /\ jobs'[j].maxRetries = jobs[j].maxRetries
  <2>1. jobs[j].attempts + 1 \in Nat
    BY <1>3
  <2>2. /\ Claimed(jobs[j], jobs[j].attempts + 1) \in Job
        /\ Claimed(jobs[j], jobs[j].attempts + 1).status = "RUNNING"
        /\ Claimed(jobs[j], jobs[j].attempts + 1).attempts = jobs[j].attempts + 1
        /\ Claimed(jobs[j], jobs[j].attempts + 1).maxRetries = jobs[j].maxRetries
    BY <1>3, <2>1, ClaimedRow DEF Claimed, Job
  <2> QED
    BY <1>1, <1>2, <1>3, <2>2, UpdateRow DEF JobIDs
<1>7. /\ worker'[w].run = new /\ worker'[w].pc = "start"
      /\ \A v \in Workers : v # w => worker'[v] = worker[v]
  BY <1>1, <1>4 DEF ClaimJob, At, PoolTypeRest
<1>8. Abandoned' \subseteq Abandoned
  <2>1. ASSUME NEW v \in Workers, Holds(v)
        PROVE  Holds(v)' /\ runs'[worker'[v].run].job = runs[worker[v].run].job
    <3>1. v # w /\ worker'[v] = worker[v] /\ worker[v].run \in RunIDs
      BY <1>1, <1>7, <2>1 DEF SoleIInv, PoolIInv, HistoryInv, HolderInv
    <3> QED
      BY <1>5, <2>1, <3>1 DEF Holds
  <2>2. Abandoned' \subseteq Abandoned \cup {j}
    BY <1>6, <2>1, AbandonedWithin
  <2>3. j \notin Abandoned'
    BY <1>5, <1>7 DEF Abandoned, Holds
  <2> QED
    BY <2>2, <2>3
<1>9. j \notin Abandoned
  BY <1>3 DEF Abandoned
<1>10. BudgetInv'
  <2>1. ASSUME NEW n \in JobIDs, n # j
        PROVE  /\ jobs'[n].attempts <= jobs'[n].maxRetries + 1 + crashes' + faults'
               /\ (jobs'[n].status = "QUEUED" \/ n \in Abandoned') =>
                     jobs'[n].attempts <= jobs'[n].maxRetries + crashes' + faults'
    BY <1>1, <1>6, <1>8, <2>1 DEF OwnerInv, BudgetInv
  <2>2. jobs'[j].attempts <= jobs'[j].maxRetries + 1 + crashes' + faults'
    <3>1. PICK a \in Nat, m \in Nat : a = jobs[j].attempts /\ m = jobs[j].maxRetries
      BY <1>1, <1>3, RowTypes
    <3>2. a <= m + crashes + faults
      BY <1>3, <3>1 DEF OwnerInv, BudgetInv
    <3>3. a + 1 <= m + 1 + crashes + faults
      BY <3>2 DEF BudgetTypes
    <3> QED
      BY <1>1, <1>6, <3>1, <3>3
  <2>3. jobs'[j].status # "QUEUED" /\ j \notin Abandoned'
    BY <1>6, <1>8, <1>9
  <2> QED
    BY <1>6, <2>1, <2>2, <2>3 DEF BudgetInv
<1>11. AbandonedOnlyByFaults'
  <2>1. faults' >= faults
    BY <1>1 DEF BudgetTypes
  <2> QED
    BY <1>1, <1>8, <2>1, CountKept DEF OwnerInv, BudgetTypes
<1> QED
  BY <1>10, <1>11 DEF OwnerInv

\* Ending an attempt ends or requeues its job; a requeued one has retries left.
LEMMA EndRunKeepsOwner ==
    ASSUME SoleIInv, OwnerInv, BudgetTypes, NEW w \in Workers, SucceedRun(w) \/ FailRun(w)
    PROVE  OwnerInv'
<1>0. PICK r, j : r = worker[w].run /\ j = runs[r].job
  OBVIOUS
<1>1. /\ StoreTypeOK /\ jobs \in Seq(Job) /\ runs \in Seq(Run) /\ PoolTypeRest /\ now \in Nat
      /\ UNCHANGED <<up, crashes, faults>> /\ Holds(w) /\ Goto(w, "claim")
  BY DEF SoleIInv, PoolIInv, PoolTypeOK, PoolTypeRest, StoreTypeOK, SucceedRun, FailRun, EndRun,
         instanceVars, budgetVars, Holds
<1>2. Open(j, r)
  BY <1>0, <1>1, NoCallRefused DEF HeldRunsAreOpen
<1>3. Succeed(j, r) \/ Fail(j, r)
  BY <1>0, <1>2 DEF SucceedRun, FailRun, EndRun
<1>4. /\ j \in JobIDs /\ r \in RunIDs /\ jobs[j] \in Job /\ runs[r] \in Run
  BY <1>1, <1>2, RowTypes DEF Open
<1>5. PICK st \in RunStatuses : runs' = [runs EXCEPT ![r] = WithStatus(@, st)]
  BY <1>3 DEF Succeed, Fail, RunStatuses
<1>6. \A q \in RunIDs : runs'[q].job = runs[q].job
  <2>1. WithStatus(runs[r], st) \in Run /\ WithStatus(runs[r], st).job = runs[r].job
    BY <1>4, RunRow
  <2> QED
    BY <1>1, <1>4, <1>5, <2>1, UpdateRow DEF RunIDs
<1>7. /\ JobIDs' = JobIDs /\ \A n \in JobIDs : n # j => jobs'[n] = jobs[n]
      /\ jobs'[j].status # "RUNNING"
      /\ jobs'[j].attempts = jobs[j].attempts /\ jobs'[j].maxRetries = jobs[j].maxRetries
      /\ jobs'[j].status = "QUEUED" => jobs[j].attempts <= jobs[j].maxRetries
  <2>1. PICK row \in Job : /\ jobs' = [jobs EXCEPT ![j] = row]
                           /\ row.status # "RUNNING"
                           /\ row.attempts = jobs[j].attempts /\ row.maxRetries = jobs[j].maxRetries
                           /\ row.status = "QUEUED" => jobs[j].attempts <= jobs[j].maxRetries
    <3>1. CASE Succeed(j, r)
      <4>1. /\ WithStatus(jobs[j], "SUCCEEDED") \in Job
            /\ WithStatus(jobs[j], "SUCCEEDED").status = "SUCCEEDED"
            /\ WithStatus(jobs[j], "SUCCEEDED").attempts = jobs[j].attempts
            /\ WithStatus(jobs[j], "SUCCEEDED").maxRetries = jobs[j].maxRetries
        BY <1>4 DEF WithStatus, Job, JobStatuses
      <4> QED
        BY <3>1, <4>1 DEF Succeed
    <3>2. CASE Fail(j, r)
      <4>0. "QUEUED" \in JobStatuses /\ "FAILED" \in JobStatuses
        BY DEF JobStatuses
      <4>1. PICK later \in Nat : later = now + RetryDelay
        BY <1>1, StoreAssumption
      <4>2. /\ Available(jobs[j], "QUEUED", later) \in Job
            /\ Available(jobs[j], "QUEUED", later).status = "QUEUED"
            /\ Available(jobs[j], "QUEUED", later).attempts = jobs[j].attempts
            /\ Available(jobs[j], "QUEUED", later).maxRetries = jobs[j].maxRetries
        BY <1>4, <4>0, AvailableRow
      <4>3. /\ Available(jobs[j], "FAILED", now) \in Job
            /\ Available(jobs[j], "FAILED", now).status = "FAILED"
            /\ Available(jobs[j], "FAILED", now).attempts = jobs[j].attempts
            /\ Available(jobs[j], "FAILED", now).maxRetries = jobs[j].maxRetries
        BY <1>1, <1>4, <4>0, AvailableRow
      <4>4. CASE HasRetries(j)
        <5>1. jobs' = [jobs EXCEPT ![j] = Available(jobs[j], "QUEUED", later)]
          BY <3>2, <4>1, <4>4 DEF Fail
        <5> QED
          BY <4>2, <4>4, <5>1 DEF HasRetries
      <4>5. CASE ~HasRetries(j)
        <5>1. jobs' = [jobs EXCEPT ![j] = Available(jobs[j], "FAILED", now)]
          BY <3>2, <4>5 DEF Fail
        <5> QED
          BY <4>3, <5>1
      <4> QED
        BY <4>4, <4>5
    <3> QED
      BY <1>3, <3>1, <3>2
  <2> QED
    BY <1>1, <1>4, <2>1, UpdateRow DEF JobIDs
<1>8. Abandoned' \subseteq Abandoned
  <2>1. ASSUME NEW v \in Workers, Holds(v), runs[worker[v].run].job \notin {j}
        PROVE  Holds(v)' /\ runs'[worker'[v].run].job = runs[worker[v].run].job
    <3>1. v # w /\ worker'[v] = worker[v] /\ worker[v].run \in RunIDs
      BY <1>0, <1>1, <2>1 DEF Goto, PoolTypeRest, SoleIInv, PoolIInv, HistoryInv, HolderInv
    <3> QED
      BY <1>6, <2>1, <3>1 DEF Holds
  <2>2. Abandoned' \subseteq Abandoned \cup {j}
    BY <1>7, <2>1, AbandonedWithin
  <2>3. j \notin Abandoned'
    BY <1>7 DEF Abandoned
  <2> QED
    BY <2>2, <2>3
<1>9. crashes' >= crashes /\ faults' >= faults
  BY <1>1 DEF BudgetTypes
<1>10. BudgetInv'
  <2>1. \A n \in JobIDs : /\ jobs'[n].attempts = jobs[n].attempts
                          /\ jobs'[n].maxRetries = jobs[n].maxRetries
                          /\ (jobs'[n].status = "QUEUED" \/ n \in Abandoned') =>
                                \/ jobs[n].status = "QUEUED" \/ n \in Abandoned
                                \/ jobs[n].attempts <= jobs[n].maxRetries
    BY <1>7, <1>8
  <2> QED
    BY <1>1, <1>7, <1>9, <2>1, BudgetKept DEF OwnerInv, BudgetTypes
<1>11. AbandonedOnlyByFaults'
  BY <1>1, <1>8, <1>9, CountKept DEF OwnerInv, BudgetTypes
<1> QED
  BY <1>10, <1>11 DEF OwnerInv

\* A fault of the last call of an attempt abandons one job and is counted.
LEMMA FaultAtEndKeepsOwner ==
    ASSUME SoleIInv, OwnerInv, BudgetTypes, NEW w \in Workers,
           Holds(w), Goto(w, "claim"), UNCHANGED <<storeVars, up, crashes>>, faults' = faults + 1
    PROVE  OwnerInv'
<1>0. PICK j : j = runs[worker[w].run].job
  OBVIOUS
<1>1. /\ StoreTypeOK /\ PoolTypeRest /\ UNCHANGED <<jobs, runs>> /\ JobIDs' = JobIDs
  BY DEF SoleIInv, PoolIInv, PoolTypeOK, PoolTypeRest, storeVars, JobIDs
<1>2. Abandoned' \subseteq Abandoned \cup {j}
  <2>1. ASSUME NEW v \in Workers, Holds(v), runs[worker[v].run].job \notin {j}
        PROVE  Holds(v)' /\ runs'[worker'[v].run].job = runs[worker[v].run].job
    <3>1. v # w /\ worker'[v] = worker[v]
      BY <1>0, <1>1, <2>1 DEF Goto, PoolTypeRest
    <3> QED
      BY <1>1, <2>1, <3>1 DEF Holds
  <2> QED
    BY <1>1, <2>1, AbandonedWithin
<1>3. crashes' >= crashes /\ faults' >= faults /\ crashes' + faults' > crashes + faults
  BY DEF BudgetTypes
<1>4. BudgetInv'
  BY <1>1, <1>3, BudgetKept DEF OwnerInv, BudgetTypes
<1>5. AbandonedOnlyByFaults'
  BY <1>1, <1>2, CountKept DEF OwnerInv, BudgetTypes
<1> QED
  BY <1>4, <1>5 DEF OwnerInv

\* Every step of the pool keeps the budget and the count.
LEMMA StepKeepsOwner ==
    ASSUME SoleInstance
    PROVE  SoleIInv /\ SoleIInv' /\ OwnerInv /\ [PoolNext]_vars => OwnerInv'
<1> SUFFICES ASSUME SoleIInv, SoleIInv', OwnerInv, [PoolNext]_vars
             PROVE  OwnerInv'
  OBVIOUS
<1>1. StoreInv /\ StoreTypeOK /\ PoolTypeRest /\ PoolTypeRest'
  BY DEF SoleIInv, PoolIInv, PoolTypeOK, PoolTypeRest
<1>2. BudgetTypes
  BY <1>1, BudgetTypesHold
<1>3. ASSUME UNCHANGED <<jobs, runs>>, crashes' = crashes, faults' >= faults,
             (\E i \in Instances : up'[i]) => \E i \in Instances : up[i],
             \A w \in Workers : Holds(w) => Holds(w)' /\ worker'[w].run = worker[w].run
      PROVE  OwnerInv'
  BY <1>1, <1>2, <1>3, NoJobWrittenKeepsOwner
<1>4. faults >= faults /\ faults + 1 >= faults
  BY <1>2 DEF BudgetTypes
<1>5. CASE ClockTick \/ UNCHANGED vars
  <2>1. UNCHANGED <<jobs, runs, worker, up, crashes, faults>>
    BY <1>5 DEF ClockTick, Tick, vars, storeVars, instanceVars, budgetVars
  <2> QED
    BY <1>3, <1>4, <2>1 DEF Holds
<1>6. ASSUME NEW i \in Instances, WatcherReturn(i) \/ FirstResult(i) \/ Join(i)
                                  \/ Stop(i) \/ WatcherFails(i)
      PROVE  OwnerInv'
  <2>1. /\ UNCHANGED <<jobs, runs, worker, crashes>> /\ faults' >= faults
        /\ up' = up \/ up' = [up EXCEPT ![i] = FALSE]
    BY <1>4, <1>6 DEF WatcherReturn, FirstResult, Join, Stop, WatcherFails, storeVars, budgetVars
  <2>2. (\E n \in Instances : up'[n]) => \E n \in Instances : up[n]
    BY <1>1, <2>1 DEF PoolTypeRest
  <2> QED
    BY <1>3, <2>1, <2>2 DEF Holds
<1>7. ASSUME NEW i \in Instances, Start(i) \/ Crash(i)
                                  \/ \E k \in Keys, m \in RetryLimits : Discover(i, k, m)
      PROVE  OwnerInv'
  <2>1. CASE Start(i)
    BY <1>2, <2>1, StartKeepsOwner
  <2>2. CASE Crash(i)
    BY <1>2, <2>2, CrashKeepsOwner
  <2>3. ASSUME NEW k \in Keys, NEW m \in RetryLimits, Discover(i, k, m)
        PROVE  OwnerInv'
    <3>1. Enqueue(k, m) /\ UNCHANGED <<up, worker, crashes, faults>>
      BY <2>3 DEF Discover, instanceVars, budgetVars
    <3> QED
      BY <1>1, <1>2, <3>1, DiscoverKeepsOwner
  <2> QED
    BY <1>7, <2>1, <2>2, <2>3
<1>8. ASSUME NEW w \in Workers, StoreFault(w)
      PROVE  OwnerInv'
  <2>1. UNCHANGED <<storeVars, up, crashes>> /\ faults' = faults + 1
    BY <1>8 DEF StoreFault, instanceVars
  <2>2. CASE worker[w].pc \in {"succeed", "fail"}
    <3>1. Holds(w) /\ Goto(w, "claim")
      BY <1>8, <2>2 DEF StoreFault, Holds
    <3> QED
      BY <1>2, <2>1, <3>1, FaultAtEndKeepsOwner
  <2>3. CASE worker[w].pc \in {"claim", "start", "complete"}
    <3>1. \/ ~Holds(w) /\ Goto(w, "poll")
          \/ worker' = [worker EXCEPT ![w].pc = "fail"]
      BY <1>8, <2>3 DEF StoreFault, Holds
    <3>2. \A v \in Workers : Holds(v) => Holds(v)' /\ worker'[v].run = worker[v].run
      BY <1>1, <3>1, WorkerRow DEF Goto, Holds, PoolTypeRest, WorkerState
    <3> QED
      BY <1>3, <1>4, <2>1, <3>2 DEF storeVars
  <2> QED
    BY <1>8, <2>2, <2>3 DEF StoreFault
<1>9. ASSUME NEW w \in Workers, WorkerStep(w) \/ Reject(w)
      PROVE  OwnerInv'
  <2>1. CASE ClaimJob(w)
    BY <1>2, <2>1, ClaimKeepsOwner
  <2>2. CASE SucceedRun(w) \/ FailRun(w)
    BY <1>2, <2>2, EndRunKeepsOwner
  <2>3. CASE Return(w) \/ ClaimNothing(w) \/ PollElapsed(w)
    <3>1. /\ UNCHANGED <<jobs, runs, up, crashes, faults>> /\ ~Holds(w)
          /\ \A v \in Workers : v # w => worker'[v] = worker[v]
      BY <1>1, <2>3 DEF Return, ClaimNothing, PollElapsed, Goto, Holds, storeVars, instanceVars,
                        budgetVars, PoolTypeRest
    <3> QED
      BY <1>3, <1>4, <3>1 DEF Holds
  <2>4. CASE Reject(w) \/ StartStep(w) \/ CompleteStep(w) \/ \E ok \in BOOLEAN : Execute(w, ok)
    <3>1. UNCHANGED <<jobs, runs, up, crashes, faults>>
      BY <2>4 DEF Reject, StartStep, CompleteStep, Execute, StartCommand, CompleteCommand,
                  storeVars, instanceVars, budgetVars
    <3>2. /\ \A v \in Workers : v # w => worker'[v] = worker[v]
          /\ worker'[w].run = worker[w].run
          /\ Holds(w)'
      <4>1. worker[w] \in WorkerState
        BY <1>1, WorkerRow
      <4>2. CASE \/ worker' = [worker EXCEPT ![w].pc = "fail"]
                 \/ worker' = [worker EXCEPT ![w].pc = "execute", ![w].command = Len(commands) + 1]
                 \/ \E ok \in BOOLEAN : worker' = [worker EXCEPT ![w].pc = "complete", ![w].ok = ok]
        BY <1>1, <4>1, <4>2 DEF PoolTypeRest, WorkerState, Holds
      <4>3. CASE worker' = [worker EXCEPT ![w] = IF worker[w].ok
                                                 THEN AfterStep(w)
                                                 ELSE [@ EXCEPT !.pc = "fail"]]
        <5>1. worker'[w] = IF worker[w].ok THEN AfterStep(w) ELSE [worker[w] EXCEPT !.pc = "fail"]
          BY <1>1, <4>3 DEF PoolTypeRest
        <5>2. worker'[w].run = worker[w].run /\ worker'[w].pc \in {"start", "succeed", "fail"}
          BY <4>1, <5>1 DEF AfterStep, WorkerState
        <5>3. \A v \in Workers : v # w => worker'[v] = worker[v]
          BY <1>1, <4>3 DEF PoolTypeRest
        <5> QED
          BY <5>2, <5>3 DEF Holds
      <4> QED
        BY <2>4, <4>2, <4>3 DEF Reject, StartStep, CompleteStep, Execute
    <3> QED
      BY <1>3, <1>4, <3>1, <3>2 DEF Holds
  <2> QED
    BY <1>9, <2>1, <2>2, <2>3, <2>4 DEF WorkerStep
<1> QED
  BY <1>5, <1>6, <1>7, <1>8, <1>9 DEF PoolNext, InstanceStep, Environment

\* Without jobs, nothing is abandoned and nothing spent.
LEMMA InitEstablishesOwner == PoolInit => OwnerInv
<1> SUFFICES ASSUME PoolInit
             PROVE  OwnerInv
  OBVIOUS
<1>1. JobIDs = {} /\ \A i \in Instances : ~up[i]
  BY DEF PoolInit, StoreInit, JobIDs
<1> QED
  BY <1>1 DEF OwnerInv, BudgetInv, AbandonedOnlyByFaults

\* With one instance, every open run has a worker, or a crash or fault to answer for it.
LEMMA OwnerConsistent ==
    ASSUME SoleInstance
    PROVE  PoolSpec => [](SoleIInv /\ OwnerInv)
<1>1. SoleIInv /\ OwnerInv /\ [PoolNext]_vars => (SoleIInv /\ OwnerInv)'
  BY SoleStepKeepsInv, StepKeepsOwner
<1> QED
  BY <1>1, SoleInitEstablishesInv, InitEstablishesOwner, PTL DEF PoolSpec

\* While one instance owns the database and is up, a job is RUNNING without a worker
\* only if that many store calls failed.
THEOREM PoolAbandonedOnlyByFaults ==
    ASSUME SoleInstance
    PROVE  PoolSpec => []AbandonedOnlyByFaults
<1>1. OwnerInv => AbandonedOnlyByFaults
  BY DEF OwnerInv
<1> QED
  BY <1>1, OwnerConsistent, PTL

\* No job is attempted more often than max_retries allows, but for one attempt per
\* crash and per failed store call.
THEOREM PoolAttemptBudget ==
    ASSUME SoleInstance
    PROVE  PoolSpec => []PoolInv
<1>1. SoleIInv /\ OwnerInv => PoolInv
  BY DEF SoleIInv, PoolIInv, OwnerInv, BudgetInv, PoolInv, AttemptBudget
<1> QED
  BY <1>1, OwnerConsistent, PTL
=============================================================================

# Onderzeeer: a TLA+ model of the file-triggered job runner

Onderzeeer watches directories, waits until a matching file stops changing, records it
as a job in SQLite and runs a pipeline of commands for it. A daemon (`onderzeeerd`) runs
any number of such instances in the background. This directory holds TLA+ modules
translated from the Go code, TLC configurations that check them on small instances, and
TLAPS proofs for every instance.

## Inventory

| part | code | state it keeps | operations | what is hard |
|---|---|---|---|---|
| queue | `internal/queue` | tables `jobs`, `runs`, `command_executions` | Enqueue, Claim, StartCommand, CompleteCommand, Succeed, Fail, RecoverRunning | concurrent claimers, late calls of a worker whose job was recovered, retry counting |
| worker pool | `internal/worker` | per worker: the claimed job, the pipeline index, the command id | claim, poll, start, execute, complete, succeed, fail | a stop, crash or failed store call between any two of its store calls |
| daemon instance | `internal/daemon/daemon.go` | a run context, two goroutines | recover, watch and work, cancel, join | everything that outlives its owner |
| watcher, settling | `internal/watcher/{watcher,stable}.go` | pending map with versions, delivered cache, settle goroutines | schedule, settle, handle, record | events racing the goroutine that is about to let go; limits; stops |
| watcher, directories | `internal/watcher/{watcher,root_identity,match}.go` | watched directories and their identities | add, remove, validate, walk | directories moved, replaced or silently unwatched while they are registered; watches that follow the inode; roots replaced |
| executor | `internal/executor` | a process group, bounded output buffers | Execute | time-outs, surviving descendants |
| several instances | `internal/daemon/many.go` | one goroutine per config | compare databases, run all, stop all on the first error | which error is reported; databases that appear while they are compared |
| manager | `internal/control/{manager,registered,registry}.go` | instances, names, owners of configurations and databases, known queues, desired state on disk | start, attached run, known queue, stop, shutdown, restore, retention | start and stop racing finalization, a crash between registry and launch, decisions on a copy of the maps, eviction under a waiting client |
| live logs | `internal/control/logs.go` | ring buffer, subscribers | write, subscribe, cancel, close | slow readers, close against cancel |
| control and web servers | `internal/control/{server,client}.go`, `internal/webui` | socket, lock and token files, listeners | start, serve, shut down; requests over the manager | two daemons and the leftovers of a third on the same paths; a shutdown that takes too long |
| configuration, command line | `internal/config`, `internal/cli` | none | decode, validate, resolve values, compare paths, run | references between values, path identity, the exit code |

The parts meet as follows. The watcher's settle goroutines call `Enqueue` through
`handleFile`; workers poll `Claim`. Both run inside one `daemon.Run`, which recovers
interrupted jobs first and returns only when both have returned. The manager starts
`daemon.Run` once per registered config, on a database of its own below the state directory
(`registered.go:155`), so that the state lock keeps every other daemon off it; two standalone
processes are kept apart only by the advice of `README.md:308`.

What makes each part correct:

* queue: job, run and command rows agree with each other after any sequence of calls; an
  attempt is counted once; finished rows never change;
* workers: a job has one live attempt; commands run in pipeline order; a stop or crash
  strands nothing; every job ends;
* watcher: the latest content of a file reaches the queue whatever the interleaving; the
  limits hold; an entry without a goroutine never exists;
* directories: once the tree rests, all of it is watched and searched or the instance has
  failed; no directory is watched under two names, none beyond the limit;
* manager: one owner per configuration and per database file; what is registered is what runs
  after a restart; a stop is not undone; every instance can be addressed;
* daemon processes: one runs the instances of a state directory at a time; a serving daemon is
  reachable; the dead block nobody;
* a standalone command: an alias of a database is refused, a failure is reported.

PROJECT.json lists the hazards one by one with the properties that would notice them.

## Modules

| module | models | notes |
|---|---|---|
| `JobLifecycle` | the queue's abstract promise: the life of one job per key | no tables, no workers |
| `InstanceLifecycle` | what the daemon promises of registered instances: wishes, what runs, who was told to end | no views, rows, goroutines or requests |
| `DatabaseLeases` | what a worker pool may rely on: an instance has its configuration and its database file for itself | no names, no paths, no requests |
| `QueueStore` | `internal/queue` | a table is a sequence because ids are AUTOINCREMENT and rows are never deleted; a transaction is one action; a refused transaction (`ErrInvalidTransition`) is a disabled action |
| `WorkerPool` | `internal/worker` and `internal/daemon/daemon.go` over `QueueStore` | one action per store call of a worker; a refused call is an explicit disjunct |
| `Settle` | event loop and settle goroutines of `internal/watcher` | one action per critical section of `w.mu`, per stat and per handler call |
| `Manager` | `internal/control/{manager,registered,registry}.go`, the shutdown paths of `server.go` and `cli/daemon.go` | one action per critical section of `manager.mu`; a configuration stands for its instance |
| `WatchSet` | the directory half of `internal/watcher`, `root_identity.go` | one action per system call on the tree or the backend; inotify is the environment |
| `Supervisor` | `internal/control/manager.go` without a registry, `handleRun` | one action per critical section of `manager.mu` |
| `Ownership` | `registry.go`'s lock, `control/server.go`, `webui/server.go`, `cli/daemon.go` across processes | one action per system call on something shared |
| `Standalone` | `config/{config,values,paths}.go`, `daemon/many.go`, `onderzeeer test` | one action per call of the resolver, per stat and per result |
| `MCQueueStore`, `MCWorkerPool`, `MCSettle`, `MCManager`, `MCWatchSet`, `MCSupervisor`, `MCOwnership`, `MCStandalone` | the same on small instances | bounds and symmetry |
| `QueueStoreProofs`, `WorkerPoolProofs`, `SettleProofs`, `WatchSetProofs`, `ManagerProofs`, `SupervisorProofs`, `OwnershipProofs`, `StandaloneProofs` | theorems about the module each is named after | see Proofs |

`WorkerPool` composes the pool, the instance and the queue (it extends `QueueStore`). Three modules
are shown to implement an abstract one, by `INSTANCE ... WITH` and a refinement mapping: `QueueStore`
`JobLifecycle` (`ImplementsLifecycle`), `Manager` `InstanceLifecycle` (`ImplementsInstances`) and
`Supervisor` `DatabaseLeases` (`ImplementsLeases`). The last is about the manager without a registry,
a mode `onderzeeerd` does not use. That one pool is on a database at a time (`SoleInstance`, below)
is in `onderzeeerd` a matter of three other facts: a registered instance has a database named after
its ID, `Manager` has at most one goroutine per instance, and `Ownership` one process per state
directory. The others meet at their edges: `Settle` schedules what `WatchSet` finds, and its `queued` is `Enqueue` of
`QueueStore`; a runner of `Manager`, `Supervisor` and `Standalone` is an instance of `WorkerPool`,
and that a cancelled one returns is `StopCompletes` there; a process of `Ownership` holds one
manager, whose `closed` is the release of the state lock.

Each module has an invariant `...Inv`: the conjunction of its type invariant and of safety
properties that belong together, each a definition of its own.

Operators ending in `Mutant...` are plausible bugs of the definition that follows them.
They are used by nothing; each shows, when put in that definition's place, that a property
notices the bug.

### QueueStore

`jobs[j]`, `runs[r]` and `commands[c]` keep the columns that decide control flow; texts,
times of day and outputs are left out. `now` is the clock that `available_at` is compared
with. `StoreNext` lets any caller make any call with any arguments at any time, so what
holds of it holds for every client and any number of processes on the file. `RecoverRunning`
ignores `max_retries`, as the code does.

### WorkerPool

`worker[w].pc` names the store call a worker makes next; `run`, `step`, `command` and `ok`
are `processJob`'s locals. `Claim` and `StartCommand` run under the run context and
therefore fail once the instance is cancelled; the other calls use `persistenceContext`
and do not. `StoreFault` is a call that fails with its transaction rolled back, `Reject` a
pipeline refused before its command starts (a watch no longer configured, a command invalid
after template expansion). `Execute` is a command of either outcome. An instance dies in
`Crash`, is stopped by `Stop`, or comes down because its watcher returned
(`WatcherFails`, `FirstResult`). `Join` is the end of `daemon.Run`.

### Settle

`pending[f]` is the version of the entry, `settler[f]` the goroutine with its copy of the
version, the last signature and the unchanged polls. A signature is a number; each write
makes a new one. `Fingerprint` is `handleFile`'s choice between the signature and the
constant of `reprocess_on_change: false`. A removal has no effect on the watcher except
through `Lstat`. `Leave` is `Run` returning: it cancels the context and waits in `Joined`
for the goroutines, which may still finish a handler call.

### Manager

This is the registered mode, the only one `onderzeeerd` uses. `registry[c]` is the row on
disk, `view[c]` the instance in memory, `runner[c]` the goroutine of `manager.run` with the
copy of the view it took when the runner returned, `launches[c]` the identity of the current
runtime: a stop remembers it, since it cancels and waits after it has released the mutex.
A start takes the start gate, loads files without the mutex (`BeginStart`) and commits and
launches all its configurations under it (`CommitStart`), or starts none (`RefuseStart`, which
stands for every error, an abandoned request and a name already in use). `mode` is the
daemon's life: `loaded` after `NewManager`, `serving` after `Restore`, `cancelled` once a
signal has cancelled the context, `shutdown`, and `closed` when the registry's lock is free
again. A shutdown that times out ends the process and is a `Crash`.

To `InstanceLifecycle` a wish is the desired state of the row on disk (`wishOf`), an instance is
active while its goroutine lives, finalization included (`activeOf`), and a cancelled context shows
as having been told to end (`toldOf`). The view, its state and the copies taken of it do not appear:
they are what the implementation needs to get there.

### WatchSet

One recursive watch with `process_existing: true`. A directory object (an inode) is a number, a
path a sequence of names, and `fs` says which object is at a path. `listed` and `armed` are
fsnotify's watch list and the kernel's watches: a watch stays with the object when that is moved,
reports under the path it was added with, and the backend drops it when it reads the notice
(`ReadNotice`). `book` is `watchedDirs` with `watchedDirIDs`. A walk (`walkTreeBatched`) is a
sequence of steps between which the tree may change: `OpenDirectory`, the two verifications of
`addDirectory` with `filesystem.Add` between them (`CheckDirectory`, `AddWatch`,
`ConfirmDirectory`), `ReadDirectory`. The code visits the queued directories last in, first out;
the model visits them in any order. `Tick` is the maintenance case of `Run`: root identity, then
`validateFilesystemWatches` with its grace of one interval. `scheduled` is what `Settle` is handed.
An error ends the instance (`mode = "failed"`), which is a legitimate answer to a tree that
changes under the watcher: the properties ask that it never is neither watched nor failed, and that
a tree which only grew within the limit does not fail it. Where directories are moved or removed,
the model allows what the code does: the grace of one interval may run out before a queued event
has been read, and the instance fails although the event would have explained the mismatch.

### Supervisor

`NewManager` without `StateDirectory`, which the package's own tests use and which
`startManyContext`, `trimTerminatedLocked` and the attachments exist for; `onderzeeerd` always
opens a registry, and then `startRegistered` (in `Manager`) takes over. `request[q]` is a request:
the candidates it loaded, and the copy of the owners it is deciding on (`seen`). A start loads and
compares its candidates (`Begin`), may wait for the start gate while configurations are edited and
another start comes and goes, and compares them again inside it (`EnterGate`). `FileOf` is what
`os.SameFile` finds out about paths; it is constant here, so that `validateDatabaseCandidates` need
not tell existing files from missing ones. What a comparison does while a file appears is the
subject of `Standalone`, which has `PathsEquivalent` look by look. Names and IDs are numbers from two overlapping ranges, so that they collide. A lease of
`DatabaseLeases` is an active instance with its configuration and the file, not the path, of its
database (`leaseOf`); `Reserve` takes leases, `Publish` gives one back, nothing else shows.

### Ownership

A process is one life of `onderzeeerd` with its options; its number stands for the identity of the
socket and the token it makes. Flocks, listeners and instances vanish with the process; the socket
and token files stay (`Leftover` is a daemon that died before the first step). `early` marks a
start that failed after the servers were made, whose deferred calls close them in another order.
`told` is the daemon's context being cancelled: by `Signal`, or by `FirstResult` when one of the two
servers of `serveDaemonServers` has returned. A server that is told returns; it may also return
because its listener fails (`EndServing`, `CloseWeb`). `InstancesEnd` is the runners returning,
which `Shutdown` waits for before it closes the registry. `ShutdownFails` has two branches: a
shutdown that times out keeps the state lock, the socket and its lock; one that could not write a
row closes the registry and with it releases the state lock (`manager.go:963`), and keeps the socket
and its lock. `CleanUp` is `daemonCommand`'s deferred second `Shutdown`, which may still release
what a time-out kept before the process ends.

### Standalone

`values[c]` is a graph: the keys a value refers to. `stack` and `mark` are those of
`resolveTemplateValues`, a call of the closure being a push; a resolved value is the set of keys
whose text it contains. `database[c]` is a file, `exists` those that have been created, and
`stats` what `PathsEquivalent` saw of the two paths, left and right in turn. `FoldOf` says which
names are one without regard to case and normalization: missing files of such names are refused
(`SameName`), existing ones are told apart. A runner's error is
the set of its causes, and `IsCancellationFrom` holds of the cancellation alone. `onderzeeer test`
selects one configuration; `RunMany` takes any number, and the model has two.

## Runs

| run | question | bounds |
|---|---|---|
| `queue_store` | do the tables stay consistent, is finished history final, and does each job live the abstract life cycle under any calls? | 2 keys, retry limits 0 and 1, 3 runs, 2 commands, clock 0..1: a retry, a recovery and a second job fit |
| `pool_liveness` | does a worker keep its attempt and the attempts their budget, does anything stay open or stranded, does every job end and every stop complete? | 1 job, 2 workers, 2 steps, both retry limits, one crash, stop, fault and refusal |
| `pool_shared` | two processes on one database: are stale workers fenced off? | 1 job, 2-step pipeline, a restart of either process under the other, 1 fault |
| `pool_at_least_once` | is every job executed at least once? (no, see Findings) | 1 job without retries, 1 stop |
| `settle_races` | are entries, goroutines, cache and queue in step at the limits, and does a limit drop a file? | 2 files, limits of 1, 3 writes, 1 removal, 1 fault |
| `settle_liveness` | with no file removed, is a file's latest content never lost, and is every file queued in the end? | 2 files, 3 writes, settling of 1 poll, 1 fault |
| `settle_lost` | the same with a removal (no, see Findings) | 1 file, 2 writes, 1 removal |
| `manager` | does the daemon implement `InstanceLifecycle`; are acknowledged starts and stops durable and applied to the right runtime, is only what was cancelled waited for, is ownership kept until everything ended, do stops return and wanted instances come back? | 2 configurations, 2 requests, 2 starts, 1 stop, 1 shutdown, 1 crash, 1 failed write |
| `watch_set` | do book, backend and tree agree, and does the watcher see everything or fail? | 2 names, depth 3, 5 directory objects, 1 file, 3 changes of the tree, limit of 4 watches: a move, a replacement at the old name and a second move fit, as does reaching the limit |
| `supervisor` | one owner, one name, one queue per database; does starting and ending come to `DatabaseLeases`, are decisions on a copy sound, and do clients hear the end? | 2 configurations, 3 paths to 2 files, 3 instances, 3 requests, 2 at a time, 1 edit, 1 retained: the first eviction and a reuse of its name fit. An edit moves a configuration to the alias of the first file (`EditsTo`); one client makes attached runs, the other everything else |
| `ownership` | do two daemons ever run the same instances, take each other's socket, or wait for ever? | 2 processes, 2 state directories, 2 sockets, 1 address or none, leftovers of a third; directory and socket of the first process are fixed, since either is as good as the other |
| `standalone` | are values resolved, aliases refused, failures reported and runners ended? | all 512 graphs over 3 keys, 2 configurations, 3 databases of which two differ in case only, any error of each runner, 1 signal |

The violations these properties guard against need two actors and one disturbance, a second
attempt, or an event during a settle; every run has them. Bounds on crashes, stops, faults,
writes and removals are counters in the guards; nothing else is bounded in `WorkerPool`,
`Settle` and `Manager`, whose state spaces are finite because every job has finitely many
attempts and every daemon finitely many starts. `WatchSet` bounds the changes of the tree,
`Supervisor` the requests, `Ownership` the processes; `Standalone` is one run of a command.
Deadlock is checked in the queue and pool runs. In the others it is not: a watcher whose files no
longer change, a daemon without requests and a process that has ended have nothing to do.

### Fairness

`FairPoolSpec` is weakly fair to each worker, to each instance and to the clock: goroutines
are scheduled, timers fire, and a command ends (by itself, by its time-out, or killed). An
instance that is down is started again, which the systemd unit does
(`contrib/systemd/onderzeeer.service`, `Restart=on-failure`) and which is how interrupted
jobs get their next attempt. Nothing is assumed of stops, crashes, faults and discoveries.
`EveryJobEnds` excepts a job stranded by a store call that failed: the code logs it and
leaves the job RUNNING until the next start. It is checked with one job, whose retries compete with
nothing; that jobs waiting for the same worker get their turn rests on two facts outside that run:
a job has finitely many attempts (`PoolAttemptBudget`, for any number of jobs), and a worker that
has ended one goes on to claim. `FairSpec` of `Settle` is the same for the
event loop and each settle goroutine, with `process_existing: true`: files written while the
watcher is down are found only by the scan. `FairSpec` of `Manager` assumes that the daemon's
own steps and requests under way go on, that a cancelled runner returns (`StopCompletes` of
`WorkerPool`) and that a daemon that is down is started again; a runner that nobody cancels may
run for ever, and clients need not ask for anything. `FairSpec` of `Supervisor` is the same for
runners and waiting requests. `FairSpec` of `Ownership` lets a process that was started go on
and a server that was told return (`Serve` selects on the context, and its own shutdown has a
deadline); nobody has to start a process, to signal one, or to let its instances end in time. `FairSpec` of `Standalone` lets the command go on and a cancelled
runner return. `FairSpec` of `WatchSet` is weak for the walk and the backend's reader and strong
for `HandleEvent` and `Tick`: both are cases of one `select`, which Go chooses from at random, so
neither can be passed over for ever. Nothing is assumed of the tree; `Converges` and `FilesFound`
speak of the time after its last change. Failing satisfies them only for a cause (`FailedForCause`):
a tree that only grew, within the limit and with no watch lost, must be watched.

## Proofs

A theorem holds for every value of the constants that the module's `...Assumption` admits: any
number of files, workers, processes, configurations or rows, any limits, any bounds on faults. Each
`...Proofs` module defines an inductive invariant, `...IInv`, as a conjunction of named parts,
proves with one lemma per action that it is kept, and derives the properties of the runs from it.
Each inductive invariant was an invariant of a TLC run before it was proved.

### The queue (`QueueStoreProofs`)

* `StoreConsistent`: `StoreSpec => []StoreInv`. `StoreInv` is the conjunction of
  `StoreTypeOK`, `OneOpenRun`, `AttemptNumbering`, `OutcomeMatchesHistory` and
  `FailedRunsAreClosed`. It is inductive as it stands; its parts are not. `OneOpenRun` needs
  `AttemptNumbering`: when `Succeed` or `Fail` ends a run, the job has no other open run
  because two open runs of a job would carry the same attempt number, and (job, attempt)
  determines the run. `OutcomeMatchesHistory` needs `OneOpenRun`: the run that succeeds is
  the job's last attempt. `FailedRunsAreClosed` needs `StartCommand`'s own guard.
* `StoreTypeCorrect`, `StoreOneOpenRun`, `StoreOutcomeMatchesHistory`: its parts that matter most.
* `StoreHistoryIsFinal`: no step rewrites a finished row. For runs and commands this is in the
  guards; for jobs it follows from `Open` and the clauses of the updates.
* `StoreImplementsLifecycle`: the store implements `JobLifecycle`. The mapping reads a key's job
  out of the table with `CHOOSE`, so it needs `OneJobPerKey` (`StoreOneJobPerKey`), which follows
  from the look-up in `Enqueue`; each transaction is then one step of one key's life, and
  `RecoverRunning` one of many.

The argument has one lemma per transaction over lemmas about tables: what `Append`, a one-row
update and a whole-table update do to the rows.

### The pool (`WorkerPoolProofs`)

* `PoolImplementsStore`: every step of the pool is a step of `StoreSpec` or leaves the tables
  alone; with it, `PoolImplementsLifecycle`, and `StoreInv` in every state of the pool.
* `PoolOneLiveAttempt`, `PoolPipelineInOrder`, `PoolOpenCommandsHaveOpenRuns`, for any number of
  processes on one database. `PoolIInv` adds to `StoreInv` what a worker knows: the run it holds
  is its own, the steps it passed have SUCCEEDED rows, the command it executes is the row it
  started, and no other command of its run is open. The last part is why
  `OpenCommandsHaveOpenRuns` holds, since `Succeed` closes no command.
* `PoolHeldRunsAreOpen`, `PoolAbandonedOnlyByFaults`, `PoolAttemptBudget` (`PoolInv`) assume
  `SoleInstance`, one instance on the database, which is what `README.md:308` advises and what
  managed instances have, each with a database of its own (`registered.go:155`). Without it the first is false, and that is what `pool_shared` is about.
  `SoleIInv` says that a holder's run is open and that an instance that is down holds nothing.
  The budget is inductive only with a case: a job that is QUEUED or abandoned has one attempt
  less to its name, since its next claim or recovery spends it.

### The watcher's files (`SettleProofs`)

`SettleIInv` is an invariant per file (`FileInv`) and the limit of the pending map. `SettleSafe`
follows: `PendingHasSettler`, `DeliveredIsQueued`, `PendingBounded` and, from `NoLossIInv` below as
long as nothing has been removed, `LimitsLoseNothing`, which says that neither a full pending map nor
an eviction drops a file. `SettleNoLostFile` assumes `MaxRemovals = 0` and
`ProcessExisting`: with a removal it is false (finding 2), and without the scan a file written
while the watcher is down is nobody's. Its invariant, `NoLossIInv`, says who still has to look at
a file whose content is not in the queue: an event, an entry or the scan; and that a goroutine that
has seen another content than the one on disk has an event coming or a version to find changed.

### The watcher's directories (`WatchSetProofs`)

`WatchSetSafe` (`WatchSetInv`) and `WatchSetNoWatchLeaks`, for any finite set of paths
(`PathsAreFinite`). `WatchSetIInv` says what `CheckDirectory` found out and nobody can undo before
the directory is booked (`AddingInv`): its object is booked under no other path, it is not listed
yet, and unless it is booked already there is room in the book. `NoAliases` is kept by the first of
these when `ConfirmDirectory` books. The bound on the watches is not inductive by itself: it is
the book that is limited, and the watches are bounded through it, because every armed object is
listed (`ArmedAreListed`) and every listed path is booked (`NoWatchLeaks`), so that when `AddWatch`
arms one more, the booked paths other than the one being added outnumber the watches
(`RoomForWatch`). The types need two facts about operators: that `Remaining` finds an event for
every place of the shorter queue (`RankExists`), and that `Precedes` orders the mismatches totally,
so that there is a `Least` one to report (`LeastIsMember`).

### The manager (`ManagerProofs`, `SupervisorProofs`)

* `ManagerSafe`, `ManagerCancelledOnlyIfAsked`, `ManagerStoppedStaysStopped`. `ManagerIInv` relates
  a goroutine to the view it was started from (`RunnerInv`), what memory and disk want (`WishInv`)
  and what a request remembers across the mutex (`RequestInv`): a stop's launch number is at most
  the current one, and if it is the current one the instance is still wanted stopped.
* `ManagerImplementsInstances`: every step is a step of `InstanceLifecycle` or invisible there. It
  rests on `ManagerIInv` and on `QuietUntilRestored`: between `NewManager` and `Restore` nothing
  runs and no request is under way, so that what `Restore` launches is everything that runs.
  `CancelRuntime` is a step of the life cycle only because `ManagerIInv` knows that a stop whose
  runtime is still the current one is still wanted: otherwise it would be telling an instance
  to end that nobody wants stopped. `Finalize` writes the row and yet changes no wish, which is
  `FinalView` taking the desired state from the view of now and not from its copy.
* `ManagerWaitsForTheCancelled`: the part of `ManagerInv` that is the safety core of `StopsReturn`.
  Nobody waits for a runtime that was not told to end. `WaitIInv` adds that a waiting stop's launch
  number is never ahead of the current one: a launch after it then makes the number another one for
  ever, and what the stop waits for is `Done`. What is left to fairness is that a cancelled runner
  returns.
* `SupervisorOneOwner`, `SupervisorAddressable`, `SupervisorSafe`, `SupervisorBusyMeansActive`.
  `SupervisorIInv` says that the owners' maps hold what the active instances use and nothing else
  (`OwnersInv`), that names, IDs and instances are inverse to each other (`ListedInv`), that every
  alias in the catalogue reaches the file of its entry (`KnownInv`), that a start holds distinct
  candidates it has checked (`RequestInv`) and that the IDs of ended instances are within the limit
  (`RetentionInv`). `OneOwner` is then read off the maps: `Reserve` found no owner in a copy that is
  equal to the maps now. The retention bound is inductive because the end of an instance adds one
  to a full list only if it also evicts one: a finite set of ended instances has a first.
* `SupervisorImplementsLeases`: `Reserve` takes the leases of its instances at once, `Publish` drops
  one, every other step leaves them alone. That new leases share nothing with others is `OneOwner`
  of the next state; that instances, once numbered, keep their configuration and database through
  stopping and finalization is `SameIdentities`, which each step of an instance is shown to keep.

Both assume finitely many configurations, which is all a directory or a command line can name.

### Processes and commands (`OwnershipProofs`, `StandaloneProofs`)

* `OwnershipSafe`, `OwnershipServingIsReachable`, `OwnershipRefusedByTheLiving`. `OwnershipIInv`
  says at which step a process holds which of the locks, files and listeners, so that the locks
  exclude each other. A step of one process then disturbs no other: it takes only free locks,
  releases only its own, and touches a socket only under the lock of its path. Instances run only
  between `Restore` and the release of the state lock, a timed-out shutdown included.
* `StandaloneAliasNeverMissed`, `StandaloneSafe`. `CompareInv` says that all pairs before the
  current one have different databases and that, of looks at one file, none misses what an earlier
  one found; `RunInv` and `ExitInv` follow a runner's error into the exit code.
* `StandaloneValuesResolved`: what the depth-first walk of `resolveTemplateValues` computes, for any
  set of keys and any references between them. `Reach` is defined as the least set that holds a key
  and is closed under references, so that no induction over paths is needed: a set that contains the
  key and is closed contains `Reach` (`ReachIsLeast`), and `Reach` of a key is the key and the
  `Reach` of what it refers to (`ReachUnfolds`). `WalkInv` says that keys marked 2 refer only to keys
  marked 2, hold what they reach and are on no cycle (`KeyRight`); that a frame's text is that of the
  references it has seen (`FrameRight`); and that the stack is a path of references through exactly
  the keys marked 1, each once (`PathRight`). A key that is popped is on no cycle because the keys
  marked 2 are closed and it was not among them; a reference to a key marked 1 closes a cycle because
  the stack from that key on is a path.

### Only model-checked

All liveness (`EveryJobEnds`, `StopCompletes`, `EveryFileQueued`, `StopsReturn`,
`DesiredIsRestored`, `Converges`, `RootLossDetected`, `FilesFound`, `EveryStepCompletes`,
`ClientsHearTheEnd`, `FailureEndsAll`): it rests on fairness, which is out of the prover's reach.
Every invariant, action property and refinement of a passing run has a theorem.

Steps about a `CHOOSE` (`JobOf`, `QueueIdentity`, `Keyed`, `SetToSeq`) are left to Zenon and reduced
to facts about the chosen value before the SMT solver sees them.

## Findings

1. *At least once.* `README.md:482` promises "Execution is **at least once**". A stop that
   falls between `Claim` and `StartCommand` makes `StartCommand` fail with the cancelled
   context (`worker.go:252`), and `failJob` records a failed attempt. Without retries left the
   job is FAILED and no command of it was ever started (`pool_at_least_once`).
2. *A lost file.* `settle` deletes its entry when the file does not exist, without comparing
   versions (`watcher.go:822`). If the file is created again in between and its event has
   raised the version of that very entry, the event is lost with it and the new file stays
   unqueued until it changes again (`settle_lost`). `settle_liveness` shows that removal is
   the only such case in the model.

Three observations without a run of their own, each a reading of the code that the models contain:

* `removeAccessToken` (`webui/server.go:156`) reads, compares and removes the token after the
  control server has released the socket's lock. A daemon that starts in between may write its
  token between the two and lose it, and then no token lies beside its socket. `OwnershipInv`
  therefore only excludes a foreign token.
* A comment in `walkTreeBatched` (`watcher.go:631`) says of a child that disappears or is replaced
  "continue with sibling directories instead of failing the instance". The walk goes on after
  `errQueuedDirectoryChanged`, which `scanDirectoryBatched` returns before the visit; a child
  replaced a moment later makes `addDirectory` return `ErrDirectoryChanged` alone, which fails the
  instance (`CheckDirectory`, `ConfirmDirectory`).
* `daemon.Run` drops any error that contains a cancellation (`daemon.go:112`, `errors.Is`), so that
  `runMany`'s stricter `isCancellationFrom` never sees an error joined of a cancellation and a
  failure of one of its daemons. `Standalone` allows such errors, as `runnerFunc` does.

## Not modelled

* SQLite itself (a transaction is atomic and durable; with `synchronous=NORMAL` a power failure
  may lose the last commits), schema migration, history queries, output capture. A store call that
  took effect and yet reported an error (a context cancelled while the driver returns) is not
  distinguished from one that was rolled back.
* Live logs (`control/logs.go`): only an attached run reads a log stream, and the daemon refuses
  attached runs because it always has a registry; no property of an instance depends on a line.
* The executor's process groups and time-outs: what a command does outside the queue. A crash of
  the daemon may leave a command running beside the recovered job.
* Several watches that share directories; symbolic links, which every walk skips; permissions.
* Pure conversions: YAML decoding, defaults and field validation, template expansion per job,
  glob matching, instance names as text, command lines of containers, JSON, HTTP status codes,
  the client, the web frontend, flags and printing.

## Plan

Modelling and proofs have reached what the plan set out to do: each invariant, each action property
and each refinement that a passing run checks is a theorem, and liveness is checked by TLC.
What would come next is a composition of `WorkerPool` with `Manager` and `Ownership`, so that
`SoleInstance` becomes a conclusion for the databases below one state directory.

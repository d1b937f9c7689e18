------------------------------ MODULE Manager ------------------------------
(***************************************************************************)
(* internal/control's manager in the registered mode onderzeeerd uses: the *)
(* registry on disk, the instance map in memory, and the requests, runner  *)
(* goroutines, signals and restarts that meet in them. A critical section  *)
(* of manager.mu is one action. A configuration stands for its instance:   *)
(* config_identity is UNIQUE in the registry, and an instance keeps its    *)
(* ID, name and database for good.                                         *)
(***************************************************************************)
EXTENDS Integers, FiniteSets

CONSTANTS Configs,       \* configuration files, by identity
          Requests,      \* client requests in progress at a time
          NoConfig,      \* no configuration
          MaxStarts,     \* bound: start requests
          MaxCrashes,    \* bound: deaths of the daemon
          MaxSignals,    \* bound: orderly ends of the daemon
          MaxStops,      \* bound: stop requests
          MaxFaults      \* bound: registry writes that fail, snapshots that do not validate

ASSUME ManagerAssumption ==
    /\ {MaxStarts, MaxCrashes, MaxSignals, MaxStops, MaxFaults} \subseteq Nat
    /\ IsFiniteSet(Configs)
    /\ NoConfig \notin Configs

VARIABLES registry,    \* durable: registry[c], the row of c, state "absent" for none
          mode,        \* the daemon process
          view,        \* view[c]: runtime.view of the instance of c
          usable,      \* usable[c]: runtime.config is not nil
          runner,      \* runner[c]: the goroutine of manager.run
          request,     \* request[q]: a client request
          waiting,     \* runtimes Shutdown waits for
          launches,    \* launches[c]: identifies the runtime of c
          starts, crashes, signals, stops, faults   \* what happened so far

budgets == <<starts, crashes, signals, stops, faults>>
vars == <<registry, mode, view, usable, runner, request, waiting, launches, budgets>>

States == {"absent", "running", "stopping", "exited", "failed"}
View == [state : States, desired : {"running", "stopped"}]
Runner == [pc : {"none", "running", "finalizing"}, final : View, cancelled : BOOLEAN]
Request == [pc : {"idle", "loading", "cancel", "wait"}, configs : SUBSET Configs,
            target : Configs \cup {NoConfig}, launch : Nat]

\* "cancelled": the daemon's context is done, Shutdown has not begun.
\* "closed": Shutdown returned, the registry and its lock are released.
Modes == {"down", "loaded", "serving", "cancelled", "shutdown", "closed"}

Absent == [state |-> "absent", desired |-> "stopped"]
NoRunner == [pc |-> "none", final |-> Absent, cancelled |-> FALSE]
Idle == [pc |-> "idle", configs |-> {}, target |-> NoConfig, launch |-> 0]

ManagerTypeOK == /\ registry \in [Configs -> View]
                 /\ mode \in Modes
                 /\ view \in [Configs -> View]
                 /\ usable \in [Configs -> BOOLEAN]
                 /\ runner \in [Configs -> Runner]
                 /\ request \in [Requests -> Request]
                 /\ waiting \subseteq Configs
                 /\ launches \in [Configs -> Nat]
                 /\ starts \in 0..MaxStarts
                 /\ crashes \in 0..MaxCrashes
                 /\ signals \in 0..MaxSignals
                 /\ stops \in 0..MaxStops
                 /\ faults \in 0..MaxFaults

Init == /\ registry = [c \in Configs |-> Absent]
        /\ mode = "down"
        /\ view = [c \in Configs |-> Absent]
        /\ usable = [c \in Configs |-> FALSE]
        /\ runner = [c \in Configs |-> NoRunner]
        /\ request = [q \in Requests |-> Idle]
        /\ waiting = {}
        /\ launches = [c \in Configs |-> 0]
        /\ starts = 0 /\ crashes = 0 /\ signals = 0 /\ stops = 0 /\ faults = 0

Known(c) == view[c].state # "absent"
Active(c) == view[c].state \in {"running", "stopping"}

\* manager.shuttingDown || manager.ctx.Err() != nil, negated.
Accepting == mode \in {"loaded", "serving"}

GateFree == \A q \in Requests : request[q].pc # "loading"

Running == [state |-> "running", desired |-> "running"]

----------------------------------------------------------------------------
(* Launching: the rows are committed, then the runtimes published and their *)
(* goroutines started, all under manager.mu.                                *)

Launch(S, new) ==
    /\ registry' = [c \in Configs |-> IF c \in S THEN new[c] ELSE registry[c]]
    /\ view' = [c \in Configs |-> IF c \in S THEN new[c] ELSE view[c]]
    /\ usable' = [c \in Configs |-> c \in S \/ usable[c]]
    /\ runner' = [c \in Configs |-> IF c \in S THEN [NoRunner EXCEPT !.pc = "running"]
                                               ELSE runner[c]]
    /\ launches' = [c \in Configs |-> IF c \in S THEN launches[c] + 1 ELSE launches[c]]

Started(S) == Launch(S, [c \in S |-> Running])

\* startRegistered takes the start gate and loads the files without the mutex.
BeginStart(q, S) ==
    /\ mode = "serving"
    /\ starts < MaxStarts
    /\ starts' = starts + 1
    /\ request[q].pc = "idle" /\ GateFree
    /\ request' = [request EXCEPT ![q] = [Idle EXCEPT !.pc = "loading", !.configs = S]]
    /\ UNCHANGED <<registry, mode, view, usable, runner, waiting, launches, crashes, signals,
                   stops, faults>>

\* Mutant: no second look at shuttingDown once the files are loaded.
CommitStartMutantNoRecheck(q) ==
    /\ request[q].pc = "loading"
    /\ mode # "down"
    /\ \A c \in request[q].configs : ~Active(c)
    /\ Started(request[q].configs)
    /\ request' = [request EXCEPT ![q] = Idle]
    /\ UNCHANGED <<mode, waiting, budgets>>

CommitStart(q) ==
    /\ request[q].pc = "loading"
    /\ Accepting
    /\ \A c \in request[q].configs : ~Active(c)
    /\ Started(request[q].configs)
    /\ request' = [request EXCEPT ![q] = Idle]
    /\ UNCHANGED <<mode, waiting, budgets>>

\* A file does not load or validate, one of them is active, the client went
\* away, the registry refuses, the daemon is ending: nothing is started.
RefuseStart(q) ==
    /\ request[q].pc = "loading"
    /\ request' = [request EXCEPT ![q] = Idle]
    /\ UNCHANGED <<registry, mode, view, usable, runner, waiting, launches, budgets>>

\* A name, an ID or a known queue: the stored snapshot starts again.
ResumeRegistered(c) ==
    /\ mode = "serving" /\ GateFree
    /\ starts < MaxStarts
    /\ starts' = starts + 1
    /\ Known(c) /\ ~Active(c) /\ usable[c]
    /\ Started({c})
    /\ UNCHANGED <<mode, request, waiting, crashes, signals, stops, faults>>

----------------------------------------------------------------------------
(* Stop: the wish is made durable under the mutex, then the runtime found   *)
(* there is cancelled and awaited without it.                               *)

StopRequest(q, c) ==
    /\ mode = "serving"
    /\ stops < MaxStops
    /\ stops' = stops + 1
    /\ request[q].pc = "idle"
    /\ Known(c)
    /\ registry' = [registry EXCEPT ![c] = [view[c] EXCEPT !.desired = "stopped"]]
    /\ view' = [view EXCEPT ![c] = [state |-> IF Active(c) THEN "stopping" ELSE @.state,
                                    desired |-> "stopped"]]
    /\ request' = IF Active(c)
                  THEN [request EXCEPT ![q] = [Idle EXCEPT !.pc = "cancel", !.target = c,
                                                           !.launch = launches[c]]]
                  ELSE request
    /\ UNCHANGED <<mode, usable, runner, waiting, launches, starts, crashes, signals, faults>>

\* Mutant: the instance is looked up again, and whatever runs now is cancelled.
CancelRuntimeMutantAnyLaunch(q) ==
    /\ request[q].pc = "cancel"
    /\ runner' = [runner EXCEPT ![request[q].target].cancelled = @ \/ Active(request[q].target)]
    /\ request' = [request EXCEPT ![q].pc = "wait"]
    /\ UNCHANGED <<registry, mode, view, usable, waiting, launches, budgets>>

\* Mutant: the stop waits and cancels nothing.
CancelRuntimeMutantOnlyWaits(q) ==
    /\ request[q].pc = "cancel"
    /\ request' = [request EXCEPT ![q].pc = "wait"]
    /\ UNCHANGED <<registry, mode, view, usable, runner, waiting, launches, budgets>>

\* cancel() of the runtime found under the mutex, not of a later one.
CancelRuntime(q) ==
    LET c == request[q].target
    IN  /\ request[q].pc = "cancel"
        /\ runner' = IF runner[c].pc # "none" /\ launches[c] = request[q].launch
                     THEN [runner EXCEPT ![c].cancelled = TRUE] ELSE runner
        /\ request' = [request EXCEPT ![q].pc = "wait"]
        /\ UNCHANGED <<registry, mode, view, usable, waiting, launches, budgets>>

Done(c, n) == runner[c].pc = "none" \/ launches[c] # n

StopReturns(q) ==
    /\ request[q].pc = "wait"
    /\ Done(request[q].target, request[q].launch)
    /\ request' = [request EXCEPT ![q] = Idle]
    /\ UNCHANGED <<registry, mode, view, usable, runner, waiting, launches, budgets>>

\* The client's context ends first.
StopGivesUp(q) ==
    /\ request[q].pc = "wait"
    /\ request' = [request EXCEPT ![q] = Idle]
    /\ UNCHANGED <<registry, mode, view, usable, runner, waiting, launches, budgets>>

----------------------------------------------------------------------------
(* manager.run: the runner returns, the outcome is decided on a copy of the *)
(* view, logs are closed without the mutex, and the copy is published.      *)

RunnerReturns(c, state) ==
    /\ runner[c].pc = "running"
    /\ state \in {"exited", "failed"}
    /\ runner' = [runner EXCEPT ![c].pc = "finalizing",
                                ![c].final = [view[c] EXCEPT !.state = state]]
    /\ UNCHANGED <<registry, mode, view, usable, request, waiting, launches, budgets>>

\* Mutant: the copy's desired state overwrites that of a Stop in between.
FinalViewMutantStale(c) == runner[c].final

\* view.DesiredState = runtime.view.DesiredState.
FinalView(c) == [runner[c].final EXCEPT !.desired = view[c].desired]

\* A row that cannot be written is reported by Shutdown; the instance ends anyway.
Finalize(c) ==
    /\ runner[c].pc = "finalizing"
    /\ view' = [view EXCEPT ![c] = FinalView(c)]
    /\ \/ registry' = [registry EXCEPT ![c] = FinalView(c)] /\ UNCHANGED faults
       \/ faults < MaxFaults /\ faults' = faults + 1 /\ UNCHANGED registry
    /\ runner' = [runner EXCEPT ![c] = NoRunner]
    /\ waiting' = waiting \ {c}
    /\ UNCHANGED <<mode, usable, request, launches, starts, crashes, signals, stops>>

----------------------------------------------------------------------------
(* The daemon process.                                                      *)

\* NewManager: openRegistry and loadRegistered. What was active when the row was
\* written is not any more; a snapshot may no longer validate.
Load ==
    /\ mode = "down"
    /\ \E invalid \in SUBSET {c \in Configs : registry[c].state # "absent"} :
         /\ faults + Cardinality(invalid) <= MaxFaults
         /\ faults' = faults + Cardinality(invalid)
         /\ usable' = [c \in Configs |-> registry[c].state # "absent" /\ c \notin invalid]
         /\ view' = [c \in Configs |->
                       IF c \in invalid THEN [registry[c] EXCEPT !.state = "failed"]
                       ELSE IF registry[c].state \in {"running", "stopping"}
                       THEN [registry[c] EXCEPT !.state = "exited"]
                       ELSE registry[c]]
    /\ mode' = "loaded"
    /\ UNCHANGED <<registry, runner, request, waiting, launches, starts, crashes, signals, stops>>

\* Mutant: only what the last daemon left active is resumed.
ToRestoreMutantOnlyActive == {c \in Configs : /\ registry[c].state \in {"running", "stopping"}
                                              /\ usable[c]}

\* Mutant: every registered instance is resumed.
ToRestoreMutantAll == {c \in Configs : Known(c) /\ ~Active(c) /\ usable[c]}

ToRestore == {c \in Configs : view[c].desired = "running" /\ Known(c) /\ ~Active(c) /\ usable[c]}

\* Restore resumes what is desired, before the first request is served.
Restore ==
    /\ mode = "loaded"
    /\ Launch(ToRestore, [c \in ToRestore |-> [view[c] EXCEPT !.state = "running"]])
    /\ mode' = "serving"
    /\ UNCHANGED <<request, waiting, budgets>>

CancelAll == runner' = [c \in Configs |-> IF runner[c].pc # "none"
                                          THEN [runner[c] EXCEPT !.cancelled = TRUE]
                                          ELSE runner[c]]

\* SIGTERM cancels the daemon's context, of which every runtime's is a child.
Signal ==
    /\ Accepting
    /\ signals < MaxSignals
    /\ signals' = signals + 1
    /\ mode' = "cancelled"
    /\ CancelAll
    /\ UNCHANGED <<registry, view, usable, request, waiting, launches, starts, crashes, stops,
                   faults>>

\* manager.Shutdown marks and cancels what is active.
BeginShutdown ==
    /\ mode' = "shutdown"
    /\ view' = [c \in Configs |-> IF Active(c) THEN [view[c] EXCEPT !.state = "stopping"]
                                               ELSE view[c]]
    /\ waiting' = {c \in Configs : Active(c)}
    /\ CancelAll
    /\ UNCHANGED <<registry, usable, request, launches, starts, crashes, stops, faults>>

Shutdown == mode = "cancelled" /\ BeginShutdown /\ UNCHANGED signals

\* Serve fails by itself and shuts the manager down.
ServeFails ==
    /\ mode = "serving"
    /\ signals < MaxSignals
    /\ signals' = signals + 1
    /\ BeginShutdown

\* All are done: the registry is closed and its lock released.
ShutdownReturns ==
    /\ mode = "shutdown" /\ waiting = {}
    /\ mode' = "closed"
    /\ UNCHANGED <<registry, view, usable, runner, request, waiting, launches, budgets>>

Vanish == /\ mode' = "down"
          /\ view' = [c \in Configs |-> Absent]
          /\ usable' = [c \in Configs |-> FALSE]
          /\ runner' = [c \in Configs |-> NoRunner]
          /\ request' = [q \in Requests |-> Idle]
          /\ waiting' = {}

Exit == /\ mode = "closed"
        /\ Vanish
        /\ UNCHANGED <<registry, launches, budgets>>

\* The daemon dies, or leaves because Shutdown took too long.
Crash == /\ mode \notin {"down", "closed"}
         /\ crashes < MaxCrashes
         /\ crashes' = crashes + 1
         /\ Vanish
         /\ UNCHANGED <<registry, launches, starts, signals, stops, faults>>

----------------------------------------------------------------------------

RunnerStep(c) == (\E state \in {"exited", "failed"} : RunnerReturns(c, state)) \/ Finalize(c)

RequestStep(q) == CommitStart(q) \/ RefuseStart(q) \/ CancelRuntime(q) \/ StopReturns(q)

DaemonStep == Load \/ Restore \/ Shutdown \/ ShutdownReturns \/ Exit

Client == \/ \E q \in Requests : \/ \E S \in SUBSET Configs \ {{}} : BeginStart(q, S)
                                 \/ \E c \in Configs : StopRequest(q, c)
                                 \/ StopGivesUp(q)
          \/ \E c \in Configs : ResumeRegistered(c)

Next == \/ \E c \in Configs : RunnerStep(c)
        \/ \E q \in Requests : RequestStep(q)
        \/ DaemonStep
        \/ Client
        \/ Signal \/ ServeFails
        \/ Crash

Spec == Init /\ [][Next]_vars

\* A cancelled runner returns, goroutines are scheduled, a daemon that is down is
\* started again. A runner that nobody cancels may run for ever.
FairSpec == /\ Spec
            /\ WF_vars(DaemonStep)
            /\ \A q \in Requests : WF_vars(RequestStep(q))
            /\ \A c \in Configs : /\ WF_vars(runner[c].cancelled /\ RunnerStep(c))
                                  /\ WF_vars(Finalize(c))

----------------------------------------------------------------------------

\* What the registry would restore is what was last acknowledged: every start and
\* stop is on disk before it is visible, and no finalization takes one back.
DesiredIsDurable ==
    mode # "down" => \A c \in Configs : /\ registry[c].desired = view[c].desired
                                        /\ Known(c) <=> registry[c].state # "absent"

\* A running instance is cancelled only if it was itself stopped or the daemon
\* ends: the late cancel() of an earlier stop does not reach a later start.
CancelledOnlyIfAsked ==
    \A c \in Configs : (Accepting /\ runner[c].cancelled) => view[c].desired = "stopped"

\* An instance that was stopped is on its way down, and one that runs is wanted:
\* neither a restart of the daemon nor a start racing the stop revives it.
StoppedStaysStopped ==
    \A c \in Configs : (runner[c].pc = "running" /\ view[c].desired = "stopped") =>
        \/ runner[c].cancelled
        \/ \E q \in Requests : /\ request[q].pc = "cancel"
                               /\ request[q].target = c
                               /\ request[q].launch = launches[c]

\* Whoever waits for a runtime, a stop or Shutdown, waits for one that was told to end,
\* though others replace, finalize or cancel it at the same time.
WaitsForTheCancelled ==
    /\ \A q \in Requests : request[q].pc = "wait" =>
          \/ Done(request[q].target, request[q].launch)
          \/ runner[request[q].target].cancelled
    /\ \A c \in waiting : runner[c].cancelled

\* Ownership is released only when nothing runs: Shutdown misses no instance,
\* whatever starts were under way when it began.
ReleasedOnlyWhenIdle == mode = "closed" => \A c \in Configs : runner[c].pc = "none"

\* Memory, disk and goroutines agree: acknowledged wishes are durable, what is waited for
\* will end, and what the daemon owns it owns until the last runtime has ended.
ManagerInv == /\ ManagerTypeOK
              /\ DesiredIsDurable
              /\ WaitsForTheCancelled
              /\ ReleasedOnlyWhenIdle

\* A stop that was accepted returns.
StopsReturn == \A q \in Requests : request[q].pc = "cancel" ~> request[q].pc = "idle"

\* A wanted instance with a valid snapshot is active again after every end of the
\* daemon, an orderly one included.
DesiredIsRestored ==
    \A c \in Configs :
        (mode = "down" /\ registry[c].desired = "running") ~>
            (Active(c) \/ (mode = "serving" /\ (registry[c].desired = "stopped" \/ ~usable[c])))

----------------------------------------------------------------------------
(* The manager implements the abstract life cycle of registered instances.  *)

daemonOf == CASE mode = "down" -> "down"
              [] mode = "loaded" -> "restoring"
              [] mode = "serving" -> "up"
              [] mode \in {"cancelled", "shutdown"} -> "ending"
              [] mode = "closed" -> "released"

wishOf == [c \in Configs |-> IF registry[c].state = "absent" THEN "never"
                                                            ELSE registry[c].desired]

validOf == {c \in Configs : usable[c]}
activeOf == {c \in Configs : runner[c].pc # "none"}
toldOf == {c \in Configs : runner[c].cancelled}

Instances == INSTANCE InstanceLifecycle WITH
    daemon <- daemonOf, wish <- wishOf, valid <- validOf, active <- activeOf, told <- toldOf

\* The manager implements InstanceLifecycle: the rows on disk change only as accepted
\* starts and stops say, whatever is finalized, cancelled, shut down or lost in between.
ImplementsInstances == Instances!Spec

=============================================================================

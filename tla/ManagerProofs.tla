---------------------------- MODULE ManagerProofs ----------------------------
(***************************************************************************)
(* Proofs about Manager, for any finite set of configurations, any number  *)
(* of requests at a time and any bounds.                                   *)
(***************************************************************************)
EXTENDS Manager, FiniteSetTheorems, TLAPS

\* A stop of the runtime of c has been accepted and has not cancelled it yet.
StopUnderWay(c) == \E q \in Requests : /\ request[q].pc = "cancel"
                                       /\ request[q].target = c
                                       /\ request[q].launch = launches[c]

\* A goroutine exists exactly while its instance counts as active.
RunnerInv(c) ==
    /\ runner[c].pc # "none" <=> Active(c)
    /\ runner[c].pc = "none" => ~runner[c].cancelled
    /\ runner[c].pc = "finalizing" => runner[c].final.state \in {"exited", "failed"}
    /\ mode = "down" => runner[c].pc = "none"
    /\ mode \in {"shutdown", "closed"} => (runner[c].pc = "none" \/ c \in waiting)

\* What the registry knows of c and what is wanted of it.
WishInv(c) ==
    /\ mode # "down" => /\ registry[c].desired = view[c].desired
                        /\ Known(c) <=> registry[c].state # "absent"
    /\ (Accepting /\ runner[c].cancelled) => view[c].desired = "stopped"
    /\ (runner[c].pc = "running" /\ view[c].desired = "stopped") =>
           (runner[c].cancelled \/ StopUnderWay(c))

\* A stop that has yet to cancel knows the runtime it was accepted for; while that
\* one is the current one, the instance is wanted stopped.
RequestInv(q) ==
    /\ request[q].pc \in {"cancel", "wait"} => request[q].target \in Configs
    /\ mode = "down" => request[q].pc = "idle"
    /\ request[q].pc = "cancel" =>
          /\ request[q].launch <= launches[request[q].target]
          /\ request[q].launch = launches[request[q].target] =>
                view[request[q].target].desired = "stopped"

ManagerIInv == /\ ManagerTypeOK
               /\ \A c \in Configs : RunnerInv(c) /\ WishInv(c)
               /\ \A q \in Requests : RequestInv(q)
               /\ mode = "closed" => waiting = {}

\* Until Restore is done nothing runs and nobody is served.
QuietUntilRestored ==
    mode = "loaded" => /\ \A c \in Configs : runner[c].pc = "none"
                       /\ \A q \in Requests : request[q].pc = "idle"

-----------------------------------------------------------------------------
(* The values the variables take.                                           *)

\* The bounds are numbers, and there are finitely many configurations.
LEMMA BoundTypes ==
    /\ MaxStarts \in Nat /\ MaxCrashes \in Nat /\ MaxSignals \in Nat
    /\ MaxStops \in Nat /\ MaxFaults \in Nat
    /\ IsFiniteSet(Configs)
  BY ManagerAssumption

\* The initial values have their types.
LEMMA InitialRows ==
    /\ Absent \in View /\ Absent.state = "absent" /\ Absent.desired = "stopped"
    /\ Running \in View /\ Running.state = "running" /\ Running.desired = "running"
    /\ NoRunner \in Runner /\ NoRunner.pc = "none" /\ NoRunner.cancelled = FALSE
    /\ Idle \in Request /\ Idle.pc = "idle"
  BY DEF Absent, Running, NoRunner, Idle, View, States, Runner, Request

\* A goroutine that has just been started.
LEMMA FreshRunner ==
    LET fresh == [NoRunner EXCEPT !.pc = "running"]
    IN  fresh \in Runner /\ fresh.pc = "running" /\ ~fresh.cancelled
  BY InitialRows DEF NoRunner, Runner

\* Launching gives each of S its row, its view, a fresh goroutine and a new number.
LEMMA LaunchRows ==
    ASSUME ManagerTypeOK, NEW S \in SUBSET Configs, NEW new \in [S -> View], Launch(S, new)
    PROVE  /\ registry' \in [Configs -> View] /\ view' \in [Configs -> View]
           /\ usable' \in [Configs -> BOOLEAN] /\ runner' \in [Configs -> Runner]
           /\ launches' \in [Configs -> Nat]
           /\ \A c \in S : /\ registry'[c] = new[c] /\ view'[c] = new[c]
                           /\ runner'[c].pc = "running" /\ ~runner'[c].cancelled
                           /\ launches'[c] = launches[c] + 1
           /\ \A c \in Configs \ S : /\ registry'[c] = registry[c] /\ view'[c] = view[c]
                                     /\ runner'[c] = runner[c] /\ launches'[c] = launches[c]
  <1>1. registry' \in [Configs -> View] /\ view' \in [Configs -> View]
    BY DEF Launch, ManagerTypeOK
  <1>2. usable' \in [Configs -> BOOLEAN]
    BY DEF Launch, ManagerTypeOK
  <1>3. runner' \in [Configs -> Runner]
    BY FreshRunner DEF Launch, ManagerTypeOK
  <1>4. launches' \in [Configs -> Nat]
    BY DEF Launch, ManagerTypeOK
  <1>5. ASSUME NEW c \in S
        PROVE  /\ registry'[c] = new[c] /\ view'[c] = new[c]
               /\ runner'[c].pc = "running" /\ ~runner'[c].cancelled
               /\ launches'[c] = launches[c] + 1
    BY FreshRunner DEF Launch, ManagerTypeOK
  <1>6. ASSUME NEW c \in Configs \ S
        PROVE  /\ registry'[c] = registry[c] /\ view'[c] = view[c]
               /\ runner'[c] = runner[c] /\ launches'[c] = launches[c]
    BY DEF Launch, ManagerTypeOK
  <1> QED BY <1>1, <1>2, <1>3, <1>4, <1>5, <1>6

\* A daemon that has never run satisfies the invariant.
LEMMA ManagerInitHolds == Init => ManagerIInv
  <1> SUFFICES ASSUME Init PROVE ManagerIInv
    OBVIOUS
  <1>1. ManagerTypeOK
    <2>1. 0 \in 0..MaxStarts /\ 0 \in 0..MaxCrashes /\ 0 \in 0..MaxSignals /\ 0 \in 0..MaxStops
          /\ 0 \in 0..MaxFaults
      BY BoundTypes
    <2>2. mode \in Modes
      BY DEF Init, Modes
    <2> QED BY <2>1, <2>2, InitialRows DEF Init, ManagerTypeOK
  <1>2. ASSUME NEW c \in Configs PROVE RunnerInv(c) /\ WishInv(c)
    <2>1. runner[c].pc = "none" /\ ~runner[c].cancelled /\ view[c].state = "absent" /\ mode = "down"
      BY InitialRows DEF Init
    <2> QED BY <2>1 DEF RunnerInv, WishInv, Active, Accepting
  <1>3. ASSUME NEW q \in Requests PROVE RequestInv(q)
    <2>1. request[q].pc = "idle"
      BY InitialRows DEF Init
    <2> QED BY <2>1 DEF RequestInv
  <1> QED BY <1>1, <1>2, <1>3 DEF ManagerIInv, Init

-----------------------------------------------------------------------------
(* What a step leaves alone.                                                *)

\* A step that leaves the rows of c alone keeps its goroutine and its view in step.
LEMMA RunnerFrame ==
    ASSUME NEW c \in Configs, RunnerInv(c), mode' = mode, view'[c] = view[c],
           runner'[c] = runner[c], c \in waiting => c \in waiting'
    PROVE  RunnerInv(c)'
  BY DEF RunnerInv, Active

\* A step that leaves the rows of c and the stops that are about to cancel it alone
\* keeps what is wanted of it.
LEMMA WishFrame ==
    ASSUME NEW c \in Configs, WishInv(c), mode' = mode, view'[c] = view[c],
           registry'[c] = registry[c], runner'[c] = runner[c], launches'[c] = launches[c],
           \A q \in Requests : (request[q].pc = "cancel" /\ request[q].target = c) =>
                                  request'[q] = request[q]
    PROVE  WishInv(c)'
  <1>1. StopUnderWay(c) => StopUnderWay(c)'
    BY DEF StopUnderWay
  <1> QED BY <1>1 DEF WishInv, Accepting, Known

\* A step that leaves the daemon's mode, the wishes and the launches alone keeps what a
\* request that it leaves alone knows.
LEMMA RequestFrame ==
    ASSUME NEW q \in Requests, RequestInv(q), request'[q] = request[q], mode' # "down",
           \A c \in Configs : /\ launches'[c] = launches[c]
                              /\ view[c].desired = "stopped" => view'[c].desired = "stopped"
    PROVE  RequestInv(q)'
  BY DEF RequestInv

-----------------------------------------------------------------------------
(* One lemma per group of actions.                                          *)

\* Starts that begin or are refused, and stops that return.
LEMMA RequestMovesKeepInv ==
    ASSUME ManagerIInv, NEW q \in Requests,
           \/ \E S \in SUBSET Configs : BeginStart(q, S)
           \/ RefuseStart(q) \/ StopReturns(q) \/ StopGivesUp(q)
    PROVE  ManagerIInv'
  <1>1. /\ UNCHANGED <<registry, mode, view, usable, runner, waiting, launches, crashes, signals,
                       stops, faults>>
        /\ \A p \in Requests \ {q} : request'[p] = request[p]
        /\ request[q].pc # "cancel"
    BY DEF ManagerIInv, ManagerTypeOK, BeginStart, RefuseStart, StopReturns, StopGivesUp, budgets
  <1>2. /\ request'[q] \in Request /\ request' \in [Requests -> Request]
        /\ \/ request'[q].pc = "idle"
           \/ request'[q].pc = "loading" /\ mode = "serving"
    <2>1. CASE RefuseStart(q) \/ StopReturns(q) \/ StopGivesUp(q)
      BY <2>1, InitialRows DEF ManagerIInv, ManagerTypeOK, RefuseStart, StopReturns, StopGivesUp
    <2>2. ASSUME NEW S \in SUBSET Configs, BeginStart(q, S)
          PROVE  /\ request'[q] \in Request /\ request' \in [Requests -> Request]
                 /\ request'[q].pc = "loading" /\ mode = "serving"
      <3>1. LET new == [Idle EXCEPT !.pc = "loading", !.configs = S]
            IN  new \in Request /\ new.pc = "loading"
        BY DEF Idle, Request
      <3> QED BY <2>2, <3>1 DEF ManagerIInv, ManagerTypeOK, BeginStart
    <2> QED BY <2>1, <2>2
  <1>3. starts' \in 0..MaxStarts
    <2>1. starts' = starts \/ (starts < MaxStarts /\ starts' = starts + 1)
      BY DEF BeginStart, RefuseStart, StopReturns, StopGivesUp, budgets
    <2>2. starts \in 0..MaxStarts
      BY DEF ManagerIInv, ManagerTypeOK
    <2> QED BY <2>1, <2>2, BoundTypes
  <1>4. ManagerTypeOK'
    BY <1>1, <1>2, <1>3 DEF ManagerIInv, ManagerTypeOK
  <1>5. ASSUME NEW c \in Configs PROVE RunnerInv(c)' /\ WishInv(c)'
    <2>1. RunnerInv(c) /\ WishInv(c)
      BY DEF ManagerIInv
    <2> QED BY <1>1, <2>1, RunnerFrame, WishFrame
  <1>6. ASSUME NEW p \in Requests PROVE RequestInv(p)'
    <2>1. RequestInv(p)
      BY DEF ManagerIInv
    <2>2. CASE p # q
      BY <1>1, <2>1, <2>2 DEF RequestInv
    <2>3. CASE p = q
      BY <1>1, <1>2, <2>3 DEF RequestInv
    <2> QED BY <2>2, <2>3
  <1> QED BY <1>1, <1>4, <1>5, <1>6 DEF ManagerIInv

\* A launch of instances that are not active, whoever asks for it.
LEMMA LaunchKeepsInv ==
    ASSUME ManagerIInv, NEW S \in SUBSET Configs, NEW new \in [S -> View], Launch(S, new),
           \A c \in S : new[c].state = "running" /\ new[c].desired = "running" /\ ~Active(c),
           Accepting, Accepting', UNCHANGED waiting,
           \A q \in Requests : \/ request'[q] = request[q]
                               \/ request[q].pc = "loading" /\ request'[q] = Idle
    PROVE  /\ \A c \in Configs : RunnerInv(c)' /\ WishInv(c)'
           /\ \A q \in Requests : RequestInv(q)'
           /\ mode' # "closed"
  <1>0. ManagerTypeOK
    BY DEF ManagerIInv
  <1>1. /\ \A c \in S : /\ registry'[c] = new[c] /\ view'[c] = new[c]
                        /\ runner'[c].pc = "running" /\ ~runner'[c].cancelled
                        /\ launches'[c] = launches[c] + 1
        /\ \A c \in Configs \ S : /\ registry'[c] = registry[c] /\ view'[c] = view[c]
                                  /\ runner'[c] = runner[c] /\ launches'[c] = launches[c]
    BY <1>0, LaunchRows
  <1>2. mode' \notin {"down", "shutdown", "closed"} /\ mode \notin {"down", "shutdown", "closed"}
    BY DEF Accepting
  <1>3. ASSUME NEW c \in S PROVE RunnerInv(c)' /\ WishInv(c)'
    <2>1. /\ registry'[c] = new[c] /\ view'[c] = new[c]
          /\ runner'[c].pc = "running" /\ ~runner'[c].cancelled
          /\ new[c].state = "running" /\ new[c].desired = "running"
      BY <1>1, <1>3
    <2> QED BY <1>2, <2>1 DEF RunnerInv, WishInv, Active, Known
  <1>4. ASSUME NEW c \in Configs \ S PROVE RunnerInv(c)' /\ WishInv(c)'
    <2>1. /\ RunnerInv(c) /\ WishInv(c)
          /\ registry'[c] = registry[c] /\ view'[c] = view[c]
          /\ runner'[c] = runner[c] /\ launches'[c] = launches[c]
      BY <1>1, <1>4 DEF ManagerIInv
    <2>2. StopUnderWay(c) => StopUnderWay(c)'
      BY <2>1 DEF StopUnderWay
    <2>3. RunnerInv(c)'
      BY <1>2, <2>1 DEF RunnerInv, Active
    <2>4. WishInv(c)'
      BY <1>2, <2>1, <2>2 DEF WishInv, Known
    <2> QED BY <2>3, <2>4
  <1>5. ASSUME NEW q \in Requests PROVE RequestInv(q)'
    <2>0. RequestInv(q)
      BY DEF ManagerIInv
    <2>1. CASE request'[q] = Idle
      BY <1>2, <2>1, InitialRows DEF RequestInv
    <2>2. CASE request'[q] = request[q] /\ request[q].pc # "cancel"
      BY <1>2, <2>0, <2>2 DEF RequestInv
    <2>3. CASE request'[q] = request[q] /\ request[q].pc = "cancel"
      <3>1. PICK c \in Configs : c = request[q].target
        BY <2>0, <2>3 DEF RequestInv
      <3>2. /\ request[q].launch <= launches[c]
            /\ request[q].launch = launches[c] => view[c].desired = "stopped"
        BY <2>0, <2>3, <3>1 DEF RequestInv
      <3>3. launches[c] \in Nat /\ request[q].launch \in Nat
        BY <1>0 DEF ManagerTypeOK, Request
      <3>4. /\ request[q].launch <= launches'[c]
            /\ request[q].launch = launches'[c] => view'[c].desired = "stopped"
        <4>1. CASE c \in S
          BY <1>1, <3>2, <3>3, <4>1
        <4>2. CASE c \in Configs \ S
          BY <1>1, <3>2, <4>2
        <4> QED BY <4>1, <4>2
      <3> QED BY <1>2, <2>3, <3>1, <3>4 DEF RequestInv
    <2> QED BY <2>1, <2>2, <2>3
  <1> QED BY <1>2, <1>3, <1>4, <1>5

\* A start that commits, a resumed instance, and what the daemon restores.
LEMMA StartsKeepInv ==
    ASSUME ManagerIInv,
           \/ \E q \in Requests : CommitStart(q)
           \/ \E c \in Configs : ResumeRegistered(c)
           \/ Restore
    PROVE  ManagerIInv'
  <1>0. ManagerTypeOK
    BY DEF ManagerIInv
  <1>1. CASE \E q \in Requests : CommitStart(q)
    <2>1. PICK q \in Requests : CommitStart(q)
      BY <1>1
    <2>2. PICK S \in SUBSET Configs : S = request[q].configs
      BY <1>0 DEF ManagerTypeOK, Request
    <2>3. PICK new \in [S -> View] : new = [c \in S |-> Running]
      BY InitialRows
    <2>4. Launch(S, new)
      BY <2>1, <2>2, <2>3 DEF CommitStart, Started
    <2>5. \A c \in S : new[c].state = "running" /\ new[c].desired = "running" /\ ~Active(c)
      BY <2>1, <2>2, <2>3, InitialRows DEF CommitStart
    <2>6. /\ Accepting /\ Accepting' /\ UNCHANGED <<mode, waiting, budgets>>
          /\ request' \in [Requests -> Request]
          /\ \A p \in Requests : \/ request'[p] = request[p]
                                 \/ request[p].pc = "loading" /\ request'[p] = Idle
      BY <1>0, <2>1, InitialRows DEF CommitStart, Accepting, ManagerTypeOK
    <2>7. ManagerTypeOK'
      BY <1>0, <2>4, <2>6, LaunchRows DEF ManagerTypeOK, budgets
    <2> QED BY <2>4, <2>5, <2>6, <2>7, LaunchKeepsInv DEF ManagerIInv
  <1>2. CASE \E c \in Configs : ResumeRegistered(c)
    <2>1. PICK c \in Configs : ResumeRegistered(c)
      BY <1>2
    <2>2. PICK S \in SUBSET Configs : S = {c}
      OBVIOUS
    <2>3. PICK new \in [S -> View] : new = [d \in S |-> Running]
      BY InitialRows
    <2>4. Launch(S, new)
      BY <2>1, <2>2, <2>3 DEF ResumeRegistered, Started
    <2>5. \A d \in S : new[d].state = "running" /\ new[d].desired = "running" /\ ~Active(d)
      BY <2>1, <2>2, <2>3, InitialRows DEF ResumeRegistered
    <2>6. /\ Accepting /\ Accepting'
          /\ UNCHANGED <<mode, request, waiting, crashes, signals, stops, faults>>
      BY <2>1 DEF ResumeRegistered, Accepting
    <2>7. starts' \in 0..MaxStarts
      BY <1>0, <2>1, BoundTypes DEF ResumeRegistered, ManagerTypeOK
    <2>8. ManagerTypeOK'
      BY <1>0, <2>4, <2>6, <2>7, LaunchRows DEF ManagerTypeOK
    <2> QED BY <2>4, <2>5, <2>6, <2>8, LaunchKeepsInv DEF ManagerIInv
  <1>3. CASE Restore
    <2>2. PICK S \in SUBSET Configs : S = ToRestore
      BY DEF ToRestore
    <2>a. \A c \in S : view[c] \in View /\ view[c].desired = "running" /\ ~Active(c)
      BY <1>0, <2>2 DEF ToRestore, ManagerTypeOK
    <2>b. \A c \in S : LET v == [view[c] EXCEPT !.state = "running"]
                       IN  v \in View /\ v.state = "running" /\ v.desired = "running"
      BY <2>a DEF View, States
    <2>3. PICK new \in [S -> View] : new = [c \in S |-> [view[c] EXCEPT !.state = "running"]]
      BY <2>b
    <2>4. Launch(S, new)
      BY <1>3, <2>2, <2>3 DEF Restore
    <2>5. \A c \in S : new[c].state = "running" /\ new[c].desired = "running" /\ ~Active(c)
      BY <2>a, <2>b, <2>3
    <2>6. /\ Accepting /\ Accepting' /\ mode' = "serving"
          /\ UNCHANGED <<request, waiting, budgets>>
      BY <1>3 DEF Restore, Accepting
    <2>7. ManagerTypeOK'
      BY <1>0, <2>4, <2>6, LaunchRows DEF ManagerTypeOK, budgets, Modes
    <2> QED BY <2>4, <2>5, <2>6, <2>7, LaunchKeepsInv DEF ManagerIInv
  <1> QED BY <1>1, <1>2, <1>3

\* A stop makes its wish durable and visible, and remembers the runtime it found.
LEMMA StopRequestKeepsInv ==
    ASSUME ManagerIInv, NEW q \in Requests, NEW c \in Configs, StopRequest(q, c)
    PROVE  ManagerIInv'
  <1>0. ManagerTypeOK /\ RunnerInv(c) /\ WishInv(c) /\ request[q].pc = "idle"
    BY DEF ManagerIInv, StopRequest
  <1>1. /\ registry' \in [Configs -> View] /\ view' \in [Configs -> View]
        /\ registry'[c].desired = "stopped" /\ view'[c].desired = "stopped"
        /\ registry'[c].state = view[c].state
        /\ view'[c].state = IF Active(c) THEN "stopping" ELSE view[c].state
        /\ \A d \in Configs \ {c} : registry'[d] = registry[d] /\ view'[d] = view[d]
    BY <1>0 DEF StopRequest, ManagerTypeOK, View, States
  <1>2. /\ mode = "serving" /\ Known(c)
        /\ UNCHANGED <<mode, usable, runner, waiting, launches, starts, crashes, signals, faults>>
    BY DEF StopRequest
  <1>3. /\ request' \in [Requests -> Request]
        /\ \A p \in Requests \ {q} : request'[p] = request[p]
        /\ Active(c) => /\ request'[q].pc = "cancel" /\ request'[q].target = c
                        /\ request'[q].launch = launches[c]
        /\ ~Active(c) => request'[q] = request[q]
    <2>1. LET new == [Idle EXCEPT !.pc = "cancel", !.target = c, !.launch = launches[c]]
          IN  new \in Request /\ new.pc = "cancel" /\ new.target = c /\ new.launch = launches[c]
      BY <1>0 DEF Idle, Request, ManagerTypeOK
    <2> QED BY <1>0, <2>1 DEF StopRequest, ManagerTypeOK
  <1>4. stops' \in 0..MaxStops
    BY <1>0, BoundTypes DEF StopRequest, ManagerTypeOK
  <1>5. ManagerTypeOK'
    BY <1>0, <1>1, <1>2, <1>3, <1>4 DEF ManagerTypeOK
  <1>6. ASSUME NEW d \in Configs PROVE RunnerInv(d)' /\ WishInv(d)'
    <2>0. RunnerInv(d) /\ WishInv(d)
      BY DEF ManagerIInv
    <2>1. CASE d # c
      BY <1>0, <1>1, <1>2, <1>3, <2>0, <2>1, RunnerFrame, WishFrame
    <2>2. CASE d = c
      <3>1. Active(c)' <=> Active(c)
        BY <1>1 DEF Active
      <3>2. RunnerInv(c)'
        BY <1>0, <1>2, <3>1 DEF RunnerInv
      <3>3. runner[c].pc = "running" => StopUnderWay(c)'
        BY <1>0, <1>2, <1>3 DEF RunnerInv, StopUnderWay
      <3>4. Known(c)' /\ registry'[c].state # "absent"
        BY <1>1, <1>2 DEF Known
      <3>5. WishInv(c)'
        BY <1>1, <1>2, <3>3, <3>4 DEF WishInv
      <3> QED BY <2>2, <3>2, <3>5
    <2> QED BY <2>1, <2>2
  <1>7. ASSUME NEW p \in Requests PROVE RequestInv(p)'
    <2>0. RequestInv(p)
      BY DEF ManagerIInv
    <2>1. CASE request'[p] = request[p]
      BY <1>1, <1>2, <2>0, <2>1, RequestFrame
    <2>2. CASE p = q /\ Active(c)
      <3>1. request'[p].pc = "cancel" /\ request'[p].target = c /\ request'[p].launch = launches'[c]
            /\ launches'[c] \in Nat
        BY <1>0, <1>2, <1>3, <2>2 DEF ManagerTypeOK
      <3> QED BY <1>1, <1>2, <3>1 DEF RequestInv
    <2> QED BY <1>3, <2>1, <2>2
  <1> QED BY <1>2, <1>5, <1>6, <1>7 DEF ManagerIInv

\* cancel() reaches the runtime the stop found, if that one is still there.
LEMMA CancelKeepsInv ==
    ASSUME ManagerIInv, NEW q \in Requests, CancelRuntime(q)
    PROVE  ManagerIInv'
  <1>0. ManagerTypeOK /\ RequestInv(q) /\ request[q].pc = "cancel"
    BY DEF ManagerIInv, CancelRuntime
  <1>1. PICK c \in Configs : c = request[q].target
    BY <1>0 DEF RequestInv
  <1>2. /\ runner' \in [Configs -> Runner]
        /\ runner'[c].pc = runner[c].pc /\ runner'[c].final = runner[c].final
        /\ \A d \in Configs \ {c} : runner'[d] = runner[d]
        /\ \/ runner'[c].cancelled = runner[c].cancelled
           \/ launches[c] = request[q].launch /\ runner[c].pc # "none"
    <2>1. CASE runner' = runner
      BY <1>0, <2>1 DEF ManagerTypeOK
    <2>2. CASE /\ runner[c].pc # "none" /\ launches[c] = request[q].launch
               /\ runner' = [runner EXCEPT ![c].cancelled = TRUE]
      BY <1>0, <2>2 DEF ManagerTypeOK, Runner
    <2> QED BY <1>1, <2>1, <2>2 DEF CancelRuntime
  <1>a. runner[c].cancelled => runner'[c].cancelled
    <2>1. runner' = runner \/ runner' = [runner EXCEPT ![c].cancelled = TRUE]
      BY <1>1 DEF CancelRuntime
    <2> QED BY <1>0, <2>1 DEF ManagerTypeOK, Runner
  <1>b. (runner[c].pc # "none" /\ launches[c] = request[q].launch) => runner'[c].cancelled
    BY <1>0, <1>1 DEF CancelRuntime, ManagerTypeOK, Runner
  <1>3. /\ request' \in [Requests -> Request]
        /\ request'[q].pc = "wait" /\ request'[q].target = c
        /\ \A p \in Requests \ {q} : request'[p] = request[p]
    BY <1>0, <1>1 DEF CancelRuntime, ManagerTypeOK, Request
  <1>4. UNCHANGED <<registry, mode, view, usable, waiting, launches, budgets>>
    BY DEF CancelRuntime
  <1>5. ManagerTypeOK'
    BY <1>0, <1>2, <1>3, <1>4 DEF ManagerTypeOK, budgets
  <1>6. ASSUME NEW d \in Configs PROVE RunnerInv(d)' /\ WishInv(d)'
    <2>0. RunnerInv(d) /\ WishInv(d)
      BY DEF ManagerIInv
    <2>1. CASE d # c
      BY <1>1, <1>2, <1>3, <1>4, <2>0, <2>1, RunnerFrame, WishFrame
    <2>2. CASE d = c
      <3>1. RunnerInv(c)'
        BY <1>2, <1>4, <2>0, <2>2 DEF RunnerInv, Active
      <3>2. (runner'[c].cancelled /\ ~runner[c].cancelled) => view[c].desired = "stopped"
        BY <1>0, <1>1, <1>2 DEF RequestInv
      <3>3. (StopUnderWay(c) /\ ~StopUnderWay(c)' /\ runner[c].pc = "running") => runner'[c].cancelled
        <4> SUFFICES ASSUME StopUnderWay(c), ~StopUnderWay(c)', runner[c].pc = "running"
                     PROVE  runner'[c].cancelled
          OBVIOUS
        <4>1. PICK p \in Requests : /\ request[p].pc = "cancel" /\ request[p].target = c
                                    /\ request[p].launch = launches[c]
          BY DEF StopUnderWay
        <4>2. p = q
          BY <1>3, <1>4, <4>1 DEF StopUnderWay
        <4> QED BY <1>b, <4>1, <4>2
      <3>4. WishInv(c)'
        <4>1. WishInv(c) /\ runner'[c].pc = runner[c].pc
          BY <1>2, <2>0, <2>2
        <4> QED BY <1>4, <1>a, <3>2, <3>3, <4>1 DEF WishInv, Accepting, Known
      <3> QED BY <2>2, <3>1, <3>4
    <2> QED BY <2>1, <2>2
  <1>7. ASSUME NEW p \in Requests PROVE RequestInv(p)'
    <2>0. RequestInv(p)
      BY DEF ManagerIInv
    <2>a. mode # "down"
      BY <1>0 DEF RequestInv
    <2>1. CASE p # q
      BY <1>3, <1>4, <2>0, <2>a, <2>1, RequestFrame
    <2>2. CASE p = q
      BY <1>3, <1>4, <2>a, <2>2 DEF RequestInv
    <2> QED BY <2>1, <2>2
  <1> QED BY <1>4, <1>5, <1>6, <1>7 DEF ManagerIInv

\* A runner that returns, and the publication of its outcome.
LEMMA RunnerKeepsInv ==
    ASSUME ManagerIInv, NEW c \in Configs, RunnerStep(c)
    PROVE  ManagerIInv'
  <1>0. ManagerTypeOK /\ RunnerInv(c) /\ WishInv(c)
    BY DEF ManagerIInv
  <1>1. CASE \E state \in {"exited", "failed"} : RunnerReturns(c, state)
    <2>1. PICK state \in {"exited", "failed"} : RunnerReturns(c, state)
      BY <1>1
    <2>2. LET final == [view[c] EXCEPT !.state = state]
          IN  final \in View /\ final.state = state
      BY <1>0 DEF ManagerTypeOK, View, States
    <2>3. /\ runner' \in [Configs -> Runner]
          /\ runner[c].pc = "running" /\ runner'[c].pc = "finalizing"
          /\ runner'[c].cancelled = runner[c].cancelled
          /\ runner'[c].final.state \in {"exited", "failed"}
          /\ \A d \in Configs \ {c} : runner'[d] = runner[d]
      BY <1>0, <2>1, <2>2 DEF RunnerReturns, ManagerTypeOK, Runner
    <2>4. UNCHANGED <<registry, mode, view, usable, request, waiting, launches, budgets>>
      BY <2>1 DEF RunnerReturns
    <2>5. ManagerTypeOK'
      BY <1>0, <2>3, <2>4 DEF ManagerTypeOK, budgets
    <2>6. ASSUME NEW d \in Configs PROVE RunnerInv(d)' /\ WishInv(d)'
      <3>0. RunnerInv(d) /\ WishInv(d)
        BY DEF ManagerIInv
      <3>1. CASE d # c
        BY <2>3, <2>4, <3>0, <3>1, RunnerFrame, WishFrame
      <3>2. CASE d = c
        <4>1. RunnerInv(c)'
          BY <1>0, <2>3, <2>4 DEF RunnerInv, Active
        <4>2. WishInv(c)'
          BY <1>0, <2>3, <2>4 DEF WishInv, Accepting, Known
        <4> QED BY <3>2, <4>1, <4>2
      <3> QED BY <3>1, <3>2
    <2>7. mode # "down"
      BY <1>0, <2>3 DEF RunnerInv
    <2>8. ASSUME NEW q \in Requests PROVE RequestInv(q)'
      BY <2>4, <2>7, RequestFrame DEF ManagerIInv
    <2> QED BY <2>4, <2>5, <2>6, <2>8 DEF ManagerIInv
  <1>2. CASE Finalize(c)
    <2>1. FinalView(c) \in View /\ FinalView(c).state \in {"exited", "failed"}
          /\ FinalView(c).desired = view[c].desired
      BY <1>0, <1>2 DEF FinalView, Finalize, RunnerInv, ManagerTypeOK, Runner, View
    <2>2. /\ view' \in [Configs -> View] /\ registry' \in [Configs -> View]
          /\ runner' \in [Configs -> Runner]
          /\ view'[c] = FinalView(c) /\ registry'[c] \in {registry[c], FinalView(c)}
          /\ runner[c].pc = "finalizing" /\ runner'[c] = NoRunner
          /\ \A d \in Configs \ {c} : /\ view'[d] = view[d] /\ registry'[d] = registry[d]
                                      /\ runner'[d] = runner[d]
                                      /\ d \in waiting => d \in waiting'
          /\ waiting' \subseteq waiting
      BY <1>0, <1>2, <2>1, InitialRows DEF Finalize, ManagerTypeOK
    <2>3. UNCHANGED <<mode, usable, request, launches, starts, crashes, signals, stops>>
      BY <1>2 DEF Finalize
    <2>4. faults' \in 0..MaxFaults
      BY <1>0, <1>2, BoundTypes DEF Finalize, ManagerTypeOK
    <2>5. ManagerTypeOK'
      BY <1>0, <2>2, <2>3, <2>4 DEF ManagerTypeOK
    <2>6. ASSUME NEW d \in Configs PROVE RunnerInv(d)' /\ WishInv(d)'
      <3>0. RunnerInv(d) /\ WishInv(d)
        BY DEF ManagerIInv
      <3>1. CASE d # c
        BY <2>2, <2>3, <3>0, <3>1, RunnerFrame, WishFrame
      <3>2. CASE d = c
        <4>1. runner'[c].pc = "none" /\ ~runner'[c].cancelled
          BY <2>2, InitialRows
        <4>2. view'[c].state \in {"exited", "failed"} /\ view'[c].desired = view[c].desired
          BY <2>1, <2>2
        <4>3. RunnerInv(c)'
          BY <4>1, <4>2 DEF RunnerInv, Active
        <4>4. mode # "down" /\ Known(c)
          BY <1>0, <2>2 DEF RunnerInv, Active, Known
        <4>5. registry'[c].desired = view'[c].desired /\ registry'[c].state # "absent"
          BY <1>0, <2>1, <2>2, <4>4 DEF WishInv
        <4>6. WishInv(c)'
          BY <4>1, <4>2, <4>5 DEF WishInv, Known
        <4> QED BY <3>2, <4>3, <4>6
      <3> QED BY <3>1, <3>2
    <2>7. mode # "down"
      BY <1>0, <2>2 DEF RunnerInv
    <2>8. \A d \in Configs : view'[d].desired = view[d].desired
      BY <2>1, <2>2
    <2>9. ASSUME NEW q \in Requests PROVE RequestInv(q)'
      <3>1. RequestInv(q)
        BY DEF ManagerIInv
      <3> QED BY <2>3, <2>7, <2>8, <3>1, RequestFrame
    <2>10. mode' = "closed" => waiting' = {}
      BY <2>2, <2>3 DEF ManagerIInv
    <2> QED BY <2>5, <2>6, <2>9, <2>10 DEF ManagerIInv
  <1> QED BY <1>1, <1>2 DEF RunnerStep

\* A daemon comes up: nothing runs yet, and its view is what the registry wants.
LEMMA LoadKeepsInv ==
    ASSUME ManagerIInv, Load
    PROVE  ManagerIInv'
  <1>0. ManagerTypeOK /\ mode = "down"
    BY DEF ManagerIInv, Load
  <1>1. PICK invalid \in SUBSET {c \in Configs : registry[c].state # "absent"} :
             /\ faults + Cardinality(invalid) <= MaxFaults
             /\ faults' = faults + Cardinality(invalid)
             /\ usable' = [c \in Configs |-> registry[c].state # "absent" /\ c \notin invalid]
             /\ view' = [c \in Configs |->
                           IF c \in invalid THEN [registry[c] EXCEPT !.state = "failed"]
                           ELSE IF registry[c].state \in {"running", "stopping"}
                           THEN [registry[c] EXCEPT !.state = "exited"]
                           ELSE registry[c]]
    BY DEF Load
  <1>2. faults' \in 0..MaxFaults
    <2>1. Cardinality(invalid) \in Nat
      BY BoundTypes, FS_Subset, FS_CardinalityType
    <2> QED BY <1>0, <1>1, <2>1, BoundTypes DEF ManagerTypeOK
  <1>3. usable' \in [Configs -> BOOLEAN]
    BY <1>1
  <1>4. /\ view' \in [Configs -> View]
        /\ \A c \in Configs : /\ view'[c].desired = registry[c].desired
                              /\ view'[c].state \notin {"running", "stopping"}
                              /\ view'[c].state # "absent" <=> registry[c].state # "absent"
    <2>1. ASSUME NEW c \in Configs
          PROVE  /\ view'[c] \in View /\ view'[c].desired = registry[c].desired
                 /\ view'[c].state \notin {"running", "stopping"}
                 /\ view'[c].state # "absent" <=> registry[c].state # "absent"
      <3>1. registry[c] \in View
        BY <1>0 DEF ManagerTypeOK
      <3>2. \/ c \in invalid /\ view'[c] = [registry[c] EXCEPT !.state = "failed"]
            \/ /\ registry[c].state \in {"running", "stopping"}
               /\ view'[c] = [registry[c] EXCEPT !.state = "exited"]
            \/ registry[c].state \notin {"running", "stopping"} /\ view'[c] = registry[c]
        BY <1>1
      <3>3. c \in invalid => registry[c].state # "absent"
        BY <1>1
      <3> QED BY <3>1, <3>2, <3>3 DEF View, States
    <2>2. DOMAIN view' = Configs /\ view' = [c \in Configs |-> view'[c]]
      BY <1>1
    <2> QED BY <2>1, <2>2
  <1>5. mode' = "loaded" /\ mode' \in Modes
    BY DEF Load, Modes
  <1>6. UNCHANGED <<registry, runner, request, waiting, launches, starts, crashes, signals, stops>>
    BY DEF Load
  <1>7. ManagerTypeOK'
    BY <1>0, <1>2, <1>3, <1>4, <1>5, <1>6 DEF ManagerTypeOK
  <1>8. ASSUME NEW c \in Configs PROVE RunnerInv(c)' /\ WishInv(c)'
    <2>1. runner'[c].pc = "none" /\ ~runner'[c].cancelled
      BY <1>0, <1>6 DEF ManagerIInv, RunnerInv
    <2>2. RunnerInv(c)'
      BY <1>4, <1>5, <2>1 DEF RunnerInv, Active
    <2>3. WishInv(c)'
      BY <1>4, <1>6, <2>1 DEF WishInv, Known
    <2> QED BY <2>2, <2>3
  <1>9. ASSUME NEW q \in Requests PROVE RequestInv(q)'
    <2>1. request'[q].pc = "idle"
      BY <1>0, <1>6 DEF ManagerIInv, RequestInv
    <2> QED BY <2>1 DEF RequestInv
  <1> QED BY <1>5, <1>7, <1>8, <1>9 DEF ManagerIInv

\* The daemon is told to end, and Shutdown marks what is active.
LEMMA EndingKeepsInv ==
    ASSUME ManagerIInv, Signal \/ Shutdown \/ ServeFails
    PROVE  ManagerIInv'
  <1>0. ManagerTypeOK
    BY DEF ManagerIInv
  <1>1. CancelAll /\ UNCHANGED <<registry, usable, request, launches, starts, crashes, stops, faults>>
    BY DEF Signal, Shutdown, ServeFails, BeginShutdown
  <1>2. /\ runner' \in [Configs -> Runner]
        /\ \A c \in Configs : /\ runner'[c].pc = runner[c].pc
                              /\ runner'[c].final = runner[c].final
                              /\ runner[c].pc = "none" => runner'[c] = runner[c]
                              /\ runner[c].pc # "none" => runner'[c].cancelled
    <2>1. ASSUME NEW c \in Configs
          PROVE  /\ runner'[c] \in Runner
                 /\ runner'[c].pc = runner[c].pc
                 /\ runner'[c].final = runner[c].final
                 /\ runner[c].pc = "none" => runner'[c] = runner[c]
                 /\ runner[c].pc # "none" => runner'[c].cancelled
      BY <1>0, <1>1 DEF CancelAll, ManagerTypeOK, Runner
    <2>2. runner' = [c \in Configs |-> runner'[c]]
      BY <1>1 DEF CancelAll
    <2> QED BY <2>1, <2>2
  <1>3. /\ mode' \in {"cancelled", "shutdown"} /\ mode # "down"
        /\ mode' = "shutdown" => waiting' = {c \in Configs : Active(c)}
        /\ waiting' \subseteq Configs
    BY <1>0 DEF Signal, Shutdown, ServeFails, BeginShutdown, Accepting, ManagerTypeOK
  <1>4. /\ view' \in [Configs -> View]
        /\ \A c \in Configs : /\ view'[c].desired = view[c].desired
                              /\ view'[c].state = view[c].state \/ (Active(c) /\ view'[c].state = "stopping")
    <2>1. CASE Signal
      BY <1>0, <2>1 DEF Signal, ManagerTypeOK
    <2>2. CASE BeginShutdown
      <3>1. ASSUME NEW c \in Configs
            PROVE  /\ view'[c] \in View
                   /\ view'[c].desired = view[c].desired
                   /\ view'[c].state = view[c].state \/ (Active(c) /\ view'[c].state = "stopping")
        BY <1>0, <2>2 DEF BeginShutdown, ManagerTypeOK, View, States
      <3>2. view' = [c \in Configs |-> view'[c]]
        BY <2>2 DEF BeginShutdown
      <3> QED BY <3>1, <3>2
    <2> QED BY <2>1, <2>2 DEF Shutdown, ServeFails
  <1>5. signals' \in 0..MaxSignals
    BY <1>0, BoundTypes DEF Signal, Shutdown, ServeFails, ManagerTypeOK
  <1>6. ManagerTypeOK'
    BY <1>0, <1>1, <1>2, <1>3, <1>4, <1>5 DEF ManagerTypeOK, Modes
  <1>7. ASSUME NEW c \in Configs PROVE RunnerInv(c)' /\ WishInv(c)'
    <2>0. RunnerInv(c) /\ WishInv(c)
      BY DEF ManagerIInv
    <2>1. Active(c)' <=> Active(c)
      BY <1>4 DEF Active
    <2>2. RunnerInv(c)'
      BY <1>2, <1>3, <2>0, <2>1 DEF RunnerInv
    <2>3. Known(c)' <=> Known(c)
      BY <1>4 DEF Known, Active
    <2>4. WishInv(c)'
      BY <1>1, <1>2, <1>3, <1>4, <2>0, <2>3 DEF WishInv, Accepting
    <2> QED BY <2>2, <2>4
  <1>8. ASSUME NEW q \in Requests PROVE RequestInv(q)'
    <2>1. RequestInv(q)
      BY DEF ManagerIInv
    <2> QED BY <1>1, <1>3, <1>4, <2>1, RequestFrame
  <1> QED BY <1>3, <1>6, <1>7, <1>8 DEF ManagerIInv

\* Shutdown returns, and the process ends or dies.
LEMMA EndKeepsInv ==
    ASSUME ManagerIInv, ShutdownReturns \/ Exit \/ Crash
    PROVE  ManagerIInv'
  <1>0. ManagerTypeOK
    BY DEF ManagerIInv
  <1>1. CASE ShutdownReturns
    <2>1. /\ UNCHANGED <<registry, view, usable, runner, request, waiting, launches, budgets>>
          /\ mode = "shutdown" /\ mode' = "closed" /\ waiting = {}
      BY <1>1 DEF ShutdownReturns
    <2>2. ManagerTypeOK'
      BY <1>0, <2>1 DEF ManagerTypeOK, budgets, Modes
    <2>3. ASSUME NEW c \in Configs PROVE RunnerInv(c)' /\ WishInv(c)'
      <3>1. RunnerInv(c) /\ WishInv(c)
        BY DEF ManagerIInv
      <3>2. RunnerInv(c)'
        BY <2>1, <3>1 DEF RunnerInv, Active
      <3>3. StopUnderWay(c)' <=> StopUnderWay(c)
        BY <2>1 DEF StopUnderWay
      <3>4. WishInv(c)'
        BY <2>1, <3>1, <3>3 DEF WishInv, Accepting, Known
      <3> QED BY <3>2, <3>4
    <2>4. ASSUME NEW q \in Requests PROVE RequestInv(q)'
      BY <2>1, RequestFrame DEF ManagerIInv
    <2> QED BY <2>1, <2>2, <2>3, <2>4 DEF ManagerIInv
  <1>2. CASE Exit \/ Crash
    <2>1. Vanish /\ UNCHANGED <<registry, launches, starts, signals, stops, faults>>
      BY <1>2 DEF Exit, Crash, budgets
    <2>2. crashes' \in 0..MaxCrashes
      BY <1>0, <1>2, BoundTypes DEF Exit, Crash, budgets, ManagerTypeOK
    <2>3. ManagerTypeOK'
      BY <1>0, <2>1, <2>2, InitialRows DEF ManagerTypeOK, Vanish, Modes
    <2>4. ASSUME NEW c \in Configs PROVE RunnerInv(c)' /\ WishInv(c)'
      <3>1. runner'[c].pc = "none" /\ ~runner'[c].cancelled /\ view'[c].state = "absent" /\ mode' = "down"
        BY <2>1, InitialRows DEF Vanish
      <3> QED BY <3>1 DEF RunnerInv, WishInv, Active
    <2>5. ASSUME NEW q \in Requests PROVE RequestInv(q)'
      <3>1. request'[q].pc = "idle"
        BY <2>1, InitialRows DEF Vanish
      <3> QED BY <3>1 DEF RequestInv
    <2> QED BY <2>1, <2>3, <2>4, <2>5 DEF ManagerIInv, Vanish
  <1> QED BY <1>1, <1>2

-----------------------------------------------------------------------------

\* Every behaviour of the manager keeps registry, views, goroutines and requests in
\* step: the inductive invariant.
THEOREM ManagerConsistent == Spec => []ManagerIInv
  <1>1. ManagerIInv /\ [Next]_vars => ManagerIInv'
    <2> SUFFICES ASSUME ManagerIInv, [Next]_vars PROVE ManagerIInv'
      OBVIOUS
    <2>1. CASE \E c \in Configs : RunnerStep(c)
      BY <2>1, RunnerKeepsInv
    <2>2. CASE \E q \in Requests : RequestStep(q)
      BY <2>2, StartsKeepInv, RequestMovesKeepInv, CancelKeepsInv DEF RequestStep
    <2>3. CASE DaemonStep
      BY <2>3, LoadKeepsInv, StartsKeepInv, EndingKeepsInv, EndKeepsInv DEF DaemonStep
    <2>4. CASE Client
      BY <2>4, RequestMovesKeepInv, StopRequestKeepsInv, StartsKeepInv DEF Client
    <2>5. CASE Signal \/ ServeFails \/ Crash
      BY <2>5, EndingKeepsInv, EndKeepsInv
    <2>6. CASE UNCHANGED vars
      BY <2>6 DEF vars, budgets, ManagerIInv, ManagerTypeOK, RunnerInv, WishInv, RequestInv,
                  StopUnderWay, Active, Known, Accepting
    <2> QED BY <2>1, <2>2, <2>3, <2>4, <2>5, <2>6 DEF Next
  <1> QED BY <1>1, ManagerInitHolds, PTL DEF Spec

\* The late cancel() of a stop never reaches a runtime started after it (Stop keeps
\* the runtime it found under the mutex).
THEOREM ManagerCancelledOnlyIfAsked == Spec => []CancelledOnlyIfAsked
  <1>1. ManagerIInv => CancelledOnlyIfAsked
    BY DEF ManagerIInv, WishInv, CancelledOnlyIfAsked
  <1> QED BY <1>1, ManagerConsistent, PTL

\* What runs although it was stopped is cancelled, or a stop is about to cancel it: no
\* restart and no racing start revives it (Stop, startRegistered, Restore).
THEOREM ManagerStoppedStaysStopped == Spec => []StoppedStaysStopped
  <1>1. ManagerIInv => StoppedStaysStopped
    BY DEF ManagerIInv, WishInv, StoppedStaysStopped, StopUnderWay
  <1> QED BY <1>1, ManagerConsistent, PTL

-----------------------------------------------------------------------------
(* The refinement of InstanceLifecycle.                                     *)

\* The daemon's mode decides its abstract phase.
LEMMA PhaseOfMode ==
    /\ mode = "down" => daemonOf = "down"
    /\ mode = "loaded" => daemonOf = "restoring"
    /\ mode = "serving" => daemonOf = "up"
    /\ mode \in {"cancelled", "shutdown"} => daemonOf = "ending"
    /\ mode = "closed" => daemonOf = "released"
  BY DEF daemonOf

\* The same of the state after a step.
LEMMA PhaseOfModeAfter ==
    /\ mode' = "down" => daemonOf' = "down"
    /\ mode' = "loaded" => daemonOf' = "restoring"
    /\ mode' = "serving" => daemonOf' = "up"
    /\ mode' \in {"cancelled", "shutdown"} => daemonOf' = "ending"
    /\ mode' = "closed" => daemonOf' = "released"
    /\ mode' = mode => daemonOf' = daemonOf
  BY DEF daemonOf

\* Rows that keep what is wanted keep the wish.
LEMMA WishKept ==
    ASSUME \A c \in Configs : /\ registry'[c].desired = registry[c].desired
                              /\ registry'[c].state = "absent" <=> registry[c].state = "absent"
    PROVE  wishOf' = wishOf
  BY DEF wishOf

\* Goroutines that are there and cancelled as before.
LEMMA RunnersKept ==
    ASSUME \A c \in Configs : /\ runner'[c].pc = "none" <=> runner[c].pc = "none"
                              /\ runner'[c].cancelled = runner[c].cancelled
    PROVE  activeOf' = activeOf /\ toldOf' = toldOf
  BY DEF activeOf, toldOf

\* Before the first request is served nothing runs and nobody waits.
LEMMA QuietKept ==
    ASSUME ManagerIInv, QuietUntilRestored, [Next]_vars
    PROVE  QuietUntilRestored'
  <1> SUFFICES ASSUME mode' = "loaded"
               PROVE  /\ \A c \in Configs : runner'[c].pc = "none"
                      /\ \A q \in Requests : request'[q].pc = "idle"
    BY DEF QuietUntilRestored
  <1>1. CASE mode = "loaded"
    <2>1. /\ \A c \in Configs : runner[c].pc = "none"
          /\ \A q \in Requests : request[q].pc = "idle"
      BY <1>1 DEF QuietUntilRestored
    <2>2. UNCHANGED <<runner, request>>
      <3>1. CASE \E c \in Configs : RunnerStep(c)
        BY <2>1, <3>1 DEF RunnerStep, RunnerReturns, Finalize
      <3>2. CASE \E q \in Requests : RequestStep(q)
        BY <2>1, <3>2 DEF RequestStep, CommitStart, RefuseStart, CancelRuntime, StopReturns
      <3>3. CASE DaemonStep
        BY <1>1, <3>3 DEF DaemonStep, Load, Restore, Shutdown, ShutdownReturns, Exit
      <3>4. CASE Client
        BY <1>1, <2>1, <3>4 DEF Client, BeginStart, StopRequest, StopGivesUp, ResumeRegistered
      <3>5. CASE Signal \/ ServeFails \/ Crash
        BY <1>1, <3>5 DEF Signal, ServeFails, Crash, Vanish
      <3>6. CASE UNCHANGED vars
        BY <3>6 DEF vars
      <3> QED BY <3>1, <3>2, <3>3, <3>4, <3>5, <3>6 DEF Next
    <2> QED BY <2>1, <2>2
  <1>2. CASE mode # "loaded"
    <2>1. Load
      <3>1. CASE \E c \in Configs : RunnerStep(c)
        BY <1>2, <3>1 DEF RunnerStep, RunnerReturns, Finalize
      <3>2. CASE \E q \in Requests : RequestStep(q)
        BY <1>2, <3>2 DEF RequestStep, CommitStart, RefuseStart, CancelRuntime, StopReturns
      <3>3. CASE DaemonStep
        BY <1>2, <3>3 DEF DaemonStep, Restore, Shutdown, BeginShutdown, ShutdownReturns, Exit, Vanish
      <3>4. CASE Client
        BY <1>2, <3>4 DEF Client, BeginStart, StopRequest, StopGivesUp, ResumeRegistered
      <3>5. CASE Signal \/ ServeFails \/ Crash
        BY <1>2, <3>5 DEF Signal, ServeFails, BeginShutdown, Crash, Vanish
      <3>6. CASE UNCHANGED vars
        BY <1>2, <3>6 DEF vars
      <3> QED BY <3>1, <3>2, <3>3, <3>4, <3>5, <3>6 DEF Next
    <2> QED BY <2>1 DEF Load, ManagerIInv, RunnerInv, RequestInv
  <1> QED BY <1>1, <1>2

\* A launch by a daemon that serves, as a start of S.
LEMMA LaunchIsStart ==
    ASSUME ManagerIInv, mode = "serving", mode' = mode,
           NEW S \in SUBSET Configs, Started(S), \A c \in S : ~Active(c)
    PROVE  Instances!Start(S)
  <1>0. ManagerTypeOK
    BY DEF ManagerIInv
  <1>1. PICK new \in [S -> View] : new = [c \in S |-> Running]
    BY InitialRows
  <1>2. /\ \A c \in S : /\ registry'[c] = Running
                        /\ runner'[c].pc = "running" /\ ~runner'[c].cancelled
        /\ \A c \in Configs \ S : registry'[c] = registry[c] /\ runner'[c] = runner[c]
        /\ runner' \in [Configs -> Runner]
    BY <1>0, <1>1, LaunchRows DEF Started
  <1>3. \A c \in Configs : usable'[c] <=> (c \in S \/ usable[c])
    BY DEF Started, Launch
  <1>4. \A c \in S : runner[c].pc = "none" /\ ~runner[c].cancelled
    BY DEF ManagerIInv, RunnerInv
  <1>5. daemonOf = "up" /\ daemonOf' = daemonOf
    BY PhaseOfMode, PhaseOfModeAfter
  <1>6. S \cap activeOf = {}
    BY <1>4 DEF activeOf
  <1>7. wishOf' = [c \in Configs |-> IF c \in S THEN "running" ELSE wishOf[c]]
    <2>1. \A c \in S : registry'[c].state # "absent" /\ registry'[c].desired = "running"
      BY <1>2, InitialRows
    <2>2. \A c \in Configs : c \notin S => registry'[c] = registry[c]
      BY <1>2
    <2> QED BY <2>1, <2>2 DEF wishOf
  <1>8. validOf' = validOf \cup S
    BY <1>3 DEF validOf
  <1>9. activeOf' = activeOf \cup S
    <2>1. \A c \in Configs : runner'[c].pc # "none" <=> (runner[c].pc # "none" \/ c \in S)
      BY <1>2
    <2> QED BY <2>1 DEF activeOf
  <1>10. toldOf' = toldOf
    <2>1. \A c \in Configs : runner'[c].cancelled <=> runner[c].cancelled
      BY <1>2, <1>4
    <2> QED BY <2>1 DEF toldOf
  <1> QED BY <1>5, <1>6, <1>7, <1>8, <1>9, <1>10 DEF Instances!Start

\* What the daemon resumes is what is wanted and valid.
LEMMA RestoreIsRestore ==
    ASSUME ManagerIInv, QuietUntilRestored, Restore
    PROVE  Instances!Restore
  <1>0. ManagerTypeOK /\ mode = "loaded" /\ mode' = "serving"
    BY DEF ManagerIInv, Restore
  <1>1. \A c \in Configs : runner[c].pc = "none" /\ ~runner[c].cancelled /\ ~Active(c)
    BY <1>0 DEF QuietUntilRestored, ManagerIInv, RunnerInv
  <1>2. PICK S \in SUBSET Configs : S = ToRestore
    BY DEF ToRestore
  <1>3. \A c \in S : /\ view[c] \in View /\ view[c].desired = "running" /\ Known(c) /\ usable[c]
    BY <1>0, <1>2 DEF ToRestore, ManagerTypeOK
  <1>4. \A c \in S : LET v == [view[c] EXCEPT !.state = "running"]
                     IN  v \in View /\ v.state = "running" /\ v.desired = "running"
    BY <1>3 DEF View, States
  <1>5. PICK new \in [S -> View] : new = [c \in S |-> [view[c] EXCEPT !.state = "running"]]
    BY <1>4
  <1>6. Launch(S, new)
    BY <1>2, <1>5 DEF Restore
  <1>7. /\ \A c \in S : /\ registry'[c].state = "running" /\ registry'[c].desired = "running"
                        /\ runner'[c].pc = "running" /\ ~runner'[c].cancelled
        /\ \A c \in Configs \ S : registry'[c] = registry[c] /\ runner'[c] = runner[c]
    <2>1. /\ \A c \in S : /\ registry'[c] = new[c]
                          /\ runner'[c].pc = "running" /\ ~runner'[c].cancelled
          /\ \A c \in Configs \ S : registry'[c] = registry[c] /\ runner'[c] = runner[c]
      BY <1>0, <1>6, LaunchRows
    <2>2. \A c \in S : new[c].state = "running" /\ new[c].desired = "running"
      BY <1>4, <1>5
    <2> QED BY <2>1, <2>2
  <1>8. \A c \in Configs : registry[c].desired = view[c].desired
                           /\ (Known(c) <=> registry[c].state # "absent")
    BY <1>0 DEF ManagerIInv, WishInv
  <1>9. daemonOf = "restoring" /\ daemonOf' = "up"
    BY <1>0, PhaseOfMode, PhaseOfModeAfter
  <1>10. wishOf' = wishOf
    <2>1. \A c \in Configs : /\ registry'[c].desired = registry[c].desired
                             /\ registry'[c].state = "absent" <=> registry[c].state = "absent"
      BY <1>3, <1>7, <1>8
    <2> QED BY <2>1, WishKept
  <1>11. validOf' = validOf
    <2>1. \A c \in Configs : usable'[c] <=> usable[c]
      BY <1>3, <1>6 DEF Launch
    <2> QED BY <2>1 DEF validOf
  <1>12. activeOf' = {c \in validOf : wishOf[c] = "running"}
    <2>1. \A c \in Configs : c \in S <=> (usable[c] /\ registry[c].state # "absent"
                                                     /\ registry[c].desired = "running")
      BY <1>1, <1>2, <1>8 DEF ToRestore
    <2>2. \A c \in Configs : c \in activeOf' <=> c \in S
      BY <1>1, <1>7 DEF activeOf
    <2>3. \A c \in Configs : wishOf[c] = "running" <=> (registry[c].state # "absent"
                                                         /\ registry[c].desired = "running")
      BY DEF wishOf
    <2>4. activeOf' \subseteq Configs
      BY DEF activeOf
    <2> QED BY <2>1, <2>2, <2>3, <2>4 DEF validOf
  <1>13. toldOf' = toldOf
    <2>1. \A c \in Configs : runner'[c].cancelled <=> runner[c].cancelled
      BY <1>1, <1>7
    <2> QED BY <2>1 DEF toldOf
  <1> QED BY <1>9, <1>10, <1>11, <1>12, <1>13 DEF Instances!Restore

\* A stop is a stop of its instance.
LEMMA StopRequestIsStop ==
    ASSUME ManagerIInv, NEW q \in Requests, NEW c \in Configs, StopRequest(q, c)
    PROVE  Instances!Stop(c)
  <1>0. ManagerTypeOK /\ WishInv(c) /\ mode = "serving" /\ mode' = mode /\ Known(c)
        /\ UNCHANGED <<usable, runner>>
    BY DEF ManagerIInv, StopRequest
  <1>1. /\ registry'[c].desired = "stopped" /\ registry'[c].state = view[c].state
        /\ \A d \in Configs \ {c} : registry'[d] = registry[d]
    BY <1>0 DEF StopRequest, ManagerTypeOK, View
  <1>2. registry[c].state # "absent" /\ registry'[c].state # "absent"
    BY <1>0, <1>1 DEF WishInv, Known
  <1>3. registry[c].desired \in {"running", "stopped"}
    BY <1>0 DEF ManagerTypeOK, View
  <1>4. wishOf[c] # "never" /\ wishOf' = [wishOf EXCEPT ![c] = "stopped"]
    BY <1>1, <1>2, <1>3 DEF wishOf
  <1>5. daemonOf = "up" /\ daemonOf' = daemonOf
    BY <1>0, PhaseOfMode, PhaseOfModeAfter
  <1>6. validOf' = validOf /\ activeOf' = activeOf /\ toldOf' = toldOf
    BY <1>0 DEF validOf, activeOf, toldOf
  <1> QED BY <1>4, <1>5, <1>6 DEF Instances!Stop

\* cancel() tells an instance that is to be stopped, or finds it gone.
LEMMA CancelIsTell ==
    ASSUME ManagerIInv, NEW q \in Requests, CancelRuntime(q)
    PROVE  [Instances!Next]_(Instances!vars)
  <1>0. ManagerTypeOK /\ RequestInv(q) /\ request[q].pc = "cancel"
        /\ UNCHANGED <<registry, mode, usable>>
    BY DEF ManagerIInv, CancelRuntime
  <1>1. PICK c \in Configs : c = request[q].target
    BY <1>0 DEF RequestInv
  <1>2. daemonOf' = daemonOf /\ wishOf' = wishOf /\ validOf' = validOf
    BY <1>0, PhaseOfModeAfter DEF wishOf, validOf
  <1>3. CASE runner' = runner
    <2>1. activeOf' = activeOf /\ toldOf' = toldOf
      BY <1>3 DEF activeOf, toldOf
    <2> QED BY <1>2, <2>1 DEF Instances!vars
  <1>4. CASE /\ runner[c].pc # "none" /\ launches[c] = request[q].launch
             /\ runner' = [runner EXCEPT ![c].cancelled = TRUE]
    <2>1. /\ runner'[c].pc = runner[c].pc /\ runner'[c].cancelled
          /\ \A d \in Configs \ {c} : runner'[d] = runner[d]
      BY <1>0, <1>4 DEF ManagerTypeOK, Runner
    <2>2. activeOf' = activeOf /\ c \in activeOf
      <3>1. \A d \in Configs : runner'[d].pc = runner[d].pc
        BY <2>1
      <3> QED BY <1>4, <3>1 DEF activeOf
    <2>3. toldOf' = toldOf \cup {c}
      <3>1. \A d \in Configs : runner'[d].cancelled <=> (runner[d].cancelled \/ d = c)
        BY <2>1
      <3> QED BY <3>1 DEF toldOf
    <2>4. wishOf[c] = "stopped"
      <3>1. view[c].desired = "stopped"
        BY <1>0, <1>1, <1>4 DEF RequestInv
      <3>2. RunnerInv(c) /\ WishInv(c)
        BY DEF ManagerIInv
      <3>3. mode # "down" /\ Known(c)
        BY <1>4, <3>2 DEF RunnerInv, Active, Known
      <3> QED BY <3>1, <3>2, <3>3 DEF WishInv, wishOf
    <2>5. Instances!Tell(c)
      BY <1>2, <2>2, <2>3, <2>4 DEF Instances!Tell
    <2> QED BY <2>5 DEF Instances!Next
  <1> QED BY <1>1, <1>3, <1>4 DEF CancelRuntime

\* The end of a runner is visible when its outcome is published, and takes no wish back.
LEMMA RunnerStepIsEnd ==
    ASSUME ManagerIInv, NEW c \in Configs, RunnerStep(c)
    PROVE  [Instances!Next]_(Instances!vars)
  <1>0. ManagerTypeOK /\ RunnerInv(c) /\ WishInv(c)
    BY DEF ManagerIInv
  <1>1. CASE \E state \in {"exited", "failed"} : RunnerReturns(c, state)
    <2>1. PICK state \in {"exited", "failed"} : RunnerReturns(c, state)
      BY <1>1
    <2>2. UNCHANGED <<registry, mode, usable>>
      BY <2>1 DEF RunnerReturns
    <2>3. /\ runner[c].pc = "running" /\ runner'[c].pc = "finalizing"
          /\ runner'[c].cancelled = runner[c].cancelled
          /\ \A d \in Configs \ {c} : runner'[d] = runner[d]
      BY <1>0, <2>1 DEF RunnerReturns, ManagerTypeOK, Runner
    <2>4. activeOf' = activeOf /\ toldOf' = toldOf
      <3>1. \A d \in Configs : /\ runner'[d].pc = "none" <=> runner[d].pc = "none"
                               /\ runner'[d].cancelled = runner[d].cancelled
        BY <2>3
      <3> QED BY <3>1, RunnersKept
    <2>5. daemonOf' = daemonOf /\ wishOf' = wishOf /\ validOf' = validOf
      BY <2>2, PhaseOfModeAfter DEF wishOf, validOf
    <2> QED BY <2>4, <2>5 DEF Instances!vars
  <1>2. CASE Finalize(c)
    <2>1. mode' = mode /\ usable' = usable /\ runner[c].pc = "finalizing"
      BY <1>2 DEF Finalize
    <2>2. FinalView(c).state \in {"exited", "failed"} /\ FinalView(c).desired = view[c].desired
      BY <1>0, <2>1 DEF FinalView, RunnerInv, ManagerTypeOK, Runner, View
    <2>3. /\ runner'[c] = NoRunner
          /\ registry'[c] \in {registry[c], FinalView(c)}
          /\ \A d \in Configs \ {c} : runner'[d] = runner[d] /\ registry'[d] = registry[d]
      BY <1>0, <1>2 DEF Finalize, ManagerTypeOK
    <2>4. mode # "down" /\ Known(c)
      BY <1>0, <2>1 DEF RunnerInv, Active, Known
    <2>5. registry'[c].desired = registry[c].desired
          /\ registry'[c].state # "absent" /\ registry[c].state # "absent"
      BY <1>0, <2>2, <2>3, <2>4 DEF WishInv
    <2>6. wishOf' = wishOf
      <3>1. \A d \in Configs : /\ registry'[d].desired = registry[d].desired
                               /\ registry'[d].state = "absent" <=> registry[d].state = "absent"
        BY <2>3, <2>5
      <3> QED BY <3>1, WishKept
    <2>7. daemonOf' = daemonOf /\ validOf' = validOf
      BY <2>1, PhaseOfModeAfter DEF validOf
    <2>8. runner'[c].pc = "none" /\ ~runner'[c].cancelled
      BY <2>3, InitialRows
    <2>9. c \in activeOf /\ activeOf' = activeOf \ {c}
      <3>1. \A d \in Configs : runner'[d].pc # "none" <=> (runner[d].pc # "none" /\ d # c)
        BY <2>3, <2>8
      <3> QED BY <2>1, <3>1 DEF activeOf
    <2>10. toldOf' = toldOf \ {c}
      <3>1. \A d \in Configs : runner'[d].cancelled <=> (runner[d].cancelled /\ d # c)
        BY <2>3, <2>8
      <3> QED BY <3>1 DEF toldOf
    <2>11. Instances!End(c)
      BY <2>6, <2>7, <2>9, <2>10 DEF Instances!End
    <2> QED BY <2>11 DEF Instances!Next
  <1> QED BY <1>1, <1>2 DEF RunnerStep

\* A new daemon reads the registry, and changes nothing in it.
LEMMA LoadIsOpen ==
    ASSUME ManagerIInv, Load
    PROVE  Instances!Open
  <1>1. /\ mode = "down" /\ mode' = "loaded" /\ UNCHANGED <<registry, runner>>
        /\ ManagerTypeOK
    BY DEF Load, ManagerIInv
  <1>2. \A c \in Configs : usable'[c] => registry[c].state # "absent"
    BY DEF Load
  <1>3. \A c \in Configs : registry[c].state # "absent" => wishOf[c] # "never"
    BY <1>1 DEF wishOf, ManagerTypeOK, View
  <1>4. validOf' \in SUBSET {c \in Configs : wishOf[c] # "never"}
    BY <1>2, <1>3 DEF validOf
  <1>5. daemonOf = "down" /\ daemonOf' = "restoring"
    BY <1>1, PhaseOfMode, PhaseOfModeAfter
  <1>6. wishOf' = wishOf /\ activeOf' = activeOf /\ toldOf' = toldOf
    BY <1>1 DEF wishOf, activeOf, toldOf
  <1> QED BY <1>4, <1>5, <1>6 DEF Instances!Open

\* A signal, a failure of Serve and Shutdown tell everything that runs.
LEMMA EndingIsTellAll ==
    ASSUME ManagerIInv, Signal \/ Shutdown \/ ServeFails
    PROVE  Instances!TellAll
  <1>0. ManagerTypeOK
    BY DEF ManagerIInv
  <1>1. /\ CancelAll /\ UNCHANGED <<registry, usable>>
        /\ mode \in {"loaded", "serving", "cancelled"} /\ mode' \in {"cancelled", "shutdown"}
    BY DEF Signal, Shutdown, ServeFails, BeginShutdown, Accepting
  <1>2. \A c \in Configs : /\ runner'[c].pc = runner[c].pc
                           /\ runner[c].pc = "none" => ~runner'[c].cancelled
                           /\ runner[c].pc # "none" => runner'[c].cancelled
    <2> TAKE c \in Configs
    <2>1. runner[c].pc = "none" => ~runner[c].cancelled
      BY DEF ManagerIInv, RunnerInv
    <2> QED BY <1>0, <1>1, <2>1 DEF CancelAll, ManagerTypeOK, Runner
  <1>3. activeOf' = activeOf /\ toldOf' = activeOf
    BY <1>2 DEF activeOf, toldOf
  <1>4. daemonOf \in {"restoring", "up", "ending"} /\ daemonOf' = "ending"
    BY <1>1, PhaseOfMode, PhaseOfModeAfter
  <1>5. wishOf' = wishOf /\ validOf' = validOf
    BY <1>1 DEF wishOf, validOf
  <1> QED BY <1>3, <1>4, <1>5 DEF Instances!TellAll

\* Shutdown returns with nothing running, and the process goes with all it had in memory.
LEMMA EndIsReleaseOrGone ==
    ASSUME ManagerIInv, ShutdownReturns \/ Exit \/ Crash
    PROVE  Instances!Release \/ Instances!Gone
  <1>0. ManagerTypeOK
    BY DEF ManagerIInv
  <1>1. CASE ShutdownReturns
    <2>1. /\ mode = "shutdown" /\ mode' = "closed" /\ waiting = {}
          /\ UNCHANGED <<registry, usable, runner>>
      BY <1>1 DEF ShutdownReturns
    <2>2. activeOf = {}
      BY <2>1 DEF activeOf, ManagerIInv, RunnerInv
    <2>3. daemonOf = "ending" /\ daemonOf' = "released"
      BY <2>1, PhaseOfMode, PhaseOfModeAfter
    <2>4. wishOf' = wishOf /\ validOf' = validOf /\ activeOf' = activeOf /\ toldOf' = toldOf
      BY <2>1 DEF wishOf, validOf, activeOf, toldOf
    <2> QED BY <2>2, <2>3, <2>4 DEF Instances!Release
  <1>2. CASE Exit \/ Crash
    <2>1. Vanish /\ registry' = registry /\ mode # "down"
      BY <1>2 DEF Exit, Crash
    <2>2. daemonOf # "down" /\ daemonOf' = "down"
      <3>1. mode \in {"loaded", "serving", "cancelled", "shutdown", "closed"}
        BY <1>0, <2>1 DEF ManagerTypeOK, Modes
      <3>2. mode' = "down"
        BY <2>1 DEF Vanish
      <3> QED BY <3>1, <3>2, PhaseOfMode, PhaseOfModeAfter
    <2>3. wishOf' = wishOf
      BY <2>1 DEF wishOf
    <2>4. \A c \in Configs : ~usable'[c] /\ runner'[c].pc = "none" /\ ~runner'[c].cancelled
      BY <2>1, InitialRows DEF Vanish
    <2>5. validOf' = {} /\ activeOf' = {} /\ toldOf' = {}
      BY <2>4 DEF validOf, activeOf, toldOf
    <2> QED BY <2>2, <2>3, <2>5 DEF Instances!Gone
  <1> QED BY <1>1, <1>2

\* Requests that begin, are refused, return or give up change nothing that was promised.
LEMMA RequestMovesAreInvisible ==
    ASSUME UNCHANGED <<registry, mode, usable, runner>>
    PROVE  UNCHANGED Instances!vars
  BY DEF Instances!vars, daemonOf, wishOf, validOf, activeOf, toldOf

\* Every step of the manager is a step of the abstract life cycle, or invisible there.
LEMMA StepIsInstanceStep ==
    ASSUME ManagerIInv, QuietUntilRestored, [Next]_vars
    PROVE  [Instances!Next]_(Instances!vars)
  <1>1. CASE \E c \in Configs : RunnerStep(c)
    BY <1>1, RunnerStepIsEnd
  <1>2. CASE \E q \in Requests : RequestStep(q)
    <2>1. PICK q \in Requests : RequestStep(q)
      BY <1>2
    <2>2. CASE CommitStart(q)
      <3>1. mode = "serving" /\ mode' = mode
        BY <2>2 DEF CommitStart, Accepting, QuietUntilRestored
      <3>2. PICK S \in SUBSET Configs : S = request[q].configs
        BY DEF ManagerIInv, ManagerTypeOK, Request
      <3>3. Started(S) /\ \A c \in S : ~Active(c)
        BY <2>2, <3>2 DEF CommitStart
      <3>4. Instances!Start(S)
        BY <3>1, <3>3, LaunchIsStart
      <3> QED BY <3>4 DEF Instances!Next
    <2>3. CASE RefuseStart(q) \/ StopReturns(q)
      BY <2>3, RequestMovesAreInvisible DEF RefuseStart, StopReturns
    <2>4. CASE CancelRuntime(q)
      BY <2>4, CancelIsTell
    <2> QED BY <2>1, <2>2, <2>3, <2>4 DEF RequestStep
  <1>3. CASE DaemonStep
    BY <1>3, LoadIsOpen, RestoreIsRestore, EndingIsTellAll, EndIsReleaseOrGone
       DEF DaemonStep, Instances!Next
  <1>4. CASE Client
    <2>1. CASE \E q \in Requests : \/ \E S \in SUBSET Configs \ {{}} : BeginStart(q, S)
                                   \/ StopGivesUp(q)
      BY <2>1, RequestMovesAreInvisible DEF BeginStart, StopGivesUp
    <2>2. CASE \E q \in Requests, c \in Configs : StopRequest(q, c)
      BY <2>2, StopRequestIsStop DEF Instances!Next
    <2>3. CASE \E c \in Configs : ResumeRegistered(c)
      <3>1. PICK c \in Configs : ResumeRegistered(c)
        BY <2>3
      <3>2. PICK S \in SUBSET Configs : S = {c}
        OBVIOUS
      <3>3. mode = "serving" /\ mode' = mode /\ Started(S) /\ \A d \in S : ~Active(d)
        BY <3>1, <3>2 DEF ResumeRegistered
      <3>4. Instances!Start(S)
        BY <3>3, LaunchIsStart
      <3> QED BY <3>4 DEF Instances!Next
    <2> QED BY <1>4, <2>1, <2>2, <2>3 DEF Client
  <1>5. CASE Signal \/ ServeFails \/ Crash
    BY <1>5, EndingIsTellAll, EndIsReleaseOrGone DEF Instances!Next
  <1>6. CASE UNCHANGED vars
    BY <1>6, RequestMovesAreInvisible DEF vars
  <1> QED BY <1>1, <1>2, <1>3, <1>4, <1>5, <1>6 DEF Next

\* The manager implements the abstract life cycle of registered instances: the registry
\* changes only as accepted starts and stops say, a new daemon resumes what is wanted and
\* valid, and the lock is free only when nothing runs (manager.go, registered.go).
THEOREM ManagerImplementsInstances == Spec => ImplementsInstances
  <1>1. Init => QuietUntilRestored /\ Instances!Init
    <2> SUFFICES ASSUME Init PROVE QuietUntilRestored /\ Instances!Init
      OBVIOUS
    <2>1. mode = "down" /\ daemonOf = "down"
      BY PhaseOfMode DEF Init
    <2>2. \A c \in Configs : /\ registry[c].state = "absent" /\ ~usable[c]
                             /\ runner[c].pc = "none" /\ ~runner[c].cancelled
      BY InitialRows DEF Init
    <2>3. wishOf = [c \in Configs |-> "never"]
      BY <2>2 DEF wishOf
    <2>4. validOf = {} /\ activeOf = {} /\ toldOf = {}
      BY <2>2 DEF validOf, activeOf, toldOf
    <2> QED BY <2>1, <2>3, <2>4 DEF QuietUntilRestored, Instances!Init
  <1>2. ManagerIInv /\ QuietUntilRestored /\ [Next]_vars =>
            QuietUntilRestored' /\ [Instances!Next]_(Instances!vars)
    BY QuietKept, StepIsInstanceStep
  <1> QED BY <1>1, <1>2, ManagerConsistent, PTL DEF Spec, ImplementsInstances, Instances!Spec

-----------------------------------------------------------------------------
(* Who waits for whom.                                                      *)

\* A stop that waits keeps the number of the runtime it cancelled; while that one is the
\* current one and has not ended, it is cancelled.
WaitInv(q) ==
    request[q].pc = "wait" =>
        /\ request[q].launch <= launches[request[q].target]
        /\ \/ Done(request[q].target, request[q].launch)
           \/ runner[request[q].target].cancelled

WaitIInv == /\ \A q \in Requests : WaitInv(q)
            /\ \A c \in waiting : runner[c].cancelled

\* Where goroutines keep their numbers, end or stay cancelled, the stops that wait go on
\* waiting for what was cancelled.
LEMMA WaitFrame ==
    ASSUME NEW q \in Requests, RequestInv(q), WaitInv(q), request'[q] = request[q],
           \A c \in Configs : /\ launches'[c] = launches[c]
                              /\ runner[c].pc = "none" => runner'[c].pc = "none"
                              /\ runner[c].cancelled => (runner'[c].cancelled \/ runner'[c].pc = "none")
    PROVE  WaitInv(q)'
  <1> SUFFICES ASSUME request[q].pc = "wait"
               PROVE  /\ request[q].launch <= launches'[request[q].target]
                      /\ \/ Done(request[q].target, request[q].launch)'
                         \/ runner'[request[q].target].cancelled
    BY DEF WaitInv, Done
  <1>1. PICK c \in Configs : c = request[q].target
    BY DEF RequestInv
  <1>2. /\ request[q].launch <= launches[c]
        /\ Done(c, request[q].launch) \/ runner[c].cancelled
    BY <1>1 DEF WaitInv
  <1>3. Done(c, request[q].launch)' \/ runner'[c].cancelled
    BY <1>2 DEF Done
  <1> QED BY <1>1, <1>2, <1>3 DEF Done

\* A launch replaces what has ended: those who waited for it have what they waited for.
LEMMA LaunchKeepsWaits ==
    ASSUME ManagerIInv, WaitIInv, NEW S \in SUBSET Configs, NEW new \in [S -> View],
           Launch(S, new), \A c \in S : ~Active(c), UNCHANGED waiting,
           \A q \in Requests : request'[q] = request[q] \/ request'[q] = Idle
    PROVE  WaitIInv'
  <1>0. ManagerTypeOK
    BY DEF ManagerIInv
  <1>1. /\ \A c \in S : launches'[c] = launches[c] + 1
        /\ \A c \in Configs \ S : runner'[c] = runner[c] /\ launches'[c] = launches[c]
    BY <1>0, LaunchRows
  <1>2. \A c \in S : runner[c].pc = "none" /\ ~runner[c].cancelled
    BY DEF ManagerIInv, RunnerInv
  <1>3. ASSUME NEW q \in Requests PROVE WaitInv(q)'
    <2>1. CASE request'[q] = Idle
      BY <2>1, InitialRows DEF WaitInv
    <2>2. CASE request'[q] = request[q] /\ request[q].pc = "wait"
      <3>1. PICK c \in Configs : c = request[q].target
        BY <2>2 DEF ManagerIInv, RequestInv
      <3>2. /\ request[q].launch <= launches[c]
            /\ Done(c, request[q].launch) \/ runner[c].cancelled
        BY <2>2, <3>1 DEF WaitIInv, WaitInv
      <3>3. launches[c] \in Nat /\ request[q].launch \in Nat
        BY <1>0 DEF ManagerTypeOK, Request
      <3>4. CASE c \in S
        <4>1. request[q].launch <= launches'[c] /\ launches'[c] # request[q].launch
          BY <1>1, <3>2, <3>3, <3>4
        <4>2. Done(c, request[q].launch)'
          BY <4>1, <2>2, <3>1 DEF Done
        <4> QED BY <2>2, <3>1, <4>1, <4>2 DEF WaitInv, Done
      <3>5. CASE c \notin S
        BY <1>1, <2>2, <3>1, <3>2, <3>5 DEF WaitInv, Done
      <3> QED BY <3>4, <3>5
    <2>3. CASE request'[q] = request[q] /\ request[q].pc # "wait"
      BY <2>3 DEF WaitInv
    <2> QED BY <2>1, <2>2, <2>3
  <1>4. \A c \in waiting' : runner'[c].cancelled
    <2>1. \A c \in waiting : c \in Configs /\ c \notin S
      BY <1>0, <1>2 DEF WaitIInv, ManagerTypeOK
    <2> QED BY <1>1, <2>1 DEF WaitIInv
  <1> QED BY <1>3, <1>4 DEF WaitIInv

\* Starts, resumed instances and what the daemon restores.
LEMMA StartsKeepWaits ==
    ASSUME ManagerIInv, WaitIInv,
           \/ \E q \in Requests : CommitStart(q)
           \/ \E c \in Configs : ResumeRegistered(c)
           \/ Restore
    PROVE  WaitIInv'
  <1>0. ManagerTypeOK
    BY DEF ManagerIInv
  <1>1. CASE \E q \in Requests : CommitStart(q)
    <2>1. PICK q \in Requests : CommitStart(q)
      BY <1>1
    <2>2. PICK S \in SUBSET Configs : S = request[q].configs
      BY <1>0 DEF ManagerTypeOK, Request
    <2>3. PICK new \in [S -> View] : new = [c \in S |-> Running]
      BY InitialRows
    <2>4. Launch(S, new) /\ \A c \in S : ~Active(c)
      BY <2>1, <2>2, <2>3 DEF CommitStart, Started
    <2>5. UNCHANGED waiting /\ \A p \in Requests : request'[p] = request[p] \/ request'[p] = Idle
      BY <1>0, <2>1 DEF CommitStart, ManagerTypeOK
    <2> QED BY <2>4, <2>5, LaunchKeepsWaits
  <1>2. CASE \E c \in Configs : ResumeRegistered(c)
    <2>1. PICK c \in Configs : ResumeRegistered(c)
      BY <1>2
    <2>2. PICK S \in SUBSET Configs : S = {c}
      OBVIOUS
    <2>3. PICK new \in [S -> View] : new = [d \in S |-> Running]
      BY InitialRows
    <2>4. Launch(S, new) /\ (\A d \in S : ~Active(d)) /\ UNCHANGED <<request, waiting>>
      BY <2>1, <2>2, <2>3 DEF ResumeRegistered, Started
    <2> QED BY <2>4, LaunchKeepsWaits
  <1>3. CASE Restore
    <2>1. PICK S \in SUBSET Configs : S = ToRestore
      BY DEF ToRestore
    <2>2. \A c \in S : view[c] \in View /\ ~Active(c)
      BY <1>0, <2>1 DEF ToRestore, ManagerTypeOK
    <2>3. \A c \in S : [view[c] EXCEPT !.state = "running"] \in View
      BY <2>2 DEF View, States
    <2>4. PICK new \in [S -> View] : new = [c \in S |-> [view[c] EXCEPT !.state = "running"]]
      BY <2>3
    <2>5. Launch(S, new) /\ UNCHANGED <<request, waiting>>
      BY <1>3, <2>1, <2>4 DEF Restore
    <2> QED BY <2>2, <2>5, LaunchKeepsWaits
  <1> QED BY <1>1, <1>2, <1>3

\* Requests that begin, are refused, return or give up, and a stop that is accepted.
LEMMA RequestMovesKeepWaits ==
    ASSUME ManagerIInv, WaitIInv, NEW p \in Requests,
           UNCHANGED <<runner, launches, waiting>>,
           \A q \in Requests \ {p} : request'[q] = request[q],
           request'[p].pc # "wait" \/ request'[p] = request[p]
    PROVE  WaitIInv'
  <1>1. ASSUME NEW q \in Requests PROVE WaitInv(q)'
    <2>1. CASE request'[q].pc # "wait"
      BY <2>1 DEF WaitInv
    <2>2. CASE request'[q] = request[q]
      BY <2>2 DEF WaitIInv, WaitInv, Done
    <2> QED BY <2>1, <2>2
  <1> QED BY <1>1 DEF WaitIInv

\* A stop begins to wait once it has cancelled the runtime it found, or found it gone.
LEMMA CancelKeepsWaits ==
    ASSUME ManagerIInv, WaitIInv, NEW q \in Requests, CancelRuntime(q)
    PROVE  WaitIInv'
  <1>0. ManagerTypeOK /\ RequestInv(q) /\ request[q].pc = "cancel"
        /\ UNCHANGED <<launches, waiting>>
    BY DEF ManagerIInv, CancelRuntime
  <1>1. PICK c \in Configs : c = request[q].target
    BY <1>0 DEF RequestInv
  <1>2. /\ \A d \in Configs : /\ runner'[d].pc = runner[d].pc
                              /\ runner[d].cancelled => runner'[d].cancelled
        /\ (runner[c].pc # "none" /\ launches[c] = request[q].launch) => runner'[c].cancelled
    <2>1. CASE runner' = runner /\ ~(runner[c].pc # "none" /\ launches[c] = request[q].launch)
      BY <2>1
    <2>2. CASE runner' = [runner EXCEPT ![c].cancelled = TRUE]
      BY <1>0, <2>2 DEF ManagerTypeOK, Runner
    <2> QED BY <1>1, <2>1, <2>2 DEF CancelRuntime
  <1>3. /\ request'[q].pc = "wait" /\ request'[q].target = c
        /\ request'[q].launch = request[q].launch
        /\ \A p \in Requests \ {q} : request'[p] = request[p]
    BY <1>0, <1>1 DEF CancelRuntime, ManagerTypeOK, Request
  <1>4. ASSUME NEW p \in Requests PROVE WaitInv(p)'
    <2>1. CASE p # q
      <3>1. RequestInv(p) /\ WaitInv(p) /\ request'[p] = request[p]
        BY <1>3, <2>1 DEF ManagerIInv, WaitIInv
      <3> QED BY <1>0, <1>2, <3>1, WaitFrame
    <2>2. CASE p = q
      <3>1. request[q].launch <= launches[c]
        BY <1>0, <1>1 DEF RequestInv
      <3>2. Done(c, request[q].launch)' \/ runner'[c].cancelled
        BY <1>0, <1>2, <1>3 DEF Done
      <3> QED BY <1>0, <1>3, <2>2, <3>1, <3>2 DEF WaitInv, Done
    <2> QED BY <2>1, <2>2
  <1>5. \A d \in waiting' : runner'[d].cancelled
    BY <1>0, <1>2 DEF WaitIInv, ManagerTypeOK
  <1> QED BY <1>4, <1>5 DEF WaitIInv

\* A runner that returns stays cancelled until its end is published, and then nobody
\* waits for it.
LEMMA RunnerKeepsWaits ==
    ASSUME ManagerIInv, WaitIInv, NEW c \in Configs, RunnerStep(c)
    PROVE  WaitIInv'
  <1>0. ManagerTypeOK /\ waiting \subseteq Configs /\ UNCHANGED <<launches, request>>
    BY DEF ManagerIInv, ManagerTypeOK, RunnerStep, RunnerReturns, Finalize
  <1>1. /\ \A d \in Configs \ {c} : runner'[d] = runner[d]
        /\ runner[c].pc # "none"
        /\ \/ runner'[c].cancelled = runner[c].cancelled /\ waiting' = waiting
           \/ runner'[c].pc = "none" /\ waiting' = waiting \ {c}
    <2>1. CASE \E state \in {"exited", "failed"} : RunnerReturns(c, state)
      <3>1. PICK state \in {"exited", "failed"} : RunnerReturns(c, state)
        BY <2>1
      <3> QED BY <1>0, <3>1 DEF RunnerReturns, ManagerTypeOK, Runner
    <2>2. CASE Finalize(c)
      BY <1>0, <2>2, InitialRows DEF Finalize, ManagerTypeOK
    <2> QED BY <2>1, <2>2 DEF RunnerStep
  <1>2. \A d \in Configs : /\ runner[d].pc = "none" => runner'[d].pc = "none"
                           /\ runner[d].cancelled => (runner'[d].cancelled \/ runner'[d].pc = "none")
    BY <1>1
  <1>3. ASSUME NEW q \in Requests PROVE WaitInv(q)'
    <2>1. RequestInv(q) /\ WaitInv(q)
      BY DEF ManagerIInv, WaitIInv
    <2> QED BY <1>0, <1>2, <2>1, WaitFrame
  <1>4. \A d \in waiting' : runner'[d].cancelled
    BY <1>0, <1>1 DEF WaitIInv
  <1> QED BY <1>3, <1>4 DEF WaitIInv

\* The end of the daemon cancels everything that runs, so Shutdown waits for nothing else.
LEMMA EndingKeepsWaits ==
    ASSUME ManagerIInv, WaitIInv, Signal \/ Shutdown \/ ServeFails
    PROVE  WaitIInv'
  <1>0. ManagerTypeOK /\ CancelAll /\ UNCHANGED <<request, launches>>
    BY DEF ManagerIInv, Signal, Shutdown, ServeFails, BeginShutdown
  <1>1. \A c \in Configs : /\ runner'[c].pc = runner[c].pc
                           /\ runner[c].pc = "none" => runner'[c] = runner[c]
                           /\ runner[c].pc # "none" => runner'[c].cancelled
    BY <1>0 DEF CancelAll, ManagerTypeOK, Runner
  <1>2. ASSUME NEW q \in Requests PROVE WaitInv(q)'
    <2>1. RequestInv(q) /\ WaitInv(q)
      BY DEF ManagerIInv, WaitIInv
    <2>2. \A c \in Configs : runner[c].cancelled => runner'[c].cancelled
      BY <1>1
    <2> QED BY <1>0, <1>1, <2>1, <2>2, WaitFrame
  <1>3. ASSUME NEW c \in waiting' PROVE runner'[c].cancelled
    <2>1. CASE waiting' = waiting
      <3>1. c \in Configs /\ runner[c].cancelled
        BY <1>0, <1>3, <2>1 DEF ManagerTypeOK, WaitIInv
      <3> QED BY <1>1, <3>1
    <2>2. CASE waiting' = {d \in Configs : Active(d)}
      <3>1. c \in Configs /\ runner[c].pc # "none"
        BY <1>3, <2>2 DEF ManagerIInv, RunnerInv
      <3> QED BY <1>1, <3>1
    <2> QED BY <2>1, <2>2 DEF Signal, Shutdown, ServeFails, BeginShutdown
  <1> QED BY <1>2, <1>3 DEF WaitIInv

\* A stop and Shutdown wait only for runtimes that were told to end, whoever replaces,
\* finalizes or cancels them meanwhile (Stop, waitForRuntime and Shutdown of manager.go).
THEOREM ManagerWaitsForTheCancelled == Spec => []WaitsForTheCancelled
  <1>1. Init => WaitIInv
    BY InitialRows DEF Init, WaitIInv, WaitInv
  <1>2. ManagerIInv /\ WaitIInv /\ [Next]_vars => WaitIInv'
    <2> SUFFICES ASSUME ManagerIInv, WaitIInv, [Next]_vars PROVE WaitIInv'
      OBVIOUS
    <2>0. ManagerTypeOK
      BY DEF ManagerIInv
    <2>1. CASE \E c \in Configs : RunnerStep(c)
      BY <2>1, RunnerKeepsWaits
    <2>2. CASE \E q \in Requests : RequestStep(q)
      <3>1. PICK q \in Requests : RequestStep(q)
        BY <2>2
      <3>2. CASE RefuseStart(q) \/ StopReturns(q)
        <4>1. /\ UNCHANGED <<runner, launches, waiting>> /\ request'[q] = Idle
              /\ \A p \in Requests \ {q} : request'[p] = request[p]
          BY <2>0, <3>2 DEF RefuseStart, StopReturns, ManagerTypeOK
        <4> QED BY <4>1, InitialRows, RequestMovesKeepWaits
      <3> QED BY <3>1, <3>2, StartsKeepWaits, CancelKeepsWaits DEF RequestStep
    <2>3. CASE Load
      <3>1. UNCHANGED <<runner, launches, waiting, request>>
        BY <2>3 DEF Load
      <3> QED BY <3>1 DEF WaitIInv, WaitInv, Done
    <2>4. CASE Restore \/ \E c \in Configs : ResumeRegistered(c)
      BY <2>4, StartsKeepWaits
    <2>5. CASE Signal \/ Shutdown \/ ServeFails
      BY <2>5, EndingKeepsWaits
    <2>6. CASE ShutdownReturns \/ UNCHANGED vars
      <3>1. UNCHANGED <<runner, launches, waiting, request>>
        BY <2>6 DEF ShutdownReturns, vars
      <3> QED BY <3>1 DEF WaitIInv, WaitInv, Done
    <2>7. CASE Exit \/ Crash
      <3>1. waiting' = {} /\ \A q \in Requests : request'[q].pc = "idle"
        BY <2>7, InitialRows DEF Exit, Crash, Vanish
      <3> QED BY <3>1 DEF WaitIInv, WaitInv
    <2>8. CASE \E q \in Requests : \/ \E S \in SUBSET Configs \ {{}} : BeginStart(q, S)
                                   \/ StopGivesUp(q)
                                   \/ \E c \in Configs : StopRequest(q, c)
      <3>1. PICK q \in Requests : \/ \E S \in SUBSET Configs \ {{}} : BeginStart(q, S)
                                  \/ StopGivesUp(q)
                                  \/ \E c \in Configs : StopRequest(q, c)
        BY <2>8
      <3>2. /\ UNCHANGED <<runner, launches, waiting>>
            /\ \A p \in Requests \ {q} : request'[p] = request[p]
            /\ request'[q].pc # "wait" \/ request'[q] = request[q]
        <4>1. CASE \E S \in SUBSET Configs \ {{}} : BeginStart(q, S)
          BY <2>0, <4>1 DEF BeginStart, ManagerTypeOK, Idle
        <4>2. CASE StopGivesUp(q)
          BY <2>0, <4>2, InitialRows DEF StopGivesUp, ManagerTypeOK
        <4>3. CASE \E c \in Configs : StopRequest(q, c)
          <5>1. PICK c \in Configs : StopRequest(q, c)
            BY <4>3
          <5>2. [Idle EXCEPT !.pc = "cancel", !.target = c, !.launch = launches[c]].pc = "cancel"
            BY DEF Idle
          <5>3. UNCHANGED <<runner, launches, waiting>>
            BY <5>1 DEF StopRequest
          <5>4. CASE request' = request
            BY <5>3, <5>4
          <5>5. CASE request' = [request EXCEPT ![q] = [Idle EXCEPT !.pc = "cancel", !.target = c,
                                                                    !.launch = launches[c]]]
            BY <2>0, <5>2, <5>3, <5>5 DEF ManagerTypeOK
          <5> QED BY <5>1, <5>4, <5>5 DEF StopRequest
        <4> QED BY <3>1, <4>1, <4>2, <4>3
      <3> QED BY <3>2, RequestMovesKeepWaits
    <2> QED BY <2>1, <2>2, <2>3, <2>4, <2>5, <2>6, <2>7, <2>8 DEF Next, DaemonStep, Client
  <1>3. WaitIInv => WaitsForTheCancelled
    BY DEF WaitIInv, WaitInv, WaitsForTheCancelled
  <1> QED BY <1>1, <1>2, <1>3, ManagerConsistent, PTL DEF Spec

\* Acknowledged wishes are durable, whatever is waited for was told to end, and the
\* registry's lock is released only when the last runtime has ended (Shutdown, Stop and
\* run of manager.go).
THEOREM ManagerSafe == Spec => []ManagerInv
  <1>1. ManagerIInv /\ WaitsForTheCancelled => ManagerInv
    <2> SUFFICES ASSUME ManagerIInv, WaitsForTheCancelled PROVE ManagerInv
      OBVIOUS
    <2>1. DesiredIsDurable
      BY DEF ManagerIInv, WishInv, DesiredIsDurable
    <2>2. ReleasedOnlyWhenIdle
      BY DEF ManagerIInv, RunnerInv, ReleasedOnlyWhenIdle
    <2> QED BY <2>1, <2>2 DEF ManagerIInv, ManagerInv
  <1> QED BY <1>1, ManagerConsistent, ManagerWaitsForTheCancelled, PTL

==============================================================================

----------------------------- MODULE Supervisor -----------------------------
(***************************************************************************)
(* internal/control's manager without a registry: instances live in memory *)
(* only, a start may stay attached to its client, and terminated instances *)
(* are kept up to a limit. Manager models the mode with a registry, and    *)
(* the end of the daemon, which is one for both. A critical section of     *)
(* manager.mu is one action; what lies between two of them interleaves.    *)
(*                                                                         *)
(* A configuration is the identity of its file, a database a path; paths   *)
(* may reach one file under several names (FileOf), which is what          *)
(* PathsEquivalent and os.SameFile find out. Names and IDs are numbers:    *)
(* automatic names are tried in ascending order, as base, base-2, ...; so  *)
(* are IDs, of which only their being equal to other labels matters.       *)
(***************************************************************************)
EXTENDS Integers, FiniteSets, Sequences, SequencesExt

CONSTANTS Configs,        \* configuration files, by identity
          Paths,          \* database paths
          FileOf,         \* FileOf[p]: the file that p reaches
          NoPath,
          Requests,       \* requests in progress at a time
          Kinds,          \* Kinds[q]: bound: what q may ask for
          Names,          \* names a client may ask for
          AutoNames,      \* what automaticName and its suffixes give
          Ids,            \* what the ID generator gives
          AnyId,          \* a selector that is a prefix of every ID
          Retained,       \* retainedInstances
          InitialUses,    \* what the configurations may name at first
          EditsTo,        \* EditsTo[c]: bound: the databases an edit of c may name
          MaxRuntimes,    \* bound: instances ever started
          MaxRequests,    \* bound: requests ever made
          MaxEdits        \* bound: edits of a configuration

ASSUME SupervisorAssumption ==
    /\ FileOf \in [Paths -> Paths] /\ NoPath \notin Paths
    /\ Names \cup AutoNames \cup Ids \subseteq Nat \ {0} /\ AnyId = 0
    /\ {Retained, MaxRuntimes, MaxRequests, MaxEdits} \subseteq Nat
    /\ Retained > 0
    /\ IsFiniteSet(Configs)
    /\ InitialUses \subseteq [Configs -> Paths]
    /\ EditsTo \in [Configs -> SUBSET Paths]

VARIABLES uses,             \* uses[c]: the database that the file of c names now
          runtimes,         \* runtimes[r]: the r-th instance started
          instances,        \* manager.instances: ID to runtime
          names,            \* manager.names: name to ID
          activeConfigs,    \* manager.activeConfigs: configuration to ID
          activeDatabases,  \* manager.activeDatabases: path to ID
          knownQueues,      \* manager.knownQueues: identity to what is known
          request,          \* request[q]: a handler of the server
          asked, edits      \* requests and edits so far

registers == <<instances, names, activeConfigs, activeDatabases>>
vars == <<uses, runtimes, registers, knownQueues, request, asked, edits>>

NoLabel == 0
Labels == Names \cup AutoNames \cup Ids

Runtime == [config : Configs, database : Paths, id : Ids, name : Names \cup AutoNames,
            queue : Paths \cup {NoPath}, remove : BOOLEAN,
            state : {"running", "stopping", "ended"},
            pc : {"running", "finalizing", "done"},
            finished : Nat]     \* view.FinishedAt

Idle == [pc |-> "idle", candidates |-> <<>>, name |-> NoLabel, attach |-> FALSE, remove |-> FALSE,
         queue |-> NoPath, seen |-> <<>>, runtime |-> 0]

PCs == {"idle", "loaded", "checked", "wait", "attached"}

Init == /\ uses \in InitialUses
        /\ runtimes = <<>>
        /\ instances = <<>> /\ names = <<>> /\ activeConfigs = <<>> /\ activeDatabases = <<>>
        /\ knownQueues = <<>>
        /\ request = [q \in Requests |-> Idle]
        /\ asked = 0 /\ edits = 0

Another(q, kind) == kind \in Kinds[q] /\ asked < MaxRequests /\ asked' = asked + 1

Without(f, key) == [x \in DOMAIN f \ {key} |-> f[x]]

\* f with new values, g's.
Updated(f, g) == [x \in DOMAIN f \cup DOMAIN g |-> IF x \in DOMAIN g THEN g[x] ELSE f[x]]

Active(r) == runtimes[r].state \in {"running", "stopping"}
Running == {r \in DOMAIN runtimes : Active(r)}

----------------------------------------------------------------------------
(* startManyContext: the files are read and compared without any lock.      *)

Equivalent(p, other) == FileOf[p] = FileOf[other]

\* duplicateConfigPathError is the set's; two candidates never share a database.
ValidCandidates(candidates) ==
    \A c, d \in DOMAIN candidates : c # d => ~Equivalent(candidates[c], candidates[d])

\* An edit of a configuration names another database.
EditConfig(c, p) ==
    /\ edits < MaxEdits /\ edits' = edits + 1
    /\ uses[c] # p
    /\ uses' = [uses EXCEPT ![c] = p]
    /\ UNCHANGED <<runtimes, registers, knownQueues, request, asked>>

\* Mutant: whatever the configuration uses now is started.
ExpectedQueueMutantAny(candidates, queue) == TRUE

\* validateExpectedQueue, for the entry as it was known.
ExpectedQueue(candidates, queue) ==
    queue # NoPath => \A c \in DOMAIN candidates : Equivalent(candidates[c], queue)

GateFree == \A q \in Requests : request[q].pc # "checked"

\* The files are read and compared. What was read may be edited from here on, while the
\* start waits for the gate and after it.
Begin(q, S, options) ==
    LET candidates == [c \in S |-> uses[c]]
    IN  /\ request[q].pc = "idle" /\ Another(q, options.kind)
        /\ ValidCandidates(candidates)
        /\ request' = [request EXCEPT ![q] = [Idle EXCEPT !.pc = "loaded",
                         !.candidates = candidates, !.name = options.name,
                         !.attach = options.kind = "run", !.remove = options.remove,
                         !.queue = options.queue]]
        /\ UNCHANGED <<uses, runtimes, registers, knownQueues, edits>>

\* With the start gate, which one start holds at a time, the files are compared again and
\* with the queue that was asked for, and the active maps are copied, to be inspected
\* without the mutex.
EnterGate(q) ==
    LET r == request[q]
    IN  /\ r.pc = "loaded" /\ GateFree
        /\ Len(runtimes) + Cardinality(DOMAIN r.candidates) <= MaxRuntimes
        /\ ValidCandidates(r.candidates)
        /\ ExpectedQueue(r.candidates, r.queue)
        /\ request' = [request EXCEPT ![q].pc = "checked",
                                      ![q].seen = <<activeConfigs, activeDatabases>>]
        /\ UNCHANGED <<uses, runtimes, registers, knownQueues, asked, edits>>

\* StartManyContext; a name only for one configuration.
Start(q, S, name) ==
    /\ S # {} /\ (name # NoLabel => Cardinality(S) = 1)
    /\ Begin(q, S, [name |-> name, kind |-> "start", remove |-> FALSE, queue |-> NoPath])

\* handleRun.
Run(q, c, name, remove) ==
    Begin(q, {c}, [name |-> name, kind |-> "run", remove |-> remove, queue |-> NoPath])

\* StartKnownQueueContext, with the catalogue entry a dashboard shows.
StartKnown(q, k) ==
    Begin(q, {knownQueues[k].config},
          [name |-> NoLabel, kind |-> "known", remove |-> FALSE, queue |-> k])

\* Mutant: the maps are not compared with the copy.
CurrentMutantAssumed(q) == TRUE

Current(q) == request[q].seen = <<activeConfigs, activeDatabases>>

\* An instance ended meanwhile: its owners may be free.
SnapshotAgain(q) ==
    /\ request[q].pc = "checked" /\ ~Current(q)
    /\ request' = [request EXCEPT ![q].seen = <<activeConfigs, activeDatabases>>]
    /\ UNCHANGED <<uses, runtimes, registers, knownQueues, asked, edits>>

\* Mutant: only the same path is the same database.
DatabaseOwnersMutantExact(p, databases) == {databases[o] : o \in DOMAIN databases \cap {p}}

\* activeDatabaseOwner.
DatabaseOwners(p, databases) == {databases[o] : o \in {d \in DOMAIN databases : Equivalent(p, d)}}

\* validateActiveCandidates, on the copy.
Conflicts(candidates, seen) ==
    \/ DOMAIN candidates \cap DOMAIN seen[1] # {}
    \/ \E c \in DOMAIN candidates : DatabaseOwners(candidates[c], seen[2]) # {}

RefuseActive(q) ==
    /\ request[q].pc = "checked" /\ Current(q)
    /\ Conflicts(request[q].candidates, request[q].seen)
    /\ request' = [request EXCEPT ![q] = Idle]
    /\ UNCHANGED <<uses, runtimes, registers, knownQueues, asked, edits>>

\* The client goes away, the queue is another one or the daemon ends: nothing is started.
Refuse(q) ==
    /\ request[q].pc \in {"loaded", "checked"}
    /\ request' = [request EXCEPT ![q] = Idle]
    /\ UNCHANGED <<uses, runtimes, registers, knownQueues, asked, edits>>

\* Names and IDs share one space, with those of the same start before the i-th.
Taken(label, i) == DOMAIN names \cup DOMAIN instances
                     \cup UNION {{label[j].name, label[j].id} : j \in 1..i - 1}

First(x, choices, taken) == /\ x \in choices \ taken
                            /\ \A y \in choices : y < x => y \in taken

\* The name asked for, availableNameLocked, availableIDLocked.
Free(label, explicit) ==
    \A i \in DOMAIN label :
        /\ IF explicit # NoLabel THEN label[i].name = explicit /\ explicit \notin Taken(label, i)
           ELSE First(label[i].name, AutoNames, Taken(label, i))
        /\ First(label[i].id, Ids, Taken(label, i) \cup {label[i].name})

Labelings(r) ==
    {label \in [1..Cardinality(DOMAIN r.candidates) -> [name : Names \cup AutoNames, id : Ids]] :
       Free(label, r.name)}

\* ErrNameInUse, or no unused ID is found.
RefuseLabel(q) ==
    /\ request[q].pc = "checked" /\ Current(q)
    /\ ~Conflicts(request[q].candidates, request[q].seen)
    /\ Labelings(request[q]) = {}
    /\ request' = [request EXCEPT ![q] = Idle]
    /\ UNCHANGED <<uses, runtimes, registers, knownQueues, asked, edits>>

\* Mutant: an alias of a known database is a queue of its own.
QueueIdentityMutantPath(p) == p

\* assignKnownQueueIdentities: the entry that knows the database, under any alias.
QueueIdentity(p) ==
    LET knowing == {k \in DOMAIN knownQueues :
                      \E alias \in {k} \cup knownQueues[k].aliases : Equivalent(p, alias)}
    IN  IF knowing = {} THEN p ELSE CHOOSE k \in knowing : TRUE

\* What becomes known of the database p of c.
Known(c, p) ==
    LET k == QueueIdentity(p)
        aliases == IF k \in DOMAIN knownQueues THEN knownQueues[k].aliases ELSE {}
    IN  [config |-> c, aliases |-> (aliases \cup {p}) \ {k}]

\* The map from keys[i] to values[i].
Keyed(keys, values) ==
    [k \in {keys[i] : i \in DOMAIN keys} |-> values[CHOOSE i \in DOMAIN keys : keys[i] = k]]

NewRuntime(r, c, label) ==
    [config |-> c, database |-> r.candidates[c], id |-> label.id, name |-> label.name,
     queue |-> r.queue, remove |-> r.remove, state |-> "running",
     pc |-> "running", finished |-> 0]

\* The copy was current: names, queues, owners and goroutines appear together, and an
\* attached client holds its runtime before that can end.
Reserve(q) ==
    LET r         == request[q]
        order     == SetToSeq(DOMAIN r.candidates)
        places    == [i \in DOMAIN order |-> Len(runtimes) + i]
        databases == [i \in DOMAIN order |-> r.candidates[order[i]]]
        queues    == [i \in DOMAIN order |-> QueueIdentity(databases[i])]
        known     == [i \in DOMAIN order |-> Known(order[i], databases[i])]
    IN  /\ r.pc = "checked" /\ Current(q)
        /\ ~Conflicts(r.candidates, r.seen)
        /\ \E label \in Labelings(r) :
             LET ids == [i \in DOMAIN order |-> label[i].id]
             IN  /\ runtimes' = runtimes \o
                                  [i \in DOMAIN order |-> NewRuntime(r, order[i], label[i])]
                 /\ instances' = Updated(instances, Keyed(ids, places))
                 /\ names' = Updated(names, Keyed([i \in DOMAIN order |-> label[i].name], ids))
                 /\ activeConfigs' = Updated(activeConfigs, Keyed(order, ids))
                 /\ activeDatabases' = Updated(activeDatabases, Keyed(databases, ids))
        /\ knownQueues' = Updated(knownQueues, Keyed(queues, known))
        /\ request' = [request EXCEPT ![q] =
                         IF r.attach THEN [Idle EXCEPT !.pc = "attached", !.runtime = places[1]]
                         ELSE Idle]
        /\ UNCHANGED <<uses, asked, edits>>

----------------------------------------------------------------------------
(* Requests about an instance that a name or the prefix of an ID selects.   *)

\* resolveLocked; more than one is ErrAmbiguous, none ErrNotFound.
Selected(selector) ==
    IF selector \in DOMAIN names THEN {instances[names[selector]]}
    ELSE {instances[x] : x \in {y \in DOMAIN instances : selector \in {y, AnyId}}}

Resolves(selector, r) == Selected(selector) = {r}

\* Stop marks and cancels the runtime it found, and waits for it.
Stop(q, selector) ==
    \E r \in Selected(selector) :
        /\ request[q].pc = "idle" /\ Another(q, "stop")
        /\ Resolves(selector, r) /\ Active(r)
        /\ runtimes' = [runtimes EXCEPT ![r].state = "stopping"]
        /\ request' = [request EXCEPT ![q] = [Idle EXCEPT !.pc = "wait", !.runtime = r]]
        /\ UNCHANGED <<uses, registers, knownQueues, edits>>

\* Mutant: the instance is looked up again at its end.
FinishedMutantListed(r) ==
    runtimes[r].pc = "done" /\ \E x \in DOMAIN instances : instances[x] = r

\* waitForRuntime holds the runtime itself, listed or not.
Finished(r) == runtimes[r].pc = "done"

WaitReturns(q) ==
    /\ request[q].pc = "wait" /\ Finished(request[q].runtime)
    /\ request' = [request EXCEPT ![q] = Idle]
    /\ UNCHANGED <<uses, runtimes, registers, knownQueues, asked, edits>>

\* handleRun after waitDone: "exited", with the final view of the runtime it holds.
SendExited(q) ==
    /\ request[q].pc = "attached" /\ Finished(request[q].runtime)
    /\ request' = [request EXCEPT ![q] = Idle]
    /\ UNCHANGED <<uses, runtimes, registers, knownQueues, asked, edits>>

\* The client goes away; the instance is left alone.
Leave(q) ==
    /\ request[q].pc \in {"wait", "attached"}
    /\ request' = [request EXCEPT ![q] = Idle]
    /\ UNCHANGED <<uses, runtimes, registers, knownQueues, asked, edits>>

----------------------------------------------------------------------------
(* manager.run: the goroutine of an instance.                               *)

\* The runner returns, with or without an error. Its end is logged and the log closed
\* without the mutex, while the instance stays active.
RunnerReturns(r) ==
    /\ runtimes[r].pc = "running"
    /\ runtimes' = [runtimes EXCEPT ![r].pc = "finalizing",
         ![r].finished = 1 + Cardinality({s \in DOMAIN runtimes : runtimes[s].finished > 0})]
    /\ UNCHANGED <<uses, registers, knownQueues, request, asked, edits>>

\* x goes before y.
Before(x, y) == \/ runtimes[x].finished < runtimes[y].finished
                \/ runtimes[x].finished = runtimes[y].finished /\ x < y

\* Mutant: the instance that ends does not count.
ExcessMutantCurrentFree(r) ==
    Cardinality({x \in DOMAIN instances : ~Active(instances[x]) /\ instances[x] # r}) - Retained

\* Terminated instances beyond the limit, with r, which is about to be one.
Excess(r) ==
    Cardinality({x \in DOMAIN instances : ~Active(instances[x]) \/ instances[x] = r}) - Retained

\* Mutant: any instance but the current one may go.
EvictableMutantAny(r) == {x \in DOMAIN instances : instances[x] # r}

Evictable(r) == {x \in DOMAIN instances : instances[x] # r /\ ~Active(instances[x])}

\* trimTerminatedLocked: the first to finish go, r never.
Evicted(r) == {x \in Evictable(r) :
                 Cardinality({y \in Evictable(r) : Before(instances[y], instances[x])}) < Excess(r)}

Publish(r) ==
    LET runtime == runtimes[r]
        gone    == IF runtime.remove THEN {runtime.id} ELSE Evicted(r)
        Release(owners, key) == IF key \in DOMAIN owners /\ owners[key] = runtime.id
                                THEN Without(owners, key) ELSE owners
    IN  /\ runtime.pc = "finalizing"
        /\ runtimes' = [runtimes EXCEPT ![r].state = "ended", ![r].pc = "done"]
        /\ activeConfigs' = Release(activeConfigs, runtime.config)
        /\ activeDatabases' = Release(activeDatabases, runtime.database)
        /\ instances' = [x \in DOMAIN instances \ gone |-> instances[x]]
        /\ names' = [n \in {m \in DOMAIN names : names[m] \notin gone} |-> names[n]]
        /\ UNCHANGED <<uses, knownQueues, request, asked, edits>>

----------------------------------------------------------------------------

RunnerStep(r) == RunnerReturns(r) \/ Publish(r)

StartStep(q) == EnterGate(q) \/ SnapshotAgain(q) \/ RefuseActive(q) \/ RefuseLabel(q) \/ Reserve(q)

WaitStep(q) == WaitReturns(q) \/ SendExited(q)

Client(q) ==
    \/ \E S \in SUBSET Configs, name \in Names \cup {NoLabel} : Start(q, S, name)
    \/ \E c \in Configs, name \in Names \cup {NoLabel}, remove \in BOOLEAN : Run(q, c, name, remove)
    \/ \E k \in DOMAIN knownQueues : StartKnown(q, k)
    \/ \E s \in Labels \cup {AnyId} : Stop(q, s)
    \/ Refuse(q) \/ Leave(q)

Next == \/ \E r \in DOMAIN runtimes : RunnerStep(r)
        \/ \E q \in Requests : StartStep(q) \/ WaitStep(q) \/ Client(q)
        \/ \E c \in Configs : \E p \in EditsTo[c] : EditConfig(c, p)

Spec == Init /\ [][Next]_vars

\* Goroutines are scheduled and a runner that was cancelled returns. A runner that nobody
\* stops may run, and a client stay, for ever.
FairSpec ==
    /\ Spec
    /\ \A r \in 1..MaxRuntimes :
         WF_vars(/\ r \in DOMAIN runtimes
                 /\ runtimes[r].pc = "running" => runtimes[r].state = "stopping"
                 /\ RunnerStep(r))
    /\ \A q \in Requests : WF_vars(WaitStep(q))

----------------------------------------------------------------------------

SupervisorTypeOK ==
    /\ uses \in [Configs -> Paths]
    /\ \A r \in DOMAIN runtimes : runtimes[r] \in Runtime
    /\ \A q \in Requests : request[q].pc \in PCs
    /\ \A x \in DOMAIN instances : instances[x] \in DOMAIN runtimes
    /\ \A n \in DOMAIN names : names[n] \in Ids
    /\ \A c \in DOMAIN activeConfigs : activeConfigs[c] \in Ids
    /\ \A p \in DOMAIN activeDatabases : activeDatabases[p] \in Ids
    /\ \A k \in DOMAIN knownQueues : knownQueues[k] \in [config : Configs, aliases : SUBSET Paths]
    /\ asked \in 0..MaxRequests /\ edits \in 0..MaxEdits

Listed == {instances[x] : x \in DOMAIN instances}

\* Two instances that are active at a time, finalization included, share neither a
\* configuration nor a database, under whatever path: starts race, the copies they
\* inspect grow old, files are edited between the reading and the start.
OneOwner ==
    \A r, s \in Running : r # s => /\ runtimes[r].config # runtimes[s].config
                                   /\ ~Equivalent(runtimes[r].database, runtimes[s].database)

\* Every active instance can be found under its ID and its name, a name leads to the
\* instance that bears it, and no name is the ID of another, whatever was evicted,
\* removed and named anew in between.
Addressable ==
    /\ \A r \in Running : /\ runtimes[r].id \in DOMAIN instances
                          /\ instances[runtimes[r].id] = r
                          /\ runtimes[r].name \in DOMAIN names
    /\ \A n \in DOMAIN names : /\ names[n] \in DOMAIN instances
                               /\ runtimes[instances[names[n]]].name = n
    /\ DOMAIN names \cap DOMAIN instances = {}

\* Terminated instances are kept up to the limit, whatever order they end in.
RetentionBounded == Cardinality(Listed \ Running) <= Retained

\* The catalogue knows a database file once, however it was spelled by the
\* configurations that used it.
OneQueuePerFile == \A k, l \in DOMAIN knownQueues : Equivalent(k, l) => k = l

\* An instance started for a known queue works on that queue, though its configuration
\* was edited since (ErrQueueChanged).
SameQueue == \A r \in DOMAIN runtimes : runtimes[r].queue # NoPath =>
                Equivalent(runtimes[r].database, runtimes[r].queue)

\* The registers keep their promises about what is past: ended instances are few, a
\* database is one queue, and a queue that is started again is the one that was shown.
SupervisorInv == /\ SupervisorTypeOK
                 /\ RetentionBounded
                 /\ OneQueuePerFile
                 /\ SameQueue

\* A refusal has an active instance to point at.
BusyRefusal ==
    \A q \in Requests : RefuseActive(q) =>
        \E r \in Running, c \in DOMAIN request[q].candidates :
            \/ runtimes[r].config = c
            \/ Equivalent(runtimes[r].database, request[q].candidates[c])

\* "already active" is only said while an active instance does own one of the
\* configurations or databases: an owner that ended while its files were inspected
\* refuses nobody.
BusyMeansActive == [][BusyRefusal]_vars

\* The client of an instance that is stopped or ends is told of its end, whether the
\* instance is still listed then or not.
ClientsHearTheEnd ==
    \A q \in Requests :
        (/\ request[q].pc \in {"attached", "wait"}
         /\ runtimes[request[q].runtime].state # "running") ~>
            request[q].pc \notin {"attached", "wait"}

----------------------------------------------------------------------------
(* The manager hands out databases.                                         *)

leaseOf(r) == [instance |-> r, config |-> runtimes[r].config, file |-> FileOf[runtimes[r].database]]

leasesOf == {leaseOf(r) : r \in Running}

Leases == INSTANCE DatabaseLeases WITH leases <- leasesOf, issued <- Len(runtimes)

\* The manager implements DatabaseLeases: a database passes from one instance to another
\* only through the published end of the first, whatever was read, copied or edited
\* while the second was being started.
ImplementsLeases == Leases!Spec

=============================================================================

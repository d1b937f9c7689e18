------------------------------- MODULE Settle -------------------------------
(***************************************************************************)
(* How internal/watcher turns file changes into queued files. The event    *)
(* loop (Run, handleEvent, discoverExisting, schedule) is one goroutine;   *)
(* every pending file has a settle goroutine that waits for the file to    *)
(* stop changing and calls the handler, which records it in the queue. The *)
(* two meet in the pending map: an event for a pending file only raises    *)
(* its version, and settle looks at the version before it lets go.         *)
(***************************************************************************)
EXTENDS Integers, FiniteSets

CONSTANTS Files,               \* matching files of one watch
          ReprocessOnChange,   \* watch option reprocess_on_change
          ProcessExisting,     \* watch option process_existing
          SettlePolls,         \* unchanged polls that make up settle_for
          MaxPending,          \* maxPendingFiles
          MaxDelivered,        \* maxDeliveredFiles
          MaxChanges,          \* bound: writes to files
          MaxRemovals,         \* bound: removals of files
          MaxFaults            \* bound: stops, crashes and failing settle steps

ASSUME SettleAssumption ==
    /\ {ReprocessOnChange, ProcessExisting} \subseteq BOOLEAN
    /\ {SettlePolls, MaxChanges, MaxRemovals, MaxFaults} \subseteq Nat
    /\ {MaxPending, MaxDelivered} \subseteq Nat \ {0}

VARIABLES disk,        \* disk[f]: signature (size, mtime) of f, 0 when absent
          changes, removals, faults,     \* what the environment did so far
          mode,        \* Run: "down", "scanning", "running" or "stopping"
          failed,      \* a settle goroutine left an error in w.errors
          toScan,      \* directory entries discoverExisting has yet to visit
          events,      \* events[f]: Create and Write events of f not yet handled
          pending,     \* pending[f]: version of its pendingFile, 0 for no entry
          settler,     \* settler[f]: the settle goroutine of f
          delivered,   \* delivered[f]: cached signature of the last delivery, 0 for none
          queued       \* durable: (file, fingerprint) pairs the handler enqueued

envVars == <<disk, changes, removals, faults>>
loopVars == <<mode, failed, toScan, events>>
vars == <<envVars, loopVars, pending, settler, delivered, queued>>

PCs == {"none", "read", "stat", "wait", "gone", "check", "skip", "handle", "record"}
Settler == [pc : PCs, version : Nat, last : 0..MaxChanges, polls : 0..SettlePolls]

At(pc) == [pc |-> pc, version |-> 0, last |-> 0, polls |-> 0]

SettleTypeOK == /\ disk \in [Files -> 0..MaxChanges]
                /\ changes \in 0..MaxChanges
                /\ removals \in 0..MaxRemovals
                /\ faults \in 0..MaxFaults
                /\ mode \in {"down", "scanning", "running", "stopping"}
                /\ failed \in BOOLEAN
                /\ toScan \subseteq Files
                /\ events \in [Files -> Nat]
                /\ pending \in [Files -> Nat]
                /\ settler \in [Files -> Settler]
                /\ delivered \in [Files -> 0..MaxChanges]
                /\ queued \subseteq Files \X (0..MaxChanges)

Init == /\ disk = [f \in Files |-> 0]
        /\ changes = 0 /\ removals = 0 /\ faults = 0
        /\ mode = "down"
        /\ failed = FALSE
        /\ toScan = {}
        /\ events = [f \in Files |-> 0]
        /\ pending = [f \in Files |-> 0]
        /\ settler = [f \in Files |-> At("none")]
        /\ delivered = [f \in Files |-> 0]
        /\ queued = {}

\* daemon.Run's handleFile: one constant fingerprint per path unless the watch
\* reprocesses changed files.
Fingerprint(signature) == IF ReprocessOnChange THEN signature ELSE 0

----------------------------------------------------------------------------
(* The file system. Events are seen while the directory is watched.         *)

Watching == mode \in {"scanning", "running"}

Write(f) ==
    /\ changes < MaxChanges
    /\ changes' = changes + 1
    /\ disk' = [disk EXCEPT ![f] = changes + 1]
    /\ events' = IF Watching THEN [events EXCEPT ![f] = @ + 1] ELSE events
    /\ UNCHANGED <<removals, faults, mode, failed, toScan, pending, settler, delivered, queued>>

\* A Remove or Rename event of a regular file changes nothing in the watcher.
Remove(f) ==
    /\ disk[f] # 0
    /\ removals < MaxRemovals
    /\ removals' = removals + 1
    /\ disk' = [disk EXCEPT ![f] = 0]
    /\ UNCHANGED <<changes, faults, loopVars, pending, settler, delivered, queued>>

----------------------------------------------------------------------------
(* The event loop.                                                          *)

\* The watcher is gone with all it had in memory.
Gone == /\ mode' = "down"
        /\ failed' = FALSE
        /\ toScan' = {}
        /\ events' = [f \in Files |-> 0]
        /\ pending' = [f \in Files |-> 0]
        /\ settler' = [f \in Files |-> At("none")]
        /\ delivered' = [f \in Files |-> 0]

\* Run returns: it cancels the context and waits for the settle goroutines.
Leave == /\ mode' = "stopping"
         /\ toScan' = {}
         /\ events' = [f \in Files |-> 0]
         /\ UNCHANGED <<failed, pending, settler, delivered>>

\* Mutant: existing files are left to later events.
RunMutantNoScan == /\ mode = "down"
                   /\ mode' = "running"
                   /\ UNCHANGED <<envVars, failed, toScan, events, pending, settler, delivered, queued>>

\* addConfiguredDirectories precedes discoverExisting: what changes during the
\* scan is an event.
Run == /\ mode = "down"
       /\ mode' = "scanning"
       /\ toScan' = IF ProcessExisting THEN Files ELSE {}
       /\ UNCHANGED <<envVars, failed, events, pending, settler, delivered, queued>>

Pending == {f \in Files : pending[f] > 0}

\* Mutant: the limit is compared with > instead of >=.
ScheduleMutantOneMore(f) ==
    \/ /\ pending[f] > 0
       /\ pending' = [pending EXCEPT ![f] = @ + 1]
       /\ UNCHANGED settler
    \/ /\ pending[f] = 0
       /\ Cardinality(Pending) <= MaxPending
       /\ pending' = [pending EXCEPT ![f] = 1]
       /\ settler' = [settler EXCEPT ![f] = At("read")]

\* Mutant: at the limit the file is left out and the watcher goes on.
ScheduleMutantDrops(f) ==
    \/ /\ pending[f] > 0
       /\ pending' = [pending EXCEPT ![f] = @ + 1]
       /\ UNCHANGED settler
    \/ /\ pending[f] = 0
       /\ Cardinality(Pending) < MaxPending
       /\ pending' = [pending EXCEPT ![f] = 1]
       /\ settler' = [settler EXCEPT ![f] = At("read")]
    \/ /\ pending[f] = 0
       /\ Cardinality(Pending) >= MaxPending
       /\ UNCHANGED <<pending, settler>>

Schedule(f) ==
    \/ /\ pending[f] > 0
       /\ pending' = [pending EXCEPT ![f] = @ + 1]
       /\ UNCHANGED settler
    \/ /\ pending[f] = 0
       /\ Cardinality(Pending) < MaxPending
       /\ pending' = [pending EXCEPT ![f] = 1]
       /\ settler' = [settler EXCEPT ![f] = At("read")]

\* schedule returns ErrPendingLimit, and Run returns it.
LimitReached(f) == pending[f] = 0 /\ Cardinality(Pending) >= MaxPending

Scan(f) ==
    /\ mode = "scanning" /\ f \in toScan
    /\ \/ /\ disk[f] # 0
          /\ Schedule(f)
       \/ /\ disk[f] = 0
          /\ UNCHANGED <<pending, settler>>
    /\ toScan' = toScan \ {f}
    /\ UNCHANGED <<envVars, mode, failed, events, delivered, queued>>

ScanDone == /\ mode = "scanning" /\ toScan = {}
            /\ mode' = "running"
            /\ UNCHANGED <<envVars, failed, toScan, events, pending, settler, delivered, queued>>

\* handleEvent: the file may be gone again by the time the event is read.
HandleEvent(f) ==
    /\ mode = "running" /\ events[f] > 0
    /\ \/ /\ disk[f] # 0
          /\ Schedule(f)
       \/ /\ disk[f] = 0
          /\ UNCHANGED <<pending, settler>>
    /\ events' = [events EXCEPT ![f] = @ - 1]
    /\ UNCHANGED <<envVars, mode, failed, toScan, delivered, queued>>

LimitFails(f) ==
    /\ \/ mode = "scanning" /\ f \in toScan
       \/ mode = "running" /\ events[f] > 0
    /\ disk[f] # 0
    /\ LimitReached(f)
    /\ Leave
    /\ UNCHANGED <<envVars, queued>>

\* The loop reads the error a settle goroutine reported.
ErrorFails == /\ mode = "running" /\ failed
              /\ Leave
              /\ UNCHANGED <<envVars, queued>>

\* The context is cancelled, or fsnotify reports an error (an overflow, say).
Stop == /\ Watching
        /\ faults < MaxFaults
        /\ faults' = faults + 1
        /\ Leave
        /\ UNCHANGED <<disk, changes, removals, queued>>

Joined == /\ mode = "stopping"
          /\ \A f \in Files : settler[f].pc = "none"
          /\ Gone
          /\ UNCHANGED <<envVars, queued>>

Crash == /\ mode # "down"
         /\ faults < MaxFaults
         /\ faults' = faults + 1
         /\ Gone
         /\ UNCHANGED <<disk, changes, removals, queued>>

----------------------------------------------------------------------------
(* The settle goroutine of f.                                               *)

Step(f, pc) == settler' = [settler EXCEPT ![f].pc = pc]

\* Mutant: the goroutine returns and its entry stays.
FinishMutantKeepsEntry(f) == /\ settler' = [settler EXCEPT ![f] = At("none")]
                             /\ UNCHANGED pending

\* The goroutine deletes the entry of f under the lock and returns.
Finish(f) == /\ pending' = [pending EXCEPT ![f] = 0]
             /\ settler' = [settler EXCEPT ![f] = At("none")]

ReadVersion(f) ==
    /\ settler[f].pc = "read"
    /\ settler' = [settler EXCEPT ![f] = [At("stat") EXCEPT !.version = pending[f]]]
    /\ UNCHANGED <<envVars, loopVars, pending, delivered, queued>>

\* WaitStable: the first Lstat, then polls until SettlePolls of them saw no change.
FirstStat(f) ==
    /\ settler[f].pc = "stat"
    /\ mode # "stopping"
    /\ \/ disk[f] = 0 /\ Step(f, "gone")
       \/ /\ disk[f] # 0
          /\ settler' = [settler EXCEPT ![f].pc = IF SettlePolls = 0 THEN "check" ELSE "wait",
                                        ![f].last = disk[f]]
    /\ UNCHANGED <<envVars, loopVars, pending, delivered, queued>>

Poll(f) ==
    /\ settler[f].pc = "wait"
    /\ \/ disk[f] = 0 /\ Step(f, "gone")
       \/ /\ disk[f] # 0 /\ disk[f] # settler[f].last
          /\ settler' = [settler EXCEPT ![f].last = disk[f], ![f].polls = 0]
       \/ /\ disk[f] # 0 /\ disk[f] = settler[f].last
          /\ settler' = [settler EXCEPT ![f].polls = @ + 1,
                                        ![f].pc = IF settler[f].polls + 1 = SettlePolls
                                                  THEN "check" ELSE "wait"]
    /\ UNCHANGED <<envVars, loopVars, pending, delivered, queued>>

\* The file does not exist: the entry goes, whatever its version is by now.
GiveUp(f) ==
    /\ settler[f].pc = "gone"
    /\ Finish(f)
    /\ UNCHANGED <<envVars, loopVars, delivered, queued>>

\* WaitStable returns the context's error; so may the handler.
Cancelled(f) ==
    /\ settler[f].pc \in {"stat", "wait", "handle"}
    /\ mode = "stopping"
    /\ Finish(f)
    /\ UNCHANGED <<envVars, loopVars, delivered, queued>>

\* Another error of Lstat, of the root's identity or of the handler ends the watcher.
SettleFails(f) ==
    /\ settler[f].pc \in {"stat", "wait", "handle"}
    /\ mode # "stopping"
    /\ faults < MaxFaults
    /\ faults' = faults + 1
    /\ Finish(f)
    /\ failed' = TRUE
    /\ UNCHANGED <<disk, changes, removals, mode, toScan, events, delivered, queued>>

AlreadyDelivered(f) ==
    delivered[f] # 0 /\ (~ReprocessOnChange \/ delivered[f] = settler[f].last)

CheckVersion(f) ==
    /\ settler[f].pc = "check"
    /\ Step(f, IF pending[f] # settler[f].version THEN "read"
               ELSE IF AlreadyDelivered(f) THEN "skip" ELSE "handle")
    /\ UNCHANGED <<envVars, loopVars, pending, delivered, queued>>

\* Mutant: let go of f although an event arrived while it was being handled.
FinishIfCurrentMutantAlways(f) == Finish(f)

\* Let go of f if no event arrived since the version was read, or settle again.
FinishIfCurrent(f) ==
    \/ pending[f] = settler[f].version /\ Finish(f)
    \/ pending[f] # settler[f].version /\ Step(f, "read") /\ UNCHANGED pending

SkipDelivered(f) ==
    /\ settler[f].pc = "skip"
    /\ FinishIfCurrent(f)
    /\ UNCHANGED <<envVars, loopVars, delivered, queued>>

\* Mutant: the delivery is recorded although the handler did not queue the file.
HandleMutantQueuesNothing(f) ==
    /\ settler[f].pc = "handle"
    /\ Step(f, "record")
    /\ UNCHANGED <<envVars, loopVars, pending, delivered, queued>>

Handle(f) ==
    /\ settler[f].pc = "handle"
    /\ queued' = queued \cup {<<f, Fingerprint(settler[f].last)>>}
    /\ Step(f, "record")
    /\ UNCHANGED <<envVars, loopVars, pending, delivered>>

Delivered == {f \in Files : delivered[f] # 0}

\* A full cache loses an arbitrary entry first.
RecordDelivered(f) ==
    /\ settler[f].pc = "record"
    /\ \/ /\ delivered[f] # 0 \/ Cardinality(Delivered) < MaxDelivered
          /\ delivered' = [delivered EXCEPT ![f] = settler[f].last]
       \/ /\ delivered[f] = 0 /\ Cardinality(Delivered) >= MaxDelivered
          /\ \E evicted \in Delivered :
                delivered' = [delivered EXCEPT ![evicted] = 0, ![f] = settler[f].last]
    /\ FinishIfCurrent(f)
    /\ UNCHANGED <<envVars, loopVars, queued>>

----------------------------------------------------------------------------

SettleStep(f) == \/ ReadVersion(f) \/ FirstStat(f) \/ Poll(f) \/ GiveUp(f) \/ Cancelled(f)
                 \/ CheckVersion(f) \/ SkipDelivered(f) \/ Handle(f) \/ RecordDelivered(f)

LoopStep == \/ Run \/ ScanDone \/ ErrorFails \/ Joined
            \/ \E f \in Files : Scan(f) \/ HandleEvent(f) \/ LimitFails(f)

Environment == \/ Stop \/ Crash
               \/ \E f \in Files : Write(f) \/ Remove(f) \/ SettleFails(f)

Next == LoopStep \/ Environment \/ \E f \in Files : SettleStep(f)

Spec == Init /\ [][Next]_vars

\* Goroutines are scheduled, settle's timer fires, and a watcher that is down is
\* started again; files need not change.
FairSpec == Spec /\ WF_vars(LoopStep) /\ \A f \in Files : WF_vars(SettleStep(f))

----------------------------------------------------------------------------

\* A pending entry has exactly one settle goroutine working for it: an entry
\* without one would swallow every later event of the file.
PendingHasSettler ==
    \A f \in Files : /\ pending[f] > 0 <=> settler[f].pc # "none"
                     /\ settler[f].version <= pending[f]

\* The cache that suppresses redundant handler calls never knows of a delivery
\* the queue does not have, evictions and restarts included.
DeliveredIsQueued ==
    \A f \in Files : delivered[f] # 0 => <<f, Fingerprint(delivered[f])>> \in queued

\* At most maxPendingFiles settle goroutines exist.
PendingBounded == Cardinality({f \in Files : settler[f].pc # "none"}) <= MaxPending

\* No file is lost: when the running watcher has read every event of a file,
\* nothing is pending for it and no error is about to end the watcher, the content
\* on disk is in the queue.
NoLostFile ==
    \A f \in Files :
        (mode = "running" /\ ~failed /\ events[f] = 0 /\ pending[f] = 0 /\ disk[f] # 0) =>
            <<f, Fingerprint(disk[f])>> \in queued

\* The limits lose nothing: a file that finds the pending map full ends the watcher and
\* is left to the next scan, and one whose cached delivery was evicted is queued again. Only
\* a removal at the wrong moment loses a file.
LimitsLoseNothing == (ProcessExisting /\ removals = 0) => NoLostFile

\* At their limits, with events, evictions and failures at any time, the pending map,
\* the settle goroutines, the cache and the queue stay in step, and no file is dropped.
SettleInv == /\ SettleTypeOK
             /\ PendingHasSettler
             /\ DeliveredIsQueued
             /\ PendingBounded
             /\ LimitsLoseNothing

\* Every file gets queued with its latest content, through stops, crashes and
\* failing handlers, unless it is removed first.
EveryFileQueued ==
    \A f \in Files :
        disk[f] # 0 ~> (disk[f] = 0 \/ <<f, Fingerprint(disk[f])>> \in queued)

=============================================================================

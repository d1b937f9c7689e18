---------------------------- MODULE SettleProofs ----------------------------
(***************************************************************************)
(* Proofs about Settle, for any set of files and any limits.               *)
(***************************************************************************)
EXTENDS Settle, FiniteSetTheorems, TLAPS

\* What holds of one file's entry, goroutine and cached delivery at any time.
FileInv(f) ==
    /\ pending[f] > 0 <=> settler[f].pc # "none"
    /\ settler[f].version <= pending[f]
    /\ settler[f].pc = "stat" => settler[f].polls = 0
    /\ settler[f].pc = "wait" => settler[f].polls < SettlePolls
    /\ settler[f].pc \in {"skip", "record"} => <<f, Fingerprint(settler[f].last)>> \in queued
    /\ delivered[f] # 0 => <<f, Fingerprint(delivered[f])>> \in queued

\* The pending map is within its limit.
WithinLimit == IsFiniteSet(Pending) /\ Cardinality(Pending) <= MaxPending

SettleIInv == /\ SettleTypeOK
              /\ \A f \in Files : FileInv(f)
              /\ WithinLimit

-----------------------------------------------------------------------------

\* The options are Booleans and the limits are numbers.
LEMMA LimitTypes ==
    /\ ReprocessOnChange \in BOOLEAN /\ ProcessExisting \in BOOLEAN
    /\ SettlePolls \in Nat /\ MaxChanges \in Nat /\ MaxRemovals \in Nat /\ MaxFaults \in Nat
    /\ MaxPending \in Nat \ {0} /\ MaxDelivered \in Nat \ {0}
  BY SettleAssumption

\* The fields of a settle goroutine that has just reached a program counter.
LEMMA AtFields ==
    ASSUME NEW pc \in PCs
    PROVE  /\ At(pc) \in Settler
           /\ At(pc).pc = pc /\ At(pc).version = 0 /\ At(pc).last = 0 /\ At(pc).polls = 0
  BY SettleAssumption DEF At, Settler

\* A settle goroutine's move to another program counter keeps the rest of it.
LEMMA StepRow ==
    ASSUME SettleTypeOK, NEW f \in Files, NEW pc \in PCs, Step(f, pc)
    PROVE  /\ settler' \in [Files -> Settler]
           /\ settler'[f].pc = pc
           /\ settler'[f].version = settler[f].version
           /\ settler'[f].last = settler[f].last
           /\ settler'[f].polls = settler[f].polls
           /\ \A g \in Files \ {f} : settler'[g] = settler[g]
  BY DEF Step, SettleTypeOK, Settler

\* The goroutine of f returns: only its entry and its row change.
LEMMA FinishRow ==
    ASSUME SettleTypeOK, NEW f \in Files, Finish(f)
    PROVE  /\ settler' \in [Files -> Settler] /\ pending' \in [Files -> Nat]
           /\ settler'[f] = At("none") /\ pending'[f] = 0
           /\ \A g \in Files \ {f} : settler'[g] = settler[g] /\ pending'[g] = pending[g]
  <1>1. "none" \in PCs
    BY DEF PCs
  <1> QED BY <1>1, AtFields DEF Finish, SettleTypeOK

\* schedule touches the entry of f only, and gives a new entry its goroutine.
LEMMA ScheduleRow ==
    ASSUME SettleTypeOK, NEW f \in Files, Schedule(f)
    PROVE  /\ settler' \in [Files -> Settler] /\ pending' \in [Files -> Nat]
           /\ pending'[f] = pending[f] + 1
           /\ \/ pending[f] > 0 /\ settler'[f] = settler[f]
              \/ pending[f] = 0 /\ settler'[f] = At("read") /\ Cardinality(Pending) < MaxPending
           /\ \A g \in Files \ {f} : settler'[g] = settler[g] /\ pending'[g] = pending[g]
  <1>1. "read" \in PCs
    BY DEF PCs
  <1> QED BY <1>1, AtFields DEF Schedule, SettleTypeOK

\* An empty watcher satisfies the invariant.
LEMMA SettleInitHolds == Init => SettleIInv
  <1> SUFFICES ASSUME Init PROVE SettleIInv
    OBVIOUS
  <1>1. "none" \in PCs
    BY DEF PCs
  <1>2. SettleTypeOK
    <2>1. 0 \in 0..MaxChanges /\ 0 \in 0..MaxRemovals /\ 0 \in 0..MaxFaults
      BY LimitTypes
    <2>2. settler \in [Files -> Settler]
      BY <1>1, AtFields DEF Init
    <2> QED BY <2>1, <2>2 DEF Init, SettleTypeOK
  <1>3. ASSUME NEW f \in Files PROVE FileInv(f)
    BY <1>1, AtFields DEF Init, FileInv
  <1>4. Pending = {}
    BY DEF Init, Pending
  <1>5. WithinLimit
    BY <1>4, FS_EmptySet, SettleAssumption DEF WithinLimit
  <1> QED BY <1>2, <1>3, <1>5 DEF SettleIInv

\* The pending map grows by one entry at a time, below its limit, and only schedule
\* does that.
LEMMA PendingMoves ==
    ASSUME SettleTypeOK, WithinLimit, pending' \in [Files -> Nat],
           \/ \A g \in Files : pending[g] = 0 => pending'[g] = 0
           \/ \E f \in Files : /\ Cardinality(Pending) < MaxPending
                               /\ \A g \in Files \ {f} : pending'[g] = pending[g]
    PROVE  WithinLimit'
  <1>1. CASE \A g \in Files : pending[g] = 0 => pending'[g] = 0
    <2>1. Pending' \subseteq Pending
      BY <1>1 DEF Pending, SettleTypeOK
    <2>2. IsFiniteSet(Pending') /\ Cardinality(Pending') <= Cardinality(Pending)
      BY <2>1, FS_Subset DEF WithinLimit
    <2>3. Cardinality(Pending) \in Nat /\ Cardinality(Pending') \in Nat
      BY <2>2, FS_CardinalityType DEF WithinLimit
    <2> QED BY <2>2, <2>3, LimitTypes DEF WithinLimit
  <1>2. CASE \E f \in Files : /\ Cardinality(Pending) < MaxPending
                              /\ \A g \in Files \ {f} : pending'[g] = pending[g]
    <2>1. PICK f \in Files : /\ Cardinality(Pending) < MaxPending
                             /\ \A g \in Files \ {f} : pending'[g] = pending[g]
      BY <1>2
    <2>2. Pending' \subseteq Pending \cup {f}
      BY <2>1 DEF Pending, SettleTypeOK
    <2>3. /\ IsFiniteSet(Pending \cup {f})
          /\ \/ Cardinality(Pending \cup {f}) = Cardinality(Pending)
             \/ Cardinality(Pending \cup {f}) = Cardinality(Pending) + 1
      BY FS_AddElement DEF WithinLimit
    <2>4. IsFiniteSet(Pending') /\ Cardinality(Pending') <= Cardinality(Pending \cup {f})
      BY <2>2, <2>3, FS_Subset
    <2>5. Cardinality(Pending) \in Nat /\ Cardinality(Pending') \in Nat
      BY <2>4, FS_CardinalityType DEF WithinLimit
    <2> QED BY <2>1, <2>3, <2>4, <2>5, LimitTypes DEF WithinLimit
  <1> QED BY <1>1, <1>2

\* A step that leaves a file's own entry, goroutine and cached delivery alone, and
\* takes nothing out of the queue, keeps what holds of the file.
LEMMA FileFrame ==
    ASSUME NEW f \in Files, FileInv(f), queued \subseteq queued',
           pending'[f] = pending[f], settler'[f] = settler[f],
           delivered'[f] = delivered[f] \/ delivered'[f] = 0
    PROVE  FileInv(f)'
  BY DEF FileInv, Fingerprint

\* What holds of a file whose entry is gone.
LEMMA FileDone ==
    ASSUME NEW f \in Files, FileInv(f), queued \subseteq queued',
           pending'[f] = 0, settler'[f] = At("none"),
           delivered'[f] \in {delivered[f], 0}
    PROVE  FileInv(f)'
  <1>1. "none" \in PCs
    BY DEF PCs
  <1> QED BY <1>1, AtFields DEF FileInv, Fingerprint

\* The environment and the event loop keep the invariant.
LEMMA LoopKeepsInv ==
    ASSUME SettleIInv,
           \/ LoopStep
           \/ Stop \/ Crash
           \/ \E f \in Files : Write(f) \/ Remove(f)
    PROVE  SettleIInv'
  <1> USE DEF SettleIInv
  <1>0. "none" \in PCs /\ "read" \in PCs
    BY DEF PCs
  <1>1. CASE \E f \in Files : Write(f) \/ Remove(f)
    <2>1. PICK f \in Files : Write(f) \/ Remove(f)
      BY <1>1
    <2>2. SettleTypeOK'
      BY <2>1, LimitTypes DEF Write, Remove, SettleTypeOK, loopVars
    <2>3. \A g \in Files : FileInv(g)'
      BY <2>1, FileFrame DEF Write, Remove
    <2>4. WithinLimit'
      BY <2>1, PendingMoves DEF Write, Remove, SettleTypeOK
    <2> QED BY <2>2, <2>3, <2>4
  <1>2. CASE Leave /\ UNCHANGED queued /\ UNCHANGED <<disk, changes, removals>> /\ faults' \in 0..MaxFaults
    <2>2. SettleTypeOK'
      BY <1>2 DEF Leave, SettleTypeOK
    <2>3. \A g \in Files : FileInv(g)'
      BY <1>2, FileFrame DEF Leave
    <2>4. WithinLimit'
      BY <1>2, PendingMoves DEF Leave, SettleTypeOK
    <2> QED BY <2>2, <2>3, <2>4
  <1>3. CASE Gone /\ UNCHANGED queued /\ UNCHANGED <<disk, changes, removals>> /\ faults' \in 0..MaxFaults
    <2>2. SettleTypeOK'
      <3>1. settler' \in [Files -> Settler]
        BY <1>0, <1>3, AtFields DEF Gone
      <3>2. delivered' \in [Files -> 0..MaxChanges]
        BY <1>3, LimitTypes DEF Gone
      <3> QED BY <1>3, <3>1, <3>2 DEF Gone, SettleTypeOK
    <2>3. \A g \in Files : FileInv(g)'
      BY <1>3, FileDone DEF Gone
    <2>4. WithinLimit'
      BY <1>3, PendingMoves DEF Gone, SettleTypeOK
    <2> QED BY <2>2, <2>3, <2>4
  <1>4. CASE Run \/ ScanDone
    <2>2. SettleTypeOK'
      BY <1>4 DEF Run, ScanDone, SettleTypeOK, envVars
    <2>3. \A g \in Files : FileInv(g)'
      BY <1>4, FileFrame DEF Run, ScanDone
    <2>4. WithinLimit'
      BY <1>4, PendingMoves DEF Run, ScanDone, SettleTypeOK
    <2> QED BY <2>2, <2>3, <2>4
  <1>5. CASE \E f \in Files : Scan(f) \/ HandleEvent(f)
    <2>1. PICK f \in Files : Scan(f) \/ HandleEvent(f)
      BY <1>5
    <2>2. \/ Schedule(f)
          \/ UNCHANGED <<pending, settler>>
      BY <2>1 DEF Scan, HandleEvent
    <2>3. /\ settler' \in [Files -> Settler] /\ pending' \in [Files -> Nat]
          /\ \A g \in Files \ {f} : settler'[g] = settler[g] /\ pending'[g] = pending[g]
      BY <2>2, ScheduleRow DEF SettleTypeOK
    <2>4. SettleTypeOK'
      BY <2>1, <2>3 DEF Scan, HandleEvent, SettleTypeOK, envVars
    <2>5. ASSUME NEW g \in Files PROVE FileInv(g)'
      <3>1. CASE g # f \/ UNCHANGED <<pending, settler>>
        BY <2>1, <2>3, <3>1, FileFrame DEF Scan, HandleEvent
      <3>2. CASE g = f /\ Schedule(f)
        <4>1. queued' = queued /\ delivered' = delivered
          BY <2>1 DEF Scan, HandleEvent
        <4>2. pending[f] \in Nat /\ settler[f].version \in Nat
          BY DEF SettleTypeOK, Settler
        <4>3. /\ pending'[f] = pending[f] + 1
              /\ \/ pending[f] > 0 /\ settler'[f] = settler[f]
                 \/ pending[f] = 0 /\ settler'[f] = At("read")
          BY <3>2, ScheduleRow
        <4>4. CASE settler'[f] = settler[f] /\ pending[f] > 0
          BY <3>2, <4>1, <4>2, <4>3, <4>4 DEF FileInv, Fingerprint
        <4>5. CASE settler'[f] = At("read") /\ pending[f] = 0
          <5>1. settler'[f].pc = "read" /\ settler'[f].version = 0 /\ pending'[f] = 1
            BY <1>0, <4>3, <4>5, AtFields
          <5>2. FileInv(f)
            OBVIOUS
          <5>3. FileInv(f)'
            BY <4>1, <5>1, <5>2 DEF FileInv, Fingerprint
          <5> QED BY <3>2, <5>3
        <4> QED BY <4>3, <4>4, <4>5
      <3> QED BY <2>2, <3>1, <3>2
    <2>6. WithinLimit'
      <3>1. CASE Schedule(f)
        BY <2>3, <3>1, ScheduleRow, PendingMoves DEF SettleTypeOK
      <3>2. CASE UNCHANGED <<pending, settler>>
        BY <3>2, PendingMoves DEF SettleTypeOK
      <3> QED BY <2>2, <3>1, <3>2
    <2> QED BY <2>4, <2>5, <2>6
  <1>6. CASE ErrorFails \/ \E f \in Files : LimitFails(f)
    BY <1>2, <1>6 DEF ErrorFails, LimitFails, envVars, SettleTypeOK
  <1>7. CASE Stop
    <2>1. faults' \in 0..MaxFaults
      BY <1>7, LimitTypes DEF Stop, SettleTypeOK
    <2> QED BY <1>2, <1>7, <2>1 DEF Stop
  <1>8. CASE Joined
    BY <1>3, <1>8 DEF Joined, envVars, SettleTypeOK
  <1>9. CASE Crash
    <2>1. faults' \in 0..MaxFaults
      BY <1>9, LimitTypes DEF Crash, SettleTypeOK
    <2> QED BY <1>3, <1>9, <2>1 DEF Crash
  <1> QED BY <1>1, <1>4, <1>5, <1>6, <1>7, <1>8, <1>9 DEF LoopStep

\* A settle goroutine keeps the invariant, a failing one included.
LEMMA SettlerKeepsInv ==
    ASSUME SettleIInv, NEW f \in Files, SettleStep(f) \/ SettleFails(f)
    PROVE  SettleIInv'
  <1> USE DEF SettleIInv
  <1>0. /\ PCs = {"none", "read", "stat", "wait", "gone", "check", "skip", "handle", "record"}
        /\ settler[f] \in Settler /\ pending[f] \in Nat
    BY DEF PCs, SettleTypeOK
  <1>a. FileInv(f)
    OBVIOUS
  <1>1. SUFFICES /\ SettleTypeOK'
                 /\ FileInv(f)'
                 /\ \A g \in Files \ {f} : /\ pending'[g] = pending[g]
                                           /\ settler'[g] = settler[g]
                                           /\ delivered'[g] \in {delivered[g], 0}
                 /\ queued \subseteq queued'
                 /\ pending[f] = 0 => pending'[f] = 0
    <2>1. \A g \in Files : FileInv(g)'
      BY <1>1, FileFrame
    <2>2. WithinLimit'
      BY <1>1, PendingMoves DEF SettleTypeOK
    <2> QED BY <1>1, <2>1, <2>2
  <1>2. CASE ReadVersion(f)
    <2>1. [At("stat") EXCEPT !.version = pending[f]] \in Settler
      BY <1>0, AtFields DEF At, Settler
    <2>2. /\ settler' \in [Files -> Settler]
          /\ \A g \in Files \ {f} : settler'[g] = settler[g]
          /\ settler'[f].pc = "stat" /\ settler'[f].version = pending[f] /\ settler'[f].polls = 0
      BY <1>2, <2>1 DEF ReadVersion, SettleTypeOK, At
    <2>3. UNCHANGED <<envVars, loopVars, pending, delivered, queued>>
      BY <1>2 DEF ReadVersion
    <2>4. SettleTypeOK'
      BY <2>2, <2>3 DEF SettleTypeOK, envVars, loopVars
    <2>5. pending[f] > 0
      BY <1>2 DEF FileInv, ReadVersion
    <2>6. FileInv(f)'
      BY <1>0, <1>a, <2>2, <2>3, <2>5 DEF FileInv, Fingerprint
    <2> QED BY <2>2, <2>3, <2>4, <2>6
  <1>3. CASE FirstStat(f)
    <2>1. /\ settler' \in [Files -> Settler]
          /\ \A g \in Files \ {f} : settler'[g] = settler[g]
          /\ settler'[f].pc \in {"gone", "check", "wait"}
          /\ settler'[f].version = settler[f].version /\ settler'[f].polls = settler[f].polls
          /\ settler'[f].pc = "wait" => SettlePolls # 0
      <3>1. CASE Step(f, "gone")
        <4>1. "gone" \in PCs
          BY DEF PCs
        <4> QED BY <3>1, <4>1, <1>0, StepRow
      <3>2. CASE /\ disk[f] # 0
                 /\ settler' = [settler EXCEPT ![f].pc = IF SettlePolls = 0 THEN "check" ELSE "wait",
                                               ![f].last = disk[f]]
        <4>1. PICK pc \in {"check", "wait"} : pc = IF SettlePolls = 0 THEN "check" ELSE "wait"
          OBVIOUS
        <4>2. pc \in PCs /\ (pc = "wait" => SettlePolls # 0)
          BY <4>1 DEF PCs
        <4>3. settler \in [Files -> Settler] /\ disk[f] \in 0..MaxChanges
          BY <1>0 DEF SettleTypeOK
        <4>4. settler' = [settler EXCEPT ![f].pc = pc, ![f].last = disk[f]]
          BY <3>2, <4>1
        <4> QED BY <4>2, <4>3, <4>4 DEF Settler
      <3> QED BY <3>1, <3>2, <1>3 DEF FirstStat
    <2>2. UNCHANGED <<envVars, loopVars, pending, delivered, queued>>
      BY <1>3 DEF FirstStat
    <2>3. SettleTypeOK'
      BY <2>1, <2>2 DEF SettleTypeOK, envVars, loopVars
    <2>4. settler[f].pc = "stat" /\ settler[f].polls = 0
      BY <1>3 DEF FileInv, FirstStat
    <2>5. FileInv(f)'
      BY <1>a, <2>1, <2>2, <2>4, LimitTypes DEF FileInv, Fingerprint
    <2> QED BY <2>1, <2>2, <2>3, <2>5
  <1>4. CASE Poll(f)
    <2>1. settler[f].pc = "wait" /\ settler[f].polls < SettlePolls
      BY <1>4 DEF Poll, FileInv
    <2>2. /\ settler' \in [Files -> Settler]
          /\ \A g \in Files \ {f} : settler'[g] = settler[g]
          /\ settler'[f].pc \in {"gone", "check", "wait"}
          /\ settler'[f].version = settler[f].version
          /\ settler'[f].pc = "wait" => settler'[f].polls < SettlePolls
      BY <1>0, <1>4, <2>1, StepRow, LimitTypes DEF Poll, SettleTypeOK, Settler
    <2>3. UNCHANGED <<envVars, loopVars, pending, delivered, queued>>
      BY <1>4 DEF Poll
    <2>4. SettleTypeOK'
      BY <2>2, <2>3 DEF SettleTypeOK, envVars, loopVars
    <2>5. FileInv(f)'
      BY <2>1, <2>2, <2>3 DEF FileInv, Fingerprint
    <2> QED BY <2>2, <2>3, <2>4, <2>5
  <1>5. CASE GiveUp(f) \/ Cancelled(f) \/ SettleFails(f)
    <2>1. Finish(f) /\ UNCHANGED <<disk, changes, removals, mode, toScan, events, delivered, queued>>
      BY <1>5 DEF GiveUp, Cancelled, SettleFails, envVars, loopVars
    <2>2. faults' \in 0..MaxFaults /\ failed' \in BOOLEAN
      <3>1. CASE GiveUp(f) \/ Cancelled(f)
        BY <3>1 DEF GiveUp, Cancelled, envVars, loopVars, SettleTypeOK
      <3>2. CASE SettleFails(f)
        BY <3>2, LimitTypes DEF SettleFails, SettleTypeOK
      <3> QED BY <1>5, <3>1, <3>2
    <2>3. SettleTypeOK'
      BY <2>1, <2>2, FinishRow DEF SettleTypeOK
    <2>4. FileInv(f)'
      BY <2>1, FinishRow, FileDone
    <2> QED BY <2>1, <2>3, <2>4, FinishRow
  <1>6. CASE CheckVersion(f)
    <2>1. PICK pc \in {"read", "skip", "handle"} :
             Step(f, pc) /\ (pc = "skip" => AlreadyDelivered(f))
      BY <1>6 DEF CheckVersion
    <2>2. UNCHANGED <<envVars, loopVars, pending, delivered, queued>>
      BY <1>6 DEF CheckVersion
    <2>3. /\ settler' \in [Files -> Settler]
          /\ settler'[f].pc = pc
          /\ settler'[f].version = settler[f].version
          /\ settler'[f].last = settler[f].last
          /\ \A g \in Files \ {f} : settler'[g] = settler[g]
      BY <1>0, <2>1, StepRow
    <2>4. SettleTypeOK'
      BY <2>2, <2>3 DEF SettleTypeOK, envVars, loopVars
    <2>5. FileInv(f)'
      BY <1>6, <2>1, <2>2, <2>3 DEF FileInv, Fingerprint, AlreadyDelivered, CheckVersion
    <2> QED BY <2>2, <2>3, <2>4, <2>5
  <1>7. CASE SkipDelivered(f)
    <2>1. UNCHANGED <<envVars, loopVars, delivered, queued>>
      BY <1>7 DEF SkipDelivered
    <2>2. CASE Finish(f)
      <3>1. SettleTypeOK'
        BY <2>1, <2>2, FinishRow DEF SettleTypeOK, envVars, loopVars
      <3>2. FileInv(f)'
        BY <2>1, <2>2, FinishRow, FileDone
      <3> QED BY <2>1, <2>2, <3>1, <3>2, FinishRow
    <2>3. CASE Step(f, "read") /\ UNCHANGED pending
      <3>1. SettleTypeOK'
        BY <1>0, <2>1, <2>3, StepRow DEF SettleTypeOK, envVars, loopVars
      <3>2. FileInv(f)'
        BY <1>0, <1>7, <2>1, <2>3, StepRow DEF FileInv, Fingerprint, SkipDelivered
      <3> QED BY <1>0, <2>1, <2>3, <3>1, <3>2, StepRow
    <2> QED BY <1>7, <2>2, <2>3 DEF SkipDelivered, FinishIfCurrent
  <1>8. CASE Handle(f)
    <2>1. /\ settler' \in [Files -> Settler]
          /\ settler'[f].pc = "record"
          /\ settler'[f].version = settler[f].version
          /\ settler'[f].last = settler[f].last
          /\ \A g \in Files \ {f} : settler'[g] = settler[g]
      BY <1>0, <1>8, StepRow DEF Handle
    <2>2. /\ UNCHANGED <<envVars, loopVars, pending, delivered>>
          /\ queued' = queued \cup {<<f, Fingerprint(settler[f].last)>>}
      BY <1>8 DEF Handle
    <2>3. Fingerprint(settler[f].last) \in 0..MaxChanges
      BY <1>0, LimitTypes DEF Fingerprint, Settler
    <2>4. SettleTypeOK'
      BY <2>1, <2>2, <2>3 DEF SettleTypeOK, envVars, loopVars
    <2>5. FileInv(f)'
      BY <1>8, <2>1, <2>2 DEF FileInv, Fingerprint, Handle
    <2> QED BY <2>1, <2>2, <2>4, <2>5
  <1>9. CASE RecordDelivered(f)
    <2>1. UNCHANGED <<envVars, loopVars, queued>>
      BY <1>9 DEF RecordDelivered
    <2>2. /\ delivered' \in [Files -> 0..MaxChanges]
          /\ delivered'[f] = settler[f].last
          /\ \A g \in Files \ {f} : delivered'[g] \in {delivered[g], 0}
      BY <1>0, <1>9, LimitTypes DEF RecordDelivered, Delivered, SettleTypeOK, Settler
    <2>3. <<f, Fingerprint(settler[f].last)>> \in queued
      BY <1>9 DEF RecordDelivered, FileInv
    <2>4. CASE Finish(f)
      <3>1. SettleTypeOK'
        BY <2>1, <2>2, <2>4, FinishRow DEF SettleTypeOK, envVars, loopVars
      <3>2. FileInv(f)'
        BY <1>0, <2>1, <2>2, <2>3, <2>4, FinishRow, AtFields DEF FileInv, Fingerprint
      <3> QED BY <2>1, <2>2, <2>4, <3>1, <3>2, FinishRow
    <2>5. CASE Step(f, "read") /\ UNCHANGED pending
      <3>1. SettleTypeOK'
        BY <1>0, <2>1, <2>2, <2>5, StepRow DEF SettleTypeOK, envVars, loopVars
      <3>2. FileInv(f)'
        BY <1>0, <1>9, <2>1, <2>2, <2>3, <2>5, StepRow DEF FileInv, Fingerprint, RecordDelivered
      <3> QED BY <1>0, <2>1, <2>2, <2>5, <3>1, <3>2, StepRow
    <2> QED BY <1>9, <2>4, <2>5 DEF RecordDelivered, FinishIfCurrent
  <1> QED BY <1>2, <1>3, <1>4, <1>5, <1>6, <1>7, <1>8, <1>9 DEF SettleStep

\* Every behaviour of the watcher keeps entries, goroutines, cache and queue in step.
THEOREM SettleConsistent == Spec => []SettleIInv
  <1>1. SettleIInv /\ [Next]_vars => SettleIInv'
    <2> SUFFICES ASSUME SettleIInv, [Next]_vars PROVE SettleIInv'
      OBVIOUS
    <2>1. CASE Next
      BY <2>1, LoopKeepsInv, SettlerKeepsInv DEF Next, Environment
    <2>2. CASE UNCHANGED vars
      BY <2>2 DEF vars, envVars, loopVars, SettleIInv, SettleTypeOK, FileInv, WithinLimit, Pending
    <2> QED BY <2>1, <2>2
  <1> QED BY <1>1, SettleInitHolds, PTL DEF Spec

-----------------------------------------------------------------------------
(* As long as no file is removed and existing ones are scanned, none is     *)
(* lost.                                                                    *)

\* The settle goroutine of f has seen a content.
HasSeen(f) == settler[f].pc \in {"wait", "check", "skip", "handle", "record"}

\* Somebody still has to look at f, or what is on disk is in the queue.
Covered(f) == \/ events[f] > 0
              \/ pending[f] > 0
              \/ f \in toScan
              \/ <<f, Fingerprint(disk[f])>> \in queued

NoLossInv(f) ==
    /\ settler[f].pc # "none" => disk[f] # 0
    /\ settler[f].pc # "gone"
    /\ mode = "down" => settler[f].pc = "none"
    /\ (Watching /\ HasSeen(f)) => \/ settler[f].last = disk[f]
                                   \/ events[f] > 0
                                   \/ pending[f] # settler[f].version
    /\ (Watching /\ ~failed /\ disk[f] # 0) => Covered(f)

NoLossIInv == /\ \A f \in Files : NoLossInv(f)
              /\ mode = "running" => toScan = {}

\* A step that leaves a file, its events, its entry and its goroutine alone loses
\* nothing of it, unless it ends the loop or starts it.
LEMMA NoLossFrame ==
    ASSUME NEW f \in Files, NoLossInv(f), queued \subseteq queued',
           disk'[f] = disk[f], events'[f] = events[f], pending'[f] = pending[f],
           settler'[f] = settler[f], f \in toScan => f \in toScan',
           \/ mode' = mode
           \/ mode = "scanning" /\ mode' = "running",
           failed => failed'
    PROVE  NoLossInv(f)'
  BY DEF NoLossInv, HasSeen, Covered, Watching, Fingerprint

\* The environment and the event loop lose no file.
LEMMA LoopLosesNothing ==
    ASSUME removals' = 0, ProcessExisting, SettleIInv, NoLossIInv,
           \/ LoopStep
           \/ Stop \/ Crash
           \/ \E f \in Files : Write(f) \/ Remove(f)
    PROVE  NoLossIInv'
  <1> USE DEF NoLossIInv
  <1>0. "none" \in PCs /\ "read" \in PCs
    BY DEF PCs
  <1>1. CASE \E f \in Files : Write(f)
    <2>1. PICK f \in Files : Write(f)
      BY <1>1
    <2>2. /\ UNCHANGED <<mode, failed, toScan, pending, settler, queued>>
          /\ \A g \in Files \ {f} : disk'[g] = disk[g] /\ events'[g] = events[g]
          /\ disk'[f] # 0
          /\ Watching => events'[f] > 0
      BY <2>1, LimitTypes DEF Write, SettleIInv, SettleTypeOK
    <2>3. ASSUME NEW g \in Files \ {f} PROVE NoLossInv(g)'
      BY <2>2, NoLossFrame
    <2>4. NoLossInv(f)
      OBVIOUS
    <2>5. NoLossInv(f)'
      BY <2>2, <2>4 DEF NoLossInv, HasSeen, Covered, Watching
    <2> QED BY <2>2, <2>3, <2>5
  <1>2. ASSUME NEW f \in Files PROVE ~Remove(f)
    BY LimitTypes DEF Remove, SettleIInv, SettleTypeOK
  <1>3. CASE Leave /\ UNCHANGED disk
    <2>1. ASSUME NEW f \in Files PROVE NoLossInv(f)'
      <3>1. NoLossInv(f)
        OBVIOUS
      <3> QED BY <1>3, <3>1 DEF Leave, NoLossInv, Watching
    <2> QED BY <1>3, <2>1 DEF Leave
  <1>4. CASE Gone
    <2>1. ASSUME NEW f \in Files PROVE NoLossInv(f)'
      <3>1. settler'[f].pc = "none" /\ mode' = "down"
        BY <1>0, <1>4, AtFields DEF Gone
      <3> QED BY <3>1 DEF NoLossInv, Watching, HasSeen
    <2> QED BY <1>4, <2>1 DEF Gone
  <1>5. CASE Run
    <2>1. ASSUME NEW f \in Files PROVE NoLossInv(f)'
      <3>1. NoLossInv(f) /\ mode = "down" /\ mode' = "scanning" /\ f \in toScan'
        BY <1>5 DEF Run
      <3>2. UNCHANGED <<disk, settler>>
        BY <1>5 DEF Run, envVars
      <3> QED BY <3>1, <3>2 DEF NoLossInv, HasSeen, Covered
    <2> QED BY <1>5, <2>1 DEF Run
  <1>6. CASE ScanDone
    <2>1. ASSUME NEW f \in Files PROVE NoLossInv(f)'
      BY <1>6, NoLossFrame DEF ScanDone, envVars
    <2> QED BY <1>6, <2>1 DEF ScanDone
  <1>7. CASE \E f \in Files : Scan(f) \/ HandleEvent(f)
    <2>1. PICK f \in Files : Scan(f) \/ HandleEvent(f)
      BY <1>7
    <2>2. /\ UNCHANGED <<disk, mode, failed, queued>>
          /\ \A g \in Files \ {f} : events'[g] = events[g] /\ (g \in toScan => g \in toScan')
          /\ toScan' \subseteq toScan
          /\ Watching
      BY <2>1 DEF Scan, HandleEvent, SettleIInv, SettleTypeOK, envVars, Watching
    <2>3. \/ disk[f] # 0 /\ Schedule(f)
          \/ disk[f] = 0 /\ UNCHANGED <<pending, settler>>
      BY <2>1 DEF Scan, HandleEvent
    <2>4. \A g \in Files \ {f} : settler'[g] = settler[g] /\ pending'[g] = pending[g]
      BY <2>3, ScheduleRow DEF SettleIInv
    <2>5. ASSUME NEW g \in Files \ {f} PROVE NoLossInv(g)'
      BY <2>2, <2>4, NoLossFrame
    <2>6. NoLossInv(f) /\ FileInv(f) /\ pending[f] \in Nat /\ settler[f].version \in Nat
      BY DEF SettleIInv, SettleTypeOK, Settler
    <2>7. NoLossInv(f)'
      <3>1. CASE disk[f] = 0 /\ UNCHANGED <<pending, settler>>
        BY <2>2, <2>6, <3>1 DEF NoLossInv, HasSeen
      <3>2. CASE disk[f] # 0 /\ Schedule(f)
        <4>1. /\ pending'[f] = pending[f] + 1
              /\ \/ pending[f] > 0 /\ settler'[f] = settler[f]
                 \/ pending[f] = 0 /\ settler'[f] = At("read")
          BY <3>2, ScheduleRow DEF SettleIInv
        <4>2. CASE settler'[f] = settler[f] /\ pending[f] > 0
          <5>1. pending'[f] > 0 /\ pending'[f] # settler'[f].version
            BY <2>6, <4>1, <4>2 DEF FileInv
          <5>2. mode' # "down"
            BY <2>2 DEF Watching
          <5> QED BY <2>2, <2>6, <3>2, <4>2, <5>1, <5>2 DEF NoLossInv, Covered
        <4>3. CASE settler'[f] = At("read") /\ pending[f] = 0
          <5>1. settler'[f].pc = "read" /\ pending'[f] > 0
            BY <1>0, <4>1, <4>3, AtFields
          <5>2. mode' # "down"
            BY <2>2 DEF Watching
          <5> QED BY <2>2, <3>2, <5>1, <5>2 DEF NoLossInv, Covered, HasSeen
        <4> QED BY <4>1, <4>2, <4>3
      <3> QED BY <2>3, <3>1, <3>2
    <2>8. mode' = "running" => toScan' = {}
      BY <2>2
    <2> QED BY <2>5, <2>7, <2>8
  <1>8. CASE ErrorFails \/ Stop \/ \E f \in Files : LimitFails(f)
    BY <1>3, <1>8 DEF ErrorFails, Stop, LimitFails, envVars
  <1>9. CASE Joined \/ Crash
    BY <1>4, <1>9 DEF Joined, Crash
  <1> QED BY <1>1, <1>2, <1>5, <1>6, <1>7, <1>8, <1>9 DEF LoopStep

\* A settle goroutine lets go of a file only when the queue has what is on disk, when
\* an event is still unread, or when the watcher is about to end.
LEMMA SettlerLosesNothing ==
    ASSUME SettleIInv, NoLossIInv, NEW f \in Files, SettleStep(f) \/ SettleFails(f)
    PROVE  NoLossIInv'
  <1> USE DEF NoLossIInv
  <1>0. /\ PCs = {"none", "read", "stat", "wait", "gone", "check", "skip", "handle", "record"}
        /\ SettleTypeOK
    BY DEF PCs, SettleIInv
  <1>a. NoLossInv(f) /\ FileInv(f)
    BY DEF SettleIInv
  <1>b. /\ UNCHANGED <<disk, mode, toScan, events>>
        /\ queued \subseteq queued'
        /\ failed => failed'
    BY DEF SettleStep, ReadVersion, FirstStat, Poll, GiveUp, Cancelled, SettleFails,
           CheckVersion, SkipDelivered, Handle, RecordDelivered, envVars, loopVars
  <1>c. \A g \in Files \ {f} : settler'[g] = settler[g] /\ pending'[g] = pending[g]
    <2>1. CASE Finish(f)
      BY <1>0, <2>1, FinishRow
    <2>2. CASE pending' = pending /\ \E row : settler' = [settler EXCEPT ![f] = row]
      BY <1>0, <2>2 DEF SettleTypeOK
    <2> QED BY <1>0, <2>1, <2>2 DEF SettleStep, ReadVersion, FirstStat, Poll, GiveUp, Cancelled,
               SettleFails, CheckVersion, SkipDelivered, Handle, RecordDelivered,
               FinishIfCurrent, Step, SettleTypeOK
  <1>1. SUFFICES NoLossInv(f)'
    <2>1. ASSUME NEW g \in Files \ {f} PROVE NoLossInv(g)'
      BY <1>b, <1>c, NoLossFrame
    <2> QED BY <1>1, <1>b, <2>1
  <1>2. CASE ReadVersion(f)
    <2>1. settler'[f].pc = "stat" /\ pending' = pending /\ pending[f] > 0 /\ settler[f].pc = "read"
      BY <1>0, <1>a, <1>2 DEF ReadVersion, SettleTypeOK, At, FileInv
    <2> QED BY <1>a, <1>b, <2>1 DEF NoLossInv, HasSeen, Covered, Watching
  <1>3. CASE FirstStat(f)
    <2>1. settler[f].pc = "stat" /\ pending' = pending /\ pending[f] > 0 /\ disk[f] # 0
      BY <1>a, <1>3 DEF FirstStat, FileInv, NoLossInv
    <2>2. settler'[f].pc \in {"check", "wait"} /\ settler'[f].last = disk[f]
      BY <1>0, <1>3, <2>1 DEF FirstStat, SettleTypeOK, Settler
    <2> QED BY <1>a, <1>b, <2>1, <2>2 DEF NoLossInv, HasSeen, Covered, Watching
  <1>4. CASE Poll(f)
    <2>1. settler[f].pc = "wait" /\ pending' = pending /\ pending[f] > 0 /\ disk[f] # 0
      BY <1>a, <1>4 DEF Poll, FileInv, NoLossInv
    <2>2. settler'[f].pc \in {"check", "wait"} /\ settler'[f].last = disk[f]
      BY <1>0, <1>4, <2>1 DEF Poll, SettleTypeOK, Settler
    <2> QED BY <1>a, <1>b, <2>1, <2>2 DEF NoLossInv, HasSeen, Covered, Watching
  <1>5. ASSUME Step(f, "read") \/ Step(f, "skip") \/ Step(f, "handle") \/ Step(f, "record"),
               pending' = pending, HasSeen(f)
        PROVE  NoLossInv(f)'
    <2>1. /\ settler'[f].pc \in {"read", "skip", "handle", "record"}
          /\ settler'[f].version = settler[f].version
          /\ settler'[f].last = settler[f].last
      BY <1>0, <1>5, StepRow
    <2>2. pending[f] > 0
      BY <1>5, <1>a DEF HasSeen, FileInv
    <2> QED BY <1>a, <1>b, <1>5, <2>1, <2>2 DEF NoLossInv, HasSeen, Covered, Watching
  <1>6. ASSUME Finish(f), settler[f].pc \in {"skip", "record"}, pending[f] = settler[f].version
        PROVE  NoLossInv(f)'
    <2>1. settler'[f].pc = "none" /\ pending'[f] = 0
      BY <1>0, <1>6, FinishRow, AtFields
    <2>2. Watching => settler[f].last = disk[f] \/ events[f] > 0
      BY <1>a, <1>6 DEF NoLossInv, HasSeen
    <2>3. <<f, Fingerprint(settler[f].last)>> \in queued
      BY <1>a, <1>6 DEF FileInv
    <2>4. Watching => (events'[f] > 0 \/ <<f, Fingerprint(disk[f])>> \in queued)
      BY <1>b, <2>2, <2>3
    <2> QED BY <1>a, <1>b, <2>1, <2>4 DEF NoLossInv, HasSeen, Covered, Watching, Fingerprint
  <1>7. ASSUME Finish(f), ~Watching \/ failed' PROVE NoLossInv(f)'
    <2>1. settler'[f].pc = "none"
      BY <1>0, <1>7, FinishRow, AtFields
    <2> QED BY <1>7, <1>b, <2>1 DEF NoLossInv, HasSeen, Watching
  <1>8. CASE GiveUp(f)
    BY <1>a, <1>8 DEF GiveUp, NoLossInv
  <1>9. CASE Cancelled(f) \/ SettleFails(f)
    BY <1>7, <1>9 DEF Cancelled, SettleFails, Watching
  <1>10. CASE CheckVersion(f)
    BY <1>5, <1>10 DEF CheckVersion, HasSeen
  <1>11. CASE SkipDelivered(f) \/ RecordDelivered(f)
    BY <1>5, <1>6, <1>11 DEF SkipDelivered, RecordDelivered, FinishIfCurrent, HasSeen
  <1>12. CASE Handle(f)
    BY <1>5, <1>12 DEF Handle, HasSeen
  <1> QED BY <1>2, <1>3, <1>4, <1>8, <1>9, <1>10, <1>11, <1>12 DEF SettleStep

\* What the environment has not broken by a removal.
UnlessRemoved == (ProcessExisting /\ removals = 0) => NoLossIInv

\* Until the first removal the watcher loses nothing.
LEMMA NothingLostYet == Spec => []UnlessRemoved
  <1>1. Init => UnlessRemoved
    <2> SUFFICES ASSUME Init PROVE NoLossIInv
      BY DEF UnlessRemoved
    <2>1. "none" \in PCs
      BY DEF PCs
    <2>2. ASSUME NEW f \in Files PROVE NoLossInv(f)
      <3>1. settler[f].pc = "none" /\ mode = "down"
        BY <2>1, AtFields DEF Init
      <3> QED BY <3>1 DEF NoLossInv, Watching, HasSeen
    <2> QED BY <2>2 DEF Init, NoLossIInv
  <1>2. SettleIInv /\ UnlessRemoved /\ [Next]_vars => UnlessRemoved'
    <2> SUFFICES ASSUME SettleIInv, UnlessRemoved, [Next]_vars, ProcessExisting, removals' = 0
                 PROVE  NoLossIInv'
      BY DEF UnlessRemoved
    <2>1. removals = 0
      <3>1. removals \in Nat
        BY LimitTypes DEF SettleIInv, SettleTypeOK
      <3>2. removals' = removals \/ removals' = removals + 1
        BY DEF Next, LoopStep, Run, ScanDone, ErrorFails, Joined, Scan, HandleEvent, LimitFails,
               Environment, Stop, Crash, Write, Remove, SettleFails, SettleStep, ReadVersion,
               FirstStat, Poll, GiveUp, Cancelled, CheckVersion, SkipDelivered, Handle,
               RecordDelivered, envVars, vars
      <3> QED BY <3>1, <3>2
    <2>2. NoLossIInv
      BY <2>1 DEF UnlessRemoved
    <2>3. CASE Next
      BY <2>2, <2>3, LoopLosesNothing, SettlerLosesNothing DEF Next, Environment
    <2>4. CASE UNCHANGED vars
      BY <2>2, <2>4 DEF vars, envVars, loopVars, NoLossIInv, NoLossInv, HasSeen, Covered, Watching
    <2> QED BY <2>3, <2>4
  <1> QED BY <1>1, <1>2, SettleConsistent, PTL DEF Spec

\* An invariant state has lost nothing.
LEMMA NoLossMeans == NoLossIInv => NoLostFile
  BY DEF NoLossIInv, NoLossInv, NoLostFile, Covered, Watching

\* The pending map, the settle goroutines, the cache and the queue stay in step, with
\* any number of files and at any limits, and no limit drops a file (SettleInv, of schedule,
\* settle and recordDelivered).
THEOREM SettleSafe == Spec => []SettleInv
  <1>1. SettleIInv /\ UnlessRemoved => SettleInv
    <2> SUFFICES ASSUME SettleIInv, UnlessRemoved PROVE SettleInv
      OBVIOUS
    <2>1. {f \in Files : settler[f].pc # "none"} = Pending
      BY DEF SettleIInv, FileInv, Pending
    <2>2. PendingBounded
      BY <2>1 DEF SettleIInv, WithinLimit, PendingBounded
    <2>3. DeliveredIsQueued
      BY DEF SettleIInv, FileInv, DeliveredIsQueued
    <2>4. LimitsLoseNothing
      BY NoLossMeans DEF UnlessRemoved, LimitsLoseNothing
    <2>5. PendingHasSettler
      BY DEF SettleIInv, FileInv, PendingHasSettler
    <2> QED BY <2>2, <2>3, <2>4, <2>5 DEF SettleIInv, SettleInv
  <1> QED BY <1>1, NothingLostYet, SettleConsistent, PTL

\* A watcher that scans existing files loses none, with any number of files, writes,
\* evictions, stops, crashes and failures, as long as nobody removes a file: the
\* removal race that settle_lost exhibits is the only way to lose one (settle).
THEOREM SettleNoLostFile ==
    ASSUME MaxRemovals = 0, ProcessExisting
    PROVE  Spec => []NoLostFile
  <1>1. SettleIInv /\ UnlessRemoved => NoLostFile
    <2> SUFFICES ASSUME SettleIInv, UnlessRemoved PROVE NoLostFile
      OBVIOUS
    <2>1. removals = 0
      BY LimitTypes DEF SettleIInv, SettleTypeOK
    <2> QED BY <2>1, NoLossMeans DEF UnlessRemoved
  <1> QED BY <1>1, NothingLostYet, SettleConsistent, PTL

=============================================================================

-------------------------- MODULE OwnershipProofs --------------------------
(***************************************************************************)
(* Daemon processes do not take from each other what they own, for every   *)
(* number of processes, state directories, socket paths and dashboard      *)
(* addresses, whatever crashes and whatever files are left behind.         *)
(***************************************************************************)
EXTENDS Ownership, TLAPS

----------------------------------------------------------------------------
(* The inductive invariant.                                                 *)

\* A failed Restore undoes the start under both locks.
Undoing(l) == proc[l].early /\ proc[l].pc \in {"readToken", "removeToken"}

\* Where a process has the lock of its state directory.
HasState(l) == \/ proc[l].pc \in {"lock", "probe", "stale", "listen", "web", "token", "restore",
                                  "serving", "shutdown"}
               \/ Undoing(l)

\* Where a process has the lock of its control path.
HasSocket(l) == \/ proc[l].pc \in {"probe", "stale", "listen", "web", "token", "restore",
                                   "serving", "shutdown", "inspect", "unlink", "unlock"}
                \/ Undoing(l)

\* What a process relies on: its locks where the code assumes them, its directory
\* while instances run, its socket from Listen to the end of serving, a free path
\* when it is about to listen, and no foreign token once it wrote its own.
OwnsWhatItUses(l) ==
    /\ HasState(l) => stateLock[proc[l].dir] = l
    /\ HasSocket(l) => socketLock[proc[l].socket] = l
    /\ l \in running => stateLock[proc[l].dir] = l
    /\ l \in listening => proc[l].pc \notin {"unborn", "start", "lock", "probe", "stale", "listen",
                                             "gone", "refused"}
    /\ proc[l].pc \in {"web", "token", "restore", "serving"} =>
          socketFile[proc[l].socket] = l /\ l \in listening
    /\ proc[l].pc = "listen" => socketFile[proc[l].socket] = Nobody
    /\ (proc[l].pc \in {"restore", "serving"} /\ proc[l].web # NoWeb) =>
          token[proc[l].socket] \in {l, Nobody}

\* Locks are held by live processes that asked for them, and sockets were made by
\* processes that were told their path.
HoldersAreKnown ==
    /\ \A s \in Dirs : stateLock[s] # Nobody =>
          /\ stateLock[s] \in Processes
          /\ proc[stateLock[s]].dir = s
          /\ proc[stateLock[s]].pc \notin {"unborn", "start", "gone", "refused"}
    /\ \A k \in Sockets : socketLock[k] # Nobody =>
          /\ socketLock[k] \in Processes
          /\ proc[socketLock[k]].socket = k
          /\ proc[socketLock[k]].pc \notin {"unborn", "start", "lock", "gone", "refused"}
    /\ \A k \in Sockets : socketFile[k] \in Processes => proc[socketFile[k]].socket = k

OwnershipIInv == /\ OwnershipTypeOK
                 /\ \A l \in Processes : OwnsWhatItUses(l)
                 /\ HoldersAreKnown

----------------------------------------------------------------------------
(* What a step of one process leaves to the others.                         *)

\* A process takes only free locks, releases only its own, touches a socket file and
\* writes a token only under the lock of the path, and removes a token at most.
ActsWithinLocks(l) ==
    /\ \A m \in Processes : m # l => proc'[m] = proc[m]
    /\ proc'[l].dir = proc[l].dir /\ proc'[l].socket = proc[l].socket
    /\ \A s \in Dirs : stateLock'[s] # stateLock[s] =>
          \/ stateLock[s] = l /\ stateLock'[s] = Nobody
          \/ stateLock[s] = Nobody /\ stateLock'[s] = l
    /\ \A k \in Sockets : socketLock'[k] # socketLock[k] =>
          \/ socketLock[k] = l /\ socketLock'[k] = Nobody
          \/ socketLock[k] = Nobody /\ socketLock'[k] = l
    /\ \A k \in Sockets : socketFile'[k] # socketFile[k] =>
          socketLock[k] = l /\ (socketFile'[k] = Nobody \/ socketFile'[k] = l)
    /\ \A k \in Sockets : token'[k] # token[k] =>
          token'[k] = Nobody \/ socketLock[k] = l
    /\ \A m \in Processes : m # l => /\ m \in running' <=> m \in running
                                     /\ m \in listening' <=> m \in listening

\* Process numbers are no free lock's.
LEMMA ProcessNumbers == \A l \in Processes : l # Nobody /\ l \in Owner
BY OwnershipAssumption DEF Processes, Nobody, Owner, Leftover

\* Nobody stands for a path that no process owns.
LEMMA NobodyIsOwner == Nobody \in Owner
BY OwnershipAssumption DEF Nobody, Owner, Leftover

\* The fields of a process.
LEMMA ProcessRow ==
    ASSUME OwnershipTypeOK, NEW l \in Processes
    PROVE  /\ proc[l] \in Process /\ proc[l].pc \in Steps /\ proc[l].dir \in Dirs
           /\ proc[l].socket \in Sockets /\ proc[l].early \in BOOLEAN
           /\ proc[l].web \in Addresses \cup {NoWeb}
BY DEF OwnershipTypeOK, Process

\* Nobody loses what it relies on by a step of another process.
LEMMA OthersKeepTheirs ==
    ASSUME OwnershipIInv, NEW l \in Processes, ActsWithinLocks(l),
           NEW m \in Processes, m # l
    PROVE  OwnsWhatItUses(m)'
<1>1. proc'[m] = proc[m] /\ proc[m].dir \in Dirs /\ proc[m].socket \in Sockets
  BY ProcessRow DEF ActsWithinLocks, OwnershipIInv
<1>2. OwnsWhatItUses(m) /\ m # Nobody /\ l # Nobody
  BY ProcessNumbers DEF OwnershipIInv
<1>3. stateLock[proc[m].dir] = m => stateLock'[proc[m].dir] = m
  BY <1>1, <1>2 DEF ActsWithinLocks
<1>4. socketLock[proc[m].socket] = m => /\ socketLock'[proc[m].socket] = m
                                        /\ socketFile'[proc[m].socket] = socketFile[proc[m].socket]
                                        /\ token'[proc[m].socket] = token[proc[m].socket]
                                              \/ token'[proc[m].socket] = Nobody
  BY <1>1, <1>2 DEF ActsWithinLocks
<1>5. (m \in running' <=> m \in running) /\ (m \in listening' <=> m \in listening)
  BY DEF ActsWithinLocks
<1> QED
  BY <1>1, <1>2, <1>3, <1>4, <1>5 DEF OwnsWhatItUses, HasState, HasSocket, Undoing

\* The holders stay known if the process that moves keeps to its own state.
LEMMA HoldersStayKnown ==
    ASSUME OwnershipIInv, NEW l \in Processes, ActsWithinLocks(l),
           (\E s \in Dirs : stateLock'[s] = l) =>
               proc'[l].pc \notin {"unborn", "start", "gone", "refused"},
           (\E k \in Sockets : socketLock'[k] = l) =>
               proc'[l].pc \notin {"unborn", "start", "lock", "gone", "refused"},
           \A s \in Dirs : stateLock'[s] = l => s = proc[l].dir,
           \A k \in Sockets : socketLock'[k] = l => k = proc[l].socket,
           \A k \in Sockets : socketFile'[k] = l => k = proc[l].socket
    PROVE  HoldersAreKnown'
<1>1. l # Nobody /\ Nobody \notin Processes
  BY ProcessNumbers
<1>2. ASSUME NEW s \in Dirs, stateLock'[s] # Nobody
      PROVE  /\ stateLock'[s] \in Processes
             /\ proc'[stateLock'[s]].dir = s
             /\ proc'[stateLock'[s]].pc \notin {"unborn", "start", "gone", "refused"}
  <2>1. CASE stateLock'[s] = l
    BY <1>2, <2>1 DEF ActsWithinLocks
  <2>2. CASE stateLock'[s] # l
    <3>1. stateLock'[s] = stateLock[s]
      BY <1>2, <2>2 DEF ActsWithinLocks
    <3> QED
      BY <1>2, <2>2, <3>1 DEF OwnershipIInv, HoldersAreKnown, ActsWithinLocks
  <2> QED
    BY <2>1, <2>2
<1>3. ASSUME NEW k \in Sockets, socketLock'[k] # Nobody
      PROVE  /\ socketLock'[k] \in Processes
             /\ proc'[socketLock'[k]].socket = k
             /\ proc'[socketLock'[k]].pc \notin {"unborn", "start", "lock", "gone", "refused"}
  <2>1. CASE socketLock'[k] = l
    BY <1>3, <2>1 DEF ActsWithinLocks
  <2>2. CASE socketLock'[k] # l
    <3>1. socketLock'[k] = socketLock[k]
      BY <1>3, <2>2 DEF ActsWithinLocks
    <3> QED
      BY <1>3, <2>2, <3>1 DEF OwnershipIInv, HoldersAreKnown, ActsWithinLocks
  <2> QED
    BY <2>1, <2>2
<1>4. ASSUME NEW k \in Sockets, socketFile'[k] \in Processes
      PROVE  proc'[socketFile'[k]].socket = k
  <2>1. CASE socketFile'[k] = l
    BY <1>4, <2>1 DEF ActsWithinLocks
  <2>2. CASE socketFile'[k] # l
    <3>1. socketFile'[k] = socketFile[k]
      BY <1>1, <1>4, <2>2 DEF ActsWithinLocks
    <3> QED
      BY <1>4, <2>2, <3>1 DEF OwnershipIInv, HoldersAreKnown, ActsWithinLocks
  <2> QED
    BY <2>1, <2>2
<1> QED
  BY <1>2, <1>3, <1>4 DEF HoldersAreKnown
----------------------------------------------------------------------------
(* One lemma per kind of step.                                              *)

\* What is left to show of a step of l.
KeepsInv(l) == /\ OwnershipTypeOK'
               /\ ActsWithinLocks(l)
               /\ OwnsWhatItUses(l)'
               /\ HoldersAreKnown'

\* A process that goes on changes nothing but its place.
LEMMA GotoRow ==
    ASSUME OwnershipTypeOK, NEW l \in Processes, NEW pc \in Steps, Goto(l, pc)
    PROVE  /\ proc' \in [Processes -> Process]
           /\ proc'[l].pc = pc /\ proc'[l].dir = proc[l].dir /\ proc'[l].socket = proc[l].socket
           /\ proc'[l].web = proc[l].web /\ proc'[l].early = proc[l].early
           /\ \A m \in Processes : m # l => proc'[m] = proc[m]
<1>1. proc \in [Processes -> Process] /\ proc[l] \in Process
  BY DEF OwnershipTypeOK
<1>2. proc' = [proc EXCEPT ![l] = [proc[l] EXCEPT !.pc = pc]]
  BY DEF Goto
<1>3. [proc[l] EXCEPT !.pc = pc] \in Process
  BY <1>1 DEF Process
<1> QED
  BY <1>1, <1>2, <1>3 DEF Process

\* A process takes and gives back nothing.
LEMMA LocksUntouched ==
    ASSUME OwnershipIInv, NEW l \in Processes, ActsWithinLocks(l), UNCHANGED <<stateLock, socketLock>>,
           proc[l].pc \notin {"unborn", "start", "lock", "gone", "refused"},
           proc'[l].pc \notin {"unborn", "start", "lock", "gone", "refused"},
           \A k \in Sockets : socketFile'[k] = l => k = proc[l].socket
    PROVE  HoldersAreKnown'
<1>1. l # Nobody
  BY ProcessNumbers
<1>2. /\ \A s \in Dirs : stateLock'[s] = l => s = proc[l].dir
      /\ \A k \in Sockets : socketLock'[k] = l => k = proc[l].socket
  BY <1>1 DEF OwnershipIInv, HoldersAreKnown
<1> QED
  BY <1>2, HoldersStayKnown

\* Dying, or leaving, gives back everything but files.
LEMMA VanishKeepsInv ==
    ASSUME OwnershipIInv, NEW l \in Processes, NEW pc \in {"gone", "refused"}, Vanish(l, pc)
    PROVE  KeepsInv(l)
<1>1. OwnershipTypeOK /\ pc \in Steps /\ l # Nobody
  BY ProcessNumbers DEF OwnershipIInv, Steps
<1>2. /\ proc' \in [Processes -> Process]
      /\ proc'[l].pc = pc /\ proc'[l].dir = proc[l].dir /\ proc'[l].socket = proc[l].socket
      /\ \A m \in Processes : m # l => proc'[m] = proc[m]
  BY <1>1, GotoRow DEF Vanish
<1>3. OwnershipTypeOK'
  BY <1>1, <1>2, NobodyIsOwner DEF OwnershipTypeOK, Vanish
<1>4. ActsWithinLocks(l)
  BY <1>1, <1>2 DEF ActsWithinLocks, Vanish
<1>5. OwnsWhatItUses(l)'
  BY <1>2 DEF OwnsWhatItUses, HasState, HasSocket, Undoing, Vanish
<1>6. HoldersAreKnown'
  <2>1. (\A s \in Dirs : stateLock'[s] # l) /\ (\A k \in Sockets : socketLock'[k] # l)
    BY <1>1 DEF Vanish
  <2>2. \A k \in Sockets : socketFile'[k] = l => k = proc[l].socket
    BY DEF Vanish, OwnershipIInv, HoldersAreKnown
  <2> QED
    BY <1>4, <2>1, <2>2, HoldersStayKnown
<1> QED
  BY <1>3, <1>4, <1>5, <1>6 DEF KeepsInv

\* Begin, and openRegistry taking the lock of the state directory.
LEMMA LockStateKeepsInv ==
    ASSUME OwnershipIInv, NEW l \in Processes, Begin(l) \/ LockState(l)
    PROVE  KeepsInv(l)
<1>1. /\ OwnershipTypeOK /\ {"start", "lock"} \subseteq Steps /\ l # Nobody /\ l \in Owner
      /\ OwnsWhatItUses(l) /\ proc[l].dir \in Dirs
  BY ProcessNumbers, ProcessRow DEF OwnershipIInv, Steps
<1>2. (\A k \in Sockets : socketFile[k] = l => k = proc[l].socket)
  BY DEF OwnershipIInv, HoldersAreKnown
<1>3. CASE Begin(l)
  <2>1. /\ proc' \in [Processes -> Process]
        /\ proc'[l].pc = "start" /\ proc'[l].dir = proc[l].dir /\ proc'[l].socket = proc[l].socket
        /\ proc[l].pc = "unborn"
        /\ \A m \in Processes : m # l => proc'[m] = proc[m]
        /\ UNCHANGED <<stateLock, socketLock, socketFile, listening, address, token, running>>
    BY <1>1, <1>3, GotoRow DEF Begin, At
  <2>2. OwnershipTypeOK'
    BY <1>1, <2>1 DEF OwnershipTypeOK
  <2>3. ActsWithinLocks(l)
    BY <2>1 DEF ActsWithinLocks
  <2>4. OwnsWhatItUses(l)'
    BY <1>1, <2>1 DEF OwnsWhatItUses, HasState, HasSocket, Undoing
  <2>5. (\A s \in Dirs : stateLock[s] # l) /\ (\A k \in Sockets : socketLock[k] # l)
    BY <1>1, <2>1 DEF OwnershipIInv, HoldersAreKnown
  <2>6. HoldersAreKnown'
    BY <1>2, <2>1, <2>3, <2>5, HoldersStayKnown
  <2> QED
    BY <2>2, <2>3, <2>4, <2>6 DEF KeepsInv
<1>4. CASE LockState(l) /\ Goto(l, "lock")
  <2>1. /\ proc' \in [Processes -> Process]
        /\ proc'[l].pc = "lock" /\ proc'[l].dir = proc[l].dir /\ proc'[l].socket = proc[l].socket
        /\ \A m \in Processes : m # l => proc'[m] = proc[m]
    BY <1>1, <1>4, GotoRow
  <2>2. /\ stateLock[proc[l].dir] = Nobody
        /\ stateLock' = [stateLock EXCEPT ![proc[l].dir] = l] /\ proc[l].pc = "start"
        /\ UNCHANGED <<socketLock, socketFile, listening, address, token, running>>
    <3>1. "refused" \in Steps
      BY DEF Steps
    <3>2. ~Vanish(l, "refused")
      BY <1>1, <2>1, <3>1, GotoRow DEF Vanish
    <3> QED
      BY <1>4, <3>2 DEF LockState, At
  <2>3. OwnershipTypeOK'
    BY <1>1, <2>1, <2>2 DEF OwnershipTypeOK
  <2>4. /\ stateLock'[proc[l].dir] = l
        /\ \A s \in Dirs : s # proc[l].dir => stateLock'[s] = stateLock[s]
    BY <1>1, <2>2 DEF OwnershipTypeOK
  <2>5. ActsWithinLocks(l)
    BY <2>1, <2>2, <2>4 DEF ActsWithinLocks
  <2>6. OwnsWhatItUses(l)'
    BY <1>1, <2>1, <2>2, <2>4 DEF OwnsWhatItUses, HasState, HasSocket, Undoing
  <2>7. (\A s \in Dirs : stateLock[s] # l) /\ (\A k \in Sockets : socketLock[k] # l)
    BY <1>1, <2>2 DEF OwnershipIInv, HoldersAreKnown
  <2>8. HoldersAreKnown'
    BY <1>2, <2>1, <2>2, <2>4, <2>5, <2>7, HoldersStayKnown
  <2> QED
    BY <2>3, <2>5, <2>6, <2>8 DEF KeepsInv
<1>5. CASE LockState(l) /\ Vanish(l, "refused")
  BY <1>5, VanishKeepsInv
<1> QED
  BY <1>3, <1>4, <1>5 DEF LockState

\* acquireSocketLock.
LEMMA LockSocketKeepsInv ==
    ASSUME OwnershipIInv, NEW l \in Processes, LockSocket(l)
    PROVE  KeepsInv(l)
<1>1. /\ OwnershipTypeOK /\ {"probe", "refused"} \subseteq Steps /\ l # Nobody /\ l \in Owner
      /\ OwnsWhatItUses(l) /\ proc[l].socket \in Sockets
  BY ProcessNumbers, ProcessRow DEF OwnershipIInv, Steps
<1>2. CASE Vanish(l, "refused")
  BY <1>2, VanishKeepsInv
<1>3. CASE ~Vanish(l, "refused")
  <2>1. /\ socketLock[proc[l].socket] = Nobody
        /\ socketLock' = [socketLock EXCEPT ![proc[l].socket] = l]
        /\ Goto(l, "probe") /\ proc[l].pc = "lock"
        /\ UNCHANGED <<stateLock, socketFile, listening, address, token, running>>
    BY <1>3 DEF LockSocket, At
  <2>2. /\ proc' \in [Processes -> Process]
        /\ proc'[l].pc = "probe" /\ proc'[l].dir = proc[l].dir /\ proc'[l].socket = proc[l].socket
        /\ \A m \in Processes : m # l => proc'[m] = proc[m]
    BY <1>1, <2>1, GotoRow
  <2>3. OwnershipTypeOK'
    BY <1>1, <2>1, <2>2 DEF OwnershipTypeOK
  <2>4. /\ socketLock'[proc[l].socket] = l
        /\ \A k \in Sockets : k # proc[l].socket => socketLock'[k] = socketLock[k]
    BY <1>1, <2>1 DEF OwnershipTypeOK
  <2>5. ActsWithinLocks(l)
    BY <2>1, <2>2, <2>4 DEF ActsWithinLocks
  <2>6. OwnsWhatItUses(l)'
    BY <1>1, <2>1, <2>2, <2>4 DEF OwnsWhatItUses, HasState, HasSocket, Undoing
  <2>7. /\ \A s \in Dirs : stateLock[s] = l => s = proc[l].dir
        /\ \A k \in Sockets : socketLock[k] # l
        /\ \A k \in Sockets : socketFile[k] = l => k = proc[l].socket
    BY <1>1, <2>1 DEF OwnershipIInv, HoldersAreKnown
  <2>8. HoldersAreKnown'
    BY <2>1, <2>2, <2>4, <2>5, <2>7, HoldersStayKnown
  <2> QED
    BY <2>3, <2>5, <2>6, <2>8 DEF KeepsInv
<1> QED
  BY <1>2, <1>3

\* A step that takes and gives back no lock, and touches the socket file and writes
\* the token of its own path where it has the lock.
LEMMA NoLockStepKeepsInv ==
    ASSUME OwnershipIInv, NEW l \in Processes, UNCHANGED <<stateLock, socketLock>>,
           OwnershipTypeOK', OwnsWhatItUses(l)',
           \A m \in Processes : m # l => proc'[m] = proc[m],
           proc'[l].dir = proc[l].dir, proc'[l].socket = proc[l].socket,
           proc[l].pc \notin {"unborn", "start", "lock", "gone", "refused"},
           proc'[l].pc \notin {"unborn", "start", "lock", "gone", "refused"},
           \A k \in Sockets : socketFile'[k] # socketFile[k] =>
               /\ HasSocket(l) /\ k = proc[l].socket
               /\ socketFile'[k] = Nobody \/ socketFile'[k] = l,
           \A k \in Sockets : token'[k] # token[k] =>
               token'[k] = Nobody \/ (HasSocket(l) /\ k = proc[l].socket),
           \A m \in Processes : m # l => /\ m \in running' <=> m \in running
                                         /\ m \in listening' <=> m \in listening
    PROVE  KeepsInv(l)
<1>1. HasSocket(l) => socketLock[proc[l].socket] = l
  BY DEF OwnershipIInv, OwnsWhatItUses
<1>2. ActsWithinLocks(l)
  BY <1>1 DEF ActsWithinLocks
<1>3. \A k \in Sockets : socketFile'[k] = l => k = proc[l].socket
  BY DEF OwnershipIInv, HoldersAreKnown
<1>4. HoldersAreKnown'
  BY <1>2, <1>3, LocksUntouched
<1> QED
  BY <1>2, <1>4 DEF KeepsInv

\* prepareSocketPath and net.Listen.
LEMMA PrepareKeepsInv ==
    ASSUME OwnershipIInv, NEW l \in Processes,
           ProbeSocket(l) \/ RemoveStale(l) \/ Listen(l)
    PROVE  KeepsInv(l)
<1>1. /\ OwnershipTypeOK /\ {"listen", "stale", "restore", "web"} \subseteq Steps
      /\ l # Nobody /\ l \in Owner /\ Nobody \in Owner
      /\ OwnsWhatItUses(l) /\ proc[l].socket \in Sockets
  BY ProcessNumbers, NobodyIsOwner, ProcessRow DEF OwnershipIInv, Steps
<1>2. CASE Vanish(l, "refused")
  BY <1>2, VanishKeepsInv
<1>3. CASE ProbeSocket(l) /\ ~Vanish(l, "refused")
  <2>1. PICK pc \in {"listen", "stale"} : /\ Goto(l, pc)
                                          /\ pc = "listen" => socketFile[proc[l].socket] = Nobody
    BY <1>3 DEF ProbeSocket
  <2>2. /\ proc[l].pc = "probe"
        /\ UNCHANGED <<stateLock, socketLock, socketFile, listening, address, token, running>>
    BY <1>3 DEF ProbeSocket, At
  <2>3. /\ proc' \in [Processes -> Process]
        /\ proc'[l].pc = pc /\ proc'[l].dir = proc[l].dir /\ proc'[l].socket = proc[l].socket
        /\ \A m \in Processes : m # l => proc'[m] = proc[m]
    BY <1>1, <2>1, GotoRow
  <2>4. OwnershipTypeOK'
    BY <1>1, <2>2, <2>3 DEF OwnershipTypeOK
  <2>5. OwnsWhatItUses(l)'
    BY <1>1, <2>1, <2>2, <2>3 DEF OwnsWhatItUses, HasState, HasSocket, Undoing
  <2> QED
    BY <2>2, <2>3, <2>4, <2>5, NoLockStepKeepsInv
<1>4. CASE RemoveStale(l)
  <2>1. /\ proc[l].pc = "stale" /\ Goto(l, "listen") /\ HasSocket(l)
        /\ socketFile' = [socketFile EXCEPT ![proc[l].socket] = Nobody]
        /\ UNCHANGED <<stateLock, socketLock, listening, address, token, running>>
    BY <1>4 DEF RemoveStale, At, HasSocket
  <2>2. /\ proc' \in [Processes -> Process]
        /\ proc'[l].pc = "listen" /\ proc'[l].dir = proc[l].dir /\ proc'[l].socket = proc[l].socket
        /\ \A m \in Processes : m # l => proc'[m] = proc[m]
    BY <1>1, <2>1, GotoRow
  <2>3. /\ socketFile'[proc[l].socket] = Nobody
        /\ \A k \in Sockets : k # proc[l].socket => socketFile'[k] = socketFile[k]
    BY <1>1, <2>1 DEF OwnershipTypeOK
  <2>4. OwnershipTypeOK'
    BY <1>1, <2>1, <2>2 DEF OwnershipTypeOK
  <2>5. OwnsWhatItUses(l)'
    BY <1>1, <2>1, <2>2, <2>3 DEF OwnsWhatItUses, HasState, HasSocket, Undoing
  <2> QED
    BY <2>1, <2>2, <2>3, <2>4, <2>5, NoLockStepKeepsInv
<1>5. CASE Listen(l) /\ ~Vanish(l, "refused")
  <2>1. /\ proc[l].pc = "listen" /\ HasSocket(l)
        /\ socketFile' = [socketFile EXCEPT ![proc[l].socket] = l]
        /\ listening' = listening \cup {l}
        /\ UNCHANGED <<stateLock, socketLock, address, token, running>>
    BY <1>5 DEF Listen, At, HasSocket
  <2>2. PICK pc \in {"restore", "web"} : Goto(l, pc) /\ (pc = "restore" => proc[l].web = NoWeb)
    BY <1>5 DEF Listen
  <2>3. /\ proc' \in [Processes -> Process]
        /\ proc'[l].pc = pc /\ proc'[l].dir = proc[l].dir /\ proc'[l].socket = proc[l].socket
        /\ proc'[l].web = proc[l].web
        /\ \A m \in Processes : m # l => proc'[m] = proc[m]
    BY <1>1, <2>2, GotoRow
  <2>4. /\ socketFile'[proc[l].socket] = l
        /\ \A k \in Sockets : k # proc[l].socket => socketFile'[k] = socketFile[k]
    BY <1>1, <2>1 DEF OwnershipTypeOK
  <2>5. OwnershipTypeOK'
    BY <1>1, <2>1, <2>3 DEF OwnershipTypeOK
  <2>6. OwnsWhatItUses(l)'
    BY <1>1, <2>1, <2>2, <2>3, <2>4 DEF OwnsWhatItUses, HasState, HasSocket, Undoing
  <2> QED
    BY <2>1, <2>3, <2>4, <2>5, <2>6, NoLockStepKeepsInv
<1> QED
  BY <1>2, <1>3, <1>4, <1>5

\* webui.NewServer, its token, and manager.Restore.
LEMMA WebKeepsInv ==
    ASSUME OwnershipIInv, NEW l \in Processes, ListenWeb(l) \/ WriteToken(l) \/ Restore(l)
    PROVE  KeepsInv(l)
<1>1. /\ OwnershipTypeOK
      /\ {"token", "shutdown", "restore", "serving", "readToken"} \subseteq Steps
      /\ l # Nobody /\ l \in Owner /\ Nobody \in Owner
      /\ OwnsWhatItUses(l) /\ proc[l].socket \in Sockets /\ proc[l] \in Process
      /\ proc \in [Processes -> Process]
  BY ProcessNumbers, NobodyIsOwner, ProcessRow DEF OwnershipIInv, Steps, OwnershipTypeOK
<1>2. CASE ListenWeb(l)
  <2>1. /\ proc[l].pc = "web"
        /\ UNCHANGED <<stateLock, socketLock, socketFile, token, running>>
        /\ listening' \in {listening, listening \ {l}}
        /\ address' \in {address, [address EXCEPT ![proc[l].web] = l]}
    BY <1>2 DEF ListenWeb, At
  <2>2. CASE Goto(l, "token") /\ UNCHANGED listening
    <3>1. /\ proc' \in [Processes -> Process]
          /\ proc'[l].pc = "token" /\ proc'[l].dir = proc[l].dir /\ proc'[l].socket = proc[l].socket
          /\ \A m \in Processes : m # l => proc'[m] = proc[m]
      BY <1>1, <2>2, GotoRow
    <3>2. OwnershipTypeOK'
      BY <1>1, <2>1, <3>1 DEF OwnershipTypeOK
    <3>3. OwnsWhatItUses(l)'
      BY <1>1, <2>1, <2>2, <3>1 DEF OwnsWhatItUses, HasState, HasSocket, Undoing
    <3> QED
      BY <2>1, <2>2, <3>1, <3>2, <3>3, NoLockStepKeepsInv
  <2>3. CASE proc' = [proc EXCEPT ![l].pc = "shutdown", ![l].web = NoWeb]
    <3>1. [proc[l] EXCEPT !.pc = "shutdown", !.web = NoWeb] \in Process
      BY <1>1 DEF Process
    <3>2. /\ proc' \in [Processes -> Process]
          /\ proc'[l].pc = "shutdown" /\ proc'[l].dir = proc[l].dir
          /\ proc'[l].socket = proc[l].socket
          /\ \A m \in Processes : m # l => proc'[m] = proc[m]
      BY <1>1, <2>3, <3>1 DEF Process
    <3>3. OwnershipTypeOK'
      BY <1>1, <2>1, <3>2 DEF OwnershipTypeOK
    <3>4. OwnsWhatItUses(l)'
      BY <1>1, <2>1, <3>2 DEF OwnsWhatItUses, HasState, HasSocket, Undoing
    <3> QED
      BY <2>1, <3>2, <3>3, <3>4, NoLockStepKeepsInv
  <2> QED
    BY <1>2, <2>2, <2>3 DEF ListenWeb
<1>3. CASE WriteToken(l)
  <2>1. /\ proc[l].pc = "token" /\ HasSocket(l)
        /\ UNCHANGED <<stateLock, socketLock, socketFile, running>>
    BY <1>3 DEF WriteToken, At, HasSocket
  <2>2. CASE /\ Goto(l, "restore") /\ token' = [token EXCEPT ![proc[l].socket] = l]
             /\ UNCHANGED <<listening, address>>
    <3>1. /\ proc' \in [Processes -> Process]
          /\ proc'[l].pc = "restore" /\ proc'[l].dir = proc[l].dir
          /\ proc'[l].socket = proc[l].socket
          /\ \A m \in Processes : m # l => proc'[m] = proc[m]
      BY <1>1, <2>2, GotoRow
    <3>2. /\ token'[proc[l].socket] = l
          /\ \A k \in Sockets : k # proc[l].socket => token'[k] = token[k]
      BY <1>1, <2>2 DEF OwnershipTypeOK
    <3>3. OwnershipTypeOK'
      BY <1>1, <2>1, <2>2, <3>1 DEF OwnershipTypeOK
    <3>4. OwnsWhatItUses(l)'
      BY <1>1, <2>1, <2>2, <3>1, <3>2 DEF OwnsWhatItUses, HasState, HasSocket, Undoing
    <3> QED
      BY <2>1, <2>2, <3>1, <3>2, <3>3, <3>4, NoLockStepKeepsInv
  <2>3. CASE /\ token' \in {token, [token EXCEPT ![proc[l].socket] = Nobody]}
             /\ proc' = [proc EXCEPT ![l].pc = "shutdown", ![l].web = NoWeb]
             /\ address' = [address EXCEPT ![proc[l].web] = Nobody]
             /\ listening' = listening \ {l}
    <3>1. [proc[l] EXCEPT !.pc = "shutdown", !.web = NoWeb] \in Process
      BY <1>1 DEF Process
    <3>2. /\ proc' \in [Processes -> Process]
          /\ proc'[l].pc = "shutdown" /\ proc'[l].dir = proc[l].dir
          /\ proc'[l].socket = proc[l].socket
          /\ \A m \in Processes : m # l => proc'[m] = proc[m]
      BY <1>1, <2>3, <3>1 DEF Process
    <3>3. \A k \in Sockets : token'[k] # token[k] => token'[k] = Nobody
      BY <1>1, <2>3 DEF OwnershipTypeOK
    <3>4. OwnershipTypeOK'
      BY <1>1, <2>1, <2>3, <3>2 DEF OwnershipTypeOK
    <3>5. OwnsWhatItUses(l)'
      BY <1>1, <2>1, <2>3, <3>2 DEF OwnsWhatItUses, HasState, HasSocket, Undoing
    <3> QED
      BY <2>1, <2>3, <3>2, <3>3, <3>4, <3>5, NoLockStepKeepsInv
  <2> QED
    BY <1>3, <2>2, <2>3 DEF WriteToken
<1>4. CASE Restore(l)
  <2>1. proc[l].pc = "restore" /\ UNCHANGED <<stateLock, socketLock, socketFile, token>>
    BY <1>4 DEF Restore, At
  <2>2. CASE Goto(l, "serving") /\ running' = running \cup {l} /\ UNCHANGED <<listening, address>>
    <3>1. /\ proc' \in [Processes -> Process]
          /\ proc'[l].pc = "serving" /\ proc'[l].dir = proc[l].dir
          /\ proc'[l].socket = proc[l].socket /\ proc'[l].web = proc[l].web
          /\ \A m \in Processes : m # l => proc'[m] = proc[m]
      BY <1>1, <2>2, GotoRow
    <3>2. OwnershipTypeOK'
      BY <1>1, <2>1, <2>2, <3>1 DEF OwnershipTypeOK
    <3>3. OwnsWhatItUses(l)'
      BY <1>1, <2>1, <2>2, <3>1 DEF OwnsWhatItUses, HasState, HasSocket, Undoing
    <3> QED
      BY <2>1, <2>2, <3>1, <3>2, <3>3, NoLockStepKeepsInv
  <2>3. CASE \E pc \in {"shutdown", "readToken"} :
                /\ proc' = [proc EXCEPT ![l].early = TRUE, ![l].pc = pc]
                /\ address' = [a \in Addresses |-> IF address[a] = l THEN Nobody ELSE address[a]]
                /\ listening' \in {listening, listening \ {l}}
                /\ UNCHANGED running
    <3>1. PICK pc \in {"shutdown", "readToken"} :
                /\ proc' = [proc EXCEPT ![l].early = TRUE, ![l].pc = pc]
                /\ address' = [a \in Addresses |-> IF address[a] = l THEN Nobody ELSE address[a]]
                /\ listening' \in {listening, listening \ {l}}
                /\ UNCHANGED running
      BY <2>3
    <3>2. [proc[l] EXCEPT !.early = TRUE, !.pc = pc] \in Process
      BY <1>1 DEF Process
    <3>3. /\ proc' \in [Processes -> Process]
          /\ proc'[l].pc = pc /\ proc'[l].dir = proc[l].dir
          /\ proc'[l].socket = proc[l].socket
          /\ \A m \in Processes : m # l => proc'[m] = proc[m]
      BY <1>1, <3>1, <3>2 DEF Process
    <3>4. OwnershipTypeOK'
      BY <1>1, <2>1, <3>1, <3>3 DEF OwnershipTypeOK
    <3>5. OwnsWhatItUses(l)'
      BY <1>1, <2>1, <3>1, <3>3 DEF OwnsWhatItUses, HasState, HasSocket, Undoing
    <3> QED
      BY <2>1, <3>1, <3>3, <3>4, <3>5, NoLockStepKeepsInv
  <2> QED
    BY <1>4, <2>2, <2>3 DEF Restore
<1> QED
  BY <1>2, <1>3, <1>4

\* The end of serving, up to the release of the locks: steps that only move on, stop
\* listening, close the dashboard or remove the token.
LEMMA MoveOnKeepsInv ==
    ASSUME OwnershipIInv, NEW l \in Processes, NEW pc \in Steps, Goto(l, pc),
           pc \in {"shutdown", "inspect", "unlink", "unlock", "join", "readToken", "removeToken",
                   "exit"},
           proc[l].pc \notin {"unborn", "start", "lock", "gone", "refused"},
           HasState(l)' => HasState(l), HasSocket(l)' => HasSocket(l),
           UNCHANGED <<stateLock, socketLock, socketFile, address, running>>,
           listening' \in {listening, listening \ {l}},
           token' \in {token, [token EXCEPT ![proc[l].socket] = Nobody]}
    PROVE  KeepsInv(l)
<1>1. OwnershipTypeOK /\ OwnsWhatItUses(l) /\ Nobody \in Owner
  BY NobodyIsOwner DEF OwnershipIInv
<1>2. /\ proc' \in [Processes -> Process]
      /\ proc'[l].pc = pc /\ proc'[l].dir = proc[l].dir /\ proc'[l].socket = proc[l].socket
      /\ \A m \in Processes : m # l => proc'[m] = proc[m]
  BY <1>1, GotoRow
<1>3. OwnershipTypeOK'
  BY <1>1, <1>2 DEF OwnershipTypeOK
<1>4. OwnsWhatItUses(l)'
  <2>1. HasState(l)' => stateLock'[proc'[l].dir] = l
    BY <1>1, <1>2 DEF OwnsWhatItUses
  <2>2. HasSocket(l)' => socketLock'[proc'[l].socket] = l
    BY <1>1, <1>2 DEF OwnsWhatItUses
  <2> QED
    BY <1>1, <1>2, <2>1, <2>2 DEF OwnsWhatItUses
<1>5. \A k \in Sockets : token'[k] # token[k] => token'[k] = Nobody
  BY <1>1 DEF OwnershipTypeOK
<1> QED
  BY <1>2, <1>3, <1>4, <1>5, NoLockStepKeepsInv

\* closeNetwork, removeOwnedSocket, the join of both servers and removeAccessToken.
LEMMA EndKeepsInv ==
    ASSUME OwnershipIInv, NEW l \in Processes,
           \/ EndServing(l) \/ InspectSocket(l) \/ Join(l) \/ ReadToken(l) \/ RemoveToken(l)
           \/ ShutdownFails(l) /\ UNCHANGED stateLock
    PROVE  KeepsInv(l)
<1>1. /\ OwnershipTypeOK
      /\ {"shutdown", "inspect", "unlink", "unlock", "join", "readToken", "removeToken", "exit"}
            \subseteq Steps
  BY DEF OwnershipIInv, Steps
<1>2. PICK pc \in {"shutdown", "inspect", "unlink", "unlock", "join", "readToken", "removeToken", "exit"} :
        /\ Goto(l, pc)
        /\ \/ proc[l].pc = "serving" /\ pc = "shutdown"
           \/ proc[l].pc = "shutdown" /\ pc = "join"
           \/ proc[l].pc = "inspect" /\ pc \in {"unlink", "unlock"}
           \/ proc[l].pc = "join" /\ (pc = "exit" \/ (pc = "readToken" /\ ~proc[l].early))
           \/ proc[l].pc = "readToken" /\ pc = "removeToken"
           \/ /\ proc[l].pc \in {"readToken", "removeToken"}
              /\ pc = IF proc[l].early THEN "shutdown" ELSE "exit"
  BY DEF EndServing, ShutdownFails, InspectSocket, Join, BothServed, ReadToken, RemoveToken, At,
         AfterToken
<1>3. /\ UNCHANGED <<stateLock, socketLock, socketFile, address, running>>
      /\ listening' \in {listening, listening \ {l}}
      /\ token' \in {token, [token EXCEPT ![proc[l].socket] = Nobody]}
  BY DEF EndServing, ShutdownFails, InspectSocket, Join, ReadToken, RemoveToken
<1>4. proc'[l].pc = pc /\ proc'[l].early = proc[l].early
  BY <1>1, <1>2, GotoRow
<1>5. (HasState(l)' => HasState(l)) /\ (HasSocket(l)' => HasSocket(l))
  BY <1>2, <1>4 DEF HasState, HasSocket, Undoing
<1> QED
  BY <1>1, <1>2, <1>3, <1>5, MoveOnKeepsInv

\* A step that moves nobody on and takes and gives back nothing but the dashboard's address.
LEMMA StandingKeepsInv ==
    ASSUME OwnershipIInv, NEW l \in Processes,
           proc' \in [Processes -> Process],
           \A m \in Processes : m # l => proc'[m] = proc[m],
           proc'[l].pc = proc[l].pc, proc'[l].dir = proc[l].dir, proc'[l].socket = proc[l].socket,
           proc'[l].web = proc[l].web, proc'[l].early = proc[l].early,
           address' \in [Addresses -> Owner],
           running' \in {running, running \ {l}},
           UNCHANGED <<stateLock, socketLock, socketFile, listening, token>>
    PROVE  KeepsInv(l)
<1>1. OwnershipTypeOK /\ OwnsWhatItUses(l) /\ HoldersAreKnown /\ l # Nobody
  BY ProcessNumbers DEF OwnershipIInv
<1>2. OwnershipTypeOK'
  BY <1>1 DEF OwnershipTypeOK
<1>3. ActsWithinLocks(l)
  BY DEF ActsWithinLocks
<1>4. OwnsWhatItUses(l)'
  BY <1>1 DEF OwnsWhatItUses, HasState, HasSocket, Undoing
<1>5. /\ \A s \in Dirs : stateLock[s] = l =>
            s = proc[l].dir /\ proc[l].pc \notin {"unborn", "start", "gone", "refused"}
      /\ \A k \in Sockets : socketLock[k] = l =>
            k = proc[l].socket /\ proc[l].pc \notin {"unborn", "start", "lock", "gone", "refused"}
      /\ \A k \in Sockets : socketFile[k] = l => k = proc[l].socket
  BY <1>1 DEF HoldersAreKnown
<1>6. HoldersAreKnown'
  BY <1>3, <1>5, HoldersStayKnown
<1> QED
  BY <1>2, <1>3, <1>4, <1>6 DEF KeepsInv

\* The dashboard's server and the runners return on their own, and the context is cancelled.
LEMMA AsideKeepsInv ==
    ASSUME OwnershipIInv, NEW l \in Processes,
           CloseWeb(l) \/ Signal(l) \/ FirstResult(l) \/ InstancesEnd(l)
    PROVE  KeepsInv(l)
<1>1. /\ OwnershipTypeOK /\ Nobody \in Owner
      /\ proc \in [Processes -> Process] /\ proc[l] \in Process
      /\ address \in [Addresses -> Owner]
  BY NobodyIsOwner DEF OwnershipIInv, OwnershipTypeOK
<1>2. CASE Signal(l) \/ FirstResult(l)
  <2>1. /\ proc' = [proc EXCEPT ![l].told = TRUE]
        /\ UNCHANGED <<stateLock, socketLock, socketFile, listening, address, token, running>>
    BY <1>2 DEF Signal, FirstResult
  <2>2. [proc[l] EXCEPT !.told = TRUE] \in Process
    BY <1>1 DEF Process
  <2>3. /\ proc' \in [Processes -> Process]
        /\ proc'[l].pc = proc[l].pc /\ proc'[l].dir = proc[l].dir
        /\ proc'[l].socket = proc[l].socket
        /\ proc'[l].web = proc[l].web /\ proc'[l].early = proc[l].early
        /\ \A m \in Processes : m # l => proc'[m] = proc[m]
    BY <1>1, <2>1, <2>2 DEF Process
  <2> QED
    BY <1>1, <2>1, <2>3, StandingKeepsInv
<1>3. CASE CloseWeb(l)
  <2>1. /\ UNCHANGED <<proc, stateLock, socketLock, socketFile, listening, token, running>>
        /\ address' \in [Addresses -> Owner]
    BY <1>1, <1>3 DEF CloseWeb
  <2> QED
    BY <1>1, <2>1, StandingKeepsInv
<1>4. CASE InstancesEnd(l)
  <2>1. /\ UNCHANGED <<proc, stateLock, socketLock, socketFile, listening, address, token>>
        /\ running' = running \ {l}
    BY <1>4 DEF InstancesEnd
  <2> QED
    BY <1>1, <2>1, StandingKeepsInv
<1> QED
  BY <1>2, <1>3, <1>4

\* removeOwnedSocket's unlink happens under the lock of the path.
LEMMA UnlinkKeepsInv ==
    ASSUME OwnershipIInv, NEW l \in Processes, UnlinkSocket(l)
    PROVE  KeepsInv(l)
<1>1. /\ OwnershipTypeOK /\ OwnsWhatItUses(l) /\ Nobody \in Owner /\ "unlock" \in Steps
      /\ proc[l].socket \in Sockets
  BY NobodyIsOwner, ProcessRow DEF OwnershipIInv, Steps
<1>2. /\ proc[l].pc = "unlink" /\ Goto(l, "unlock") /\ HasSocket(l)
      /\ socketFile' = [socketFile EXCEPT ![proc[l].socket] = Nobody]
      /\ UNCHANGED <<stateLock, socketLock, listening, address, token, running>>
  BY DEF UnlinkSocket, At, HasSocket
<1>3. /\ proc' \in [Processes -> Process]
      /\ proc'[l].pc = "unlock" /\ proc'[l].dir = proc[l].dir /\ proc'[l].socket = proc[l].socket
      /\ \A m \in Processes : m # l => proc'[m] = proc[m]
  BY <1>1, <1>2, GotoRow
<1>4. /\ socketFile'[proc[l].socket] = Nobody
      /\ \A k \in Sockets : k # proc[l].socket => socketFile'[k] = socketFile[k]
  BY <1>1, <1>2 DEF OwnershipTypeOK
<1>5. OwnershipTypeOK'
  BY <1>1, <1>2, <1>3 DEF OwnershipTypeOK
<1>6. OwnsWhatItUses(l)'
  BY <1>1, <1>2, <1>3, <1>4 DEF OwnsWhatItUses, HasState, HasSocket, Undoing
<1> QED
  BY <1>2, <1>3, <1>4, <1>5, <1>6, NoLockStepKeepsInv

\* manager.Shutdown, whether a row could be written or not and from daemonCommand's defer too,
\* gives the state directory back after the instances have ended.
LEMMA ShutdownKeepsInv ==
    ASSUME OwnershipIInv, NEW l \in Processes, stateLock' # stateLock,
           Shutdown(l) \/ ShutdownFails(l) \/ CleanUp(l)
    PROVE  KeepsInv(l)
<1>1. /\ OwnershipTypeOK /\ OwnsWhatItUses(l) /\ Nobody \in Owner /\ {"inspect", "join"} \subseteq Steps
      /\ proc[l].dir \in Dirs /\ l # Nobody /\ proc \in [Processes -> Process]
  BY NobodyIsOwner, ProcessRow, ProcessNumbers DEF OwnershipIInv, OwnershipTypeOK, Steps
<1>2. /\ \/ proc[l].pc = "shutdown" /\ Goto(l, "inspect")
         \/ proc[l].pc = "shutdown" /\ Goto(l, "join")
         \/ proc[l].pc = "exit" /\ stateLock[proc[l].dir] = l /\ UNCHANGED proc
      /\ stateLock' = [stateLock EXCEPT ![proc[l].dir] = Nobody]
      /\ l \notin running
      /\ UNCHANGED <<socketLock, socketFile, listening, address, token, running>>
  BY DEF Shutdown, ShutdownFails, CleanUp, At
<1>3. /\ proc' \in [Processes -> Process]
      /\ proc'[l].dir = proc[l].dir /\ proc'[l].socket = proc[l].socket
      /\ proc'[l].pc \in {"inspect", "join", "exit"}
      /\ proc'[l].pc = "inspect" => proc[l].pc = "shutdown"
      /\ \A m \in Processes : m # l => proc'[m] = proc[m]
  <2>1. CASE Goto(l, "inspect") /\ proc[l].pc = "shutdown"
    BY <1>1, <2>1, GotoRow
  <2>2. CASE Goto(l, "join")
    BY <1>1, <2>2, GotoRow
  <2>3. CASE proc[l].pc = "exit" /\ UNCHANGED proc
    BY <1>1, <2>3
  <2> QED
    BY <1>2, <2>1, <2>2, <2>3
<1>4. /\ stateLock[proc[l].dir] = l /\ stateLock'[proc[l].dir] = Nobody
      /\ \A s \in Dirs : s # proc[l].dir => stateLock'[s] = stateLock[s]
  BY <1>1, <1>2 DEF OwnershipTypeOK, OwnsWhatItUses, HasState
<1>5. OwnershipTypeOK'
  BY <1>1, <1>2, <1>3 DEF OwnershipTypeOK
<1>6. ActsWithinLocks(l)
  BY <1>2, <1>3, <1>4 DEF ActsWithinLocks
<1>7. OwnsWhatItUses(l)'
  BY <1>1, <1>2, <1>3 DEF OwnsWhatItUses, HasState, HasSocket, Undoing
<1>8. HoldersAreKnown'
  <2>1. /\ \A s \in Dirs : stateLock[s] = l => s = proc[l].dir
        /\ \A k \in Sockets : socketLock[k] = l => k = proc[l].socket
        /\ \A k \in Sockets : socketFile[k] = l => k = proc[l].socket
    BY <1>1 DEF OwnershipIInv, HoldersAreKnown
  <2>2. \A s \in Dirs : stateLock'[s] # l
    BY <1>1, <1>4, <2>1
  <2> QED
    BY <1>2, <1>3, <1>6, <2>1, <2>2, HoldersStayKnown
<1> QED
  BY <1>5, <1>6, <1>7, <1>8 DEF KeepsInv

\* releaseOwnership gives the lock of the path back last.
LEMMA ReleaseKeepsInv ==
    ASSUME OwnershipIInv, NEW l \in Processes, ReleaseSocketLock(l)
    PROVE  KeepsInv(l)
<1>1. /\ OwnershipTypeOK /\ OwnsWhatItUses(l) /\ Nobody \in Owner
      /\ {"exit", "join"} \subseteq Steps /\ proc[l].socket \in Sockets /\ l # Nobody
  BY NobodyIsOwner, ProcessRow, ProcessNumbers DEF OwnershipIInv, Steps
<1>2. /\ proc[l].pc = "unlock"
      /\ socketLock' = [socketLock EXCEPT ![proc[l].socket] = Nobody]
      /\ UNCHANGED <<stateLock, socketFile, listening, address, token, running>>
  BY DEF ReleaseSocketLock, At
<1>3. PICK pc \in {"exit", "join"} : Goto(l, pc)
  BY DEF ReleaseSocketLock
<1>4. /\ proc' \in [Processes -> Process]
      /\ proc'[l].pc = pc /\ proc'[l].dir = proc[l].dir /\ proc'[l].socket = proc[l].socket
      /\ \A m \in Processes : m # l => proc'[m] = proc[m]
  BY <1>1, <1>3, GotoRow
<1>5. /\ socketLock[proc[l].socket] = l /\ socketLock'[proc[l].socket] = Nobody
      /\ \A k \in Sockets : k # proc[l].socket => socketLock'[k] = socketLock[k]
  BY <1>1, <1>2 DEF OwnershipTypeOK, OwnsWhatItUses, HasSocket
<1>6. OwnershipTypeOK'
  BY <1>1, <1>2, <1>4 DEF OwnershipTypeOK
<1>7. ActsWithinLocks(l)
  BY <1>2, <1>4, <1>5 DEF ActsWithinLocks
<1>8. OwnsWhatItUses(l)'
  BY <1>1, <1>2, <1>4 DEF OwnsWhatItUses, HasState, HasSocket, Undoing
<1>9. HoldersAreKnown'
  <2>1. /\ \A s \in Dirs : stateLock[s] = l => s = proc[l].dir
        /\ \A k \in Sockets : socketLock[k] = l => k = proc[l].socket
        /\ \A k \in Sockets : socketFile[k] = l => k = proc[l].socket
    BY <1>1 DEF OwnershipIInv, HoldersAreKnown
  <2>2. \A k \in Sockets : socketLock'[k] # l
    BY <1>1, <1>5, <2>1
  <2> QED
    BY <1>2, <1>4, <1>7, <2>1, <2>2, HoldersStayKnown
<1> QED
  BY <1>6, <1>7, <1>8, <1>9 DEF KeepsInv

----------------------------------------------------------------------------

\* Before the first process starts, the invariant holds.
LEMMA OwnershipInitHolds == Init => OwnershipIInv
<1> SUFFICES ASSUME Init
             PROVE  OwnershipIInv
  OBVIOUS
<1>1. Nobody \in Owner /\ Leftover \in Owner /\ Nobody \notin Processes /\ Leftover \notin Processes
  BY OwnershipAssumption DEF Nobody, Owner, Leftover, Processes
<1>2. /\ proc \in [Processes -> Process]
      /\ \A l \in Processes : proc[l].pc = "unborn"
  BY DEF Init, Process, Steps
<1>3. OwnershipTypeOK
  BY <1>1, <1>2 DEF Init, OwnershipTypeOK
<1>4. \A l \in Processes : OwnsWhatItUses(l)
  BY <1>2 DEF Init, OwnsWhatItUses, HasState, HasSocket, Undoing
<1>5. HoldersAreKnown
  BY <1>1 DEF Init, HoldersAreKnown
<1> QED
  BY <1>3, <1>4, <1>5 DEF OwnershipIInv

\* Every step of a process keeps the invariant.
LEMMA ActionKeepsInv ==
    ASSUME OwnershipIInv, NEW l \in Processes,
           \/ Begin(l) \/ Starting(l) \/ Signal(l) \/ Returning(l) \/ InstancesEnd(l)
           \/ Ending(l) \/ Crash(l)
    PROVE  KeepsInv(l)
<1>1. stateLock' # stateLock \/ ~(Shutdown(l) \/ CleanUp(l))
  <2>1. /\ OwnershipTypeOK /\ l # Nobody /\ proc[l].dir \in Dirs
        /\ At(l, "shutdown") => stateLock[proc[l].dir] = l
    BY ProcessRow, ProcessNumbers DEF OwnershipIInv, OwnsWhatItUses, HasState, At
  <2> QED
    BY <2>1 DEF Shutdown, CleanUp, OwnershipTypeOK
<1>2. CASE stateLock' # stateLock /\ (Shutdown(l) \/ ShutdownFails(l) \/ CleanUp(l))
  BY <1>2, ShutdownKeepsInv
<1>3. CASE UNCHANGED stateLock \/ ~(Shutdown(l) \/ ShutdownFails(l) \/ CleanUp(l))
  BY <1>1, <1>3, VanishKeepsInv, LockStateKeepsInv, LockSocketKeepsInv, PrepareKeepsInv, WebKeepsInv,
     EndKeepsInv, AsideKeepsInv, UnlinkKeepsInv, ReleaseKeepsInv
     DEF Starting, Returning, Ending, Exit, Crash
<1> QED
  BY <1>2, <1>3

\* Every step keeps the invariant.
LEMMA OwnershipStepKeepsInv == OwnershipIInv /\ [Next]_vars => OwnershipIInv'
<1> SUFFICES ASSUME OwnershipIInv, [Next]_vars
             PROVE  OwnershipIInv'
  OBVIOUS
<1>1. CASE UNCHANGED vars
  BY <1>1 DEF vars, OwnershipIInv, OwnershipTypeOK, OwnsWhatItUses, HasState, HasSocket, Undoing,
              HoldersAreKnown
<1>2. ASSUME NEW l \in Processes,
             \/ Begin(l) \/ Starting(l) \/ Signal(l) \/ Returning(l) \/ InstancesEnd(l)
             \/ Ending(l) \/ Crash(l)
      PROVE  OwnershipIInv'
  <2>1. KeepsInv(l)
    BY <1>2, ActionKeepsInv
  <2>2. \A m \in Processes : m # l => OwnsWhatItUses(m)'
    BY <2>1, OthersKeepTheirs DEF KeepsInv
  <2> QED
    BY <2>1, <2>2 DEF KeepsInv, OwnershipIInv
<1> QED
  BY <1>1, <1>2 DEF Next

\* OwnershipIInv holds in every state.
THEOREM OwnershipConsistent == Spec => []OwnershipIInv
BY OwnershipInitHolds, OwnershipStepKeepsInv, PTL DEF Spec

\* What is owned is owned by one: instances run only under the lock of their state
\* directory, and no foreign token lies beside the socket of a serving daemon.
THEOREM OwnershipSafe == Spec => []OwnershipInv
<1>1. OwnershipIInv => OwnershipInv
  BY DEF OwnershipIInv, OwnershipInv, OneRunner, TokenIsOwn, OwnsWhatItUses, OwnershipTypeOK, At
<1> QED
  BY <1>1, OwnershipConsistent, PTL

\* No other daemon's start, end or crash takes the socket from one that serves.
THEOREM OwnershipServingIsReachable == Spec => []ServingIsReachable
<1>1. OwnershipIInv => ServingIsReachable
  BY DEF OwnershipIInv, ServingIsReachable, OwnsWhatItUses, At
<1> QED
  BY <1>1, OwnershipConsistent, PTL

\* A step that refuses a daemon finds a live rival.
LEMMA RefusalNeedsRival == OwnershipIInv /\ [Next]_vars => [RefusalHasRival]_vars
<1> SUFFICES ASSUME OwnershipIInv, Next, NEW l \in Processes,
                    ~At(l, "refused"), proc'[l].pc = "refused"
             PROVE  \E m \in Processes \ {l} : /\ Alive(m)
                                               /\ \/ proc[m].dir = proc[l].dir
                                                  \/ proc[m].socket = proc[l].socket
  BY DEF RefusalHasRival
<1>1. /\ OwnershipTypeOK /\ HoldersAreKnown /\ OwnsWhatItUses(l)
      /\ proc[l].dir \in Dirs /\ proc[l].socket \in Sockets
  BY ProcessRow DEF OwnershipIInv
<1>2. PICK m \in Processes :
        \/ Begin(m) \/ Starting(m) \/ Signal(m) \/ Returning(m) \/ InstancesEnd(m)
        \/ Ending(m) \/ Crash(m)
  BY DEF Next
<1>3. m = l
  <2>1. KeepsInv(m)
    BY <1>2, ActionKeepsInv
  <2> QED
    BY <2>1 DEF KeepsInv, ActsWithinLocks, At
<1>4. \A pc : proc' = [proc EXCEPT ![l].pc = pc] => pc = "refused"
  BY <1>1 DEF OwnershipTypeOK, Process
<1>5. \/ proc[l].pc = "start" /\ stateLock[proc[l].dir] # Nobody
      \/ proc[l].pc = "lock" /\ socketLock[proc[l].socket] # Nobody
      \/ proc[l].pc = "probe" /\ socketFile[proc[l].socket] \in listening
      \/ proc[l].pc = "listen" /\ socketFile[proc[l].socket] # Nobody
  <2>1. ~\E pc \in Steps \ {"refused"} : proc' = [proc EXCEPT ![l].pc = pc]
    BY <1>4
  <2>2. ~ListenWeb(l) /\ ~WriteToken(l) /\ ~Restore(l)
    BY <1>1, <2>1 DEF ListenWeb, WriteToken, Restore, OwnershipTypeOK, Process, Goto, Steps
  <2>3. ~CloseWeb(l) /\ ~InstancesEnd(l) /\ ~CleanUp(l)
    BY DEF CloseWeb, InstancesEnd, CleanUp, At
  <2>4. ~Signal(l) /\ ~FirstResult(l)
    <3>1. proc \in [Processes -> Process] /\ proc[l] \in Process /\ proc[l].pc # "refused"
      BY <1>1 DEF OwnershipTypeOK, At
    <3>2. [proc EXCEPT ![l].told = TRUE][l].pc = proc[l].pc
      BY <3>1 DEF Process
    <3> QED
      BY <3>1, <3>2 DEF Signal, FirstResult
  <2> QED
    BY <1>2, <1>3, <2>1, <2>2, <2>3, <2>4
       DEF Starting, Returning, Ending, Begin, LockState, LockSocket, ProbeSocket, RemoveStale, Listen,
           Shutdown, ShutdownFails, InspectSocket, UnlinkSocket, ReleaseSocketLock, Join,
           ReadToken, RemoveToken, Exit, Crash, EndServing, Vanish, Goto, At, AfterToken, Steps
<1>6. CASE proc[l].pc = "start" /\ stateLock[proc[l].dir] # Nobody
  BY <1>1, <1>6 DEF HoldersAreKnown, Alive
<1>7. CASE proc[l].pc = "lock" /\ socketLock[proc[l].socket] # Nobody
  BY <1>1, <1>7 DEF HoldersAreKnown, Alive
<1>8. CASE proc[l].pc = "probe" /\ socketFile[proc[l].socket] \in listening
  <2>1. socketFile[proc[l].socket] \in Processes /\ OwnsWhatItUses(socketFile[proc[l].socket])
    BY <1>1, <1>8 DEF OwnershipIInv, OwnershipTypeOK
  <2>2. PICK r \in Processes : r = socketFile[proc[l].socket]
    BY <2>1
  <2>3. proc[r].socket = proc[l].socket
    BY <1>1, <2>2 DEF HoldersAreKnown
  <2>4. proc[r].pc \notin {"unborn", "probe", "gone", "refused"}
    BY <1>8, <2>1, <2>2 DEF OwnsWhatItUses
  <2>5. r # l /\ Alive(r)
    BY <1>8, <2>4 DEF Alive
  <2> QED
    BY <2>3, <2>5
<1>9. CASE proc[l].pc = "listen" /\ socketFile[proc[l].socket] # Nobody
  BY <1>1, <1>9 DEF OwnsWhatItUses
<1> QED
  BY <1>5, <1>6, <1>7, <1>8, <1>9

\* Leftovers of dead daemons refuse nobody.
THEOREM OwnershipRefusedByTheLiving == Spec => RefusedByTheLiving
BY OwnershipConsistent, RefusalNeedsRival, PTL DEF Spec, RefusedByTheLiving

============================================================================

----------------------------- MODULE Ownership -----------------------------
(***************************************************************************)
(* What daemon processes own beside each other: the lock of the state      *)
(* directory (registry.go), the lock and the socket of a control path      *)
(* (control/server.go), the address and the access token of the dashboard  *)
(* (webui/server.go), in the order of cli/daemon.go. A process is one life *)
(* of onderzeeerd; its number also stands for the identity of the socket   *)
(* and the token it makes. A step is one system call on something shared.  *)
(* The token lies beside the socket, so it is indexed by the socket path.  *)
(* Flocks and listeners end with the process that holds them; files stay.  *)
(***************************************************************************)
EXTENDS Integers, FiniteSets

CONSTANTS Dirs,         \* state directories
          Sockets,      \* control socket paths
          Addresses,    \* dashboard addresses
          NoWeb,        \* no dashboard
          MaxProcesses  \* bound: lives of onderzeeerd

ASSUME OwnershipAssumption == MaxProcesses \in Nat /\ NoWeb \notin Addresses

Processes == 1..MaxProcesses
Nobody == 0

VARIABLES proc,        \* proc[l]: a process, its options and how far it is
          stateLock,   \* stateLock[s]: holder of daemon.lock in s
          socketLock,  \* socketLock[k]: holder of k.lock
          socketFile,  \* socketFile[k]: whose socket the path names
          listening,   \* processes that accept connections on their socket
          address,     \* address[a]: who listens there
          token,       \* token[k]: whose token the file holds
          running      \* processes whose instances run

vars == <<proc, stateLock, socketLock, socketFile, listening, address, token, running>>

Steps == {"unborn", "start", "lock", "probe", "stale", "listen", "web", "token", "restore",
          "serving", "shutdown", "inspect", "unlink", "unlock", "join", "readToken",
          "removeToken", "exit", "gone", "refused"}
Process == [pc : Steps, dir : Dirs, socket : Sockets, web : Addresses \cup {NoWeb},
            early : BOOLEAN,    \* Restore failed
            told : BOOLEAN]     \* the context of daemonCommand is cancelled
Leftover == MaxProcesses + 1    \* an earlier process that died
Owner == 0..Leftover

OwnershipTypeOK == /\ proc \in [Processes -> Process]
                   /\ stateLock \in [Dirs -> Owner]
                   /\ socketLock \in [Sockets -> Owner]
                   /\ socketFile \in [Sockets -> Owner]
                   /\ listening \subseteq Processes
                   /\ address \in [Addresses -> Owner]
                   /\ token \in [Sockets -> Owner]
                   /\ running \subseteq Processes

Init == /\ proc \in [Processes -> [pc : {"unborn"}, dir : Dirs, socket : Sockets,
                                   web : Addresses \cup {NoWeb}, early : {FALSE}, told : {FALSE}]]
        /\ stateLock = [s \in Dirs |-> Nobody]
        /\ socketLock = [k \in Sockets |-> Nobody]
        /\ socketFile \in [Sockets -> {Nobody, Leftover}]
        /\ listening = {}
        /\ address = [a \in Addresses |-> Nobody]
        /\ token = socketFile
        /\ running = {}

At(l, pc) == proc[l].pc = pc
Goto(l, pc) == proc' = [proc EXCEPT ![l].pc = pc]
Alive(l) == proc[l].pc \notin {"unborn", "gone", "refused"}

\* What the operating system takes back, files excepted.
Vanish(l, pc) ==
    /\ Goto(l, pc)
    /\ stateLock' = [s \in Dirs |-> IF stateLock[s] = l THEN Nobody ELSE stateLock[s]]
    /\ socketLock' = [k \in Sockets |-> IF socketLock[k] = l THEN Nobody ELSE socketLock[k]]
    /\ address' = [a \in Addresses |-> IF address[a] = l THEN Nobody ELSE address[a]]
    /\ listening' = listening \ {l}
    /\ running' = running \ {l}
    /\ UNCHANGED <<socketFile, token>>

----------------------------------------------------------------------------
(* daemonCommand up to Serve.                                               *)

Begin(l) == /\ At(l, "unborn")
            /\ \A m \in Processes : m < l => ~At(m, "unborn")
            /\ Goto(l, "start")
            /\ UNCHANGED <<stateLock, socketLock, socketFile, listening, address, token, running>>

\* openRegistry. Whoever finds the lock taken leaves.
LockState(l) ==
    LET s == proc[l].dir
    IN  /\ At(l, "start")
        /\ \/ /\ stateLock[s] = Nobody
              /\ stateLock' = [stateLock EXCEPT ![s] = l]
              /\ Goto(l, "lock")
              /\ UNCHANGED <<socketLock, socketFile, listening, address, token, running>>
           \/ stateLock[s] # Nobody /\ Vanish(l, "refused")

\* Mutant: the socket's lock is not taken before the path is prepared.
LockSocketMutantNone(l) ==
    /\ At(l, "lock")
    /\ Goto(l, "probe")
    /\ UNCHANGED <<stateLock, socketLock, socketFile, listening, address, token, running>>

\* acquireSocketLock; NewServer's error makes daemonCommand shut the manager down.
LockSocket(l) ==
    LET k == proc[l].socket
    IN  /\ At(l, "lock")
        /\ \/ /\ socketLock[k] = Nobody
              /\ socketLock' = [socketLock EXCEPT ![k] = l]
              /\ Goto(l, "probe")
              /\ UNCHANGED <<stateLock, socketFile, listening, address, token, running>>
           \/ socketLock[k] # Nobody /\ Vanish(l, "refused")

\* Mutant: any socket file counts as a running daemon.
ProbeSocketMutantExisting(l) ==
    LET k == proc[l].socket
    IN  /\ At(l, "probe")
        /\ IF socketFile[k] # Nobody THEN Vanish(l, "refused")
           ELSE /\ Goto(l, "listen")
                /\ UNCHANGED <<stateLock, socketLock, socketFile, listening, address, token,
                               running>>

\* prepareSocketPath up to the second lstat: a socket that answers is in use.
ProbeSocket(l) ==
    LET k == proc[l].socket
    IN  /\ At(l, "probe")
        /\ IF socketFile[k] \in listening THEN Vanish(l, "refused")
           ELSE /\ Goto(l, IF socketFile[k] = Nobody THEN "listen" ELSE "stale")
                /\ UNCHANGED <<stateLock, socketLock, socketFile, listening, address, token,
                               running>>

\* The rest of prepareSocketPath: nobody else replaces a socket under the lock.
RemoveStale(l) ==
    /\ At(l, "stale")
    /\ socketFile' = [socketFile EXCEPT ![proc[l].socket] = Nobody]
    /\ Goto(l, "listen")
    /\ UNCHANGED <<stateLock, socketLock, listening, address, token, running>>

\* net.Listen makes the socket and fails if the path exists.
Listen(l) ==
    LET k == proc[l].socket
    IN  /\ At(l, "listen")
        /\ IF socketFile[k] # Nobody THEN Vanish(l, "refused")
           ELSE /\ socketFile' = [socketFile EXCEPT ![k] = l]
                /\ listening' = listening \cup {l}
                /\ Goto(l, IF proc[l].web = NoWeb THEN "restore" ELSE "web")
                /\ UNCHANGED <<stateLock, socketLock, address, token, running>>

\* webui.NewServer listens; if it cannot, the control server is closed again.
ListenWeb(l) ==
    LET a == proc[l].web
    IN  /\ At(l, "web")
        /\ \/ /\ address[a] = Nobody
              /\ address' = [address EXCEPT ![a] = l]
              /\ Goto(l, "token")
              /\ UNCHANGED listening
           \/ /\ address[a] # Nobody
              /\ proc' = [proc EXCEPT ![l].pc = "shutdown", ![l].web = NoWeb]
              /\ listening' = listening \ {l}
              /\ UNCHANGED address
        /\ UNCHANGED <<stateLock, socketLock, socketFile, token, running>>

\* Mutant: a token file that exists is kept.
WriteTokenMutantKeeps(l) ==
    /\ At(l, "token")
    /\ token' = [token EXCEPT ![proc[l].socket] = IF @ = Nobody THEN l ELSE @]
    /\ Goto(l, "restore")
    /\ UNCHANGED <<stateLock, socketLock, socketFile, listening, address, running>>

\* writeAccessToken replaces the file by a rename. If it cannot, or the handler cannot be
\* made and the token goes again, the listener is closed and then the control server.
WriteToken(l) ==
    LET k == proc[l].socket
    IN  /\ At(l, "token")
        /\ \/ /\ token' = [token EXCEPT ![k] = l]
              /\ Goto(l, "restore")
              /\ UNCHANGED <<listening, address>>
           \/ /\ token' \in {token, [token EXCEPT ![k] = Nobody]}
              /\ proc' = [proc EXCEPT ![l].pc = "shutdown", ![l].web = NoWeb]
              /\ address' = [address EXCEPT ![proc[l].web] = Nobody]
              /\ listening' = listening \ {l}
        /\ UNCHANGED <<stateLock, socketLock, socketFile, running>>

\* manager.Restore launches the instances; an error closes web and control server.
Restore(l) ==
    /\ At(l, "restore")
    /\ \/ /\ running' = running \cup {l}
          /\ Goto(l, "serving")
          /\ UNCHANGED <<listening, address>>
       \/ /\ proc' = [proc EXCEPT ![l].early = TRUE,
                                  ![l].pc = IF proc[l].web = NoWeb THEN "shutdown" ELSE "readToken"]
          /\ address' = [a \in Addresses |-> IF address[a] = l THEN Nobody ELSE address[a]]
          /\ listening' = IF proc[l].web = NoWeb THEN listening \ {l} ELSE listening
          /\ UNCHANGED running
    /\ UNCHANGED <<stateLock, socketLock, socketFile, token>>

----------------------------------------------------------------------------
(* The end: Server.Serve and Server.Close share closeNetwork, Shutdown and   *)
(* releaseOwnership, in this order.                                         *)

\* The first SIGINT or SIGTERM cancels the context; a second one is a Crash.
Signal(l) ==
    /\ Alive(l) /\ ~proc[l].told
    /\ proc' = [proc EXCEPT ![l].told = TRUE]
    /\ UNCHANGED <<stateLock, socketLock, socketFile, listening, address, token, running>>

\* Server.Serve is told, or its listener fails: closeNetwork, while instances still run.
EndServing(l) ==
    /\ At(l, "serving")
    /\ Goto(l, "shutdown")
    /\ listening' = listening \ {l}
    /\ UNCHANGED <<stateLock, socketLock, socketFile, address, token, running>>

\* From here to the join a dashboard that was started is served on a goroutine of its own.
BothServed(l) ==
    /\ proc[l].pc \in {"serving", "shutdown", "inspect", "unlink", "unlock", "join"}
    /\ proc[l].web # NoWeb /\ ~proc[l].early

WebReturned(l) == \A a \in Addresses : address[a] # l

\* webui.Server.Serve returns, told or because its listener fails.
CloseWeb(l) ==
    /\ BothServed(l) /\ ~WebReturned(l)
    /\ address' = [address EXCEPT ![proc[l].web] = Nobody]
    /\ UNCHANGED <<proc, stateLock, socketLock, socketFile, listening, token, running>>

\* Mutant: the context is not cancelled when the first server returns.
FirstResultMutantSilent(l) == FALSE /\ UNCHANGED vars

\* serveDaemonServers: whichever server returns first, the other is told.
FirstResult(l) ==
    /\ BothServed(l) /\ ~proc[l].told
    /\ WebReturned(l) \/ At(l, "join")
    /\ proc' = [proc EXCEPT ![l].told = TRUE]
    /\ UNCHANGED <<stateLock, socketLock, socketFile, listening, address, token, running>>

\* The runners return on their own goroutines once the context or Shutdown has cancelled them.
InstancesEnd(l) ==
    /\ l \in running
    /\ proc[l].told \/ ~At(l, "serving")
    /\ running' = running \ {l}
    /\ UNCHANGED <<proc, stateLock, socketLock, socketFile, listening, address, token>>

\* Mutant: the registry is closed whether or not the instances have ended.
ShutdownMutantNoWait(l) ==
    /\ At(l, "shutdown")
    /\ stateLock' = [stateLock EXCEPT ![proc[l].dir] = Nobody]
    /\ Goto(l, "inspect")
    /\ UNCHANGED <<socketLock, socketFile, listening, address, token, running>>

\* manager.Shutdown: once the instances have ended the registry and its lock are released.
Shutdown(l) ==
    /\ At(l, "shutdown")
    /\ l \notin running
    /\ stateLock' = [stateLock EXCEPT ![proc[l].dir] = Nobody]
    /\ Goto(l, "inspect")
    /\ UNCHANGED <<socketLock, socketFile, listening, address, token, running>>

\* It takes too long, and everything stays owned; or a row could not be written, and the
\* registry is closed all the same. The socket and its lock are kept either way.
ShutdownFails(l) ==
    /\ At(l, "shutdown")
    /\ \/ l \in running /\ UNCHANGED stateLock
       \/ /\ l \notin running
          /\ stateLock' = [stateLock EXCEPT ![proc[l].dir] = Nobody]
    /\ Goto(l, "join")
    /\ UNCHANGED <<socketLock, socketFile, listening, address, token, running>>

\* removeOwnedSocket: lstat and SameFile, then remove.
InspectSocket(l) ==
    /\ At(l, "inspect")
    /\ Goto(l, IF socketFile[proc[l].socket] = l THEN "unlink" ELSE "unlock")
    /\ UNCHANGED <<stateLock, socketLock, socketFile, listening, address, token, running>>

UnlinkSocket(l) ==
    /\ At(l, "unlink")
    /\ socketFile' = [socketFile EXCEPT ![proc[l].socket] = Nobody]
    /\ Goto(l, "unlock")
    /\ UNCHANGED <<stateLock, socketLock, listening, address, token, running>>

ReleaseSocketLock(l) ==
    /\ At(l, "unlock")
    /\ socketLock' = [socketLock EXCEPT ![proc[l].socket] = Nobody]
    /\ Goto(l, IF proc[l].early THEN "exit" ELSE "join")
    /\ UNCHANGED <<stateLock, socketFile, listening, address, token, running>>

\* serveDaemonServers waits for both servers before it closes the web server.
Join(l) ==
    /\ At(l, "join")
    /\ BothServed(l) => WebReturned(l) /\ proc[l].told
    /\ Goto(l, IF BothServed(l) THEN "readToken" ELSE "exit")
    /\ UNCHANGED <<stateLock, socketLock, socketFile, listening, address, token, running>>

\* Where webui.Server.Close leads: to the end, or after a failed restore to server.Close.
AfterToken(l) == IF proc[l].early THEN "shutdown" ELSE "exit"

\* removeAccessToken: read and compare, then remove.
ReadToken(l) ==
    /\ At(l, "readToken")
    /\ IF token[proc[l].socket] = l
       THEN Goto(l, "removeToken") /\ UNCHANGED listening
       ELSE /\ Goto(l, AfterToken(l))
            /\ listening' = listening \ {l}
    /\ UNCHANGED <<stateLock, socketLock, socketFile, address, token, running>>

RemoveToken(l) ==
    /\ At(l, "removeToken")
    /\ token' = [token EXCEPT ![proc[l].socket] = Nobody]
    /\ Goto(l, AfterToken(l))
    /\ listening' = listening \ {l}
    /\ UNCHANGED <<stateLock, socketLock, socketFile, address, running>>

\* daemonCommand's deferred Shutdown: what a timed out one kept is released after all.
CleanUp(l) ==
    /\ At(l, "exit")
    /\ l \notin running /\ stateLock[proc[l].dir] = l
    /\ stateLock' = [stateLock EXCEPT ![proc[l].dir] = Nobody]
    /\ UNCHANGED <<proc, socketLock, socketFile, listening, address, token, running>>

\* The process ends, whether or not that Shutdown was in time.
Exit(l) == At(l, "exit") /\ Vanish(l, "gone")

Crash(l) == Alive(l) /\ Vanish(l, "gone")

----------------------------------------------------------------------------

Starting(l) == \/ LockState(l) \/ LockSocket(l) \/ ProbeSocket(l) \/ RemoveStale(l)
               \/ Listen(l) \/ ListenWeb(l) \/ WriteToken(l) \/ Restore(l)

Ending(l) == \/ FirstResult(l) \/ Shutdown(l) \/ ShutdownFails(l)
             \/ InspectSocket(l) \/ UnlinkSocket(l) \/ ReleaseSocketLock(l)
             \/ Join(l) \/ ReadToken(l) \/ RemoveToken(l) \/ CleanUp(l) \/ Exit(l)

\* What a server does when it is told, and may do without.
Returning(l) == EndServing(l) \/ CloseWeb(l)

Next == \E l \in Processes : \/ Begin(l) \/ Starting(l) \/ Signal(l) \/ Returning(l)
                             \/ InstancesEnd(l) \/ Ending(l) \/ Crash(l)

Spec == Init /\ [][Next]_vars

\* A process that has been started goes on and a server that is told returns; nobody has to
\* start a process, to end one, or to let its instances end in time.
Fairness == \A l \in Processes : /\ WF_vars(Starting(l) \/ Ending(l))
                                 /\ WF_vars(proc[l].told /\ EndServing(l))
                                 /\ WF_vars(proc[l].told /\ CloseWeb(l))

FairSpec == Spec /\ Fairness

----------------------------------------------------------------------------

\* The instances of a state directory run in one process at a time, and only while
\* it holds the lock: a slow shutdown, a failed one and a crash included.
OneRunner == \A l \in running : stateLock[proc[l].dir] = l

\* A daemon that serves is reached by its path: no other daemon's start or end
\* removes or replaces its socket.
ServingIsReachable ==
    \A l \in Processes : At(l, "serving") => socketFile[proc[l].socket] = l /\ l \in listening

\* The token beside the socket of a serving daemon is never that of another one.
TokenIsOwn ==
    \A l \in Processes : (At(l, "serving") /\ proc[l].web # NoWeb) =>
        token[proc[l].socket] \in {l, Nobody}

\* What is owned is owned by one: instances run under the lock of their directory, and no
\* foreign token lies beside the socket.
OwnershipInv == /\ OwnershipTypeOK
                /\ OneRunner
                /\ TokenIsOwn

RefusalHasRival ==
    \A l \in Processes : (~At(l, "refused") /\ proc'[l].pc = "refused") =>
        \E m \in Processes \ {l} : /\ Alive(m)
                                   /\ \/ proc[m].dir = proc[l].dir
                                      \/ proc[m].socket = proc[l].socket

\* Leftovers of dead daemons block nobody: whoever is refused shares the state
\* directory or the socket path with a process that was alive at that moment.
RefusedByTheLiving == [][RefusalHasRival]_vars

\* Every start and every end is carried through: nobody waits for ever for a lock or a stale
\* socket; and a daemon with a signal, or one of whose servers has returned, is gone in the end:
\* the other server is told, and the join does not wait for ever.
EveryStepCompletes ==
    \A l \in Processes :
        /\ (Alive(l) /\ ~At(l, "serving")) ~> proc[l].pc \in {"serving", "gone", "refused"}
        /\ (proc[l].told \/ (BothServed(l) /\ (WebReturned(l) \/ ~At(l, "serving"))))
              ~> proc[l].pc \in {"gone", "refused"}

=============================================================================

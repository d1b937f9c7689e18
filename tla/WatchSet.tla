------------------------------ MODULE WatchSet ------------------------------
(***************************************************************************)
(* The directory half of internal/watcher: which directories of one        *)
(* recursive watch are registered with the backend, while the tree changes *)
(* under it. A directory object (an inode) is a number, a path a sequence   *)
(* of names, and a directory holds at most one matching file. Run is one   *)
(* goroutine; a step of it is the part between two looks at the file       *)
(* system. Settle takes over where a file is scheduled.                    *)
(*                                                                         *)
(* External: the file system, and fsnotify over inotify. A watch sits on   *)
(* the object, is listed under the path it was added by, and names events  *)
(* by that path. Its removal discards its events, except the one that the  *)
(* backend is already handing over. An object that is deleted or moved     *)
(* notifies its own watch last, and only then leaves the list.             *)
(***************************************************************************)
EXTENDS Integers, FiniteSets, Sequences, SequencesExt

CONSTANTS Names,            \* names of directories, naturals
          Depth,            \* bound: length of a path
          MaxObjects,       \* bound: directories ever made
          MaxFiles,         \* bound: files ever made
          MaxChanges,       \* bound: changes of the tree
          MaxDirectories    \* maxWatchedDirectories

ASSUME WatchSetAssumption ==
    /\ {0, 1} \subseteq Names /\ Names \subseteq Nat
    /\ {Depth, MaxObjects, MaxFiles, MaxChanges, MaxDirectories} \subseteq Nat
    /\ Depth >= 2 /\ MaxObjects >= 2

Paths == UNION {[1..n -> Names] : n \in 1..Depth}

\* The set of names is finite, and so are the paths of bounded length.
ASSUME PathsAreFinite == IsFiniteSet(Paths)

Root == <<0>>       \* spec.root
Outside == <<1>>    \* where directories go that leave the tree

None == 0
Objects == 1..MaxObjects

VARIABLES fs,          \* fs[p]: the directory at p
          files,       \* directories that hold a file
          listed,      \* listed[p]: the object watched as p, filesystem.WatchList
          armed,       \* objects with a kernel watch
          events,      \* what the backend has to report
          book,        \* book[p]: watchedDirs and watchedDirIDs
          rootID,      \* rootIDs[Root]
          walk,        \* walkTreeBatched and addDirectory under way
          mismatch,    \* watchMismatch
          mode,        \* where Run is
          scheduled,   \* files handed to schedule: path and object of their directory
          made, changes

world == <<fs, files, made, changes>>
backend == <<listed, armed, events>>
vars == <<fs, files, listed, armed, events, book, rootID, walk, mismatch, mode, scheduled,
          made, changes>>

Event == [op : {"create", "remove", "file", "moved", "deleted"}, path : Paths, wd : Objects]
Queued == [path : Paths, obj : Objects]
Walk == [pc : {"none", "open", "check", "add", "confirm", "read"},
         why : {"configured", "existing", "event"},
         base : Paths, baseObj : 0..MaxObjects, dir : Paths, obj : 0..MaxObjects,
         todo : SUBSET Queued, found : Nat]
NoWalk == [pc |-> "none", why |-> "event", base |-> Root, baseObj |-> None, dir |-> Root,
           obj |-> None, todo |-> {}, found |-> 0]

WatchSetTypeOK ==
    /\ fs \in [Paths -> 0..MaxObjects]
    /\ files \subseteq Objects
    /\ listed \in [Paths -> 0..MaxObjects]
    /\ armed \subseteq Objects
    /\ events \in Seq(Event)
    /\ book \in [Paths -> 0..MaxObjects]
    /\ rootID \in 0..MaxObjects
    /\ walk \in Walk
    /\ mismatch \in Seq(Nat)
    /\ mode \in {"down", "starting", "running", "failed"}
    /\ scheduled \subseteq Queued
    /\ made \in 1..MaxObjects
    /\ changes \in 0..MaxChanges

Nowhere == [p \in Paths |-> None]

\* The root and a directory in it.
Init == /\ fs = [Nowhere EXCEPT ![Root] = 1, ![Append(Root, 0)] = 2]
        /\ made = 2
        /\ files = {}
        /\ listed = Nowhere
        /\ armed = {}
        /\ events = <<>>
        /\ book = Nowhere
        /\ rootID = None
        /\ walk = NoWalk
        /\ mismatch = <<>>
        /\ mode = "down"
        /\ scheduled = {}
        /\ changes = 0

Within(p, q) == IsPrefix(p, q)
Parent(p) == Front(p)
Exists(p) == p # <<>> => p \in Paths /\ fs[p] # None
Children(p) == {q \in Paths : Len(q) = Len(p) + 1 /\ Within(p, q) /\ fs[q] # None}

----------------------------------------------------------------------------
(* The backend (external).                                                  *)

ListedAs(o) == CHOOSE p \in Paths : listed[p] = o
Reports(o) == o \in armed /\ \E p \in Paths : listed[p] = o

\* The directory at p is watched; a name of it is reported under its listed path.
ByParent(op, p) ==
    LET d == IF Parent(p) = <<>> THEN None ELSE fs[Parent(p)]
    IN  IF ~Reports(d) THEN <<>>
        ELSE LET q == Append(ListedAs(d), Last(p))
             IN  IF q \in Paths THEN <<[op |-> op, path |-> q, wd |-> d]>> ELSE <<>>

BySelf(op, o) == IF Reports(o) THEN <<[op |-> op, path |-> ListedAs(o), wd |-> o]>> ELSE <<>>

\* The queue without the events of the watches in O, in order.
Remaining(queue, O) ==
    LET stay == {i \in DOMAIN queue : queue[i].wd \notin O}
        place(n) == CHOOSE i \in stay : Cardinality({j \in stay : j <= i}) = n
    IN  [n \in 1..Cardinality(stay) |-> queue[place(n)]]

\* The head of the queue is being handed over; a notice of the object's own fate
\* takes effect before it is.
Discard(queue, O) ==
    IF queue = <<>> THEN <<>>
    ELSE LET h == Head(queue)
         IN  (IF h.op \in {"moved", "deleted"} /\ h.wd \in O THEN <<>> ELSE <<h>>)
             \o Remaining(Tail(queue), O)

\* filesystem.Remove of the listed paths in S.
Unwatch(S, queue) ==
    LET O == {listed[p] : p \in S} \ {None}
    IN  /\ listed' = [p \in Paths |-> IF p \in S THEN None ELSE listed[p]]
        /\ armed' = armed \ O
        /\ events' = Discard(queue, O)

\* The backend reads a notice: the watch leaves the list, then Run is told. A
\* deletion that the parent's watch reports is not reported again.
ReadNotice ==
    /\ events # <<>> /\ Head(events).op \in {"moved", "deleted"}
    /\ LET h == Head(events)
           told == h.op = "moved" \/ Parent(h.path) = <<>> \/ listed[Parent(h.path)] = None
       IN  /\ listed' = [p \in Paths |-> IF listed[p] = h.wd THEN None ELSE listed[p]]
           /\ armed' = armed \ {h.wd}
           /\ events' = (IF told THEN <<[h EXCEPT !.op = "remove"]>> ELSE <<>>)
                        \o Remaining(Tail(events), {h.wd})
    /\ UNCHANGED <<world, book, rootID, walk, mismatch, mode, scheduled>>

----------------------------------------------------------------------------
(* The tree changes (external).                                             *)

Change == /\ mode # "failed"
          /\ changes < MaxChanges /\ changes' = changes + 1
          /\ UNCHANGED <<book, rootID, walk, mismatch, mode, scheduled>>

Mkdir(p) ==
    /\ Change
    /\ Within(Root, p) /\ Exists(Parent(p)) /\ fs[p] = None
    /\ made < MaxObjects /\ made' = made + 1
    /\ fs' = [fs EXCEPT ![p] = made + 1]
    /\ events' = events \o ByParent("create", p)
    /\ UNCHANGED <<files, listed, armed>>

Rmdir(p) ==
    /\ Change
    /\ fs[p] # None /\ Children(p) = {}
    /\ fs' = [fs EXCEPT ![p] = None]
    /\ files' = files \ {fs[p]}
    /\ events' = events \o ByParent("remove", p) \o BySelf("deleted", fs[p])
    /\ armed' = armed \ {fs[p]}
    /\ UNCHANGED <<listed, made>>

Moved(p, q) ==
    [x \in Paths |-> IF Within(q, x)
                     THEN LET y == p \o SubSeq(x, Len(q) + 1, Len(x))
                          IN  IF y \in Paths THEN fs[y] ELSE None
                     ELSE IF Within(p, x) THEN None ELSE fs[x]]

CanMove(p, q) ==
    /\ fs[p] # None /\ fs[q] = None /\ Exists(Parent(q)) /\ ~Within(p, q)
    /\ q = Outside \/ Within(Root, q)
    /\ \A x \in Paths : (Within(p, x) /\ fs[x] # None) => Len(x) - Len(p) + Len(q) <= Depth

Rename(p, q) ==
    /\ Change
    /\ CanMove(p, q)
    /\ fs' = Moved(p, q)
    /\ events' = events \o ByParent("remove", p) \o ByParent("create", q) \o BySelf("moved", fs[p])
    /\ UNCHANGED <<files, listed, armed, made>>

\* An ancestor of the root is renamed: nobody is told.
RenameAncestor ==
    /\ Change
    /\ CanMove(Root, Outside)
    /\ fs' = Moved(Root, Outside)
    /\ UNCHANGED <<files, listed, armed, events, made>>

WriteFile(p) ==
    /\ Change
    /\ fs[p] # None /\ fs[p] \notin files
    /\ Cardinality(files) < MaxFiles
    /\ files' = files \cup {fs[p]}
    /\ events' = events \o (IF Reports(fs[p])
                            THEN <<[op |-> "file", path |-> ListedAs(fs[p]), wd |-> fs[p]]>>
                            ELSE <<>>)
    /\ UNCHANGED <<fs, listed, armed, made>>

\* The kernel drops a watch by itself (IN_UNMOUNT, IN_IGNORED).
LoseWatch(p) ==
    /\ Change
    /\ listed[p] # None
    /\ Unwatch({p}, events)
    /\ UNCHANGED <<fs, files, made>>

Environment == \/ \E p \in Paths : Mkdir(p) \/ Rmdir(p) \/ WriteFile(p) \/ LoseWatch(p)
               \/ \E p, q \in Paths : Rename(p, q)
               \/ RenameAncestor

----------------------------------------------------------------------------
(* How a step of Run ends. Every action below conjoins one of these.        *)

Fail == /\ mode' = "failed"
        /\ UNCHANGED <<walk>>

Proceed(w) == /\ walk' = w
              /\ UNCHANGED mode

\* os.ErrNotExist: the walk goes on with the siblings, or ends if an event began it.
NotExist ==
    IF walk.dir # walk.base THEN Proceed([walk EXCEPT !.pc = "open"])
    ELSE IF walk.why = "event" THEN Proceed(NoWalk)
    ELSE Fail

RootValid == fs[Root] = rootID

\* Mutant: the book forgets the directories below, the backend keeps them.
RemoveTreeMutantLeaks(p, queue) ==
    /\ book' = [q \in Paths |-> IF Within(p, q) THEN None ELSE book[q]]
    /\ Unwatch({p}, queue)

\* removeDirectoryTree.
RemoveTree(p, queue) ==
    /\ book' = [q \in Paths |-> IF Within(p, q) THEN None ELSE book[q]]
    /\ Unwatch({q \in Paths : Within(p, q) /\ book[q] # None}, queue)

----------------------------------------------------------------------------
(* Walking: lstat, OpenRoot and the comparison of the two are one step.     *)

BeginWalk(p, why) ==
    walk' = [NoWalk EXCEPT !.pc = "open", !.why = why, !.base = p, !.baseObj = fs[p], !.dir = p,
                           !.todo = {[path |-> p, obj |-> fs[p]]}, !.found = 1]

\* Where an object opened earlier is now, and what a path below it leads to.
Where(o) == {p \in Paths : fs[p] = o}
Below(o, rel) == {fs[p \o rel] : p \in {q \in Where(o) : q \o rel \in Paths}} \ {None}
Relative(p) == SubSeq(p, Len(walk.base) + 1, Len(p))

\* scanDirectoryBatched up to visit. os.Root resolves names below the object it
\* opened, wherever that is by now; a child that is gone or another is passed over.
OpenDirectory(d) ==
    LET w == [walk EXCEPT !.todo = @ \ {d}, !.dir = d.path, !.obj = d.obj]
    IN  /\ walk.pc = "open" /\ d \in walk.todo
        /\ IF d.path = walk.base \/ d.obj \in Below(walk.baseObj, Relative(d.path))
           THEN Proceed([w EXCEPT !.pc = IF walk.why = "existing" THEN "read" ELSE "check"])
           ELSE Proceed(w)
        /\ UNCHANGED <<world, backend, book, rootID, mismatch, scheduled>>

ReadEntries == {[path |-> Append(walk.dir, Last(p)), obj |-> fs[p]] :
                  p \in {q \in UNION {Children(x) : x \in Where(walk.obj)} :
                           Append(walk.dir, Last(q)) \in Paths}}

\* Mutant: the tree of a new directory is registered but not searched.
VisitsFilesMutantOnlyAtStart == walk.why = "existing"

\* The visit of addConfiguredDirectories skips files.
VisitsFiles == walk.why # "configured"

\* The rest of scanDirectoryBatched: subdirectories are queued, files scheduled
\* once the root is seen to be the same.
ReadDirectory ==
    LET entries == ReadEntries
        hasFile == walk.obj \in files /\ VisitsFiles
        file == [path |-> walk.dir, obj |-> walk.obj]
    IN  /\ walk.pc = "read"
        /\ \/ /\ walk.found + Cardinality(entries) > MaxDirectories
              /\ Fail /\ UNCHANGED scheduled
           \/ /\ walk.found + Cardinality(entries) <= MaxDirectories
              /\ hasFile /\ ~RootValid
              /\ IF fs[Root] = None THEN NotExist ELSE Fail
              /\ UNCHANGED scheduled
           \/ /\ walk.found + Cardinality(entries) <= MaxDirectories
              /\ hasFile => RootValid
              /\ Proceed([walk EXCEPT !.pc = "open", !.todo = @ \cup entries,
                                      !.found = @ + Cardinality(entries)])
              /\ scheduled' = IF hasFile THEN scheduled \cup {file} ELSE scheduled
        /\ UNCHANGED <<world, backend, book, rootID, mismatch>>

\* Run after addConfiguredDirectories, after discoverExisting, after an event.
EndWalk ==
    /\ walk.pc = "open" /\ walk.todo = {}
    /\ \/ /\ walk.why = "configured" /\ RootValid
          /\ BeginWalk(Root, "existing") /\ UNCHANGED mode
       \/ walk.why = "configured" /\ ~RootValid /\ Fail
       \/ walk.why = "existing" /\ walk' = NoWalk /\ mode' = "running"
       \/ walk.why = "event" /\ Proceed(NoWalk)
    /\ UNCHANGED <<world, backend, book, rootID, mismatch, scheduled>>

----------------------------------------------------------------------------
(* addDirectory(walk.dir, walk.obj).                                        *)

\* Mutant: a directory watched under another path is not looked for.
AliasesMutantNone == {}

Aliases == {p \in Paths : p # walk.dir /\ book[p] = walk.obj}

Booked == {p \in Paths : book[p] # None}

\* Mutant: the limit is passed by one.
AtLimitMutantOneMore == Cardinality(Booked) > MaxDirectories

\* Mutant: the last directory that fits is refused.
AtLimitMutantOneLess == Cardinality(Booked) + 1 >= MaxDirectories

AtLimit == Cardinality(Booked) >= MaxDirectories

\* Verify the path, then make room for it: a book entry for another object and
\* one for this object under a path that is gone are removed, and we look again.
CheckDirectory ==
    /\ walk.pc = "check"
    /\ IF fs[walk.dir] = None THEN NotExist /\ UNCHANGED <<backend, book>>
       ELSE IF fs[walk.dir] # walk.obj THEN Fail /\ UNCHANGED <<backend, book>>
       ELSE IF book[walk.dir] = walk.obj
       THEN /\ Proceed([walk EXCEPT !.pc = IF listed[walk.dir] # None THEN "read" ELSE "add"])
            /\ UNCHANGED <<backend, book>>
       ELSE IF book[walk.dir] # None THEN RemoveTree(walk.dir, events) /\ UNCHANGED <<walk, mode>>
       ELSE IF Aliases # {}
       THEN \E p \in Aliases : IF fs[p] = walk.obj THEN Fail /\ UNCHANGED <<backend, book>>
                               ELSE RemoveTree(p, events) /\ UNCHANGED <<walk, mode>>
       ELSE /\ IF AtLimit THEN Fail
               ELSE Proceed([walk EXCEPT !.pc = "add"])
            /\ UNCHANGED <<backend, book>>
    /\ UNCHANGED <<world, rootID, mismatch, scheduled>>

\* filesystem.Add watches whatever is at the path by now.
AddWatch ==
    LET o == fs[walk.dir]
    IN  /\ walk.pc = "add"
        /\ IF o = None THEN NotExist /\ UNCHANGED <<listed, armed>>
           ELSE /\ listed' = [listed EXCEPT ![walk.dir] = o]
                /\ armed' = armed \cup {o}
                /\ Proceed([walk EXCEPT !.pc = "confirm"])
        /\ UNCHANGED <<world, events, book, rootID, mismatch, scheduled>>

\* Verify again, and undo the watch if the path changed meanwhile.
ConfirmDirectory ==
    /\ walk.pc = "confirm"
    /\ IF fs[walk.dir] = walk.obj /\ listed[walk.dir] # None
       THEN /\ book' = [book EXCEPT ![walk.dir] = walk.obj]
            /\ Proceed([walk EXCEPT !.pc = "read"])
            /\ UNCHANGED backend
       ELSE /\ Unwatch({walk.dir}, events)
            /\ IF fs[walk.dir] = None THEN NotExist ELSE Fail
            /\ UNCHANGED book
    /\ UNCHANGED <<world, rootID, mismatch, scheduled>>

----------------------------------------------------------------------------
(* Run.                                                                     *)

\* addConfiguredDirectories: the root's identity is recorded before the walk.
Start ==
    /\ mode = "down"
    /\ IF fs[Root] = None THEN Fail /\ UNCHANGED rootID
       ELSE rootID' = fs[Root] /\ mode' = "starting" /\ BeginWalk(Root, "configured")
    /\ UNCHANGED <<world, backend, book, mismatch, scheduled>>

Waiting == mode = "running" /\ walk.pc = "none"

\* handleEvent, up to the beginning of addTreeAndDiscover.
HandleEvent ==
    LET e == Head(events)
        queue == Tail(events)
        file == [path |-> e.path, obj |-> fs[e.path]]
    IN  /\ Waiting
        /\ events # <<>> /\ e.op \in {"create", "remove", "file"}
        /\ \/ ~RootValid /\ Fail /\ UNCHANGED <<book, backend, scheduled>>
           \/ /\ RootValid /\ e.op = "remove"
              /\ RemoveTree(e.path, queue)
              /\ IF e.path = Root THEN Fail ELSE UNCHANGED <<walk, mode>>
              /\ UNCHANGED scheduled
           \/ /\ RootValid /\ e.op = "create"
              /\ events' = queue
              /\ IF fs[e.path] # None THEN BeginWalk(e.path, "event") ELSE UNCHANGED walk
              /\ UNCHANGED <<mode, book, listed, armed, scheduled>>
           \/ /\ RootValid /\ e.op = "file"
              /\ events' = queue
              /\ scheduled' = IF fs[e.path] \in files THEN scheduled \cup {file} ELSE scheduled
              /\ UNCHANGED <<walk, mode, book, listed, armed>>
        /\ UNCHANGED <<world, rootID, mismatch>>

Precedes(s, t) == \E n \in 1..Len(t) : /\ \A k \in 1..(n-1) : k <= Len(s) /\ s[k] = t[k]
                                       /\ n > Len(s) \/ s[n] < t[n]
Least(S) == CHOOSE s \in S : \A t \in S \ {s} : Precedes(s, t)

\* Booked paths the backend lost and that still exist, as the code words and
\* orders them: missing (0) before changed identity (1), then by path.
Mismatches == {<<IF fs[p] = book[p] THEN 0 ELSE 1>> \o p :
                 p \in {q \in Paths : book[q] # None /\ listed[q] = None /\ fs[q] # None}}

\* Mutant: a lost watch is noted and never acted upon.
WatchesLostMutantNever == FALSE

\* The same mismatch in two successive rounds.
WatchesLost == Mismatches # {} /\ mismatch = Least(Mismatches)

\* validateFilesystemWatches: forget what no longer exists, drop what is not
\* booked, allow a queued event one interval to explain the rest.
Validate ==
    LET vanished == {p \in Paths : book[p] # None /\ listed[p] = None /\ fs[p] = None}
        below == {q \in Paths : \E p \in vanished : Within(p, q)}
        unbooked == {p \in Paths : book[p] = None /\ listed[p] # None}
    IN  /\ book' = [p \in Paths |-> IF p \in below THEN None ELSE book[p]]
        /\ Unwatch({p \in below : book[p] # None} \cup unbooked, events)
        /\ mismatch' = IF Mismatches = {} THEN <<>> ELSE Least(Mismatches)
        /\ IF WatchesLost THEN Fail ELSE UNCHANGED <<walk, mode>>

\* Mutant: the root is compared only when an event arrives.
TickMutantNoRootCheck ==
    /\ Waiting
    /\ Validate
    /\ UNCHANGED <<world, rootID, scheduled>>

\* The rootIdentityTicker case.
Tick ==
    /\ Waiting
    /\ IF RootValid THEN Validate ELSE Fail /\ UNCHANGED <<backend, book, mismatch>>
    /\ UNCHANGED <<world, rootID, scheduled>>

WalkStep == /\ mode # "failed"
            /\ \/ \E d \in walk.todo : OpenDirectory(d)
               \/ ReadDirectory \/ EndWalk
               \/ CheckDirectory \/ AddWatch \/ ConfirmDirectory

Next == \/ Environment
        \/ ReadNotice
        \/ Start \/ WalkStep \/ HandleEvent \/ Tick

Spec == Init /\ [][Next]_vars

\* Run's goroutine and the backend's are scheduled, and the ticker fires. Select
\* is fair between an event and a tick. Nothing is assumed of the tree.
FairSpec == /\ Spec
            /\ WF_vars(Start) /\ WF_vars(WalkStep) /\ WF_vars(ReadNotice)
            /\ SF_vars(HandleEvent) /\ SF_vars(Tick)

----------------------------------------------------------------------------

Failed == mode = "failed"

\* Every watch of the backend is in the book, or being added: a path that changes
\* between Add and the second verification leaves no watch behind.
NoWatchLeaks ==
    \A p \in Paths : (listed[p] # None /\ ~Failed) =>
        book[p] # None \/ (walk.pc = "confirm" /\ walk.dir = p)

\* No object is booked under two paths. The backend has one watch per object, so
\* removing one of the two would silence the other.
NoAliases == \A p, q \in Paths : (book[p] # None /\ book[p] = book[q]) => p = q

\* The backend holds no more watches than maxWatchedDirectories, whatever was
\* renamed, replaced or half registered.
WatchesBounded == Cardinality(armed) <= MaxDirectories

\* The book is sound: objects under one path each, and never more watches than allowed.
WatchSetInv == /\ WatchSetTypeOK
               /\ NoAliases
               /\ WatchesBounded

\* Every directory of the tree is watched, as the object it now is.
AllWatched == \A p \in Paths : (Within(Root, p) /\ fs[p] # None) =>
                  book[p] = fs[p] /\ listed[p] = fs[p] /\ fs[p] \in armed

\* Directories and files were made, and nothing was removed, moved or lost.
OnlyGrew == made - 2 + Cardinality(files) = changes

\* A failure somebody has to account for: new directories and files alone, as many as are
\* allowed, are no reason to fail.
FailedForCause == Failed /\ ~(OnlyGrew /\ made <= MaxDirectories)

\* Once the tree is left alone, either all of it is watched or the instance has failed: no
\* directory stays silently unwatched, and a tree that only grows within the limit is
\* watched in the end.
Converges == <>[](FailedForCause \/ AllWatched)

\* A root that is removed, moved or replaced is noticed, events or not.
RootLossDetected == (rootID # None /\ ~RootValid) ~> (Failed \/ RootValid)

\* Once the tree is left alone, every file in it has been scheduled or the instance
\* has failed: whether the file came before its directory was watched, between watch
\* and scan, after, or moved in with it.
FilesFound ==
    <>[](FailedForCause \/ \A p \in Paths : (Within(Root, p) /\ fs[p] \in files) =>
                               [path |-> p, obj |-> fs[p]] \in scheduled)

=============================================================================

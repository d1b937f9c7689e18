--------------------------- MODULE WatchSetProofs ---------------------------
(***************************************************************************)
(* Proofs about WatchSet, for any finite tree of names, any number of      *)
(* directories, files and changes, and any limit.                          *)
(***************************************************************************)
EXTENDS WatchSet, FiniteSetTheorems, WellFoundedInduction, TLAPS

\* A directory is being added: where the walk is between CheckDirectory and the book.
Adding == walk.pc \in {"add", "confirm"}

\* What CheckDirectory found out about the directory being added stays true until it is
\* booked: nobody else books, and the tree cannot.
AddingInv ==
    /\ walk.pc \in {"check", "add", "confirm"} => walk.obj \in Objects
    /\ Adding => /\ \A p \in Paths : book[p] = walk.obj => p = walk.dir
                 /\ book[walk.dir] = None => Cardinality(Booked) < MaxDirectories
    /\ walk.pc = "add" => listed[walk.dir] = None

\* Every kernel watch is listed under some path.
ArmedAreListed == \A o \in armed : \E p \in Paths : listed[p] = o

BookInv == NoAliases /\ IsFiniteSet(Booked) /\ Cardinality(Booked) <= MaxDirectories

\* The book, the backend and the walk agree.
Registered ==
    /\ walk.why = "configured" => rootID \in Objects
    /\ AddingInv
    /\ ArmedAreListed
    /\ BookInv
    /\ NoWatchLeaks
    /\ WatchesBounded

WatchSetIInv == WatchSetTypeOK /\ Registered

\* Before Start there is no walk. It is an invariant by itself.
DownHasNoWalk == mode = "down" => walk.pc = "none"

-----------------------------------------------------------------------------
(* Paths, queues and orders.                                                *)

\* The constants are numbers, and the limits are at least what Init needs.
LEMMA LimitTypes ==
    /\ Names \subseteq Nat /\ 0 \in Names /\ 1 \in Names
    /\ Depth \in Nat /\ Depth >= 2 /\ MaxObjects \in Nat /\ MaxObjects >= 2
    /\ MaxFiles \in Nat /\ MaxChanges \in Nat /\ MaxDirectories \in Nat
  BY WatchSetAssumption

\* A path is a sequence of one to Depth names.
LEMMA PathIsSeq ==
    ASSUME NEW p \in Paths
    PROVE  p \in Seq(Nat) /\ Len(p) \in 1..Depth
  <1>1. PICK n \in 1..Depth : p \in [1..n -> Names]
    BY DEF Paths
  <1>2. n \in Nat
    BY LimitTypes
  <1>3. p \in [1..n -> Nat]
    BY <1>1, LimitTypes
  <1> QED BY <1>2, <1>3

\* The paths that Init mentions.
LEMMA KnownPaths == Root \in Paths /\ Outside \in Paths /\ Append(Root, 0) \in Paths
  <1>1. 1 \in 1..Depth /\ 2 \in 1..Depth
    BY LimitTypes
  <1>2. <<0>> \in [1..1 -> Names] /\ <<1>> \in [1..1 -> Names]
    BY LimitTypes
  <1>3. <<0>> \in Seq(Names) /\ Len(<<0>>) = 1
    BY LimitTypes
  <1>4. PICK r : r = <<0>>
    OBVIOUS
  <1>5. Append(r, 0) \in Seq(Names) /\ Len(Append(r, 0)) = 2
    BY <1>3, <1>4, LimitTypes
  <1>6. Append(r, 0) \in [1..2 -> Names]
    <2>1. PICK a \in Seq(Names) : a = Append(r, 0) /\ Len(a) = 2
      BY <1>5
    <2>2. a \in [1..Len(a) -> Names]
      OBVIOUS
    <2> QED BY <2>1, <2>2
  <1> QED BY <1>1, <1>2, <1>4, <1>6 DEF Paths, Root, Outside

\* A nonempty set of numbers has a least element.
LEMMA LeastNumber ==
    ASSUME NEW S \in SUBSET Nat, S # {}
    PROVE  \E m \in S : \A k \in S : m <= k
  <1>1. PICK m \in S : \A k \in S : ~ (<<k, m>> \in OpToRel(<, Nat))
    BY WFMin, NatLessThanWellFounded, Zenon
  <1>2. \A k \in S : ~ (k < m)
    BY <1>1 DEF OpToRel
  <1> QED BY <1>2

\* Remaining finds an event for every place of the shorter queue.
LEMMA RankExists ==
    ASSUME NEW k \in Nat, NEW S \in SUBSET (1..k), NEW n \in 1..Cardinality(S)
    PROVE  \E i \in S : Cardinality({j \in S : j <= i}) = n
  <1> DEFINE Upto(i) == {j \in S : j <= i}
             Far == {i \in 0..k : Cardinality(Upto(i)) >= n}
  <1>1. IsFiniteSet(S) /\ Cardinality(S) \in Nat
    <2>1. IsFiniteSet(1..k)
      BY FS_Interval
    <2>2. IsFiniteSet(S)
      BY <2>1, FS_Subset
    <2> QED BY <2>2, FS_CardinalityType
  <1>2. \A j \in S : j \in Nat /\ 1 <= j /\ j <= k
    OBVIOUS
  <1>3. ASSUME NEW i \in 0..k
        PROVE  IsFiniteSet(Upto(i)) /\ Cardinality(Upto(i)) \in Nat
    <2>1. IsFiniteSet(Upto(i))
      BY <1>1, FS_Subset
    <2> QED BY <2>1, FS_CardinalityType
  <1>4. k \in Far
    <2>1. Upto(k) = S
      BY <1>2
    <2>2. Cardinality(Upto(k)) >= n
      BY <2>1, <1>1
    <2> QED BY <2>2
  <1>5. PICK i \in Far : \A m \in Far : i <= m
    <2>1. Far \in SUBSET Nat
      OBVIOUS
    <2> HIDE DEF Far
    <2> QED BY <2>1, <1>4, LeastNumber
  <1>6. i \in 0..k /\ Cardinality(Upto(i)) >= n
    BY <1>5
  <1>7. i # 0
    <2>1. \A j \in S : ~(j <= 0)
      BY <1>2
    <2>2. Upto(0) = {}
      BY <2>1
    <2> QED BY <2>2, <1>6, FS_EmptySet
  <1>8. i - 1 \in 0..k /\ ~(Cardinality(Upto(i - 1)) >= n)
    <2>1. i - 1 \in 0..k /\ ~(i <= i - 1)
      BY <1>6, <1>7
    <2> QED BY <2>1, <1>5
  <1>9. Cardinality(Upto(i)) \in Nat /\ Cardinality(Upto(i - 1)) \in Nat
    BY <1>3, <1>6, <1>8
  <1>10. CASE i \in S
    <2>1. Upto(i) = Upto(i - 1) \cup {i}
      <3>1. \A j \in S : j <= i <=> j <= i - 1 \/ j = i
        BY <1>2, <1>6
      <3> QED BY <3>1, <1>10
    <2>2. IsFiniteSet(Upto(i - 1))
      BY <1>3, <1>8
    <2>3. Cardinality(Upto(i)) <= Cardinality(Upto(i - 1)) + 1
      <3> HIDE DEF Upto
      <3> QED BY <2>1, <2>2, <1>9, FS_AddElement
    <2>4. Cardinality(Upto(i)) = n
      <3> HIDE DEF Upto
      <3> QED BY <2>3, <1>6, <1>8, <1>9, <1>1
    <2> QED BY <2>4, <1>10
  <1>11. CASE i \notin S
    <2>1. Upto(i) = Upto(i - 1)
      <3>1. \A j \in S : j <= i <=> j <= i - 1
        BY <1>2, <1>6, <1>11
      <3> QED BY <3>1
    <2> QED BY <2>1, <1>6, <1>8
  <1> QED BY <1>10, <1>11

\* What remains of a queue is a queue.
LEMMA RemainingType ==
    ASSUME NEW queue \in Seq(Event), NEW O
    PROVE  Remaining(queue, O) \in Seq(Event)
  <1> DEFINE stay == {i \in DOMAIN queue : queue[i].wd \notin O}
             place(n) == CHOOSE i \in stay : Cardinality({j \in stay : j <= i}) = n
  <1>1. DOMAIN queue = 1..Len(queue) /\ Len(queue) \in Nat
    OBVIOUS
  <1>2. stay \in SUBSET (1..Len(queue))
    BY <1>1
  <1>3. Cardinality(stay) \in Nat
    <2> HIDE DEF stay
    <2>1. IsFiniteSet(1..Len(queue))
      BY <1>1, FS_Interval
    <2>2. IsFiniteSet(stay)
      BY <2>1, <1>2, FS_Subset
    <2> QED BY <2>2, FS_CardinalityType
  <1>4. ASSUME NEW n \in 1..Cardinality(stay)
        PROVE  queue[place(n)] \in Event
    <2> HIDE DEF stay
    <2>1. \E i \in stay : Cardinality({j \in stay : j <= i}) = n
      BY <1>1, <1>2, RankExists
    <2>2. place(n) \in stay
      BY <2>1, Zenon
    <2>3. PICK i : i = place(n)
      OBVIOUS
    <2>4. i \in 1..Len(queue)
      BY <2>2, <2>3, <1>2
    <2>5. queue[i] \in Event
      BY <2>4
    <2> QED BY <2>5, <2>3
  <1>5. [n \in 1..Cardinality(stay) |-> queue[place(n)]] \in Seq(Event)
    <2> HIDE DEF stay, place
    <2> QED BY <1>3, <1>4
  <1> QED BY <1>5, Zenon DEF Remaining

\* What Discard leaves of a queue is a queue.
LEMMA DiscardType ==
    ASSUME NEW queue \in Seq(Event), NEW O
    PROVE  Discard(queue, O) \in Seq(Event)
  <1>1. CASE queue = <<>>
    BY <1>1 DEF Discard
  <1>2. CASE queue # <<>>
    <2>1. Head(queue) \in Event /\ Tail(queue) \in Seq(Event)
      BY <1>2
    <2>2. Remaining(Tail(queue), O) \in Seq(Event)
      BY <2>1, RemainingType
    <2>3. PICK a : a = IF Head(queue).op \in {"moved", "deleted"} /\ Head(queue).wd \in O
                       THEN <<>> ELSE <<Head(queue)>>
      OBVIOUS
    <2>4. a = <<>> \/ a = <<Head(queue)>>
      BY <2>3, Zenon
    <2>5. a \in Seq(Event)
      <3>1. CASE a = <<>>
        BY <3>1
      <3>2. CASE a = <<Head(queue)>>
        <4>1. PICK e \in Event : e = Head(queue)
          BY <2>1
        <4> HIDE DEF Event
        <4> QED BY <3>2, <4>1
      <3> QED BY <3>1, <3>2, <2>4
    <2>6. Discard(queue, O) = a \o Remaining(Tail(queue), O)
      BY <1>2, <2>3, Zenon DEF Discard
    <2> QED BY <2>2, <2>5, <2>6
  <1> QED BY <1>1, <1>2

-----------------------------------------------------------------------------
(* What the backend reports.                                                *)

\* An object that reports is watched, and listed under a path.
LEMMA ListedAsPath ==
    ASSUME WatchSetTypeOK, NEW o, Reports(o)
    PROVE  ListedAs(o) \in Paths /\ o \in Objects
  <1>1. o \in armed /\ \E p \in Paths : listed[p] = o
    BY DEF Reports
  <1>2. ListedAs(o) \in Paths
    BY <1>1, Zenon DEF ListedAs
  <1> QED BY <1>1, <1>2 DEF WatchSetTypeOK

\* What a watched parent reports is a queue of events.
LEMMA ByParentType ==
    ASSUME WatchSetTypeOK, NEW p \in Paths, NEW op \in {"create", "remove"}
    PROVE  ByParent(op, p) \in Seq(Event)
  <1>1. PICK d : d = IF Parent(p) = <<>> THEN None ELSE fs[Parent(p)]
    OBVIOUS
  <1>2. PICK q : q = Append(ListedAs(d), Last(p))
    OBVIOUS
  <1>3. PICK e : e = [op |-> op, path |-> q, wd |-> d]
    OBVIOUS
  <1>4. \/ ByParent(op, p) = <<>>
        \/ Reports(d) /\ q \in Paths /\ ByParent(op, p) = <<e>>
    BY <1>1, <1>2, <1>3, Zenon DEF ByParent
  <1>5. CASE Reports(d) /\ q \in Paths /\ ByParent(op, p) = <<e>>
    <2>1. d \in Objects
      BY <1>5, ListedAsPath
    <2>2. e \in Event
      BY <1>3, <1>5, <2>1 DEF Event
    <2> QED BY <1>5, <2>2
  <1>6. <<>> \in Seq(Event)
    OBVIOUS
  <1> QED BY <1>4, <1>5, <1>6, Zenon

\* What a watched object reports of itself is a queue of events.
LEMMA BySelfType ==
    ASSUME WatchSetTypeOK, NEW o, NEW op \in {"moved", "deleted"}
    PROVE  BySelf(op, o) \in Seq(Event)
  <1>1. PICK e : e = [op |-> op, path |-> ListedAs(o), wd |-> o]
    OBVIOUS
  <1>2. \/ BySelf(op, o) = <<>>
        \/ Reports(o) /\ BySelf(op, o) = <<e>>
    BY <1>1, Zenon DEF BySelf
  <1>3. CASE Reports(o) /\ BySelf(op, o) = <<e>>
    <2>1. e \in Event
      BY <1>1, <1>3, ListedAsPath DEF Event
    <2> QED BY <1>3, <2>1
  <1>4. <<>> \in Seq(Event)
    OBVIOUS
  <1> QED BY <1>2, <1>3, <1>4, Zenon

\* The backend's state after Unwatch, as the other lemmas use it.
Unwatched(S) ==
    /\ listed' \in [Paths -> 0..MaxObjects]
    /\ \A p \in Paths : listed'[p] = IF p \in S THEN None ELSE listed[p]
    /\ armed' \subseteq armed
    /\ \A o \in armed' : \A p \in S : listed[p] # o
    /\ events' \in Seq(Event)

\* Unwatch takes the paths in S off the list and disarms what they stood for.
LEMMA UnwatchEffect ==
    ASSUME WatchSetTypeOK, NEW S \in SUBSET Paths, NEW queue \in Seq(Event), Unwatch(S, queue)
    PROVE  Unwatched(S)
  <1>1. PICK O : O = {listed[p] : p \in S} \ {None}
    OBVIOUS
  <1>2. /\ listed' = [p \in Paths |-> IF p \in S THEN None ELSE listed[p]]
        /\ armed' = armed \ O
        /\ events' = Discard(queue, O)
    BY <1>1 DEF Unwatch
  <1>3. events' \in Seq(Event)
    BY <1>2, DiscardType
  <1>4. \A o \in armed' : \A p \in S : listed[p] # o
    <2>1. \A o \in armed : o # None
      BY DEF WatchSetTypeOK, Objects, None
    <2> QED BY <1>1, <1>2, <2>1
  <1>5. listed' \in [Paths -> 0..MaxObjects]
    BY <1>2, LimitTypes DEF WatchSetTypeOK, None
  <1> QED BY <1>2, <1>3, <1>4, <1>5 DEF Unwatched

-----------------------------------------------------------------------------
(* The order of the mismatches.                                             *)

\* Precedes is irreflexive.
LEMMA PrecedesIrreflexive ==
    ASSUME NEW s \in Seq(Nat), Precedes(s, s)
    PROVE  FALSE
  <1>1. PICK n \in 1..Len(s) : n > Len(s) \/ s[n] < s[n]
    BY DEF Precedes
  <1> QED BY <1>1

\* Precedes is transitive.
LEMMA PrecedesTransitive ==
    ASSUME NEW s \in Seq(Nat), NEW t \in Seq(Nat), NEW u \in Seq(Nat),
           Precedes(s, t), Precedes(t, u)
    PROVE  Precedes(s, u)
  <1>1. PICK n \in 1..Len(t) : /\ \A k \in 1..(n-1) : k <= Len(s) /\ s[k] = t[k]
                               /\ n > Len(s) \/ s[n] < t[n]
    BY DEF Precedes
  <1>2. PICK m \in 1..Len(u) : /\ \A k \in 1..(m-1) : k <= Len(t) /\ t[k] = u[k]
                               /\ m > Len(t) \/ t[m] < u[m]
    BY DEF Precedes
  <1>3. n \in Nat /\ m \in Nat /\ Len(s) \in Nat /\ Len(t) \in Nat /\ Len(u) \in Nat
    OBVIOUS
  <1>4. CASE n < m
    <2>1. n \in 1..Len(u) /\ n \in 1..(m-1)
      BY <1>3, <1>4
    <2>2. \A k \in 1..(n-1) : k \in 1..(m-1)
      BY <1>3, <1>4
    <2>3. \A k \in 1..(n-1) : k <= Len(s) /\ s[k] = u[k]
      BY <1>1, <1>2, <2>2
    <2>4. n > Len(s) \/ s[n] < u[n]
      BY <1>1, <1>2, <2>1
    <2> QED BY <2>1, <2>3, <2>4 DEF Precedes
  <1>5. CASE n = m
    <2>1. \A k \in 1..(n-1) : k <= Len(s) /\ s[k] = u[k]
      BY <1>1, <1>2, <1>5
    <2>2. n > Len(s) \/ s[n] < u[n]
      <3>1. n <= Len(t) /\ t[n] < u[n]
        BY <1>2, <1>3, <1>5
      <3>2. CASE n <= Len(s)
        <4>1. s[n] \in Nat /\ t[n] \in Nat /\ u[n] \in Nat
          <5>1. n \in 1..Len(s) /\ n \in 1..Len(t) /\ n \in 1..Len(u)
            BY <3>2, <1>3, <1>5
          <5>2. s[n] \in Nat
            BY <5>1
          <5>3. t[n] \in Nat
            BY <5>1
          <5>4. u[n] \in Nat
            BY <5>1
          <5> QED BY <5>2, <5>3, <5>4
        <4>2. s[n] < t[n]
          BY <3>2, <1>1, <1>3
        <4>3. \A a, b, c \in Nat : a < b /\ b < c => a < c
          OBVIOUS
        <4> QED BY <4>1, <4>2, <4>3, <3>1
      <3> QED BY <3>2, <1>3
    <2> QED BY <2>1, <2>2, <1>5 DEF Precedes
  <1>6. CASE n > m
    <2>1. m \in 1..(n-1)
      BY <1>3, <1>6
    <2>2. \A k \in 1..(m-1) : k \in 1..(n-1)
      BY <1>3, <1>6
    <2>3. \A k \in 1..(m-1) : k <= Len(s) /\ s[k] = u[k]
      BY <1>1, <1>2, <2>2
    <2>4. s[m] < u[m]
      BY <1>1, <1>2, <1>3, <1>6, <2>1
    <2> QED BY <2>3, <2>4 DEF Precedes
  <1> QED BY <1>3, <1>4, <1>5, <1>6

\* Precedes is total.
LEMMA PrecedesTotal ==
    ASSUME NEW s \in Seq(Nat), NEW t \in Seq(Nat), s # t
    PROVE  Precedes(s, t) \/ Precedes(t, s)
  <1> DEFINE Apart == {n \in Nat \ {0} : n > Len(s) \/ n > Len(t) \/ s[n] # t[n]}
  <1>1. Len(s) \in Nat /\ Len(t) \in Nat
    OBVIOUS
  <1>2. Len(s) + 1 \in Apart
    BY <1>1
  <1>3. PICK n \in Apart : \A k \in Apart : n <= k
    <2>1. Apart \in SUBSET Nat
      OBVIOUS
    <2> HIDE DEF Apart
    <2> QED BY <2>1, <1>2, LeastNumber
  <1>4. n \in Nat \ {0} /\ (n > Len(s) \/ n > Len(t) \/ s[n] # t[n])
    BY <1>3
  <1>5. \A k \in 1..(n-1) : k \notin Apart /\ k \in Nat \ {0}
    BY <1>3, <1>4
  <1>6. \A k \in 1..(n-1) : k <= Len(s) /\ k <= Len(t) /\ s[k] = t[k]
    BY <1>5, <1>1
  <1>7. ~(n > Len(s) /\ n > Len(t))
    <2> SUFFICES ASSUME n > Len(s), n > Len(t)
                 PROVE  FALSE
      OBVIOUS
    <2>1. n - 1 <= Len(s) /\ n - 1 <= Len(t)
      <3>1. CASE n = 1
        BY <3>1, <1>1
      <3>2. CASE n # 1
        <4>1. n - 1 \in 1..(n-1)
          BY <3>2, <1>4
        <4> QED BY <4>1, <1>6
      <3> QED BY <3>1, <3>2
    <2>2. Len(s) = n - 1 /\ Len(t) = n - 1
      BY <2>1, <1>1, <1>4
    <2>3. \A k \in 1..Len(s) : s[k] = t[k]
      BY <2>2, <1>6
    <2> QED BY <2>2, <2>3
  <1>8. CASE n > Len(s)
    <2>1. n \in 1..Len(t)
      BY <1>8, <1>7, <1>4, <1>1
    <2> QED BY <2>1, <1>8, <1>6 DEF Precedes
  <1>9. CASE n > Len(t)
    <2>1. n \in 1..Len(s)
      BY <1>9, <1>7, <1>4, <1>1
    <2> QED BY <2>1, <1>9, <1>6 DEF Precedes
  <1>10. CASE n <= Len(s) /\ n <= Len(t)
    <2>1. s[n] \in Nat /\ t[n] \in Nat /\ s[n] # t[n] /\ n \in 1..Len(s) /\ n \in 1..Len(t)
      BY <1>10, <1>4, <1>1
    <2>2. CASE s[n] < t[n]
      BY <2>1, <2>2, <1>6 DEF Precedes
    <2>3. CASE t[n] < s[n]
      BY <2>1, <2>3, <1>6 DEF Precedes
    <2> QED BY <2>1, <2>2, <2>3
  <1> QED BY <1>1, <1>4, <1>8, <1>9, <1>10

\* A nonempty finite set of sequences has a least one: the mismatch that the code
\* reports first.
LEMMA LeastIsMember ==
    ASSUME NEW S \in SUBSET Seq(Nat), IsFiniteSet(S), S # {}
    PROVE  Least(S) \in S
  <1> DEFINE Before(s) == {t \in S : Precedes(t, s)}
             Counts == {Cardinality(Before(s)) : s \in S}
  <1>1. \A s \in S : IsFiniteSet(Before(s)) /\ Cardinality(Before(s)) \in Nat
    <2> TAKE s \in S
    <2>1. IsFiniteSet(Before(s))
      BY FS_Subset
    <2> QED BY <2>1, FS_CardinalityType
  <1>2. Counts \in SUBSET Nat /\ Counts # {}
    BY <1>1
  <1>3. PICK m \in Counts : \A k \in Counts : m <= k
    <2> HIDE DEF Counts
    <2> QED BY <1>2, LeastNumber
  <1>4. PICK s \in S : m = Cardinality(Before(s))
    BY <1>3
  <1>5. \A t \in S : ~Precedes(t, s)
    <2> SUFFICES ASSUME NEW t \in S, Precedes(t, s)
                 PROVE  FALSE
      OBVIOUS
    <2>1. \A u \in S : Precedes(u, t) => Precedes(u, s)
      BY PrecedesTransitive
    <2>2. ~Precedes(t, t)
      BY PrecedesIrreflexive
    <2>3. Before(t) \in SUBSET Before(s) /\ t \in Before(s) /\ t \notin Before(t)
      BY <2>1, <2>2
    <2>4. IsFiniteSet(Before(s)) /\ Cardinality(Before(s)) \in Nat /\ Cardinality(Before(t)) \in Nat
      BY <1>1
    <2>5. Cardinality(Before(s)) <= Cardinality(Before(t))
      BY <1>3, <1>4
    <2> HIDE DEF Before
    <2>6. /\ Cardinality(Before(t)) <= Cardinality(Before(s))
          /\ Cardinality(Before(s)) = Cardinality(Before(t)) => Before(s) = Before(t)
      BY <2>3, <2>4, FS_Subset
    <2> QED BY <2>3, <2>4, <2>5, <2>6
  <1>6. \A t \in S \ {s} : Precedes(s, t)
    BY <1>5, PrecedesTotal
  <1> QED BY <1>6, Zenon DEF Least

\* The paths that disagree with the backend, as sequences to be ordered.
LEMMA MismatchType ==
    ASSUME WatchSetTypeOK, Mismatches # {}
    PROVE  Least(Mismatches) \in Seq(Nat)
  <1>1. PICK D : D = {q \in Paths : book[q] # None /\ listed[q] = None /\ fs[q] # None}
    OBVIOUS
  <1>2. PICK f : f = [p \in D |-> <<IF fs[p] = book[p] THEN 0 ELSE 1>> \o p]
    OBVIOUS
  <1>3. Mismatches = {f[p] : p \in D}
    BY <1>1, <1>2 DEF Mismatches
  <1>4. \A p \in D : f[p] \in Seq(Nat)
    <2> TAKE p \in D
    <2>1. p \in Seq(Nat)
      BY <1>1, PathIsSeq
    <2>2. PICK w \in {0, 1} : w = IF fs[p] = book[p] THEN 0 ELSE 1
      OBVIOUS
    <2>3. <<w>> \o p \in Seq(Nat)
      BY <2>1
    <2> QED BY <2>2, <2>3, <1>2
  <1>5. IsFiniteSet(D)
    <2>1. D \in SUBSET Paths
      BY <1>1
    <2> QED BY <2>1, PathsAreFinite, FS_Subset
  <1>6. f \in Surjection(D, Mismatches)
    BY <1>2, <1>3 DEF Surjection
  <1>7. IsFiniteSet(Mismatches) /\ Mismatches \in SUBSET Seq(Nat)
    BY <1>3, <1>4, <1>5, <1>6, FS_Surjection
  <1> QED BY <1>7, LeastIsMember

\* The subdirectories that a scan finds are finitely many places to go.
LEMMA ReadEntriesType ==
    ASSUME WatchSetTypeOK
    PROVE  ReadEntries \in SUBSET Queued /\ Cardinality(ReadEntries) \in Nat
  <1>1. PICK D : D = {q \in UNION {Children(x) : x \in Where(walk.obj)} :
                        Append(walk.dir, Last(q)) \in Paths}
    OBVIOUS
  <1>2. PICK f : f = [p \in D |-> [path |-> Append(walk.dir, Last(p)), obj |-> fs[p]]]
    OBVIOUS
  <1>3. ReadEntries = {f[p] : p \in D}
    BY <1>1, <1>2 DEF ReadEntries
  <1>4. \A p \in D : p \in Paths /\ fs[p] # None /\ Append(walk.dir, Last(p)) \in Paths
    BY <1>1 DEF Children
  <1>5. \A p \in D : f[p] \in Queued
    <2> TAKE p \in D
    <2>1. fs[p] \in Objects
      BY <1>4, LimitTypes DEF WatchSetTypeOK, Objects, None
    <2> QED BY <2>1, <1>2, <1>4 DEF Queued
  <1>6. IsFiniteSet(D)
    <2>1. D \in SUBSET Paths
      BY <1>4
    <2> QED BY <2>1, PathsAreFinite, FS_Subset
  <1>7. f \in Surjection(D, ReadEntries)
    BY <1>2, <1>3 DEF Surjection
  <1>8. IsFiniteSet(ReadEntries)
    BY <1>6, <1>7, FS_Surjection
  <1> QED BY <1>3, <1>5, <1>8, FS_CardinalityType

-----------------------------------------------------------------------------
(* Steps that register nothing.                                             *)

\* Fewer watches are no more than there were.
LEMMA FewerWatches ==
    ASSUME WatchSetTypeOK, WatchesBounded, armed' \subseteq armed
    PROVE  WatchesBounded'
  <1>1. IsFiniteSet(Objects)
    BY LimitTypes, FS_Interval DEF Objects
  <1>2. IsFiniteSet(armed)
    BY <1>1, FS_Subset DEF WatchSetTypeOK
  <1>3. Cardinality(armed') <= Cardinality(armed) /\ IsFiniteSet(armed')
    BY <1>2, FS_Subset
  <1>4. Cardinality(armed') \in Nat /\ Cardinality(armed) \in Nat
    BY <1>2, <1>3, FS_CardinalityType
  <1> QED BY <1>3, <1>4, LimitTypes DEF WatchesBounded

\* Where the walk may go without registering anything: it stays, or it leaves the
\* directory it is adding behind, without a watch unless Run is over.
WalkLeaves ==
    \/ walk' = walk
    \/ /\ walk'.pc \notin {"add", "confirm"}
       /\ walk'.pc = "check" => walk'.obj \in Objects
       /\ walk'.why = "configured" => rootID' \in Objects
       /\ walk.pc = "confirm" => listed'[walk.dir] = None \/ Failed'

\* The backend may drop watches: nothing that is left of them is unaccounted for.
BackendShrinks ==
    /\ armed' \subseteq armed
    /\ \A p \in Paths : listed'[p] \in {listed[p], None}
    /\ ArmedAreListed'

\* A step that registers nothing keeps what is registered in order.
LEMMA ShrinkKeeps ==
    ASSUME WatchSetIInv, UNCHANGED book, BackendShrinks, WalkLeaves,
           walk' = walk => rootID' = rootID,
           Failed => Failed'
    PROVE  Registered'
  <1> USE DEF WatchSetIInv, Registered
  <1>1. Booked' = Booked
    BY DEF Booked
  <1>2. BookInv'
    BY <1>1 DEF BookInv, NoAliases
  <1>3. WatchesBounded'
    BY FewerWatches DEF BackendShrinks
  <1>4. (walk.why = "configured" => rootID \in Objects)'
    BY DEF WalkLeaves
  <1>5. walk.dir \in Paths
    BY DEF WatchSetTypeOK, Walk
  <1>6. NoWatchLeaks'
    <2> SUFFICES ASSUME NEW p \in Paths, listed'[p] # None, ~Failed'
                 PROVE  book'[p] # None \/ (walk'.pc = "confirm" /\ walk'.dir = p)
      BY DEF NoWatchLeaks
    <2>1. listed[p] # None /\ ~Failed
      BY DEF BackendShrinks
    <2>2. book[p] # None \/ (walk.pc = "confirm" /\ walk.dir = p)
      BY <2>1 DEF NoWatchLeaks
    <2> QED BY <2>2 DEF WalkLeaves
  <1>7. AddingInv'
    <2>1. CASE walk' = walk
      BY <2>1, <1>1, <1>5 DEF AddingInv, Adding, BackendShrinks
    <2>2. CASE walk' # walk
      BY <2>2 DEF AddingInv, Adding, WalkLeaves
    <2> QED BY <2>1, <2>2
  <1> QED BY <1>2, <1>3, <1>4, <1>6, <1>7 DEF BackendShrinks

\* The same, for a step that does not touch the backend.
LEMMA BackendStays ==
    ASSUME WatchSetIInv, UNCHANGED <<listed, armed>>
    PROVE  BackendShrinks
  BY DEF BackendShrinks, ArmedAreListed, WatchSetIInv, Registered

\* Unwatch leaves every armed object on the list.
LEMMA UnwatchShrinks ==
    ASSUME WatchSetIInv, NEW S \in SUBSET Paths, Unwatched(S)
    PROVE  BackendShrinks
  <1>1. ArmedAreListed'
    <2> SUFFICES ASSUME NEW o \in armed'
                 PROVE  \E p \in Paths : listed'[p] = o
      BY DEF ArmedAreListed
    <2>1. PICK p \in Paths : listed[p] = o
      BY DEF Unwatched, WatchSetIInv, Registered, ArmedAreListed
    <2>2. p \notin S
      BY <2>1 DEF Unwatched
    <2> QED BY <2>1, <2>2 DEF Unwatched
  <1> QED BY <1>1 DEF Unwatched, BackendShrinks

\* Ending a step by failing or by going on without the directory.
LEMMA NotExistLeaves ==
    ASSUME WatchSetIInv, NotExist \/ Fail, UNCHANGED rootID,
           walk.pc = "confirm" => listed'[walk.dir] = None
    PROVE  WalkLeaves /\ walk' \in Walk /\ mode' \in {mode, "failed"}
  <1> USE DEF WatchSetIInv, Registered
  <1>1. walk \in Walk
    BY DEF WatchSetTypeOK
  <1>2. CASE Fail
    BY <1>1, <1>2 DEF Fail, WalkLeaves
  <1>3. CASE Proceed([walk EXCEPT !.pc = "open"])
    <2>1. walk' = [walk EXCEPT !.pc = "open"] /\ mode' = mode
      BY <1>3 DEF Proceed
    <2>2. walk' \in Walk /\ walk'.pc = "open" /\ walk'.why = walk.why
      BY <2>1, <1>1 DEF Walk
    <2> QED BY <2>1, <2>2 DEF WalkLeaves
  <1>4. CASE Proceed(NoWalk)
    <2>1. walk' = NoWalk /\ mode' = mode
      BY <1>4 DEF Proceed
    <2>2. NoWalk \in Walk /\ NoWalk.pc = "none" /\ NoWalk.why = "event"
      BY KnownPaths, LimitTypes DEF NoWalk, Walk, None
    <2> QED BY <2>1, <2>2 DEF WalkLeaves
  <1> QED BY <1>2, <1>3, <1>4 DEF NotExist

-----------------------------------------------------------------------------
(* The tree changes, the backend reads a notice.                            *)

\* A change of the tree that shrinks the backend keeps what is registered.
LEMMA ChangeKeeps ==
    ASSUME WatchSetIInv, Change, BackendShrinks
    PROVE  Registered'
  <1>1. UNCHANGED <<book, rootID, walk, mode>>
    BY DEF Change
  <1>2. WalkLeaves
    BY <1>1 DEF WalkLeaves
  <1>3. Failed => Failed'
    BY <1>1 DEF Failed
  <1> QED BY <1>1, <1>2, <1>3, ShrinkKeeps

\* The types of what a change of the tree touches.
LEMMA ChangeTypes ==
    ASSUME WatchSetTypeOK, Change,
           fs' \in [Paths -> 0..MaxObjects], files' \subseteq Objects, made' \in 1..MaxObjects,
           listed' \in [Paths -> 0..MaxObjects], armed' \subseteq Objects, events' \in Seq(Event)
    PROVE  WatchSetTypeOK'
  <1>1. changes' \in 0..MaxChanges
    BY LimitTypes DEF Change, WatchSetTypeOK
  <1> QED BY <1>1 DEF Change, WatchSetTypeOK

\* A subtree that moves takes its directories along.
LEMMA MovedType ==
    ASSUME WatchSetTypeOK, NEW p, NEW q
    PROVE  Moved(p, q) \in [Paths -> 0..MaxObjects]
  <1>1. None \in 0..MaxObjects
    BY LimitTypes DEF None
  <1>2. \A y : (IF y \in Paths THEN fs[y] ELSE None) \in 0..MaxObjects
    BY <1>1 DEF WatchSetTypeOK
  <1>3. \A x \in Paths : Moved(p, q)[x] \in 0..MaxObjects
    BY <1>1, <1>2 DEF Moved, WatchSetTypeOK
  <1> QED BY <1>3 DEF Moved

\* A directory is made.
LEMMA MkdirKeeps ==
    ASSUME WatchSetIInv, NEW p \in Paths, Mkdir(p)
    PROVE  WatchSetIInv'
  <1>1. WatchSetTypeOK /\ Change /\ UNCHANGED <<files, listed, armed>>
    BY DEF WatchSetIInv, Mkdir
  <1>2. made' \in 1..MaxObjects /\ made' = made + 1
    BY LimitTypes, <1>1 DEF Mkdir, WatchSetTypeOK
  <1>3. fs' \in [Paths -> 0..MaxObjects]
    BY <1>1, <1>2, LimitTypes DEF Mkdir, WatchSetTypeOK
  <1>4. ByParent("create", p) \in Seq(Event)
    BY <1>1, ByParentType
  <1>5. events' \in Seq(Event)
    BY <1>1, <1>4 DEF Mkdir, WatchSetTypeOK
  <1>6. WatchSetTypeOK'
    <2>1. files' \subseteq Objects /\ listed' \in [Paths -> 0..MaxObjects] /\ armed' \subseteq Objects
      BY <1>1 DEF WatchSetTypeOK
    <2> QED BY <2>1, <1>1, <1>2, <1>3, <1>5, ChangeTypes
  <1>7. Registered'
    BY <1>1, BackendStays, ChangeKeeps
  <1> QED BY <1>6, <1>7 DEF WatchSetIInv

\* A directory is removed, and its watch dies with it.
LEMMA RmdirKeeps ==
    ASSUME WatchSetIInv, NEW p \in Paths, Rmdir(p)
    PROVE  WatchSetIInv'
  <1>1. WatchSetTypeOK /\ Change /\ UNCHANGED <<listed, made>> /\ armed' \subseteq armed
    BY DEF WatchSetIInv, Rmdir
  <1>2. fs' \in [Paths -> 0..MaxObjects]
    BY <1>1, LimitTypes DEF Rmdir, WatchSetTypeOK, None
  <1>3. ByParent("remove", p) \in Seq(Event) /\ BySelf("deleted", fs[p]) \in Seq(Event)
    BY <1>1, ByParentType, BySelfType
  <1>4. events' \in Seq(Event)
    BY <1>1, <1>3 DEF Rmdir, WatchSetTypeOK
  <1>5. WatchSetTypeOK'
    <2>1. /\ files' \subseteq Objects /\ listed' \in [Paths -> 0..MaxObjects]
          /\ armed' \subseteq Objects /\ made' \in 1..MaxObjects
      BY <1>1 DEF WatchSetTypeOK, Rmdir
    <2> QED BY <2>1, <1>1, <1>2, <1>4, ChangeTypes
  <1>6. BackendShrinks
    BY <1>1 DEF BackendShrinks, ArmedAreListed, WatchSetIInv, Registered
  <1>7. Registered'
    BY <1>1, <1>6, ChangeKeeps
  <1> QED BY <1>5, <1>7 DEF WatchSetIInv

\* A directory is moved; its watch moves along and keeps its listed path.
LEMMA RenameKeeps ==
    ASSUME WatchSetIInv, NEW p \in Paths, NEW q \in Paths, Rename(p, q)
    PROVE  WatchSetIInv'
  <1>1. WatchSetTypeOK /\ Change /\ UNCHANGED <<files, listed, armed, made>>
    BY DEF WatchSetIInv, Rename
  <1>2. fs' \in [Paths -> 0..MaxObjects]
    BY <1>1, MovedType DEF Rename
  <1>3. /\ ByParent("remove", p) \in Seq(Event) /\ ByParent("create", q) \in Seq(Event)
        /\ BySelf("moved", fs[p]) \in Seq(Event)
    BY <1>1, ByParentType, BySelfType
  <1>4. events' \in Seq(Event)
    BY <1>1, <1>3 DEF Rename, WatchSetTypeOK
  <1>5. WatchSetTypeOK'
    <2>1. /\ files' \subseteq Objects /\ listed' \in [Paths -> 0..MaxObjects]
          /\ armed' \subseteq Objects /\ made' \in 1..MaxObjects
      BY <1>1 DEF WatchSetTypeOK
    <2> QED BY <2>1, <1>1, <1>2, <1>4, ChangeTypes
  <1>6. Registered'
    BY <1>1, BackendStays, ChangeKeeps
  <1> QED BY <1>5, <1>6 DEF WatchSetIInv

\* The root is moved along with an ancestor, and nobody is told.
LEMMA RenameAncestorKeeps ==
    ASSUME WatchSetIInv, RenameAncestor
    PROVE  WatchSetIInv'
  <1>1. WatchSetTypeOK /\ Change /\ UNCHANGED <<files, listed, armed, events, made>>
    BY DEF WatchSetIInv, RenameAncestor
  <1>2. fs' \in [Paths -> 0..MaxObjects]
    BY <1>1, MovedType DEF RenameAncestor
  <1>3. WatchSetTypeOK'
    <2>1. /\ files' \subseteq Objects /\ listed' \in [Paths -> 0..MaxObjects]
          /\ armed' \subseteq Objects /\ made' \in 1..MaxObjects /\ events' \in Seq(Event)
      BY <1>1 DEF WatchSetTypeOK
    <2> QED BY <2>1, <1>1, <1>2, ChangeTypes
  <1>4. Registered'
    BY <1>1, BackendStays, ChangeKeeps
  <1> QED BY <1>3, <1>4 DEF WatchSetIInv

\* A file is written.
LEMMA WriteFileKeeps ==
    ASSUME WatchSetIInv, NEW p \in Paths, WriteFile(p)
    PROVE  WatchSetIInv'
  <1>1. WatchSetTypeOK /\ Change /\ UNCHANGED <<fs, listed, armed, made>>
    BY DEF WatchSetIInv, WriteFile
  <1>2. fs[p] \in Objects
    BY <1>1, LimitTypes DEF WriteFile, WatchSetTypeOK, Objects, None
  <1>3. PICK e : e = [op |-> "file", path |-> ListedAs(fs[p]), wd |-> fs[p]]
    OBVIOUS
  <1>4. PICK a : a = IF Reports(fs[p]) THEN <<e>> ELSE <<>>
    OBVIOUS
  <1>5. a \in Seq(Event)
    <2>1. CASE Reports(fs[p])
      <3>1. e \in Event
        BY <1>1, <1>2, <1>3, <2>1, ListedAsPath DEF Event
      <3> QED BY <3>1, <2>1, <1>4
    <2>2. CASE ~Reports(fs[p])
      <3>1. a = <<>>
        BY <2>2, <1>4
      <3> QED BY <3>1
    <2> QED BY <2>1, <2>2
  <1>6. events' \in Seq(Event)
    <2>1. events' = events \o a
      BY <1>3, <1>4 DEF WriteFile
    <2> QED BY <2>1, <1>1, <1>5 DEF WatchSetTypeOK
  <1>7. WatchSetTypeOK'
    <2>1. /\ files' \subseteq Objects /\ listed' \in [Paths -> 0..MaxObjects]
          /\ armed' \subseteq Objects /\ made' \in 1..MaxObjects /\ fs' \in [Paths -> 0..MaxObjects]
      BY <1>1, <1>2 DEF WatchSetTypeOK, WriteFile
    <2> QED BY <2>1, <1>1, <1>6, ChangeTypes
  <1>8. Registered'
    BY <1>1, BackendStays, ChangeKeeps
  <1> QED BY <1>7, <1>8 DEF WatchSetIInv

\* The kernel drops a watch.
LEMMA LoseWatchKeeps ==
    ASSUME WatchSetIInv, NEW p \in Paths, LoseWatch(p)
    PROVE  WatchSetIInv'
  <1>1. WatchSetTypeOK /\ Change /\ UNCHANGED <<fs, files, made>>
    BY DEF WatchSetIInv, LoseWatch
  <1>2. Unwatched({p})
    <2>1. events \in Seq(Event) /\ {p} \in SUBSET Paths
      BY <1>1 DEF WatchSetTypeOK
    <2> QED BY <2>1, <1>1, UnwatchEffect DEF LoseWatch
  <1>3. BackendShrinks
    BY <1>2, UnwatchShrinks
  <1>4. WatchSetTypeOK'
    <2>1. /\ files' \subseteq Objects /\ listed' \in [Paths -> 0..MaxObjects]
          /\ armed' \subseteq Objects /\ made' \in 1..MaxObjects /\ fs' \in [Paths -> 0..MaxObjects]
          /\ events' \in Seq(Event)
      BY <1>1, <1>2 DEF WatchSetTypeOK, Unwatched
    <2> QED BY <2>1, <1>1, ChangeTypes
  <1>5. Registered'
    BY <1>1, <1>3, ChangeKeeps
  <1> QED BY <1>4, <1>5 DEF WatchSetIInv

\* The backend takes an object that is gone off its list.
LEMMA ReadNoticeKeeps ==
    ASSUME WatchSetIInv, ReadNotice
    PROVE  WatchSetIInv'
  <1>1. /\ WatchSetTypeOK
        /\ UNCHANGED <<fs, files, made, changes, book, rootID, walk, mismatch, mode, scheduled>>
    BY DEF WatchSetIInv, ReadNotice, world
  <1>2. PICK h : h = Head(events)
    OBVIOUS
  <1>3. h \in Event /\ Tail(events) \in Seq(Event)
    BY <1>1, <1>2 DEF ReadNotice, WatchSetTypeOK
  <1>4. /\ listed' = [p \in Paths |-> IF listed[p] = h.wd THEN None ELSE listed[p]]
        /\ armed' = armed \ {h.wd}
    BY <1>2 DEF ReadNotice
  <1>5. PICK told \in BOOLEAN : told = (h.op = "moved" \/ Parent(h.path) = <<>>
                                        \/ listed[Parent(h.path)] = None)
    OBVIOUS
  <1>6. events' = (IF told THEN <<[h EXCEPT !.op = "remove"]>> ELSE <<>>)
                  \o Remaining(Tail(events), {h.wd})
    BY <1>2, <1>5, Zenon DEF ReadNotice
  <1>7. [h EXCEPT !.op = "remove"] \in Event
    BY <1>3 DEF Event
  <1>8. PICK e \in Event : e = [h EXCEPT !.op = "remove"]
    BY <1>7
  <1>9. PICK a : a = IF told THEN <<e>> ELSE <<>>
    OBVIOUS
  <1>10. a \in Seq(Event)
    <2>1. CASE told
      BY <2>1, <1>9
    <2>2. CASE ~told
      <3>1. a = <<>>
        BY <2>2, <1>9
      <3> QED BY <3>1
    <2> QED BY <2>1, <2>2
  <1>11. events' \in Seq(Event)
    <2>1. Remaining(Tail(events), {h.wd}) \in Seq(Event)
      BY <1>3, RemainingType
    <2>2. events' = a \o Remaining(Tail(events), {h.wd})
      BY <1>6, <1>8, <1>9
    <2> QED BY <2>1, <2>2, <1>10
  <1>12. WatchSetTypeOK'
    <2>1. listed' \in [Paths -> 0..MaxObjects] /\ armed' \subseteq Objects
      BY <1>1, <1>4, LimitTypes DEF WatchSetTypeOK, None
    <2> QED BY <2>1, <1>1, <1>11 DEF WatchSetTypeOK
  <1>13. BackendShrinks
    <2>1. ArmedAreListed'
      <3> SUFFICES ASSUME NEW o \in armed'
                   PROVE  \E p \in Paths : listed'[p] = o
        BY DEF ArmedAreListed
      <3>1. o \in armed /\ o # h.wd
        BY <1>4
      <3>2. PICK p \in Paths : listed[p] = o
        BY <3>1 DEF WatchSetIInv, Registered, ArmedAreListed
      <3> QED BY <3>1, <3>2, <1>4
    <2> QED BY <2>1, <1>4 DEF BackendShrinks
  <1>14. Registered'
    <2>1. WalkLeaves /\ (Failed => Failed')
      BY <1>1 DEF WalkLeaves, Failed
    <2> QED BY <2>1, <1>1, <1>13, ShrinkKeeps
  <1> QED BY <1>12, <1>14 DEF WatchSetIInv

-----------------------------------------------------------------------------
(* Walking.                                                                 *)

\* The types of what a step of Run touches.
LEMMA RunTypes ==
    ASSUME WatchSetTypeOK, UNCHANGED world, rootID' \in 0..MaxObjects, walk' \in Walk,
           mode' \in {"down", "starting", "running", "failed"},
           listed' \in [Paths -> 0..MaxObjects], armed' \subseteq Objects, events' \in Seq(Event),
           book' \in [Paths -> 0..MaxObjects], mismatch' \in Seq(Nat), scheduled' \subseteq Queued
    PROVE  WatchSetTypeOK'
  BY DEF WatchSetTypeOK, world

\* The same, for a step that moves the walk only.
LEMMA WalkTypes ==
    ASSUME WatchSetTypeOK, UNCHANGED <<world, backend, book, rootID, mismatch>>, walk' \in Walk,
           mode' \in {"down", "starting", "running", "failed"}, scheduled' \subseteq Queued
    PROVE  WatchSetTypeOK'
  BY DEF WatchSetTypeOK, world, backend

\* A walk begins with the directory it is given.
LEMMA BeginWalkEffect ==
    ASSUME WatchSetTypeOK, NEW p \in Paths, fs[p] # None,
           NEW why \in {"configured", "existing", "event"}, BeginWalk(p, why)
    PROVE  walk' \in Walk /\ walk'.pc = "open" /\ walk'.why = why
  <1>1. fs[p] \in Objects
    BY LimitTypes DEF WatchSetTypeOK, Objects, None
  <1>2. PICK d \in Queued : d = [path |-> p, obj |-> fs[p]]
    BY <1>1 DEF Queued
  <1>3. walk' = [pc |-> "open", why |-> why, base |-> p, baseObj |-> fs[p], dir |-> p,
                 obj |-> None, todo |-> {d}, found |-> 1]
    BY <1>2 DEF BeginWalk, NoWalk
  <1>4. fs[p] \in 0..MaxObjects /\ None \in 0..MaxObjects /\ {d} \in SUBSET Queued
    BY LimitTypes DEF WatchSetTypeOK, None
  <1> QED BY <1>3, <1>4 DEF Walk

\* The next directory of the queue is opened.
LEMMA OpenDirectoryKeeps ==
    ASSUME WatchSetIInv, NEW d, OpenDirectory(d)
    PROVE  WatchSetIInv'
  <1>1. WatchSetTypeOK /\ walk \in Walk
    BY DEF WatchSetIInv, WatchSetTypeOK
  <1>2. d \in Queued /\ walk.pc = "open"
    BY <1>1 DEF OpenDirectory, Walk
  <1>3. d.path \in Paths /\ d.obj \in Objects
    BY <1>2 DEF Queued
  <1>4. PICK w : w = [walk EXCEPT !.todo = @ \ {d}, !.dir = d.path, !.obj = d.obj]
    OBVIOUS
  <1>5. w \in Walk /\ w.pc = "open" /\ w.why = walk.why /\ w.obj = d.obj
    <2>1. PICK rest \in SUBSET Queued : rest = walk.todo \ {d}
      BY <1>1 DEF Walk
    <2>2. w = [walk EXCEPT !.todo = rest, !.dir = d.path, !.obj = d.obj]
      BY <1>4, <2>1
    <2>3. d.obj \in 0..MaxObjects
      BY <1>3, LimitTypes DEF Objects
    <2> QED BY <2>2, <2>3, <1>1, <1>2, <1>3 DEF Walk
  <1>6. /\ walk' = w \/ walk' = [w EXCEPT !.pc = "read"] \/ walk' = [w EXCEPT !.pc = "check"]
        /\ mode' = mode
        /\ UNCHANGED <<world, backend, book, rootID, mismatch, scheduled>>
    BY <1>4 DEF OpenDirectory, Proceed
  <1>7. /\ walk' \in Walk /\ walk'.pc \in {"open", "read", "check"}
        /\ walk'.why = walk.why /\ walk'.obj \in Objects
    BY <1>3, <1>5, <1>6 DEF Walk
  <1>8. WatchSetTypeOK'
    BY <1>1, <1>6, <1>7, WalkTypes DEF WatchSetTypeOK
  <1>9. Registered'
    <2>1. WalkLeaves /\ (Failed => Failed')
      BY <1>2, <1>6, <1>7 DEF WalkLeaves, Failed, WatchSetIInv, Registered
    <2>2. BackendShrinks
      BY <1>6, BackendStays DEF backend
    <2> QED BY <2>1, <2>2, <1>6, ShrinkKeeps
  <1> QED BY <1>8, <1>9 DEF WatchSetIInv

\* A directory is read: its subdirectories are queued and its file is scheduled.
LEMMA ReadDirectoryKeeps ==
    ASSUME WatchSetIInv, ReadDirectory
    PROVE  WatchSetIInv'
  <1>1. WatchSetTypeOK /\ walk \in Walk
    BY DEF WatchSetIInv, WatchSetTypeOK
  <1>2. PICK entries : entries = ReadEntries
    OBVIOUS
  <1>3. entries \in SUBSET Queued /\ Cardinality(entries) \in Nat
    BY <1>1, <1>2, ReadEntriesType
  <1>4. PICK w : w = [walk EXCEPT !.pc = "open", !.todo = @ \cup entries,
                                  !.found = @ + Cardinality(entries)]
    OBVIOUS
  <1>5. w \in Walk /\ w.pc = "open" /\ w.why = walk.why
    <2>1. PICK more \in SUBSET Queued : more = walk.todo \cup entries
      BY <1>1, <1>3 DEF Walk
    <2>2. PICK n \in Nat : n = walk.found + Cardinality(entries)
      BY <1>1, <1>3 DEF Walk
    <2>3. w = [walk EXCEPT !.pc = "open", !.todo = more, !.found = n]
      BY <1>4, <2>1, <2>2
    <2> QED BY <2>3, <1>1 DEF Walk
  <1>6. PICK file : file = [path |-> walk.dir, obj |-> walk.obj]
    OBVIOUS
  <1>7. /\ walk.pc = "read" /\ UNCHANGED <<world, backend, book, rootID, mismatch>>
        /\ NotExist \/ Fail \/ Proceed(w)
        /\ \/ scheduled' = scheduled
           \/ walk.obj \in files /\ scheduled' = scheduled \cup {file}
    BY <1>2, <1>4, <1>6 DEF ReadDirectory
  <1>8. scheduled' \subseteq Queued
    <2>1. walk.obj \in files => file \in Queued
      BY <1>1, <1>6 DEF WatchSetTypeOK, Walk, Queued
    <2> QED BY <2>1, <1>1, <1>7 DEF WatchSetTypeOK
  <1>9. WalkLeaves /\ walk' \in Walk /\ mode' \in {mode, "failed"}
    <2>1. CASE NotExist \/ Fail
      BY <2>1, <1>7, NotExistLeaves
    <2>2. CASE Proceed(w)
      BY <2>2, <1>5, <1>7 DEF Proceed, WalkLeaves, WatchSetIInv, Registered
    <2> QED BY <2>1, <2>2, <1>7
  <1>10. WatchSetTypeOK'
    BY <1>1, <1>7, <1>8, <1>9, WalkTypes DEF WatchSetTypeOK
  <1>11. Registered'
    <2>1. BackendShrinks
      BY <1>7, BackendStays DEF backend
    <2>2. Failed => Failed'
      BY <1>9 DEF Failed
    <2> QED BY <2>1, <2>2, <1>7, <1>9, ShrinkKeeps
  <1> QED BY <1>10, <1>11 DEF WatchSetIInv

\* A walk ends: the next one begins, Run goes on, or the root is not what it was.
LEMMA EndWalkKeeps ==
    ASSUME WatchSetIInv, mode # "failed", EndWalk
    PROVE  WatchSetIInv'
  <1>1. WatchSetTypeOK /\ walk \in Walk
    BY DEF WatchSetIInv, WatchSetTypeOK
  <1>2. walk.pc = "open" /\ UNCHANGED <<world, backend, book, rootID, mismatch, scheduled>>
    BY DEF EndWalk
  <1>3. NoWalk \in Walk /\ NoWalk.pc = "none" /\ NoWalk.why = "event"
    BY KnownPaths, LimitTypes DEF NoWalk, Walk, None
  <1>4. /\ WalkLeaves /\ walk' \in Walk
        /\ mode' \in {"down", "starting", "running", "failed"}
    <2>1. CASE walk.why = "configured" /\ RootValid /\ BeginWalk(Root, "existing") /\ UNCHANGED mode
      <3>1. fs[Root] # None
        BY <2>1 DEF RootValid, WatchSetIInv, Registered, Objects, None
      <3>2. walk' \in Walk /\ walk'.pc = "open" /\ walk'.why = "existing"
        BY <3>1, <2>1, <1>1, KnownPaths, BeginWalkEffect
      <3> QED BY <3>2, <2>1, <1>1, <1>2 DEF WalkLeaves, WatchSetTypeOK
    <2>2. CASE Fail
      BY <2>2, <1>1 DEF Fail, WalkLeaves
    <2>3. CASE walk' = NoWalk /\ mode' \in {mode, "running"}
      BY <2>3, <1>1, <1>2, <1>3 DEF WalkLeaves, WatchSetTypeOK
    <2> QED BY <2>1, <2>2, <2>3 DEF EndWalk, Proceed
  <1>5. WatchSetTypeOK'
    BY <1>1, <1>2, <1>4, WalkTypes DEF WatchSetTypeOK
  <1>6. Registered'
    <2>1. BackendShrinks
      BY <1>2, BackendStays DEF backend
    <2>2. Failed => Failed'
      BY DEF Failed
    <2> QED BY <2>1, <2>2, <1>2, <1>4, ShrinkKeeps
  <1> QED BY <1>5, <1>6 DEF WatchSetIInv

-----------------------------------------------------------------------------
(* The book.                                                                *)

\* The book is finite, as the paths are.
LEMMA BookedFinite ==
    ASSUME NEW B \in SUBSET Paths
    PROVE  IsFiniteSet(B) /\ Cardinality(B) \in Nat
  <1>1. IsFiniteSet(B)
    BY PathsAreFinite, FS_Subset
  <1> QED BY <1>1, FS_CardinalityType

\* Directories are forgotten together with their watches.
LEMMA ForgetKeeps ==
    ASSUME WatchSetIInv, NEW B \in SUBSET Paths, NEW S \in SUBSET Paths, Unwatched(S),
           book' = [p \in Paths |-> IF p \in B THEN None ELSE book[p]],
           \A p \in B : book[p] # None => p \in S,
           UNCHANGED <<walk, rootID>>, walk.pc \in {"none", "check"}, Failed => Failed'
    PROVE  Registered' /\ book' \in [Paths -> 0..MaxObjects]
  <1> USE DEF WatchSetIInv, Registered
  <1>1. book' \in [Paths -> 0..MaxObjects]
    BY LimitTypes DEF WatchSetTypeOK, None
  <1>2. \A p \in Paths : book'[p] # None => book'[p] = book[p] /\ p \notin B
    OBVIOUS
  <1>3. BookInv'
    <2>1. NoAliases'
      BY <1>2 DEF BookInv, NoAliases
    <2>2. Booked' \in SUBSET Booked /\ Booked \in SUBSET Paths
      BY <1>2 DEF Booked
    <2>3. IsFiniteSet(Booked) /\ Cardinality(Booked) \in Nat
      BY <2>2, BookedFinite
    <2>4. IsFiniteSet(Booked') /\ Cardinality(Booked') <= Cardinality(Booked)
      BY <2>2, <2>3, FS_Subset
    <2>5. Cardinality(Booked') \in Nat
      BY <2>4, FS_CardinalityType
    <2> QED BY <2>1, <2>3, <2>4, <2>5, LimitTypes DEF BookInv
  <1>4. BackendShrinks
    BY UnwatchShrinks
  <1>5. WatchesBounded' /\ ArmedAreListed'
    BY <1>4, FewerWatches DEF BackendShrinks
  <1>6. NoWatchLeaks'
    <2> SUFFICES ASSUME NEW p \in Paths, listed'[p] # None, ~Failed'
                 PROVE  book'[p] # None
      BY DEF NoWatchLeaks
    <2>1. p \notin S /\ listed[p] # None
      BY DEF Unwatched
    <2>2. book[p] # None
      BY <2>1 DEF NoWatchLeaks
    <2> QED BY <2>1, <2>2
  <1>7. AddingInv'
    BY DEF AddingInv, Adding
  <1> QED BY <1>1, <1>3, <1>5, <1>6, <1>7

\* removeDirectoryTree, while nothing is being added.
LEMMA RemoveTreeKeeps ==
    ASSUME WatchSetIInv, NEW p, NEW queue \in Seq(Event), RemoveTree(p, queue),
           UNCHANGED <<walk, rootID>>, walk.pc \in {"none", "check"}, Failed => Failed'
    PROVE  /\ Registered' /\ book' \in [Paths -> 0..MaxObjects]
           /\ listed' \in [Paths -> 0..MaxObjects] /\ armed' \subseteq Objects
           /\ events' \in Seq(Event)
  <1>1. PICK B : B = {q \in Paths : Within(p, q)}
    OBVIOUS
  <1>2. PICK S : S = {q \in Paths : Within(p, q) /\ book[q] # None}
    OBVIOUS
  <1>3. B \in SUBSET Paths /\ S \in SUBSET Paths /\ \A q \in B : book[q] # None => q \in S
    BY <1>1, <1>2
  <1>4. book' = [q \in Paths |-> IF q \in B THEN None ELSE book[q]]
    BY <1>1 DEF RemoveTree
  <1>5. Unwatched(S)
    BY <1>2, <1>3, UnwatchEffect DEF RemoveTree, WatchSetIInv
  <1>6. Registered' /\ book' \in [Paths -> 0..MaxObjects]
    BY <1>3, <1>4, <1>5, ForgetKeeps
  <1> QED BY <1>5, <1>6 DEF Unwatched, WatchSetIInv, WatchSetTypeOK

\* CheckDirectory lets a directory be added only if its object is booked nowhere else
\* and, if it is not booked yet, there is room for it.
LEMMA CheckedMayBeAdded ==
    ASSUME WatchSetIInv, mode # "failed", walk.pc = "check",
           UNCHANGED <<world, backend, book, rootID, mismatch, scheduled>>,
           Proceed([walk EXCEPT !.pc = "add"]),
           listed[walk.dir] = None,
           \/ book[walk.dir] = walk.obj
           \/ Aliases = {} /\ ~AtLimit /\ book[walk.dir] = None
    PROVE  WatchSetIInv'
  <1> USE DEF WatchSetIInv, Registered
  <1>1. walk' = [walk EXCEPT !.pc = "add"] /\ mode' = mode /\ walk \in Walk
    BY DEF Proceed, WatchSetTypeOK
  <1>2. /\ walk' \in Walk /\ walk'.pc = "add" /\ walk'.obj = walk.obj /\ walk'.dir = walk.dir
        /\ walk'.why = walk.why /\ walk.dir \in Paths
    BY <1>1 DEF Walk
  <1>3. WatchSetTypeOK'
    BY <1>1, <1>2, WalkTypes DEF WatchSetTypeOK
  <1>4. walk.obj \in Objects
    BY DEF AddingInv
  <1>5. \A p \in Paths : book[p] = walk.obj => p = walk.dir
    <2>1. CASE book[walk.dir] = walk.obj
      BY <2>1, <1>2, <1>4 DEF BookInv, NoAliases, Objects, None
    <2>2. CASE Aliases = {}
      BY <2>2 DEF Aliases
    <2> QED BY <2>1, <2>2
  <1>6. book[walk.dir] = None => Cardinality(Booked) < MaxDirectories
    <2>1. book[walk.dir] = None => ~AtLimit
      BY <1>4 DEF Objects, None
    <2>2. Booked \in SUBSET Paths
      BY DEF Booked
    <2>3. Cardinality(Booked) \in Nat
      BY <2>2, BookedFinite
    <2> QED BY <2>1, <2>3, LimitTypes DEF AtLimit
  <1>7. Booked' = Booked
    BY DEF Booked
  <1>8. AddingInv'
    <2>1. listed' = listed /\ book' = book
      BY DEF backend
    <2> QED BY <2>1, <1>2, <1>4, <1>5, <1>6, <1>7 DEF AddingInv, Adding
  <1>9. NoWatchLeaks'
    BY <1>1 DEF NoWatchLeaks, Failed, backend
  <1>10. BookInv' /\ WatchesBounded' /\ ArmedAreListed'
    BY <1>7 DEF BookInv, NoAliases, WatchesBounded, ArmedAreListed, backend
  <1> QED BY <1>2, <1>3, <1>8, <1>9, <1>10

\* addDirectory up to the watch: look, make room, look again.
LEMMA CheckDirectoryKeeps ==
    ASSUME WatchSetIInv, mode # "failed", CheckDirectory
    PROVE  WatchSetIInv'
  <1>1. /\ WatchSetTypeOK /\ walk \in Walk /\ walk.pc = "check"
        /\ UNCHANGED <<world, rootID, mismatch, scheduled>> /\ walk.dir \in Paths
        /\ walk.obj \in Objects
    BY DEF WatchSetIInv, WatchSetTypeOK, CheckDirectory, Walk, Registered, AddingInv
  <1>2. ~Failed
    BY DEF Failed
  <1>3. CASE (NotExist \/ Fail) /\ UNCHANGED <<backend, book>>
    <2>1. WalkLeaves /\ walk' \in Walk /\ mode' \in {mode, "failed"}
      BY <1>1, <1>3, NotExistLeaves
    <2>2. WatchSetTypeOK'
      BY <2>1, <1>1, <1>3, WalkTypes DEF WatchSetTypeOK
    <2>3. BackendShrinks
      BY <1>3, BackendStays DEF backend
    <2> QED BY <2>1, <2>2, <2>3, <1>1, <1>2, <1>3, ShrinkKeeps DEF WatchSetIInv
  <1>4. CASE /\ book[walk.dir] = walk.obj /\ UNCHANGED <<backend, book>>
             /\ Proceed([walk EXCEPT !.pc = IF listed[walk.dir] # None THEN "read" ELSE "add"])
    <2>1. CASE listed[walk.dir] # None
      <3>1. walk' = [walk EXCEPT !.pc = "read"] /\ mode' = mode
        BY <1>4, <2>1 DEF Proceed
      <3>2. walk' \in Walk /\ walk'.pc = "read" /\ walk'.why = walk.why
        BY <3>1, <1>1 DEF Walk
      <3>3. WatchSetTypeOK'
        BY <3>1, <3>2, <1>1, <1>4, WalkTypes DEF WatchSetTypeOK
      <3>4. BackendShrinks
        BY <1>4, BackendStays DEF backend
      <3>5. WalkLeaves
        BY <3>2, <1>1 DEF WalkLeaves, WatchSetIInv, Registered
      <3> QED BY <3>3, <3>4, <3>5, <1>1, <1>2, <1>4, ShrinkKeeps DEF WatchSetIInv
    <2>2. CASE listed[walk.dir] = None
      BY <2>2, <1>1, <1>4, CheckedMayBeAdded
    <2> QED BY <2>1, <2>2
  <1>5. CASE \E p \in Paths : RemoveTree(p, events) /\ UNCHANGED <<walk, mode>>
    <2>1. PICK p \in Paths : RemoveTree(p, events) /\ UNCHANGED <<walk, mode>>
      BY <1>5
    <2>2. /\ Registered' /\ book' \in [Paths -> 0..MaxObjects]
          /\ listed' \in [Paths -> 0..MaxObjects] /\ armed' \subseteq Objects
          /\ events' \in Seq(Event)
      BY <2>1, <1>1, <1>2, RemoveTreeKeeps DEF WatchSetTypeOK
    <2>3. WatchSetTypeOK'
      BY <2>1, <2>2, <1>1, RunTypes DEF WatchSetTypeOK
    <2> QED BY <2>2, <2>3 DEF WatchSetIInv
  <1>6. CASE /\ Aliases = {} /\ ~AtLimit /\ book[walk.dir] = None
             /\ Proceed([walk EXCEPT !.pc = "add"]) /\ UNCHANGED <<backend, book>>
    <2>1. listed[walk.dir] = None
      BY <1>1, <1>2, <1>6 DEF WatchSetIInv, Registered, NoWatchLeaks
    <2> QED BY <2>1, <1>1, <1>6, CheckedMayBeAdded
  <1>7. \A p \in Aliases : p \in Paths
    BY DEF Aliases
  <1> QED BY <1>1, <1>3, <1>4, <1>5, <1>6, <1>7 DEF CheckDirectory

\* While a directory is being added there is room for its watch: every listed path is
\* booked, the directory itself is not listed yet, and it is booked or has a place.
LEMMA RoomForWatch ==
    ASSUME WatchSetIInv, mode # "failed", walk.pc = "add", NEW o \in Objects
    PROVE  Cardinality(armed \cup {o}) <= MaxDirectories
  <1> USE DEF WatchSetIInv, Registered
  <1>1. walk.dir \in Paths /\ listed[walk.dir] = None
    BY DEF WatchSetTypeOK, Walk, AddingInv
  <1>2. PICK D : D = Booked \ {walk.dir}
    OBVIOUS
  <1>3. D \in SUBSET Paths /\ Booked \in SUBSET Paths
    BY <1>2 DEF Booked
  <1>4. /\ IsFiniteSet(D) /\ Cardinality(D) \in Nat
        /\ IsFiniteSet(Booked) /\ Cardinality(Booked) \in Nat
    BY <1>3, BookedFinite
  <1>5. Cardinality(D) < MaxDirectories
    <2>1. Cardinality(D) = IF walk.dir \in Booked THEN Cardinality(Booked) - 1
                                                  ELSE Cardinality(Booked)
      BY <1>2, <1>4, FS_RemoveElement
    <2>2. CASE walk.dir \in Booked
      BY <2>1, <2>2, <1>4, LimitTypes DEF BookInv
    <2>3. CASE walk.dir \notin Booked
      <3>1. book[walk.dir] = None
        BY <2>3, <1>1 DEF Booked
      <3> QED BY <3>1, <2>1, <2>3 DEF AddingInv, Adding
    <2> QED BY <2>2, <2>3
  <1>6. \A a \in armed : \E p \in D : listed[p] = a
    <2> TAKE a \in armed
    <2>1. PICK p \in Paths : listed[p] = a
      BY DEF ArmedAreListed
    <2>2. a # None
      BY DEF WatchSetTypeOK, Objects, None
    <2>3. book[p] # None
      BY <2>1, <2>2 DEF NoWatchLeaks, Failed
    <2>4. p \in D
      BY <2>1, <2>2, <2>3, <1>1, <1>2 DEF Booked
    <2> QED BY <2>1, <2>4
  <1>7. PICK L : L = {listed[p] : p \in D}
    OBVIOUS
  <1>8. PICK f : f = [p \in D |-> listed[p]]
    OBVIOUS
  <1>9. f \in Surjection(D, L)
    BY <1>7, <1>8 DEF Surjection
  <1>10. IsFiniteSet(L) /\ Cardinality(L) <= Cardinality(D)
    BY <1>4, <1>9, FS_Surjection
  <1>11. armed \in SUBSET L
    BY <1>6, <1>7
  <1>12. IsFiniteSet(armed) /\ Cardinality(armed) <= Cardinality(L)
    BY <1>10, <1>11, FS_Subset
  <1>13. Cardinality(armed) \in Nat /\ Cardinality(L) \in Nat
    BY <1>10, <1>12, FS_CardinalityType
  <1>14. Cardinality(armed \cup {o}) <= Cardinality(armed) + 1
    BY <1>12, <1>13, FS_AddElement
  <1>15. Cardinality(armed \cup {o}) \in Nat
    BY <1>12, FS_AddElement, FS_CardinalityType
  <1> QED BY <1>4, <1>5, <1>10, <1>12, <1>13, <1>14, <1>15, LimitTypes

\* filesystem.Add.
LEMMA AddWatchKeeps ==
    ASSUME WatchSetIInv, mode # "failed", AddWatch
    PROVE  WatchSetIInv'
  <1>1. /\ WatchSetTypeOK /\ walk \in Walk /\ walk.pc = "add" /\ walk.dir \in Paths
        /\ UNCHANGED <<world, events, book, rootID, mismatch, scheduled>>
    BY DEF WatchSetIInv, WatchSetTypeOK, AddWatch, Walk
  <1>2. PICK o : o = fs[walk.dir]
    OBVIOUS
  <1>3. CASE o = None
    <2>1. NotExist /\ UNCHANGED <<listed, armed>>
      BY <1>2, <1>3 DEF AddWatch
    <2>2. WalkLeaves /\ walk' \in Walk /\ mode' \in {mode, "failed"}
      BY <2>1, <1>1, NotExistLeaves
    <2>3. WatchSetTypeOK'
      BY <2>1, <2>2, <1>1, WalkTypes DEF WatchSetTypeOK, backend
    <2>4. BackendShrinks
      BY <2>1, BackendStays
    <2> QED BY <2>2, <2>3, <2>4, <1>1, ShrinkKeeps DEF WatchSetIInv, Failed
  <1>4. CASE o # None
    <2> USE DEF WatchSetIInv, Registered
    <2>1. /\ listed' = [listed EXCEPT ![walk.dir] = o]
          /\ armed' = armed \cup {o}
          /\ walk' = [walk EXCEPT !.pc = "confirm"] /\ mode' = mode
      BY <1>2, <1>4 DEF AddWatch, Proceed
    <2>2. o \in Objects
      BY <1>1, <1>2, <1>4, LimitTypes DEF WatchSetTypeOK, Objects, None
    <2>3. /\ walk' \in Walk /\ walk'.pc = "confirm" /\ walk'.obj = walk.obj
          /\ walk'.dir = walk.dir /\ walk'.why = walk.why
      BY <2>1, <1>1 DEF Walk
    <2>4. WatchSetTypeOK'
      <3>1. listed' \in [Paths -> 0..MaxObjects] /\ armed' \subseteq Objects
        <4>1. o \in 0..MaxObjects
          BY <2>2, LimitTypes DEF Objects
        <4>2. listed \in [Paths -> 0..MaxObjects] /\ armed \subseteq Objects
          BY <1>1 DEF WatchSetTypeOK
        <4>3. listed' \in [Paths -> 0..MaxObjects]
          BY <4>1, <4>2, <2>1
        <4>4. armed' \subseteq Objects
          BY <4>2, <2>1, <2>2
        <4> QED BY <4>3, <4>4
      <3> QED BY <3>1, <2>1, <2>3, <1>1, RunTypes DEF WatchSetTypeOK
    <2>5. Booked' = Booked
      BY <1>1 DEF Booked
    <2>6. AddingInv'
      BY <2>3, <2>5, <1>1 DEF AddingInv, Adding
    <2>7. ArmedAreListed'
      <3> SUFFICES ASSUME NEW a \in armed'
                   PROVE  \E p \in Paths : listed'[p] = a
        BY DEF ArmedAreListed
      <3>1. CASE a = o
        BY <3>1, <2>1, <1>1 DEF WatchSetTypeOK
      <3>2. CASE a # o
        <4>1. a \in armed /\ a # None
          BY <3>2, <2>1, <1>1 DEF WatchSetTypeOK, Objects, None
        <4>2. PICK p \in Paths : listed[p] = a
          BY <4>1 DEF ArmedAreListed
        <4>3. p # walk.dir
          BY <4>1, <4>2, <1>1 DEF AddingInv
        <4> QED BY <4>2, <4>3, <2>1, <1>1 DEF WatchSetTypeOK
      <3> QED BY <3>1, <3>2
    <2>8. BookInv'
      BY <2>5, <1>1 DEF BookInv, NoAliases
    <2>9. NoWatchLeaks'
      BY <2>1, <2>3, <1>1 DEF NoWatchLeaks, Failed, WatchSetTypeOK
    <2>10. WatchesBounded'
      BY <2>1, <2>2, <1>1, RoomForWatch DEF WatchesBounded
    <2> QED BY <2>3, <2>4, <2>6, <2>7, <2>8, <2>9, <2>10, <1>1
  <1> QED BY <1>3, <1>4

\* addDirectory after the watch: the directory is booked, or its watch is undone.
LEMMA ConfirmDirectoryKeeps ==
    ASSUME WatchSetIInv, mode # "failed", ConfirmDirectory
    PROVE  WatchSetIInv'
  <1>1. /\ WatchSetTypeOK /\ walk \in Walk /\ walk.pc = "confirm" /\ walk.dir \in Paths
        /\ UNCHANGED <<world, rootID, mismatch, scheduled>> /\ walk.obj \in Objects
    BY DEF WatchSetIInv, WatchSetTypeOK, ConfirmDirectory, Walk, Registered, AddingInv
  <1>2. CASE Unwatch({walk.dir}, events) /\ (NotExist \/ Fail) /\ UNCHANGED book
    <2>1. Unwatched({walk.dir})
      <3>1. events \in Seq(Event) /\ {walk.dir} \in SUBSET Paths
        BY <1>1 DEF WatchSetTypeOK
      <3> QED BY <3>1, <1>1, <1>2, UnwatchEffect
    <2>2. listed'[walk.dir] = None
      BY <2>1, <1>1 DEF Unwatched
    <2>3. WalkLeaves /\ walk' \in Walk /\ mode' \in {mode, "failed"}
      BY <2>2, <1>1, <1>2, NotExistLeaves
    <2>4. BackendShrinks
      BY <2>1, <1>1, UnwatchShrinks
    <2>5. WatchSetTypeOK'
      BY <2>1, <2>3, <1>1, <1>2, RunTypes DEF WatchSetTypeOK, Unwatched
    <2> QED BY <2>3, <2>4, <2>5, <1>1, <1>2, ShrinkKeeps DEF WatchSetIInv, Failed
  <1>3. CASE /\ book' = [book EXCEPT ![walk.dir] = walk.obj] /\ UNCHANGED backend
             /\ Proceed([walk EXCEPT !.pc = "read"])
    <2> USE DEF WatchSetIInv, Registered
    <2>1. walk' = [walk EXCEPT !.pc = "read"] /\ mode' = mode /\ UNCHANGED <<listed, armed, events>>
      BY <1>3 DEF Proceed, backend
    <2>2. walk' \in Walk /\ walk'.pc = "read" /\ walk'.why = walk.why
      BY <2>1, <1>1 DEF Walk
    <2>3. book' \in [Paths -> 0..MaxObjects]
      BY <1>1, <1>3, LimitTypes DEF WatchSetTypeOK, Objects
    <2>4. WatchSetTypeOK'
      BY <2>1, <2>2, <2>3, <1>1, RunTypes DEF WatchSetTypeOK
    <2>5. \A p \in Paths : book'[p] = IF p = walk.dir THEN walk.obj ELSE book[p]
      BY <1>1, <1>3 DEF WatchSetTypeOK
    <2>6. NoAliases'
      <3>1. \A p \in Paths : book[p] = walk.obj => p = walk.dir
        BY <1>1 DEF AddingInv, Adding
      <3> QED BY <3>1, <2>5 DEF NoAliases, BookInv
    <2>7. IsFiniteSet(Booked') /\ Cardinality(Booked') <= MaxDirectories
      <3>1. Booked' = Booked \cup {walk.dir}
        BY <2>5, <1>1 DEF Booked, Objects, None
      <3>2. Booked \in SUBSET Paths
        BY DEF Booked
      <3>3. IsFiniteSet(Booked) /\ Cardinality(Booked) \in Nat
        BY <3>2, BookedFinite
      <3>4. /\ IsFiniteSet(Booked')
            /\ Cardinality(Booked') = IF walk.dir \in Booked THEN Cardinality(Booked)
                                                             ELSE Cardinality(Booked) + 1
        BY <3>1, <3>3, FS_AddElement
      <3>5. walk.dir \notin Booked => Cardinality(Booked) < MaxDirectories
        BY <1>1 DEF Booked, AddingInv, Adding
      <3> QED BY <3>3, <3>4, <3>5, LimitTypes DEF BookInv
    <2>8. NoWatchLeaks'
      BY <2>1, <2>5, <1>1 DEF NoWatchLeaks, Failed, Objects, None
    <2>9. AddingInv' /\ ArmedAreListed' /\ WatchesBounded'
      BY <2>1, <2>2 DEF AddingInv, Adding, ArmedAreListed, WatchesBounded
    <2> QED BY <2>2, <2>4, <2>6, <2>7, <2>8, <2>9, <1>1 DEF BookInv
  <1> QED BY <1>2, <1>3 DEF ConfirmDirectory

-----------------------------------------------------------------------------
(* Run.                                                                     *)

\* addConfiguredDirectories begins.
LEMMA StartKeeps ==
    ASSUME WatchSetIInv, DownHasNoWalk, Start
    PROVE  WatchSetIInv'
  <1>1. /\ WatchSetTypeOK /\ walk \in Walk /\ mode = "down"
        /\ UNCHANGED <<world, backend, book, mismatch, scheduled>>
    BY DEF WatchSetIInv, WatchSetTypeOK, Start
  <1>2. BackendShrinks
    BY <1>1, BackendStays DEF backend
  <1>3. CASE Fail /\ UNCHANGED rootID
    <2>1. WalkLeaves /\ walk' = walk /\ mode' = "failed" /\ Failed'
      BY <1>3 DEF Fail, WalkLeaves, Failed
    <2>2. WatchSetTypeOK'
      BY <2>1, <1>1, <1>3, WalkTypes DEF WatchSetTypeOK
    <2> QED BY <2>1, <2>2, <1>1, <1>2, <1>3, ShrinkKeeps DEF WatchSetIInv
  <1>4. CASE /\ fs[Root] # None /\ rootID' = fs[Root] /\ mode' = "starting"
             /\ BeginWalk(Root, "configured")
    <2>1. walk' \in Walk /\ walk'.pc = "open" /\ walk'.why = "configured"
      BY <1>1, <1>4, KnownPaths, BeginWalkEffect
    <2>2. rootID' \in Objects /\ rootID' \in 0..MaxObjects
      BY <1>1, <1>4, KnownPaths, LimitTypes DEF WatchSetTypeOK, Objects, None
    <2>3. WatchSetTypeOK'
      BY <2>1, <2>2, <1>1, <1>4, RunTypes DEF WatchSetTypeOK, backend
    <2>4. ~Failed
      BY <1>1 DEF Failed
    <2>5. AddingInv' /\ (walk.why = "configured" => rootID \in Objects)'
      BY <2>1, <2>2 DEF AddingInv, Adding
    <2>6. Booked' = Booked
      BY <1>1 DEF Booked
    <2>7. BookInv' /\ ArmedAreListed' /\ WatchesBounded'
      BY <2>6, <1>1 DEF BookInv, NoAliases, ArmedAreListed, WatchesBounded, backend,
                        WatchSetIInv, Registered
    <2>8. NoWatchLeaks'
      <3>1. walk.pc # "confirm"
        BY <1>1 DEF DownHasNoWalk
      <3> QED BY <3>1, <2>4, <1>1 DEF NoWatchLeaks, backend, WatchSetIInv, Registered
    <2> QED BY <2>3, <2>5, <2>7, <2>8 DEF WatchSetIInv, Registered
  <1> QED BY <1>3, <1>4 DEF Start

\* handleEvent.
LEMMA HandleEventKeeps ==
    ASSUME WatchSetIInv, HandleEvent
    PROVE  WatchSetIInv'
  <1>1. /\ WatchSetTypeOK /\ walk \in Walk /\ mode = "running" /\ walk.pc = "none"
        /\ events # <<>> /\ UNCHANGED <<world, rootID, mismatch>> /\ ~Failed
    BY DEF WatchSetIInv, WatchSetTypeOK, HandleEvent, Waiting, Failed
  <1>2. PICK e : e = Head(events)
    OBVIOUS
  <1>3. PICK queue : queue = Tail(events)
    OBVIOUS
  <1>4. e \in Event /\ queue \in Seq(Event)
    BY <1>1, <1>2, <1>3 DEF WatchSetTypeOK
  <1>5. e.path \in Paths
    BY <1>4 DEF Event
  <1>6. CASE Fail /\ UNCHANGED <<book, backend, scheduled>>
    <2>1. WalkLeaves /\ walk' = walk /\ mode' = "failed"
      BY <1>6 DEF Fail, WalkLeaves
    <2>2. WatchSetTypeOK'
      BY <2>1, <1>1, <1>6, WalkTypes DEF WatchSetTypeOK
    <2>3. BackendShrinks
      BY <1>6, BackendStays DEF backend
    <2> QED BY <2>1, <2>2, <2>3, <1>1, <1>6, ShrinkKeeps DEF WatchSetIInv
  <1>7. CASE /\ RemoveTree(e.path, queue) /\ UNCHANGED scheduled
             /\ IF e.path = Root THEN Fail ELSE UNCHANGED <<walk, mode>>
    <2>1. walk' = walk /\ mode' \in {"running", "failed"}
      BY <1>1, <1>7 DEF Fail
    <2>2. /\ Registered' /\ book' \in [Paths -> 0..MaxObjects]
          /\ listed' \in [Paths -> 0..MaxObjects] /\ armed' \subseteq Objects
          /\ events' \in Seq(Event)
      BY <2>1, <1>1, <1>4, <1>7, RemoveTreeKeeps
    <2>3. WatchSetTypeOK'
      BY <2>1, <2>2, <1>1, <1>7, RunTypes DEF WatchSetTypeOK
    <2> QED BY <2>2, <2>3 DEF WatchSetIInv
  <1>8. CASE /\ events' = queue
             /\ IF fs[e.path] # None THEN BeginWalk(e.path, "event") ELSE UNCHANGED walk
             /\ UNCHANGED <<mode, book, listed, armed, scheduled>>
    <2>1. walk' \in Walk /\ WalkLeaves
      <3>1. CASE fs[e.path] # None
        <4>1. walk' \in Walk /\ walk'.pc = "open" /\ walk'.why = "event"
          BY <3>1, <1>1, <1>5, <1>8, BeginWalkEffect
        <4> QED BY <4>1, <1>1 DEF WalkLeaves
      <3>2. CASE fs[e.path] = None
        BY <3>2, <1>1, <1>8 DEF WalkLeaves
      <3> QED BY <3>1, <3>2
    <2>2. WatchSetTypeOK'
      BY <2>1, <1>1, <1>4, <1>8, RunTypes DEF WatchSetTypeOK
    <2>3. BackendShrinks
      BY <1>8, BackendStays
    <2> QED BY <2>1, <2>2, <2>3, <1>1, <1>8, ShrinkKeeps DEF WatchSetIInv
  <1>9. CASE /\ events' = queue
             /\ scheduled' = IF fs[e.path] \in files
                             THEN scheduled \cup {[path |-> e.path, obj |-> fs[e.path]]}
                             ELSE scheduled
             /\ UNCHANGED <<walk, mode, book, listed, armed>>
    <2>1. scheduled' \subseteq Queued
      <3>1. fs[e.path] \in files => [path |-> e.path, obj |-> fs[e.path]] \in Queued
        BY <1>1, <1>5 DEF WatchSetTypeOK, Queued
      <3> QED BY <3>1, <1>1, <1>9 DEF WatchSetTypeOK
    <2>2. WatchSetTypeOK'
      BY <2>1, <1>1, <1>4, <1>9, RunTypes DEF WatchSetTypeOK
    <2>3. BackendShrinks /\ WalkLeaves
      BY <1>9, BackendStays DEF WalkLeaves
    <2> QED BY <2>2, <2>3, <1>1, <1>9, ShrinkKeeps DEF WatchSetIInv
  <1> QED BY <1>2, <1>3, <1>6, <1>7, <1>8, <1>9 DEF HandleEvent

\* The rootIdentityTicker case.
LEMMA TickKeeps ==
    ASSUME WatchSetIInv, Tick
    PROVE  WatchSetIInv'
  <1>1. /\ WatchSetTypeOK /\ walk \in Walk /\ mode = "running" /\ walk.pc = "none"
        /\ UNCHANGED <<world, rootID, scheduled>> /\ ~Failed
    BY DEF WatchSetIInv, WatchSetTypeOK, Tick, Waiting, Failed
  <1>2. CASE Fail /\ UNCHANGED <<backend, book, mismatch>>
    <2>1. WalkLeaves /\ walk' = walk /\ mode' = "failed"
      BY <1>2 DEF Fail, WalkLeaves
    <2>2. WatchSetTypeOK'
      BY <2>1, <1>1, <1>2, WalkTypes DEF WatchSetTypeOK
    <2>3. BackendShrinks
      BY <1>2, BackendStays DEF backend
    <2> QED BY <2>1, <2>2, <2>3, <1>1, <1>2, ShrinkKeeps DEF WatchSetIInv
  <1>3. CASE Validate
    <2>1. PICK vanished : vanished = {p \in Paths : book[p] # None /\ listed[p] = None /\ fs[p] = None}
      OBVIOUS
    <2>2. PICK below : below = {q \in Paths : \E p \in vanished : Within(p, q)}
      OBVIOUS
    <2>3. PICK S : S = {p \in below : book[p] # None}
                       \cup {p \in Paths : book[p] = None /\ listed[p] # None}
      OBVIOUS
    <2>4. /\ below \in SUBSET Paths /\ S \in SUBSET Paths
          /\ \A p \in below : book[p] # None => p \in S
      BY <2>2, <2>3
    <2>5. book' = [p \in Paths |-> IF p \in below THEN None ELSE book[p]] /\ Unwatch(S, events)
      BY <1>3, <2>1, <2>2, <2>3 DEF Validate
    <2>6. walk' = walk /\ mode' \in {"running", "failed"}
      BY <1>1, <1>3 DEF Validate, Fail
    <2>7. mismatch' \in Seq(Nat)
      <3>1. mismatch' = IF Mismatches = {} THEN <<>> ELSE Least(Mismatches)
        BY <1>3 DEF Validate
      <3>2. Mismatches # {} => Least(Mismatches) \in Seq(Nat)
        BY <1>1, MismatchType
      <3> QED BY <3>1, <3>2
    <2>8. Unwatched(S)
      BY <2>4, <2>5, <1>1, UnwatchEffect DEF WatchSetTypeOK
    <2>9. Registered' /\ book' \in [Paths -> 0..MaxObjects]
      BY <2>4, <2>5, <2>6, <2>8, <1>1, ForgetKeeps
    <2>10. WatchSetTypeOK'
      BY <2>6, <2>7, <2>8, <2>9, <1>1, RunTypes DEF WatchSetTypeOK, Unwatched
    <2> QED BY <2>9, <2>10 DEF WatchSetIInv
  <1> QED BY <1>2, <1>3 DEF Tick

\* Only Start leaves the state before it, and no walk is under way until then.
LEMMA DownKeeps == DownHasNoWalk /\ [Next]_vars => DownHasNoWalk'
  <1> SUFFICES ASSUME DownHasNoWalk, [Next]_vars, mode' = "down"
               PROVE  walk'.pc = "none"
    BY DEF DownHasNoWalk
  <1> USE DEF DownHasNoWalk
  <1>1. CASE Environment
    BY <1>1 DEF Environment, Mkdir, Rmdir, WriteFile, LoseWatch, Rename, RenameAncestor, Change
  <1>2. CASE ReadNotice
    BY <1>2 DEF ReadNotice
  <1>3. CASE Start
    BY <1>3 DEF Start, Fail
  <1>4. CASE WalkStep
    <2>1. walk.pc # "none"
      BY <1>4 DEF WalkStep, OpenDirectory, ReadDirectory, EndWalk, CheckDirectory, AddWatch,
                  ConfirmDirectory
    <2>2. mode # "down"
      BY <2>1
    <2>3. mode' # "down"
      BY <2>2, <1>4 DEF WalkStep, OpenDirectory, ReadDirectory, EndWalk, CheckDirectory, AddWatch,
                        ConfirmDirectory, NotExist, Fail, Proceed
    <2> QED BY <2>3
  <1>5. CASE HandleEvent
    BY <1>5 DEF HandleEvent, Waiting, Fail
  <1>6. CASE Tick
    BY <1>6 DEF Tick, Waiting, Validate, Fail
  <1>7. CASE UNCHANGED vars
    BY <1>7 DEF vars
  <1> QED BY <1>1, <1>2, <1>3, <1>4, <1>5, <1>6, <1>7 DEF Next

-----------------------------------------------------------------------------
(* The theorems.                                                            *)

\* At first nothing is watched and nothing is booked.
LEMMA InitHolds == Init => WatchSetIInv
  <1> SUFFICES ASSUME Init
               PROVE  WatchSetIInv
    OBVIOUS
  <1>1. Nowhere \in [Paths -> 0..MaxObjects] /\ \A p \in Paths : Nowhere[p] = None
    BY LimitTypes DEF Nowhere, None
  <1>2. NoWalk \in Walk /\ NoWalk.pc = "none" /\ NoWalk.why = "event"
    BY KnownPaths, LimitTypes DEF NoWalk, Walk, None
  <1>3. fs \in [Paths -> 0..MaxObjects]
    BY <1>1, KnownPaths, LimitTypes DEF Init
  <1>4. WatchSetTypeOK
    <2>1. events \in Seq(Event) /\ mismatch \in Seq(Nat)
      BY DEF Init
    <2>2. rootID \in 0..MaxObjects /\ made \in 1..MaxObjects /\ changes \in 0..MaxChanges
      BY LimitTypes DEF Init, None
    <2>3. files \subseteq Objects /\ armed \subseteq Objects /\ scheduled \subseteq Queued
      BY DEF Init
    <2> QED BY <2>1, <2>2, <2>3, <1>1, <1>2, <1>3 DEF Init, WatchSetTypeOK
  <1>5. Booked = {}
    BY <1>1 DEF Init, Booked
  <1>6. BookInv
    <2>1. IsFiniteSet({}) /\ Cardinality({}) = 0
      BY FS_EmptySet
    <2> QED BY <2>1, <1>1, <1>5, LimitTypes DEF Init, BookInv, NoAliases
  <1>7. WatchesBounded
    <2>1. Cardinality({}) = 0
      BY FS_EmptySet
    <2> QED BY <2>1, LimitTypes DEF Init, WatchesBounded
  <1>8. NoWatchLeaks /\ ArmedAreListed /\ AddingInv
    BY <1>1, <1>2 DEF Init, NoWatchLeaks, ArmedAreListed, AddingInv, Adding
  <1> QED BY <1>2, <1>4, <1>6, <1>7, <1>8 DEF Init, WatchSetIInv, Registered

\* Every step keeps the inductive invariant.
LEMMA NextKeeps == WatchSetIInv /\ DownHasNoWalk /\ [Next]_vars => WatchSetIInv'
  <1> SUFFICES ASSUME WatchSetIInv, DownHasNoWalk, [Next]_vars
               PROVE  WatchSetIInv'
    OBVIOUS
  <1>1. CASE Environment
    BY <1>1, MkdirKeeps, RmdirKeeps, WriteFileKeeps, LoseWatchKeeps, RenameKeeps,
       RenameAncestorKeeps DEF Environment
  <1>2. CASE WalkStep
    BY <1>2, OpenDirectoryKeeps, ReadDirectoryKeeps, EndWalkKeeps, CheckDirectoryKeeps,
       AddWatchKeeps, ConfirmDirectoryKeeps DEF WalkStep
  <1>3. CASE ReadNotice \/ Start \/ HandleEvent \/ Tick
    BY <1>3, ReadNoticeKeeps, StartKeeps, HandleEventKeeps, TickKeeps
  <1>4. CASE UNCHANGED vars
    BY <1>4 DEF vars, WatchSetIInv, WatchSetTypeOK, Registered, AddingInv, Adding, ArmedAreListed,
                BookInv, Booked, NoAliases, NoWatchLeaks, Failed, WatchesBounded
  <1> QED BY <1>1, <1>2, <1>3, <1>4 DEF Next

\* The inductive invariant holds throughout.
THEOREM WatchSetConsistent == Spec => []WatchSetIInv
  <1>1. Init => DownHasNoWalk
    BY DEF Init, NoWalk, DownHasNoWalk
  <1> QED BY <1>1, InitHolds, NextKeeps, DownKeeps, PTL DEF Spec

\* The book is sound, whatever happens to the tree between two looks at it: the types
\* are right, no object is booked under two paths (addDirectory removes the stale entry
\* first), and the backend never holds more watches than maxWatchedDirectories.
THEOREM WatchSetSafe == Spec => []WatchSetInv
  <1>1. WatchSetIInv => WatchSetInv
    BY DEF WatchSetIInv, Registered, BookInv, WatchSetInv
  <1> QED BY <1>1, WatchSetConsistent, PTL

\* Every watch that addDirectory asks the backend for is in the book, about to be put
\* there, or undone: none is left behind while the instance runs.
THEOREM WatchSetNoWatchLeaks == Spec => []NoWatchLeaks
  <1>1. WatchSetIInv => NoWatchLeaks
    BY DEF WatchSetIInv, Registered
  <1> QED BY <1>1, WatchSetConsistent, PTL

=============================================================================

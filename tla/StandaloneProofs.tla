-------------------------- MODULE StandaloneProofs --------------------------
(***************************************************************************)
(* Proofs about Standalone, for any number of configurations, any finite   *)
(* or infinite set of keys, any graphs of references and any databases.    *)
(***************************************************************************)
EXTENDS Standalone, WellFoundedInduction, SequenceTheorems, TLAPS

Frames == [key : Keys, seen : SUBSET Keys, text : SUBSET Keys]

\* The walk over the references.
LoadInv ==
    /\ values \in [Configs -> [Keys -> SUBSET Keys]]
    /\ current \in 1..N + 1
    /\ pc = "load" => current \in Configs
    /\ mark \in [Keys -> 0..2]
    /\ stack \in Seq(Frames)
    /\ resolved \in [Keys -> SUBSET Keys]

\* Where two paths reach one file, a look that found it is followed by no look that does
\* not, and one that found it is right.
LooksAgree ==
    (stats # <<>> /\ Same) =>
            /\ \A i, j \in DOMAIN stats : (i <= j /\ stats[i] = "present") => stats[j] = "present"
            /\ \A i \in DOMAIN stats : stats[i] = "present" => database[pair[1]] \in exists

\* The pairs before the current one reach different files.
PairsDiffer ==
    \A c, d \in Configs :
        (c < d /\ (d < pair[2] \/ (d = pair[2] /\ c < pair[1]))) => database[c] # database[d]

\* The comparison.
CompareInv ==
    /\ database \in [Configs -> Databases] /\ exists \subseteq Databases
    /\ pair \in (1..N) \X (2..N + 1) /\ pair[1] < pair[2]
    /\ stats \in Seq({"present", "missing"}) /\ Len(stats) <= 4
    /\ Len(stats) > 2 => stats[1] # stats[2]
    /\ pair[2] > N => stats = <<>>
    /\ LooksAgree
    /\ PairsDiffer

Runners == [pc : {"none", "running", "returned", "collected"}, err : SUBSET Causes]

\* RunMany: a failure that was collected is reported.
RunInv ==
    /\ runner \in [Configs -> Runners]
    /\ results \in Seq(Configs)
    /\ cancelled \subseteq {"parent", "child"} /\ reported \subseteq Configs
    /\ pc = "run" => pair[2] > N
    /\ \A c \in Configs :
          /\ runner[c].pc = "running" => pc = "run"
          /\ runner[c].pc \in {"none", "running"} => runner[c].err = {}
          /\ runner[c].pc # "none" => pc \in {"run", "exited"} /\ pair[2] > N
          /\ (runner[c].pc = "collected" /\ "failed" \in runner[c].err) => c \in reported

\* The command that succeeds has collected every runner it started.
ExitInv ==
    /\ pc \in {"load", "compare", "run", "exited"}
    /\ exit \in {-1, 0, 1}
    /\ exit # -1 => pc = "exited"
    /\ exit = 0 => \A c \in Configs : "failed" \notin runner[c].err

StandaloneIInv == LoadInv /\ CompareInv /\ RunInv /\ ExitInv

\* The references of the configuration that is being loaded.
Graph == values[current]

\* A key that was resolved refers to resolved keys only, holds what it reaches, and is on
\* no cycle.
KeyRight(k) ==
    mark[k] = 2 =>
        /\ \A l \in Graph[k] : mark[l] = 2
        /\ resolved[k] = Reach(Graph, k)
        /\ \A l \in Graph[k] : k \notin Reach(Graph, l)

\* A frame has put together the values its key refers to as far as they were seen.
FrameRight(f) ==
    /\ mark[f.key] = 1
    /\ f.seen \subseteq Graph[f.key]
    /\ \A l \in f.seen : mark[l] = 2
    /\ f.text = {f.key} \cup UNION {resolved[l] : l \in f.seen}

\* The stack is a path of references over the keys marked 1, each of them once.
PathRight ==
    /\ \A i, j \in DOMAIN stack : stack[i].key = stack[j].key => i = j
    /\ \A k \in Keys : mark[k] = 1 => \E i \in DOMAIN stack : stack[i].key = k
    /\ \A i \in DOMAIN stack : i + 1 \in DOMAIN stack =>
                                  stack[i + 1].key \in Graph[stack[i].key]

\* The depth-first walk of the configuration that is being loaded.
WalkInv ==
    pc = "load" =>
        /\ cycle = <<>>
        /\ \A k \in Keys : KeyRight(k)
        /\ \A i \in DOMAIN stack : FrameRight(stack[i])
        /\ PathRight

\* What is reported as a cycle is one.
CycleRight ==
    cycle # <<>> => /\ cycle[1] = cycle[Len(cycle)] /\ Len(cycle) > 1
                    /\ \A i \in 1..Len(cycle) - 1 : cycle[i + 1] \in Graph[cycle[i]]

-----------------------------------------------------------------------------
(* Operators.                                                               *)

\* Every non-empty set of keys has a least one, so a walk always knows where to go on.
LEMMA SmallestIsMember ==
    ASSUME NEW S \in SUBSET Keys, S # {}
    PROVE  Smallest(S) \in S
  <1>1. S \subseteq Nat
    BY StandaloneAssumption
  <1>2. PICK k \in S : \A l \in S : ~ (<<l, k>> \in OpToRel(<, Nat))
    BY <1>1, WFMin, NatLessThanWellFounded, Zenon
  <1>3. \A l \in S : k <= l
    <2> TAKE l \in S
    <2>1. k \in Nat /\ l \in Nat
      BY <1>1
    <2>2. ~(l < k)
      BY <1>2, <2>1 DEF OpToRel
    <2> QED BY <2>1, <2>2
  <1> QED BY <1>2, <1>3, Zenon DEF Smallest

\* What a configuration refers to are keys.
LEMMA ReferencesAreKeys ==
    ASSUME LoadInv, pc = "load", NEW k \in Keys
    PROVE  References(k) \subseteq Keys
  BY DEF LoadInv, References

\* The frame on top of a stack that is not empty, and what is below it.
LEMMA TopAndBelow ==
    ASSUME LoadInv, stack # <<>>
    PROVE  Top \in Frames /\ Below \in Seq(Frames)
  <1>1. stack \in Seq(Frames) /\ Len(stack) \in Nat /\ Len(stack) > 0
    BY DEF LoadInv
  <1>2. Top \in Frames
    BY <1>1 DEF Top
  <1>3. Below \in Seq(Frames)
    BY <1>1 DEF Below
  <1> QED BY <1>2, <1>3

-----------------------------------------------------------------------------
(* Loading.                                                                 *)

\* A call for a key pushes a frame.
LEMMA EnterKeeps ==
    ASSUME LoadInv, NEW k \in Keys, Enter(k)
    PROVE  mark' \in [Keys -> 0..2] /\ stack' \in Seq(Frames)
  <1>1. Frame(k) \in Frames
    BY DEF Frame, Frames
  <1>2. mark' \in [Keys -> 0..2]
    BY DEF Enter, LoadInv
  <1>3. stack' \in Seq(Frames)
    BY <1>1 DEF Enter, LoadInv
  <1> QED BY <1>2, <1>3

\* The walk keeps its stack, its marks and its results well-formed.
LEMMA LoadKeepsLoad ==
    ASSUME LoadInv, Load
    PROVE  LoadInv'
  <1>1. CASE NextKey
    <2>1. PICK k \in Keys : Enter(k)
      BY <1>1 DEF NextKey
    <2> QED BY <1>1, <2>1, EnterKeeps DEF NextKey, LoadInv
  <1>2. CASE Visit
    <2>1. PICK k : k = Smallest(ToVisit)
      OBVIOUS
    <2>2. k \in Keys
      <3>1. Top.key \in Keys
        BY <1>2, TopAndBelow DEF Visit, Frames
      <3>2. ToVisit \in SUBSET Keys /\ ToVisit # {}
        BY <1>2, <3>1, ReferencesAreKeys DEF ToVisit, Visit
      <3> QED BY <2>1, <3>2, SmallestIsMember
    <2>3. UNCHANGED <<values, current, resolved>> /\ (pc' = pc \/ pc' = "exited")
      BY <1>2 DEF Visit, Leave
    <2>4. mark' \in [Keys -> 0..2] /\ stack' \in Seq(Frames)
      <3>1. CASE /\ stack' = Append(Below, [Top EXCEPT !.seen = @ \cup {k},
                                                       !.text = @ \cup Replacement(k)])
                 /\ UNCHANGED mark
        <4>1. Top \in Frames /\ Below \in Seq(Frames) /\ Replacement(k) \subseteq Keys
          BY <1>2, <2>2, TopAndBelow DEF Visit, Replacement, LoadInv
        <4>2. [Top EXCEPT !.seen = @ \cup {k}, !.text = @ \cup Replacement(k)] \in Frames
          BY <2>2, <4>1 DEF Frames
        <4> QED BY <3>1, <4>1, <4>2 DEF LoadInv
      <3>2. CASE Enter(k)
        BY <2>2, <3>2, EnterKeeps
      <3>3. CASE UNCHANGED <<mark, stack>>
        BY <3>3 DEF LoadInv
      <3> QED BY <1>2, <2>1, <3>1, <3>2, <3>3 DEF Visit
    <2> QED BY <2>3, <2>4 DEF LoadInv
  <1>3. CASE Resolved
    <2>1. Top \in Frames /\ Below \in Seq(Frames)
      BY <1>3, TopAndBelow DEF Resolved
    <2>2. Top.key \in Keys /\ Top.text \in SUBSET Keys
      BY <2>1 DEF Frames
    <2>3. resolved' \in [Keys -> SUBSET Keys] /\ mark' \in [Keys -> 0..2] /\ stack' \in Seq(Frames)
      BY <1>3, <2>1, <2>2 DEF Resolved, LoadInv
    <2> QED BY <1>3, <2>3 DEF Resolved, LoadInv
  <1>4. CASE Loaded
    <2>1. current' \in 1..N + 1 /\ (pc' = "load" => current' \in Configs)
      BY <1>4, StandaloneAssumption DEF Loaded, AllResolved, LoadInv, Configs
    <2>2. mark' \in [Keys -> 0..2] /\ resolved' \in [Keys -> SUBSET Keys]
      BY <1>4 DEF Loaded
    <2> QED BY <1>4, <2>1, <2>2 DEF Loaded, LoadInv
  <1> QED BY <1>1, <1>2, <1>3, <1>4 DEF Load

\* The walk touches neither the databases nor the runners, and ends the command only
\* with an error.
LEMMA LoadFrame ==
    ASSUME Load \/ LoadFails
    PROVE  /\ UNCHANGED <<database, exists, pair, stats, runner, results, reported, cancelled>>
           /\ pc = "load"
           /\ \/ pc' \in {"load", "compare"} /\ exit' = exit
              \/ pc' = "exited" /\ exit' = 1
  BY DEF Load, NextKey, Visit, Resolved, Loaded, AllResolved, LoadFails, Leave, comparing, running

-----------------------------------------------------------------------------
(* Comparing.                                                               *)

\* A look sees the file of the path on its side.
LEMMA LookKeeps ==
    ASSUME CompareInv, Look
    PROVE  CompareInv'
  <1>1. /\ pair[2] <= N /\ pair[1] \in Configs /\ pair[2] \in Configs /\ N \in Nat
    BY StandaloneAssumption DEF CompareInv, Look, Compared, Configs
  <1>2. UNCHANGED <<database, exists, pair>>
    BY DEF Look
  <1>3. PICK side \in {1, 2} : side = (Len(stats) % 2) + 1
    BY DEF CompareInv
  <1>4. PICK seen \in {"present", "missing"} :
             /\ seen = Stat(side)
             /\ seen = "present" <=> database[pair[side]] \in exists
    BY DEF Stat
  <1>5. stats' = Append(stats, seen)
    BY <1>3, <1>4 DEF Look
  <1>6. stats \in Seq({"present", "missing"}) /\ Len(stats) \in Nat /\ Len(stats) <= 3
        /\ (Len(stats) \in {2, 3} => stats[1] # stats[2])
    <2>1. stats \in Seq({"present", "missing"})
      BY DEF CompareInv
    <2>2. Len(stats) \in Nat
      BY <2>1
    <2>3. LookAgain
      BY DEF Look
    <2>4. Len(stats) < 2 \/ Len(stats) \in {2, 3}
      BY <2>3 DEF LookAgain
    <2>5. \A n \in Nat : (n < 2 \/ n \in {2, 3}) => n <= 3
      OBVIOUS
    <2>6. \A n \in Nat : n \in {2, 3} => ~(n < 2)
      OBVIOUS
    <2>7. Len(stats) <= 3
      BY <2>2, <2>4, <2>5
    <2>8. Len(stats) \in {2, 3} => SecondLook
      BY <2>2, <2>3, <2>6, Zenon DEF LookAgain
    <2> QED BY <2>1, <2>2, <2>7, <2>8, Zenon DEF SecondLook
  <1>7. /\ stats' \in Seq({"present", "missing"}) /\ Len(stats') = Len(stats) + 1
        /\ \A i \in 1..Len(stats) : stats'[i] = stats[i]
        /\ stats'[Len(stats) + 1] = seen
        /\ DOMAIN stats' = 1..Len(stats) + 1 /\ DOMAIN stats = 1..Len(stats)
    BY <1>5, <1>6
  <1>8. Len(stats') <= 4 /\ (Len(stats') > 2 => stats'[1] # stats'[2])
    BY <1>6, <1>7
  <1>9. LooksAgree'
    <2> SUFFICES ASSUME Same
                 PROVE  /\ \A i, j \in DOMAIN stats' :
                              (i <= j /\ stats'[i] = "present") => stats'[j] = "present"
                        /\ \A i \in DOMAIN stats' :
                              stats'[i] = "present" => database[pair[1]] \in exists
      BY <1>2 DEF LooksAgree, Same
    <2>1. seen = "present" <=> database[pair[1]] \in exists
      BY <1>3, <1>4 DEF Same
    <2>2. ASSUME NEW i \in DOMAIN stats', stats'[i] = "present"
          PROVE  database[pair[1]] \in exists
      <3>1. CASE i \in 1..Len(stats)
        BY <1>7, <2>2, <3>1 DEF CompareInv, LooksAgree
      <3>2. CASE i = Len(stats) + 1
        BY <1>7, <2>1, <2>2, <3>2
      <3> QED BY <1>6, <1>7, <3>1, <3>2
    <2>3. ASSUME NEW i \in DOMAIN stats', NEW j \in DOMAIN stats', i <= j, stats'[i] = "present"
          PROVE  stats'[j] = "present"
      <3>1. CASE j = Len(stats) + 1
        BY <1>7, <2>1, <2>2, <2>3, <3>1
      <3>2. CASE j \in 1..Len(stats)
        <4>1. i \in 1..Len(stats)
          BY <1>6, <1>7, <2>3, <3>2
        <4> QED BY <1>7, <2>3, <3>2, <4>1 DEF CompareInv, LooksAgree
      <3> QED BY <1>6, <1>7, <3>1, <3>2
    <2> QED BY <2>2, <2>3
  <1>10. PairsDiffer'
    BY <1>2 DEF CompareInv, PairsDiffer
  <1>11. pair[2] \in Nat /\ ~(pair[2] > N)
    BY <1>1 DEF Configs
  <1> QED BY <1>2, <1>7, <1>8, <1>9, <1>10, <1>11 DEF CompareInv

\* Two paths that are taken for different ones do not reach one file: the database may
\* have been created between any two looks.
LEMMA VerdictIsRight ==
    ASSUME CompareInv, Verdict, Differ
    PROVE  ~Same
  <1> SUFFICES ASSUME Same PROVE FALSE
    OBVIOUS
  <1>1. /\ stats \in Seq({"present", "missing"}) /\ Len(stats) \in Nat /\ Len(stats) <= 4
        /\ Len(stats) >= 2
        /\ ~(Len(stats) \in {2, 3} /\ stats[1] # stats[2])
        /\ Len(stats) > 2 => stats[1] # stats[2]
    BY DEF CompareInv, Verdict, LookAgain, SecondLook
  <1>2. Len(stats) = 2 \/ Len(stats) = 4
    <2>1. Len(stats) \in {2, 3, 4}
      <3>1. PICK n \in Nat : n = Len(stats) /\ n <= 4 /\ n >= 2
        BY <1>1
      <3>2. n = 2 \/ n = 3 \/ n = 4
        BY ONLY <3>1, n \in Nat
      <3> QED BY <3>1, <3>2
    <2>2. Len(stats) # 3
      BY <1>1
    <2> QED BY <2>1, <2>2
  <1>3. LastLook[1] = stats[Len(stats) - 1] /\ LastLook[2] = stats[Len(stats)]
    BY <1>1 DEF LastLook
  <1>4. LastLook[1] = LastLook[2]
    <2>1. CASE Len(stats) = 2
      BY <1>1, <1>3, <2>1
    <2>2. CASE Len(stats) = 4
      <3>1. PICK i \in {1, 2} : stats[i] = "present"
        <4>1. stats[1] \in {"present", "missing"} /\ stats[2] \in {"present", "missing"}
          <5>1. 1 \in 1..Len(stats) /\ 2 \in 1..Len(stats)
            BY <2>2
          <5>2. \A k \in 1..Len(stats) : stats[k] \in {"present", "missing"}
            BY <1>1
          <5> QED BY <5>1, <5>2
        <4> QED BY <1>1, <2>2, <4>1
      <3>2. stats # <<>> /\ DOMAIN stats = 1..4
        BY <1>1, <2>2
      <3>3. stats[3] = "present" /\ stats[4] = "present"
        BY <3>1, <3>2 DEF CompareInv, LooksAgree
      <3> QED BY <1>3, <2>2, <3>3
    <2> QED BY <1>2, <2>1, <2>2
  <1>5. ~(pc' = "exited" /\ pc = "compare")
    BY DEF Differ
  <1>6. SameName
    BY DEF Same, SameName
  <1> QED BY <1>4, <1>5, <1>6 DEF Verdict, Compared, Leave

\* The comparison goes on with the next pair only after the right verdict.
LEMMA VerdictKeeps ==
    ASSUME CompareInv, Verdict
    PROVE  /\ CompareInv'
           /\ pc = "compare"
           /\ \/ pc' = pc /\ exit' = exit
              \/ pc' = "exited" /\ exit' = 1 /\ UNCHANGED pair
  <1>1. /\ pair[2] <= N /\ pair[1] \in Configs /\ pair[2] \in Configs /\ N \in Nat \ {0}
        /\ pair[1] < pair[2] /\ pc = "compare"
    BY StandaloneAssumption DEF CompareInv, Verdict, Compared, Configs
  <1>2. UNCHANGED <<database, exists>>
    BY DEF Verdict
  <1>3. CASE Differ
    <2>1. ~Same /\ pair' = NextPair /\ stats' = <<>> /\ pc' = pc /\ exit' = exit
      BY <1>3, VerdictIsRight DEF Differ
    <2>2. \/ pair[1] + 1 < pair[2] /\ pair' = <<pair[1] + 1, pair[2]>>
          \/ pair[1] + 1 = pair[2] /\ pair' = <<1, pair[2] + 1>>
      BY <1>1, <2>1 DEF NextPair, Configs
    <2>3. pair' \in (1..N) \X (2..N + 1) /\ pair'[1] < pair'[2]
      BY <1>1, <2>2 DEF Configs
    <2>4. stats' \in Seq({"present", "missing"}) /\ Len(stats') = 0
      BY <2>1
    <2>5. LooksAgree'
      BY <2>1 DEF LooksAgree
    <2>6. PairsDiffer'
      <3> SUFFICES ASSUME NEW c \in Configs, NEW d \in Configs, c < d,
                          d < pair'[2] \/ (d = pair'[2] /\ c < pair'[1])
                   PROVE  database[c] # database[d]
        BY <1>2 DEF PairsDiffer
      <3>1. \/ d < pair[2]
            \/ d = pair[2] /\ c < pair[1]
            \/ d = pair[2] /\ c = pair[1]
        BY <1>1, <2>2 DEF Configs
      <3> QED BY <2>1, <3>1 DEF CompareInv, PairsDiffer, Same
    <2> QED BY <1>1, <1>2, <2>1, <2>3, <2>4, <2>5, <2>6 DEF CompareInv
  <1>4. CASE Leave(1) /\ UNCHANGED comparing
    <2>1. UNCHANGED <<database, exists, pair, stats>> /\ pc' = "exited" /\ exit' = 1
      BY <1>2, <1>4 DEF comparing, Leave
    <2> QED BY <1>1, <2>1 DEF CompareInv, LooksAgree, PairsDiffer, Same
  <1> QED BY <1>3, <1>4 DEF Verdict

\* A database that appears makes no look wrong.
LEMMA CreateKeeps ==
    ASSUME CompareInv, NEW d \in Databases, CreateDatabase(d)
    PROVE  CompareInv'
  <1>1. UNCHANGED <<database, pair, stats>> /\ exists \subseteq exists' /\ exists' \subseteq Databases
    BY DEF CreateDatabase, comparing, CompareInv
  <1>2. LooksAgree'
    BY <1>1 DEF CompareInv, LooksAgree, Same
  <1>3. PairsDiffer'
    BY <1>1 DEF CompareInv, PairsDiffer
  <1> QED BY <1>1, <1>2, <1>3 DEF CompareInv

-----------------------------------------------------------------------------
(* Running.                                                                 *)

\* The runners are launched when every pair has been compared.
LEMMA LaunchKeeps ==
    ASSUME StandaloneIInv, Launch
    PROVE  RunInv' /\ ExitInv'
  <1>1. /\ pc = "compare" /\ pair[2] > N
        /\ UNCHANGED <<pair, results, cancelled, reported>>
    BY DEF Launch, comparing
  <1>2. \A c \in Configs : runner[c].pc = "none" /\ runner[c].err = {}
    BY <1>1 DEF StandaloneIInv, RunInv, Runners
  <1>3. CASE Leave(0) /\ UNCHANGED runner
    <2>1. RunInv'
      BY <1>1, <1>2, <1>3 DEF StandaloneIInv, RunInv, Leave
    <2>2. ExitInv'
      BY <1>2, <1>3 DEF ExitInv, Leave
    <2> QED BY <2>1, <2>2
  <1>4. CASE /\ pc' = "run" /\ UNCHANGED exit
             /\ runner' = [c \in Configs |-> [pc |-> "running", err |-> {}]]
    <2>1. runner' \in [Configs -> Runners]
      BY <1>4 DEF Runners
    <2>2. \A c \in Configs : runner'[c].pc = "running" /\ runner'[c].err = {}
      BY <1>4
    <2>3. RunInv'
      BY <1>1, <1>4, <2>1, <2>2 DEF StandaloneIInv, RunInv
    <2>4. ExitInv'
      BY <1>1, <1>4, <2>2 DEF StandaloneIInv, ExitInv
    <2> QED BY <2>3, <2>4
  <1> QED BY <1>3, <1>4 DEF Launch

\* A runner returns while the command is running, with whatever error.
LEMMA RunnerKeeps ==
    ASSUME StandaloneIInv, NEW c \in Configs, NEW err \in SUBSET Causes, RunnerReturns(c, err)
    PROVE  RunInv' /\ ExitInv'
  <1>1. pc = "run" /\ pair[2] > N
    BY DEF StandaloneIInv, RunInv, RunnerReturns
  <1>2. /\ runner' \in [Configs -> Runners]
        /\ runner'[c].pc = "returned"
        /\ \A d \in Configs \ {c} : runner'[d] = runner[d]
        /\ results' \in Seq(Configs)
    BY DEF StandaloneIInv, RunInv, RunnerReturns, Runners
  <1>3. UNCHANGED <<pc, pair, cancelled, reported, exit>>
    BY DEF RunnerReturns, comparing
  <1>4. RunInv'
    BY <1>1, <1>2, <1>3 DEF StandaloneIInv, RunInv
  <1>5. ExitInv'
    BY <1>1, <1>3 DEF StandaloneIInv, ExitInv
  <1> QED BY <1>4, <1>5

\* A result is collected; a failure among it is reported, whoever was cancelled.
LEMMA CollectKeeps ==
    ASSUME StandaloneIInv, Collect
    PROVE  RunInv' /\ ExitInv'
  <1>0. /\ pc = "run" /\ results # <<>> /\ results' = Tail(results)
        /\ UNCHANGED <<pc, pair, exit>>
    BY DEF Collect, comparing
  <1>1. results \in Seq(Configs) /\ results[1] \in Configs /\ results' \in Seq(Configs)
    BY <1>0 DEF StandaloneIInv, RunInv
  <1>2. PICK c \in Configs : c = results[1]
    BY <1>1
  <1>3. /\ runner' = [runner EXCEPT ![c].pc = "collected"]
        /\ reported' = reported \/ reported' = reported \cup {c}
        /\ cancelled' = cancelled \/ cancelled' = cancelled \cup {"child"}
    BY <1>2 DEF Collect, CancelSiblings
  <1>4. "failed" \in runner[c].err => c \in reported'
    BY <1>2 DEF Collect, IsCancellationFrom
  <1>5. /\ runner' \in [Configs -> Runners]
        /\ runner'[c].pc = "collected" /\ runner'[c].err = runner[c].err
        /\ \A d \in Configs \ {c} : runner'[d] = runner[d]
    BY <1>3 DEF StandaloneIInv, RunInv, Runners
  <1>6. pair[2] > N
    BY <1>0 DEF StandaloneIInv, RunInv
  <1>7. RunInv'
    BY <1>0, <1>1, <1>3, <1>4, <1>5, <1>6 DEF StandaloneIInv, RunInv
  <1>8. ExitInv'
    BY <1>0 DEF StandaloneIInv, ExitInv
  <1> QED BY <1>7, <1>8

\* The command returns when all are collected, and with success only if none failed.
LEMMA ReturnKeeps ==
    ASSUME StandaloneIInv, Return
    PROVE  RunInv' /\ ExitInv'
  <1>1. /\ UNCHANGED <<pair, runner, results, reported, cancelled>>
        /\ pc = "run" /\ pc' = "exited" /\ exit' \in {0, 1}
    BY DEF Return, Leave, comparing, running
  <1>2. \A c \in Configs : runner[c].pc = "collected"
    BY DEF Return, AllCollected
  <1>3. ASSUME exit' = 0, NEW c \in Configs PROVE "failed" \notin runner[c].err
    <2>1. {d \in reported : ~IsCancellationFrom(runner[d].err, "parent")} = {}
      BY <1>3 DEF Return, Leave
    <2>2. "failed" \in runner[c].err => c \in reported
      BY <1>2 DEF StandaloneIInv, RunInv
    <2>3. "failed" \in runner[c].err => ~IsCancellationFrom(runner[c].err, "parent")
      BY DEF IsCancellationFrom
    <2> QED BY <2>1, <2>2, <2>3
  <1>4. RunInv'
    BY <1>1, <1>2 DEF StandaloneIInv, RunInv
  <1>5. ExitInv'
    BY <1>1, <1>3 DEF ExitInv
  <1> QED BY <1>4, <1>5

\* The invariant holds at first, whatever the configurations say and name.
LEMMA StandaloneInitHolds == Init => StandaloneIInv
  <1> SUFFICES ASSUME Init PROVE StandaloneIInv
    OBVIOUS
  <1>0. N \in Nat \ {0} /\ Values \in [Configs -> SUBSET [Keys -> SUBSET Keys]]
    BY StandaloneAssumption DEF Configs
  <1>1. LoadInv
    <2>1. values \in [Configs -> [Keys -> SUBSET Keys]]
      <3>1. PICK v \in [Configs -> UNION {Values[c] : c \in Configs}] :
                 values = v /\ \A c \in Configs : v[c] \in Values[c]
        BY DEF Init
      <3>2. \A c \in Configs : v[c] \in [Keys -> SUBSET Keys]
        BY <1>0, <3>1
      <3> QED BY <3>1, <3>2
    <2>2. current \in 1..N + 1 /\ current \in Configs
      BY <1>0 DEF Init, Configs
    <2>3. mark \in [Keys -> 0..2] /\ resolved \in [Keys -> SUBSET Keys] /\ stack \in Seq(Frames)
      BY DEF Init
    <2> QED BY <2>1, <2>2, <2>3 DEF LoadInv
  <1>2. CompareInv
    <2>1. pair = <<1, 2>> /\ stats = <<>>
      BY DEF Init
    <2>2. pair \in (1..N) \X (2..N + 1) /\ pair[1] < pair[2]
      BY <1>0, <2>1
    <2>3. LooksAgree
      BY <2>1 DEF LooksAgree
    <2>4. PairsDiffer
      BY <1>0, <2>1 DEF PairsDiffer, Configs
    <2>5. stats \in Seq({"present", "missing"}) /\ Len(stats) = 0
      BY <2>1
    <2>6. database \in [Configs -> Databases] /\ exists \subseteq Databases
      BY DEF Init
    <2> QED BY <2>1, <2>2, <2>3, <2>4, <2>5, <2>6 DEF CompareInv
  <1>3. \A c \in Configs : runner[c] = [pc |-> "none", err |-> {}]
    BY DEF Init, NotYet
  <1>4. RunInv
    <2>1. runner \in [Configs -> Runners]
      BY DEF Init, NotYet, Runners
    <2>2. results \in Seq(Configs) /\ cancelled = {} /\ reported = {} /\ pc = "load"
      BY DEF Init
    <2> QED BY <1>3, <2>1, <2>2 DEF RunInv
  <1>5. ExitInv
    BY <1>3 DEF Init, ExitInv
  <1> QED BY <1>1, <1>2, <1>4, <1>5 DEF StandaloneIInv

\* Every behaviour of the command keeps its three phases sound.
THEOREM StandaloneConsistent == Spec => []StandaloneIInv
  <1>1. StandaloneIInv /\ [Next]_vars => StandaloneIInv'
    <2> SUFFICES ASSUME StandaloneIInv, [Next]_vars PROVE StandaloneIInv'
      OBVIOUS
    <2>0. LoadInv /\ CompareInv /\ RunInv /\ ExitInv
      BY DEF StandaloneIInv
    <2>1. CASE Load \/ LoadFails
      <3>1. /\ UNCHANGED <<database, exists, pair, stats, runner, results, reported, cancelled>>
            /\ pc = "load"
            /\ \/ pc' \in {"load", "compare"} /\ exit' = exit
               \/ pc' = "exited" /\ exit' = 1
        BY <2>1, LoadFrame
      <3>2. LoadInv'
        <4>1. CASE LoadFails
          BY <2>0, <4>1 DEF LoadFails, Leave, loading, LoadInv
        <4> QED BY <2>0, <2>1, <4>1, LoadKeepsLoad
      <3>3. CompareInv'
        BY <2>0, <3>1 DEF CompareInv, LooksAgree, PairsDiffer, Same
      <3>4. \A c \in Configs : runner[c].pc = "none"
        BY <2>0, <3>1 DEF RunInv, Runners
      <3>5. RunInv'
        BY <2>0, <3>1, <3>4 DEF RunInv
      <3>6. ExitInv'
        BY <2>0, <3>1 DEF ExitInv
      <3> QED BY <3>2, <3>3, <3>5, <3>6 DEF StandaloneIInv
    <2>2. CASE Compare
      <3>1. UNCHANGED <<values, loading, runner, results, reported, cancelled>> /\ pc = "compare"
        BY <2>2 DEF Compare, Look, Verdict, Compared, running
      <3>2. /\ CompareInv'
            /\ \/ pc' = pc /\ exit' = exit
               \/ pc' = "exited" /\ exit' = 1
        BY <2>0, <2>2, LookKeeps, VerdictKeeps DEF Compare, Look
      <3>3. LoadInv'
        BY <2>0, <3>1, <3>2 DEF LoadInv, loading
      <3>4. \A c \in Configs : runner[c].pc = "none"
        BY <2>0, <3>1 DEF RunInv, Runners
      <3>5. RunInv'
        BY <2>0, <3>1, <3>2, <3>4 DEF RunInv
      <3>6. ExitInv'
        BY <2>0, <3>1, <3>2 DEF ExitInv
      <3> QED BY <3>2, <3>3, <3>5, <3>6 DEF StandaloneIInv
    <2>3. CASE RunMany \/ \E c \in Configs, err \in SUBSET Causes : RunnerReturns(c, err)
      <3>1. UNCHANGED <<values, loading, database, exists, pair, stats>>
        BY <2>3 DEF RunMany, Launch, Collect, Return, RunnerReturns, comparing
      <3>2. pc' = "load" => pc = "load"
        BY <2>3 DEF RunMany, Launch, Collect, Return, RunnerReturns, Leave
      <3>3. LoadInv'
        BY <2>0, <3>1, <3>2 DEF LoadInv, loading
      <3>4. CompareInv'
        BY <2>0, <3>1 DEF CompareInv, LooksAgree, PairsDiffer, Same
      <3>5. RunInv' /\ ExitInv'
        BY <2>3, LaunchKeeps, RunnerKeeps, CollectKeeps, ReturnKeeps DEF RunMany
      <3> QED BY <3>3, <3>4, <3>5 DEF StandaloneIInv
    <2>4. CASE \E d \in Databases : CreateDatabase(d)
      <3>1. UNCHANGED <<pc, values, loading, pair, running, cancelled, exit>>
        BY <2>4 DEF CreateDatabase, comparing
      <3>2. CompareInv'
        BY <2>0, <2>4, CreateKeeps
      <3>3. LoadInv'
        BY <2>0, <3>1 DEF LoadInv, loading
      <3>4. RunInv' /\ ExitInv'
        BY <2>0, <3>1 DEF RunInv, ExitInv, running
      <3> QED BY <3>2, <3>3, <3>4 DEF StandaloneIInv
    <2>5. CASE Signal
      <3>1. UNCHANGED <<pc, values, loading, database, exists, comparing, running, exit>>
            /\ cancelled' = {"parent", "child"}
        BY <2>5 DEF Signal
      <3>2. LoadInv'
        BY <2>0, <3>1 DEF LoadInv, loading
      <3>3. CompareInv'
        BY <2>0, <3>1 DEF CompareInv, LooksAgree, PairsDiffer, Same, comparing
      <3>4. RunInv' /\ ExitInv'
        BY <2>0, <3>1 DEF RunInv, ExitInv, running, comparing
      <3> QED BY <3>2, <3>3, <3>4 DEF StandaloneIInv
    <2>6. CASE UNCHANGED vars
      <3>1. LoadInv'
        BY <2>0, <2>6 DEF LoadInv, loading, vars
      <3>2. CompareInv'
        BY <2>0, <2>6 DEF CompareInv, LooksAgree, PairsDiffer, Same, comparing, vars
      <3>3. RunInv' /\ ExitInv'
        BY <2>0, <2>6 DEF RunInv, ExitInv, running, comparing, vars
      <3> QED BY <3>1, <3>2, <3>3 DEF StandaloneIInv
    <2> QED BY <2>1, <2>2, <2>3, <2>4, <2>5, <2>6 DEF Next
  <1> QED BY <1>1, StandaloneInitHolds, PTL DEF Spec

\* No two runners share a database, whatever files appear while their paths are compared
\* (PathsEquivalent and its second look, validateNamedConfigs).
THEOREM StandaloneAliasNeverMissed == Spec => []AliasNeverMissed
  <1>1. StandaloneIInv => AliasNeverMissed
    <2> SUFFICES ASSUME StandaloneIInv, NEW c \in Configs, NEW d \in Configs, c # d,
                        runner[c].pc # "none"
                 PROVE  database[c] # database[d]
      BY DEF AliasNeverMissed
    <2>1. pair[2] > N /\ N \in Nat /\ pair[2] \in Nat
      BY StandaloneAssumption DEF StandaloneIInv, RunInv, CompareInv
    <2>2. c \in Nat /\ d \in Nat /\ c <= N /\ d <= N
      BY <2>1 DEF Configs
    <2>3. c < pair[2] /\ d < pair[2] /\ (c < d \/ d < c)
      BY <2>1, <2>2
    <2> QED BY <2>3 DEF StandaloneIInv, CompareInv, PairsDiffer
  <1> QED BY <1>1, StandaloneConsistent, PTL

\* The exit code is true of every runner, and none outlives the command (runMany,
\* isCancellationFrom, testSelectedConfig).
THEOREM StandaloneSafe == Spec => []StandaloneInv
  <1>1. StandaloneIInv => StandaloneInv
    <2> SUFFICES ASSUME StandaloneIInv PROVE StandaloneInv
      OBVIOUS
    <2>0. \A i \in DOMAIN stack : stack[i] \in Frames
      <3>1. stack \in Seq(Frames)
        BY DEF StandaloneIInv, LoadInv
      <3> QED BY <3>1
    <2>1. Len(stats) \in 0..4
      <3>1. Len(stats) \in Nat /\ Len(stats) <= 4
        BY DEF StandaloneIInv, CompareInv
      <3>2. \A n \in Nat : n <= 4 => n \in 0..4
        OBVIOUS
      <3> QED BY <3>1, <3>2
    <2>2. \A c \in Configs : runner[c] \in Runners
      BY DEF StandaloneIInv, RunInv
    <2>3. StandaloneTypeOK
      BY <2>0, <2>1, <2>2 DEF StandaloneIInv, LoadInv, CompareInv, RunInv, ExitInv, StandaloneTypeOK,
                        Frames, Runners
    <2>4. CleanExitIsTrue
      BY DEF StandaloneIInv, ExitInv, CleanExitIsTrue
    <2>5. NoneLeftRunning
      BY DEF StandaloneIInv, RunInv, NoneLeftRunning
    <2> QED BY <2>3, <2>4, <2>5 DEF StandaloneInv
  <1> QED BY <1>1, StandaloneConsistent, PTL

-----------------------------------------------------------------------------
(* Values.                                                                  *)

\* A key reaches itself and what the keys it reaches refer to.
LEMMA ReachIsClosed ==
    ASSUME NEW g \in [Keys -> SUBSET Keys], NEW k \in Keys
    PROVE  /\ Reach(g, k) \in SUBSET Keys
           /\ k \in Reach(g, k)
           /\ \A m \in Reach(g, k) : g[m] \subseteq Reach(g, k)
  <1>1. Reach(g, k) \in SUBSET Keys /\ k \in Reach(g, k)
    BY DEF Reach
  <1>2. ASSUME NEW m \in Reach(g, k), NEW l \in g[m] PROVE l \in Reach(g, k)
    <2>1. m \in Keys /\ l \in Keys
      BY <1>1, <1>2
    <2>2. ASSUME NEW S \in SUBSET Keys, k \in S, \A j \in S : g[j] \subseteq S
          PROVE  l \in S
      <3>1. m \in S
        BY <1>2, <2>2 DEF Reach
      <3> QED BY <1>2, <2>2, <3>1
    <2> QED BY <2>1, <2>2 DEF Reach
  <1> QED BY <1>1, <1>2

\* A set that holds a key and what its members refer to holds what the key reaches.
LEMMA ReachIsLeast ==
    ASSUME NEW g, NEW k, NEW S \in SUBSET Keys, k \in S, \A m \in S : g[m] \subseteq S
    PROVE  Reach(g, k) \subseteq S
  BY DEF Reach

\* What a key reaches is the key and what the keys it refers to reach.
LEMMA ReachUnfolds ==
    ASSUME NEW g \in [Keys -> SUBSET Keys], NEW k \in Keys
    PROVE  Reach(g, k) = {k} \cup UNION {Reach(g, l) : l \in g[k]}
  <1> DEFINE U == {k} \cup UNION {Reach(g, l) : l \in g[k]}
  <1>0. g[k] \subseteq Keys
    OBVIOUS
  <1>1. \A x : x \in U <=> (x = k \/ \E l \in g[k] : x \in Reach(g, l))
    OBVIOUS
  <1> HIDE DEF U
  <1>2. U \subseteq Reach(g, k)
    <2>1. k \in Reach(g, k) /\ g[k] \subseteq Reach(g, k)
      BY ReachIsClosed
    <2>2. ASSUME NEW l \in g[k] PROVE Reach(g, l) \subseteq Reach(g, k)
      <3>1. /\ Reach(g, k) \in SUBSET Keys /\ l \in Reach(g, k)
            /\ \A m \in Reach(g, k) : g[m] \subseteq Reach(g, k)
        BY <2>1, <2>2, ReachIsClosed
      <3> QED BY <3>1, ReachIsLeast
    <2> QED BY <1>1, <2>1, <2>2
  <1>3. Reach(g, k) \subseteq U
    <2>1. U \in SUBSET Keys
      <3>1. \A l \in g[k] : Reach(g, l) \in SUBSET Keys
        BY <1>0, ReachIsClosed
      <3> QED BY <1>1, <3>1
    <2>2. k \in U
      BY <1>1
    <2>3. ASSUME NEW m \in U PROVE g[m] \subseteq U
      <3>1. CASE m = k
        <4>1. \A l \in g[k] : l \in Reach(g, l)
          BY <1>0, ReachIsClosed
        <4> QED BY <3>1, <4>1, <1>1
      <3>2. CASE \E l \in g[k] : m \in Reach(g, l)
        <4>1. PICK l \in g[k] : m \in Reach(g, l)
          BY <3>2
        <4>2. g[m] \subseteq Reach(g, l)
          BY <1>0, <4>1, ReachIsClosed
        <4> QED BY <1>1, <4>1, <4>2
      <3> QED BY <1>1, <2>3, <3>1, <3>2
    <2> QED BY <2>1, <2>2, <2>3, ReachIsLeast
  <1>4. Reach(g, k) = U
    BY <1>2, <1>3
  <1> QED BY <1>4 DEF U

\* What the walk works on while it loads.
LEMMA WalkTypes ==
    ASSUME LoadInv, pc = "load"
    PROVE  /\ Graph \in [Keys -> SUBSET Keys]
           /\ \A i \in DOMAIN stack : stack[i] \in Frames
           /\ Len(stack) \in Nat /\ DOMAIN stack = 1..Len(stack)
           /\ mark \in [Keys -> 0..2] /\ resolved \in [Keys -> SUBSET Keys]
  <1>1. stack \in Seq(Frames)
    BY DEF LoadInv
  <1>2. Graph \in [Keys -> SUBSET Keys]
    BY DEF LoadInv, Graph
  <1> QED BY <1>1, <1>2 DEF LoadInv

\* What a resolved key reaches is resolved.
LEMMA ResolvedIsClosed ==
    ASSUME LoadInv, WalkInv, pc = "load", NEW k \in Keys, mark[k] = 2
    PROVE  \A l \in Reach(Graph, k) : mark[l] = 2
  <1> DEFINE M == {l \in Keys : mark[l] = 2}
  <1>1. Graph \in [Keys -> SUBSET Keys]
    BY WalkTypes
  <1>2. M \in SUBSET Keys /\ k \in M
    OBVIOUS
  <1>3. \A m \in M : Graph[m] \subseteq M
    BY <1>1 DEF WalkInv, KeyRight
  <1>4. Reach(Graph, k) \subseteq M
    <2> HIDE DEF M
    <2> QED BY <1>2, <1>3, ReachIsLeast
  <1> QED BY <1>4

\* A call for a new key that the key on top refers to.
LEMMA EnterWalks ==
    ASSUME LoadInv, WalkInv, pc = "load",
           UNCHANGED <<pc, values, current, resolved, cycle>>,
           NEW k \in Keys, mark[k] = 0, Enter(k),
           stack # <<>> => k \in Graph[Top.key]
    PROVE  WalkInv'
  <1>1. /\ Graph \in [Keys -> SUBSET Keys]
        /\ \A i \in DOMAIN stack : stack[i] \in Frames
        /\ mark \in [Keys -> 0..2] /\ resolved \in [Keys -> SUBSET Keys]
    BY WalkTypes
  <1>2. PICK n \in Nat : n = Len(stack) /\ DOMAIN stack = 1..n
    BY WalkTypes
  <1>3. /\ DOMAIN stack' = 1..(n + 1)
        /\ \A i \in 1..n : stack'[i] = stack[i]
        /\ stack'[n + 1] = Frame(k)
    <2>1. stack \in Seq(Frames) /\ stack' = Append(stack, Frame(k))
      BY DEF LoadInv, Enter
    <2> QED BY <1>2, <2>1
  <1>4. /\ mark'[k] = 1
        /\ \A l \in Keys : l # k => mark'[l] = mark[l]
    BY <1>1 DEF Enter
  <1>5. Graph' = Graph /\ resolved' = resolved /\ cycle' = cycle
    BY DEF Graph
  <1>6. ASSUME NEW l \in Keys PROVE KeyRight(l)'
    <2> SUFFICES ASSUME mark'[l] = 2
                 PROVE  /\ \A m \in Graph[l] : mark'[m] = 2
                        /\ resolved[l] = Reach(Graph, l)
                        /\ \A m \in Graph[l] : l \notin Reach(Graph, m)
      BY <1>5 DEF KeyRight
    <2>1. mark[l] = 2
      BY <1>4
    <2>2. /\ \A m \in Graph[l] : mark[m] = 2
          /\ resolved[l] = Reach(Graph, l)
          /\ \A m \in Graph[l] : l \notin Reach(Graph, m)
      BY <2>1 DEF WalkInv, KeyRight
    <2>3. \A m \in Graph[l] : m \in Keys
      BY <1>1
    <2> QED BY <1>4, <2>2, <2>3
  <1>7. ASSUME NEW i \in 1..(n + 1) PROVE FrameRight(stack[i])'
    <2>1. CASE i = n + 1
      <3>1. stack'[i] = Frame(k)
        BY <1>3, <2>1
      <3>2. UNION {resolved[l] : l \in {}} = {}
        OBVIOUS
      <3> QED BY <1>4, <1>5, <3>1, <3>2 DEF FrameRight, Frame
    <2>2. CASE i \in 1..n
      <3>1. PICK f \in Frames : f = stack[i] /\ stack'[i] = f
        BY <1>1, <1>2, <1>3, <2>2
      <3>2. FrameRight(f)
        BY <1>2, <2>2, <3>1 DEF WalkInv
      <3>3. f.key \in Keys /\ f.seen \subseteq Keys
        BY <3>1 DEF Frames
      <3>4. mark'[f.key] = 1 /\ \A l \in f.seen : mark'[l] = 2
        BY <1>4, <3>2, <3>3 DEF FrameRight
      <3> QED BY <1>5, <3>1, <3>2, <3>4 DEF FrameRight
    <2>3. i \in 1..n \/ i = n + 1
      BY <1>2
    <2> QED BY <2>1, <2>2, <2>3
  <1>8. PathRight'
    <2>1. \A i \in 1..n : stack[i].key \in Keys /\ stack[i].key # k
      BY <1>1, <1>2 DEF WalkInv, FrameRight, Frames
    <2>2. stack'[n + 1].key = k
      BY <1>3 DEF Frame
    <2>3. \A i \in 1..(n + 1) : i \in 1..n \/ i = n + 1
      BY <1>2
    <2>4. \A i, j \in DOMAIN stack' : stack'[i].key = stack'[j].key => i = j
      <3>1. \A i, j \in 1..n : stack[i].key = stack[j].key => i = j
        BY <1>2 DEF WalkInv, PathRight
      <3> QED BY <1>3, <2>1, <2>2, <2>3, <3>1
    <2>5. ASSUME NEW l \in Keys, mark'[l] = 1
          PROVE  \E i \in DOMAIN stack' : stack'[i].key = l
      <3>1. CASE l = k
        <4>1. n + 1 \in 1..(n + 1)
          BY <1>2
        <4> QED BY <1>3, <2>2, <3>1, <4>1
      <3>2. CASE l # k
        <4>1. PICK i \in 1..n : stack[i].key = l
          BY <1>2, <1>4, <2>5, <3>2 DEF WalkInv, PathRight
        <4>2. i \in 1..(n + 1)
          BY <1>2
        <4> QED BY <1>3, <4>1, <4>2
      <3> QED BY <3>1, <3>2
    <2>6. ASSUME NEW i \in 1..(n + 1), i + 1 \in 1..(n + 1)
          PROVE  stack'[i + 1].key \in Graph[stack'[i].key]
      <3>1. i \in 1..n
        BY <1>2, <2>6
      <3>2. CASE i = n
        <4>1. stack # <<>> /\ Top = stack[n]
          BY <1>2, <3>1, <3>2 DEF Top
        <4> QED BY <1>3, <2>2, <3>1, <3>2, <4>1
      <3>3. CASE i # n
        <4>1. i + 1 \in 1..n
          BY <1>2, <3>1, <3>3
        <4>2. stack[i + 1].key \in Graph[stack[i].key]
          BY <1>2, <3>1, <4>1 DEF WalkInv, PathRight
        <4> QED BY <1>3, <3>1, <4>1, <4>2
      <3> QED BY <3>2, <3>3
    <2> QED BY <1>3, <1>5, <2>4, <2>5, <2>6 DEF PathRight
  <1> QED BY <1>3, <1>5, <1>6, <1>7, <1>8 DEF WalkInv

\* The top frame, by its index, and the stack below it.
LEMMA StackSplits ==
    ASSUME LoadInv, pc = "load", stack # <<>>
    PROVE  /\ Len(stack) \in Nat \ {0}
           /\ Top = stack[Len(stack)] /\ Top \in Frames
           /\ Below \in Seq(Frames) /\ Len(Below) = Len(stack) - 1
           /\ DOMAIN Below = 1..(Len(stack) - 1)
           /\ \A i \in 1..(Len(stack) - 1) : Below[i] = stack[i]
  <1>1. stack \in Seq(Frames) /\ Len(stack) \in Nat /\ Len(stack) # 0
    BY DEF LoadInv
  <1>2. Below = SubSeq(stack, 1, Len(stack) - 1) /\ Top = stack[Len(stack)]
    BY DEF Below, Top
  <1>3. Top \in Frames
    BY <1>1, <1>2
  <1>4. /\ Below \in Seq(Frames) /\ Len(Below) = Len(stack) - 1
        /\ DOMAIN Below = 1..(Len(stack) - 1)
        /\ \A i \in 1..(Len(stack) - 1) : Below[i] = stack[i]
    <2>1. PICK n \in Nat \ {0} : n = Len(stack)
      BY <1>1
    <2>2. Below = SubSeq(stack, 1, n - 1) /\ n - 1 \in Nat
      BY <1>2, <2>1
    <2>3. \A i \in 1..(n - 1) : i \in 1..Len(stack) /\ 1 + i - 1 = i
      BY <2>1
    <2>4. Below \in Seq(Frames)
      BY TopAndBelow
    <2>5. Len(Below) = n - 1
      BY <1>1, <2>1, <2>2
    <2>6. DOMAIN Below = 1..(n - 1)
      BY <2>4, <2>5
    <2>7. \A i \in 1..(n - 1) : Below[i] = stack[i]
      BY <1>1, <2>1, <2>2, <2>3
    <2> QED BY <2>1, <2>4, <2>5, <2>6, <2>7
  <1> QED BY <1>1, <1>2, <1>3, <1>4

\* A key that is resolved already goes into the text of the frame on top.
LEMMA SeenWalks ==
    ASSUME LoadInv, WalkInv, pc = "load", stack # <<>>,
           UNCHANGED <<pc, values, current, resolved, cycle, mark>>,
           NEW k \in Graph[Top.key], mark[k] = 2,
           stack' = Append(Below, [Top EXCEPT !.seen = @ \cup {k},
                                              !.text = @ \cup Replacement(k)])
    PROVE  WalkInv'
  <1>1. PICK n \in Nat \ {0} : n = Len(stack) /\ DOMAIN stack = 1..n
    BY WalkTypes, StackSplits
  <1>2. /\ Top = stack[n] /\ Top \in Frames
        /\ Below \in Seq(Frames) /\ Len(Below) = n - 1
        /\ \A i \in 1..(n - 1) : Below[i] = stack[i]
    BY <1>1, StackSplits
  <1>3. PICK f \in Frames : f = Top
    BY <1>2
  <1>4. f.key \in Keys /\ f.seen \in SUBSET Keys /\ f.text \in SUBSET Keys
    BY <1>3 DEF Frames
  <1>5. Graph \in [Keys -> SUBSET Keys] /\ resolved \in [Keys -> SUBSET Keys]
    BY WalkTypes
  <1>6. k \in Keys /\ resolved[k] \in SUBSET Keys
    BY <1>3, <1>4, <1>5
  <1>7. PICK h : h = [f EXCEPT !.seen = @ \cup {k}, !.text = @ \cup resolved[k]]
    OBVIOUS
  <1>8. h \in Frames /\ h.key = f.key /\ h.seen = f.seen \cup {k} /\ h.text = f.text \cup resolved[k]
    BY <1>4, <1>6, <1>7 DEF Frames
  <1>9. stack' = Append(Below, h)
    BY <1>3, <1>7 DEF Replacement
  <1>10. /\ DOMAIN stack' = 1..n /\ stack'[n] = h
         /\ \A i \in 1..(n - 1) : stack'[i] = stack[i]
    BY <1>1, <1>2, <1>8, <1>9
  <1>11. \A i \in 1..n : i = n \/ i \in 1..(n - 1)
    BY <1>1
  <1>12. \A i \in 1..n : stack'[i].key = stack[i].key
    BY <1>2, <1>3, <1>8, <1>10, <1>11
  <1>13. Graph' = Graph
    BY DEF Graph
  <1>14. ASSUME NEW l \in Keys PROVE KeyRight(l)'
    <2>1. KeyRight(l)
      BY DEF WalkInv
    <2> QED BY <1>13, <2>1 DEF KeyRight
  <1>15. ASSUME NEW i \in 1..n PROVE FrameRight(stack[i])'
    <2>1. CASE i = n
      <3>1. FrameRight(f)
        BY <1>1, <1>2, <1>3 DEF WalkInv
      <3>2. f.text = {f.key} \cup UNION {resolved[l] : l \in f.seen}
        BY <3>1 DEF FrameRight
      <3>3. UNION {resolved[l] : l \in h.seen} =
                (UNION {resolved[l] : l \in f.seen}) \cup resolved[k]
        <4>1. h.seen = f.seen \cup {k}
          BY <1>8
        <4>2. \A x : x \in UNION {resolved[l] : l \in h.seen} <=> \E l \in h.seen : x \in resolved[l]
          OBVIOUS
        <4>3. \A x : x \in UNION {resolved[l] : l \in f.seen} <=> \E l \in f.seen : x \in resolved[l]
          OBVIOUS
        <4> DEFINE A == UNION {resolved[l] : l \in h.seen}
                   B == UNION {resolved[l] : l \in f.seen}
        <4>4. /\ \A x : x \in A <=> \E l \in h.seen : x \in resolved[l]
              /\ \A x : x \in B <=> \E l \in f.seen : x \in resolved[l]
          BY <4>2, <4>3
        <4> HIDE DEF A, B
        <4>5. \A x : x \in A <=> x \in B \cup resolved[k]
          BY <4>1, <4>4
        <4>6. A = B \cup resolved[k]
          BY <4>5
        <4> QED BY <4>6 DEF A, B
      <3>4. h.text = {h.key} \cup UNION {resolved[l] : l \in h.seen}
        BY <1>8, <3>2, <3>3
      <3>5. mark[h.key] = 1 /\ h.seen \subseteq Graph[h.key] /\ \A l \in h.seen : mark[l] = 2
        BY <1>3, <1>8, <3>1 DEF FrameRight
      <3>6. stack'[i] = h /\ mark' = mark /\ resolved' = resolved
        BY <1>10, <2>1
      <3>7. /\ mark'[h.key] = 1 /\ h.seen \subseteq Graph'[h.key]
            /\ \A l \in h.seen : mark'[l] = 2
            /\ h.text = {h.key} \cup UNION {resolved'[l] : l \in h.seen}
        BY <1>13, <3>4, <3>5, <3>6
      <3> QED BY <3>6, <3>7 DEF FrameRight
    <2>2. CASE i \in 1..(n - 1)
      <3>1. FrameRight(stack[i]) /\ stack'[i] = stack[i]
        BY <1>1, <1>10, <2>2 DEF WalkInv
      <3> QED BY <1>13, <3>1 DEF FrameRight
    <2> QED BY <1>11, <2>1, <2>2
  <1>16. PathRight'
    <2>1. PathRight
      BY DEF WalkInv
    <2> QED BY <1>1, <1>10, <1>12, <1>13, <2>1 DEF PathRight
  <1> QED BY <1>10, <1>14, <1>15, <1>16 DEF WalkInv

\* A key on the stack closes a cycle: the keys from it to the top, and it once more.
LEMMA CycleIsReported ==
    ASSUME LoadInv, WalkInv, pc = "load", stack # <<>>,
           UNCHANGED <<values, current>>,
           NEW k \in Graph[Top.key], mark[k] = 1,
           cycle' = LET start == CHOOSE i \in DOMAIN stack : stack[i].key = k
                    IN  [i \in 1..Len(stack) - start + 2 |->
                           IF i = Len(stack) - start + 2 THEN k ELSE stack[start + i - 1].key]
    PROVE  CycleRight'
  <1>1. PICK n \in Nat \ {0} : n = Len(stack) /\ DOMAIN stack = 1..n
    BY WalkTypes, StackSplits
  <1>2. Top = stack[n] /\ Top \in Frames
    BY <1>1, StackSplits
  <1>3. Graph \in [Keys -> SUBSET Keys] /\ Top.key \in Keys /\ k \in Keys
    <2>1. Graph \in [Keys -> SUBSET Keys] /\ Top.key \in Keys
      BY <1>2, WalkTypes DEF Frames
    <2> QED BY <2>1
  <1>4. \E i \in DOMAIN stack : stack[i].key = k
    BY <1>3 DEF WalkInv, PathRight
  <1>5. PICK s : s = CHOOSE i \in DOMAIN stack : stack[i].key = k
    OBVIOUS
  <1>6. s \in DOMAIN stack /\ stack[s].key = k
    BY <1>4, <1>5, Zenon
  <1>7. s \in 1..n /\ s \in Nat /\ s > 0 /\ s <= n
    BY <1>1, <1>6
  <1>8. PICK m \in Nat : m = n - s + 2 /\ m > 1
    <2>1. \A a, b \in Nat : b <= a => a - b + 2 \in Nat /\ a - b + 2 > 1
      OBVIOUS
    <2>2. n - s + 2 \in Nat /\ n - s + 2 > 1
      BY <1>1, <1>7, <2>1
    <2> QED BY <2>2
  <1>9. cycle' = [i \in 1..m |-> IF i = m THEN k ELSE stack[s + i - 1].key]
    BY <1>1, <1>5, <1>8
  <1>10. Len(cycle') = m
    <2>1. \A i \in 1..m : i # m => s + i - 1 \in 1..n
      BY <1>1, <1>7, <1>8
    <2>2. \A i \in 1..n : stack[i].key \in Keys
      BY <1>1, WalkTypes DEF Frames
    <2>3. cycle' \in [1..m -> Keys]
      BY <1>3, <1>9, <2>1, <2>2
    <2>4. cycle' \in Seq(Keys)
      <3>1. cycle' \in UNION {[1..j -> Keys] : j \in Nat}
        BY <1>8, <2>3
      <3> QED BY <3>1, SeqDef, Zenon
    <2>5. PICK n1 \in Nat : n1 = Len(cycle') /\ DOMAIN cycle' = 1..n1
      BY <2>4, LenProperties
    <2>6. 1..n1 = 1..m
      BY <2>3, <2>5
    <2>7. \A a, b \in Nat : 1..a = 1..b => a = b
      OBVIOUS
    <2> QED BY <1>8, <2>5, <2>6, <2>7
  <1>11. cycle'[1] = k /\ cycle'[m] = k
    <2>1. 1 \in 1..m /\ m \in 1..m /\ s + 1 - 1 = s /\ 1 # m
      BY <1>7, <1>8
    <2> QED BY <1>6, <1>9, <2>1
  <1>12. ASSUME NEW i \in 1..m - 1 PROVE cycle'[i + 1] \in Graph[cycle'[i]]
    <2>1. i \in 1..m /\ i # m /\ i + 1 \in 1..m /\ s + i - 1 \in 1..n /\ s + (i + 1) - 1 = (s + i - 1) + 1
      BY <1>1, <1>7, <1>8
    <2>2. cycle'[i] = stack[s + i - 1].key
      BY <1>9, <2>1
    <2>3. CASE i + 1 = m
      <3>1. s + i - 1 = n
        BY <1>1, <1>7, <1>8, <2>3
      <3>2. cycle'[i + 1] = k
        BY <1>11, <2>3
      <3> QED BY <1>2, <2>2, <3>1, <3>2
    <2>4. CASE i + 1 # m
      <3>1. (s + i - 1) + 1 \in 1..n
        BY <1>1, <1>7, <1>8, <2>4
      <3>2. cycle'[i + 1] = stack[(s + i - 1) + 1].key
        BY <1>9, <2>1, <2>4
      <3>3. PICK j \in 1..n : j = s + i - 1
        BY <2>1
      <3>4. stack[j + 1].key \in Graph[stack[j].key]
        BY <1>1, <3>1, <3>3 DEF WalkInv, PathRight
      <3> QED BY <2>2, <3>2, <3>3, <3>4
    <2> QED BY <2>3, <2>4
  <1>13. Graph' = Graph
    BY DEF Graph
  <1> QED BY <1>8, <1>10, <1>11, <1>12, <1>13 DEF CycleRight

\* The key on top has seen what it refers to: its text is what it reaches.
LEMMA ResolvedWalks ==
    ASSUME LoadInv, WalkInv, Resolved
    PROVE  WalkInv'
  <1>0. pc = "load" /\ stack # <<>> /\ UNCHANGED <<pc, values, current, cycle>>
    BY DEF Resolved
  <1>1. PICK n \in Nat \ {0} : n = Len(stack) /\ DOMAIN stack = 1..n
    BY <1>0, WalkTypes, StackSplits
  <1>2. /\ Top = stack[n] /\ Top \in Frames
        /\ DOMAIN Below = 1..(n - 1)
        /\ \A i \in 1..(n - 1) : Below[i] = stack[i]
    BY <1>0, <1>1, StackSplits
  <1>3. PICK f \in Frames : f = Top
    BY <1>2
  <1>4. PICK k \in Keys : k = f.key
    BY <1>3 DEF Frames
  <1>5. /\ Graph \in [Keys -> SUBSET Keys]
        /\ mark \in [Keys -> 0..2] /\ resolved \in [Keys -> SUBSET Keys]
        /\ \A i \in DOMAIN stack : stack[i] \in Frames
    BY <1>0, WalkTypes
  <1>6. /\ mark[k] = 1 /\ f.seen \subseteq Graph[k] /\ \A l \in f.seen : mark[l] = 2
        /\ f.text = {k} \cup UNION {resolved[l] : l \in f.seen}
    BY <1>0, <1>1, <1>2, <1>3, <1>4 DEF WalkInv, FrameRight
  <1>7. f.seen = Graph[k]
    <2>1. Graph[k] \ f.seen = {}
      BY <1>3, <1>4 DEF Resolved, ToVisit, References, Graph
    <2> QED BY <1>6, <2>1
  <1>8. f.text = Reach(Graph, k)
    <2>1. \A l \in Graph[k] : l \in Keys /\ mark[l] = 2
      BY <1>5, <1>6, <1>7
    <2>2. \A l \in Graph[k] : resolved[l] = Reach(Graph, l)
      BY <1>0, <2>1 DEF WalkInv, KeyRight
    <2>3. {resolved[l] : l \in Graph[k]} = {Reach(Graph, l) : l \in Graph[k]}
      BY <2>2
    <2>4. Reach(Graph, k) = {k} \cup UNION {Reach(Graph, l) : l \in Graph[k]}
      BY <1>5, ReachUnfolds
    <2> QED BY <1>6, <1>7, <2>3, <2>4
  <1>9. /\ mark'[k] = 2 /\ resolved'[k] = f.text
        /\ \A l \in Keys : l # k => mark'[l] = mark[l] /\ resolved'[l] = resolved[l]
    BY <1>3, <1>4, <1>5 DEF Resolved
  <1>10. /\ DOMAIN stack' = 1..(n - 1)
         /\ \A i \in 1..(n - 1) : stack'[i] = stack[i]
    BY <1>2 DEF Resolved
  <1>11. Graph' = Graph
    BY <1>0 DEF Graph
  <1>12. ASSUME NEW l \in Keys PROVE KeyRight(l)'
    <2> SUFFICES ASSUME mark'[l] = 2
                 PROVE  /\ \A m \in Graph[l] : mark'[m] = 2
                        /\ resolved'[l] = Reach(Graph, l)
                        /\ \A m \in Graph[l] : l \notin Reach(Graph, m)
      BY <1>11 DEF KeyRight
    <2>1. \A m \in Graph[l] : m \in Keys
      BY <1>5
    <2>2. CASE l = k
      <3>1. \A m \in Graph[k] : m \in Keys /\ mark[m] = 2 /\ m # k
        BY <1>6, <1>7, <2>1, <2>2
      <3>2. \A m \in Graph[k] : k \notin Reach(Graph, m)
        BY <1>0, <1>6, <3>1, ResolvedIsClosed
      <3> QED BY <1>8, <1>9, <2>2, <3>1, <3>2
    <2>3. CASE l # k
      <3>1. mark[l] = 2
        BY <1>9, <2>3
      <3>2. /\ \A m \in Graph[l] : mark[m] = 2
            /\ resolved[l] = Reach(Graph, l)
            /\ \A m \in Graph[l] : l \notin Reach(Graph, m)
        BY <1>0, <3>1 DEF WalkInv, KeyRight
      <3>3. \A m \in Graph[l] : mark'[m] = 2
        BY <1>9, <2>1, <3>2
      <3> QED BY <1>9, <2>3, <3>2, <3>3
    <2> QED BY <2>2, <2>3
  <1>13. \A i \in 1..(n - 1) : i \in 1..n /\ i # n
    BY <1>1
  <1>14. ASSUME NEW i \in 1..(n - 1) PROVE FrameRight(stack[i])'
    <2>1. PICK h \in Frames : h = stack[i] /\ stack'[i] = h
      BY <1>1, <1>5, <1>10, <1>13
    <2>2. /\ mark[h.key] = 1 /\ h.seen \subseteq Graph[h.key] /\ \A l \in h.seen : mark[l] = 2
          /\ h.text = {h.key} \cup UNION {resolved[l] : l \in h.seen}
      BY <1>0, <1>1, <1>13, <2>1 DEF WalkInv, FrameRight
    <2>3. h.key \in Keys /\ h.seen \subseteq Keys
      BY <2>1 DEF Frames
    <2>4. h.key # k
      <3>1. \A j \in 1..n : stack[j].key = stack[n].key => j = n
        BY <1>0, <1>1 DEF WalkInv, PathRight
      <3> QED BY <1>2, <1>3, <1>4, <1>13, <2>1, <3>1
    <2>5. \A l \in h.seen : l \in Keys /\ l # k
      BY <1>6, <2>2, <2>3
    <2>6. mark'[h.key] = 1 /\ \A l \in h.seen : mark'[l] = 2
      BY <1>9, <2>2, <2>3, <2>4, <2>5
    <2>7. {resolved'[l] : l \in h.seen} = {resolved[l] : l \in h.seen}
      BY <1>9, <2>5
    <2>8. h.text = {h.key} \cup UNION {resolved'[l] : l \in h.seen}
      BY <2>2, <2>7
    <2> QED BY <1>11, <2>1, <2>2, <2>6, <2>8 DEF FrameRight
  <1>15. PathRight'
    <2>1. \A i, j \in DOMAIN stack' : stack'[i].key = stack'[j].key => i = j
      <3>1. \A i, j \in 1..n : stack[i].key = stack[j].key => i = j
        BY <1>0, <1>1 DEF WalkInv, PathRight
      <3> QED BY <1>10, <1>13, <3>1
    <2>2. ASSUME NEW l \in Keys, mark'[l] = 1
          PROVE  \E i \in DOMAIN stack' : stack'[i].key = l
      <3>1. l # k /\ mark[l] = 1
        BY <1>9, <2>2
      <3>2. PICK i \in 1..n : stack[i].key = l
        BY <1>0, <1>1, <3>1 DEF WalkInv, PathRight
      <3>3. i # n
        BY <1>2, <1>3, <1>4, <3>1, <3>2
      <3>4. i \in 1..(n - 1)
        BY <1>1, <3>2, <3>3
      <3> QED BY <1>10, <3>2, <3>4
    <2>3. ASSUME NEW i \in 1..(n - 1), i + 1 \in 1..(n - 1)
          PROVE  stack'[i + 1].key \in Graph[stack'[i].key]
      <3>1. stack[i + 1].key \in Graph[stack[i].key]
        BY <1>0, <1>1, <1>13, <2>3 DEF WalkInv, PathRight
      <3> QED BY <1>10, <2>3, <3>1
    <2> QED BY <1>10, <1>11, <2>1, <2>2, <2>3 DEF PathRight
  <1> QED BY <1>0, <1>10, <1>12, <1>14, <1>15 DEF WalkInv

\* The next configuration starts with every key new.
LEMMA LoadedWalks ==
    ASSUME LoadInv, WalkInv, Loaded
    PROVE  WalkInv'
  <1>1. cycle' = <<>> /\ stack' = <<>>
    BY DEF Loaded, AllResolved, WalkInv
  <1>2. \A k \in Keys : mark'[k] = 0
    BY DEF Loaded
  <1>3. \A k \in Keys : KeyRight(k)'
    BY <1>2 DEF KeyRight
  <1>4. DOMAIN stack' = {}
    BY <1>1
  <1>5. PathRight'
    BY <1>2, <1>4 DEF PathRight
  <1> QED BY <1>1, <1>3, <1>4, <1>5 DEF WalkInv

\* Every step of the walk, the one that finds a cycle included.
LEMMA LoadWalks ==
    ASSUME LoadInv, WalkInv, CycleRight, Load
    PROVE  WalkInv' /\ CycleRight'
  <1>0. pc = "load" /\ cycle = <<>>
    BY LoadFrame DEF WalkInv
  <1>1. CASE NextKey
    <2>1. PICK k \in Keys : mark[k] = 0 /\ Enter(k)
      BY <1>1 DEF NextKey
    <2>2. stack = <<>> /\ UNCHANGED <<pc, values, current, resolved, cycle>>
      BY <1>1 DEF NextKey
    <2>3. WalkInv'
      BY <1>0, <2>1, <2>2, EnterWalks
    <2> QED BY <1>0, <2>2, <2>3 DEF CycleRight
  <1>2. CASE Visit
    <2>1. PICK k : k = Smallest(ToVisit)
      OBVIOUS
    <2>2. stack # <<>> /\ ToVisit # {} /\ UNCHANGED <<values, current, resolved>>
      BY <1>2 DEF Visit
    <2>3. k \in Graph[Top.key] /\ k \in Keys
      <3>1. Top.key \in Keys /\ Graph \in [Keys -> SUBSET Keys]
        BY <1>0, <2>2, TopAndBelow, WalkTypes DEF Frames
      <3>2. ToVisit \in SUBSET Keys /\ ToVisit \subseteq Graph[Top.key]
        BY <3>1 DEF ToVisit, References, Graph
      <3> QED BY <2>1, <2>2, <3>2, SmallestIsMember
    <2>4. CASE /\ mark[k] = 2
               /\ stack' = Append(Below, [Top EXCEPT !.seen = @ \cup {k},
                                                     !.text = @ \cup Replacement(k)])
               /\ UNCHANGED <<pc, mark, cycle, exit>>
      <3>1. WalkInv'
        BY <1>0, <2>2, <2>3, <2>4, SeenWalks
      <3> QED BY <1>0, <2>4, <3>1 DEF CycleRight
    <2>5. CASE mark[k] = 0 /\ Enter(k) /\ UNCHANGED <<pc, cycle, exit>>
      <3>1. WalkInv'
        BY <1>0, <2>2, <2>3, <2>5, EnterWalks
      <3> QED BY <1>0, <2>5, <3>1 DEF CycleRight
    <2>6. CASE /\ mark[k] = 1
               /\ cycle' = LET start == CHOOSE i \in DOMAIN stack : stack[i].key = k
                           IN  [i \in 1..Len(stack) - start + 2 |->
                                  IF i = Len(stack) - start + 2 THEN k
                                  ELSE stack[start + i - 1].key]
               /\ Leave(1)
      <3>1. WalkInv'
        BY <2>6 DEF Leave, WalkInv
      <3>2. CycleRight'
        BY <1>0, <2>2, <2>3, <2>6, CycleIsReported
      <3> QED BY <3>1, <3>2
    <2> QED BY <1>2, <2>1, <2>4, <2>5, <2>6 DEF Visit
  <1>3. CASE Resolved
    BY <1>0, <1>3, ResolvedWalks DEF Resolved, CycleRight
  <1>4. CASE Loaded
    BY <1>0, <1>4, LoadedWalks DEF Loaded, CycleRight
  <1> QED BY <1>1, <1>2, <1>3, <1>4 DEF Load

\* A resolved value holds the text of every key it reaches and of no other, a cycle is
\* refused, and what is reported as one is one, for any set of keys and any graph of
\* references (resolveTemplateValues).
THEOREM StandaloneValuesResolved == Spec => []ValuesResolved
  <1>1. Init => WalkInv /\ CycleRight
    <2> SUFFICES ASSUME Init PROVE WalkInv /\ CycleRight
      OBVIOUS
    <2>1. cycle = <<>> /\ DOMAIN stack = {} /\ \A k \in Keys : mark[k] = 0
      BY DEF Init
    <2>2. PathRight
      BY <2>1 DEF PathRight
    <2> QED BY <2>1, <2>2 DEF WalkInv, KeyRight, CycleRight
  <1>2. StandaloneIInv /\ WalkInv /\ CycleRight /\ [Next]_vars => WalkInv' /\ CycleRight'
    <2> SUFFICES ASSUME StandaloneIInv, WalkInv, CycleRight, [Next]_vars
                 PROVE  WalkInv' /\ CycleRight'
      OBVIOUS
    <2>1. CASE Load
      BY <2>1, LoadWalks DEF StandaloneIInv
    <2>2. CASE ~Load
      <3>1. UNCHANGED <<values, current, mark, stack, resolved, cycle>>
        BY <2>2 DEF Next, LoadFails, Compare, Look, Verdict, RunMany, Launch, Collect, Return,
                    RunnerReturns, CreateDatabase, Signal, vars, loading
      <3>2. pc' = "load" => pc = "load"
        BY <2>2 DEF Next, LoadFails, Compare, Look, Verdict, Differ, RunMany, Launch, Collect,
                    Return, RunnerReturns, CreateDatabase, Signal, Leave, vars
      <3> QED BY <3>1, <3>2 DEF WalkInv, CycleRight, KeyRight, FrameRight, PathRight, Graph
    <2> QED BY <2>1, <2>2
  <1>3. StandaloneIInv /\ WalkInv /\ CycleRight => ValuesResolved
    <2> SUFFICES ASSUME WalkInv, CycleRight PROVE ValuesResolved
      OBVIOUS
    <2>1. ASSUME AllResolved
          PROVE  /\ ~Cyclic(Graph)
                 /\ \A k \in Keys : resolved[k] = Reach(Graph, k)
      BY <2>1 DEF AllResolved, WalkInv, KeyRight, Cyclic
    <2> QED BY <2>1 DEF ValuesResolved, CycleRight, Graph
  <1> QED BY <1>1, <1>2, <1>3, StandaloneConsistent, PTL DEF Spec

=============================================================================

----------------------------- MODULE Standalone -----------------------------
(***************************************************************************)
(* onderzeeer test, from the configurations to the exit code: load         *)
(* (config/config.go, values.go), the comparison of the databases          *)
(* (daemon/many.go, config/paths.go) while other processes may create      *)
(* them, and RunMany over one daemon.Run each. The command selects one     *)
(* configuration; RunMany takes any number, and so does this module. What  *)
(* one daemon does is in Settle, WatchSet and WorkerPool; here it is a     *)
(* runner that returns an error, which is the set of its causes.           *)
(*                                                                         *)
(* A value is the set of keys it refers to, and once resolved the set of   *)
(* keys whose text it holds. A database is a class of paths that reach the *)
(* same file, or would once it exists.                                     *)
(***************************************************************************)
EXTENDS Integers, Sequences

CONSTANTS N,          \* configurations, in the order given
          Keys,       \* names of values, in sorted order
          Values,     \* Values[c]: what the values of c may be
          Databases,  \* databases, by file
          FoldOf      \* FoldOf[d]: the name of d, normalized and without case

ASSUME StandaloneAssumption ==
    /\ N \in Nat \ {0}
    /\ Keys \subseteq Nat \ {0}
    /\ Values \in [1..N -> SUBSET [Keys -> SUBSET Keys]]

Configs == 1..N

VARIABLES pc,         \* what the command is doing
          values,     \* values[c]: the values of c, as written
          current,    \* the configuration being loaded
          mark,       \* mark[k]: 0 new, 1 on the stack, 2 resolved
          stack,      \* keys being resolved, each with the next key to look for
          resolved,   \* resolved[k]
          cycle,      \* the cycle reported
          database,   \* database[c]: the database that c names
          exists,     \* databases whose file exists
          pair,       \* the two paths being compared
          stats,      \* what the comparison saw of them
          runner,     \* runner[c]: the goroutine of c
          results,    \* the channel of results
          cancelled,  \* contexts that are done: the parent's and the shared child's
          reported,   \* what RunMany's error is made of
          exit        \* the exit code

loading == <<current, mark, stack, resolved, cycle>>
comparing == <<pair, stats>>
running == <<runner, results, reported>>
vars == <<pc, values, loading, database, exists, comparing, running, cancelled, exit>>

\* A runner fails, is cancelled, or both; nil is no cause.
Causes == {"failed", "canceled"}
NotYet == [c \in Configs |-> [pc |-> "none", err |-> {}]]

Init == /\ pc = "load"
        /\ values \in {v \in [Configs -> UNION {Values[c] : c \in Configs}] :
                         \A c \in Configs : v[c] \in Values[c]}
        /\ current = 1
        /\ mark = [k \in Keys |-> 0] /\ stack = <<>> /\ resolved = [k \in Keys |-> {}]
        /\ cycle = <<>>
        /\ database \in [Configs -> Databases]
        /\ exists \in SUBSET Databases
        /\ pair = <<1, 2>> /\ stats = <<>>
        /\ runner = NotYet /\ results = <<>> /\ cancelled = {} /\ reported = {}
        /\ exit = -1

Leave(code) == pc' = "exited" /\ exit' = code

----------------------------------------------------------------------------
(* resolveTemplateValues: a depth-first walk, the stack of calls written    *)
(* out. A frame holds what the value of its key is made of so far.          *)

Frame(k) == [key |-> k, seen |-> {}, text |-> {k}]

Top == stack[Len(stack)]
Below == SubSeq(stack, 1, Len(stack) - 1)

Smallest(S) == CHOOSE k \in S : \A l \in S : k <= l

Enter(k) == mark' = [mark EXCEPT ![k] = 1] /\ stack' = Append(stack, Frame(k))

\* The keys in sorted order; one that was resolved meanwhile returns at once.
NextKey ==
    /\ pc = "load" /\ stack = <<>>
    /\ \E k \in Keys : /\ mark[k] = 0
                       /\ k = Smallest({l \in Keys : mark[l] = 0})
                       /\ Enter(k)
    /\ UNCHANGED <<pc, values, current, resolved, cycle, database, exists, comparing, running,
                   cancelled, exit>>

References(k) == values[current][k]
ToVisit == References(Top.key) \ Top.seen

\* Mutant: a value that is referred to goes in as it was written.
ReplacementMutantRaw(k) == {k}

Replacement(k) == resolved[k]

\* The next key the value refers to is resolved, on the stack, or to be resolved first.
Visit ==
    LET k == Smallest(ToVisit)
    IN  /\ pc = "load" /\ stack # <<>> /\ ToVisit # {}
        /\ \/ /\ mark[k] = 2
              /\ stack' = Append(Below, [Top EXCEPT !.seen = @ \cup {k},
                                                    !.text = @ \cup Replacement(k)])
              /\ UNCHANGED <<pc, mark, cycle, exit>>
           \/ /\ mark[k] = 0
              /\ Enter(k)
              /\ UNCHANGED <<pc, cycle, exit>>
           \/ /\ mark[k] = 1
              /\ LET start == CHOOSE i \in DOMAIN stack : stack[i].key = k
                 IN  cycle' = [i \in 1..Len(stack) - start + 2 |->
                                 IF i = Len(stack) - start + 2 THEN k ELSE stack[start + i - 1].key]
              /\ Leave(1)
              /\ UNCHANGED <<mark, stack>>
        /\ UNCHANGED <<values, current, resolved, database, exists, comparing, running, cancelled>>

Resolved ==
    /\ pc = "load" /\ stack # <<>> /\ ToVisit = {}
    /\ resolved' = [resolved EXCEPT ![Top.key] = Top.text]
    /\ mark' = [mark EXCEPT ![Top.key] = 2]
    /\ stack' = Below
    /\ UNCHANGED <<pc, values, current, cycle, database, exists, comparing, running, cancelled, exit>>

AllResolved == pc = "load" /\ stack = <<>> /\ \A k \in Keys : mark[k] = 2

\* The values are substituted in the pipeline, and the next configuration is loaded.
Loaded ==
    /\ AllResolved
    /\ current' = current + 1
    /\ mark' = [k \in Keys |-> 0]
    /\ resolved' = [k \in Keys |-> {}]
    /\ pc' = IF current < N THEN "load" ELSE "compare"
    /\ UNCHANGED <<values, stack, cycle, database, exists, comparing, running, cancelled, exit>>

\* The file cannot be read, or Validate refuses something else in it.
LoadFails ==
    /\ pc = "load" /\ stack = <<>>
    /\ Leave(1)
    /\ UNCHANGED <<values, loading, database, exists, comparing, running, cancelled>>

----------------------------------------------------------------------------
(* validateNamedConfigs: every path with those before it, by                *)
(* PathsEquivalent; between two looks at the file system a database may     *)
(* appear.                                                                  *)

CreateDatabase(d) ==
    /\ pc \in {"load", "compare"} /\ d \notin exists
    /\ exists' = exists \cup {d}
    /\ UNCHANGED <<pc, values, loading, database, comparing, running, cancelled, exit>>

Compared == pc = "compare" /\ pair[2] <= N

\* Stat, of the left and of the right path in turn.
Stat(side) == IF database[pair[side]] \in exists THEN "present" ELSE "missing"

\* Mutant: one look at each is enough.
SecondLookMutantNever == FALSE

\* The two looks disagree, and both are repeated once.
SecondLook == stats[1] # stats[2]

LookAgain == Len(stats) < 2 \/ (Len(stats) \in {2, 3} /\ SecondLook)

Look ==
    /\ Compared /\ LookAgain
    /\ stats' = Append(stats, Stat((Len(stats) % 2) + 1))
    /\ UNCHANGED <<pc, values, loading, database, exists, pair, running, cancelled, exit>>

\* The last look at the left and at the right path.
LastLook == SubSeq(stats, Len(stats) - 1, Len(stats))

BothPresent == <<"present", "present">>
BothMissing == <<"missing", "missing">>

Same == database[pair[1]] = database[pair[2]]

\* unresolvedSuffixesEquivalent: names that some file systems would not tell apart.
SameName == FoldOf[database[pair[1]]] = FoldOf[database[pair[2]]]

NextPair == IF pair[1] + 1 < pair[2] THEN <<pair[1] + 1, pair[2]>> ELSE <<1, pair[2] + 1>>

Differ == /\ pair' = NextPair /\ stats' = <<>>
          /\ UNCHANGED <<pc, exit>>

\* Both exist: os.SameFile. One does: different. None does: the unresolved names are
\* compared below the deepest directories, without case and where a file that has appeared
\* is an error.
Verdict ==
    /\ Compared /\ ~LookAgain
    /\ \/ LastLook = BothPresent /\ ~Same /\ Differ
       \/ LastLook[1] # LastLook[2] /\ Differ
       \/ LastLook = BothMissing /\ <<Stat(1), Stat(2)>> = BothMissing /\ ~SameName /\ Differ
       \/ /\ \/ LastLook = BothPresent /\ Same
             \/ LastLook = BothMissing /\ (<<Stat(1), Stat(2)>> # BothMissing \/ SameName)
          /\ Leave(1)
          /\ UNCHANGED comparing
    /\ UNCHANGED <<values, loading, database, exists, running, cancelled>>

----------------------------------------------------------------------------
(* runMany.                                                                 *)

\* A context that is done before the start is a clean end.
Launch ==
    /\ pc = "compare" /\ pair[2] > N
    /\ IF "parent" \in cancelled
       THEN Leave(0) /\ UNCHANGED runner
       ELSE /\ pc' = "run" /\ UNCHANGED exit
            /\ runner' = [c \in Configs |-> [pc |-> "running", err |-> {}]]
    /\ UNCHANGED <<values, loading, database, exists, comparing, results, cancelled, reported>>

\* SIGINT or SIGTERM; a second one kills the process.
Signal ==
    /\ pc # "exited" /\ "parent" \notin cancelled
    /\ cancelled' = {"parent", "child"}
    /\ UNCHANGED <<pc, values, loading, database, exists, comparing, running, exit>>

\* Only a context that is done cancels a runner.
RunnerReturns(c, err) ==
    /\ runner[c].pc = "running"
    /\ "canceled" \in err => "child" \in cancelled
    /\ runner' = [runner EXCEPT ![c] = [pc |-> "returned", err |-> err]]
    /\ results' = Append(results, c)
    /\ UNCHANGED <<pc, values, loading, database, exists, comparing, cancelled, reported, exit>>

\* Mutant: an error that holds a cancellation is one.
IsCancellationFromMutantAny(err, context) == "canceled" \in err /\ context \in cancelled

\* isCancellationFrom and cancellationOnlyFrom: nothing but the cancellation of the context.
IsCancellationFrom(err, context) == err = {"canceled"} /\ context \in cancelled

\* Mutant: the others are left running.
CancelSiblingsMutantNone == cancelled

CancelSiblings == cancelled \cup {"child"}

Collect ==
    LET err   == runner[results[1]].err
        clean == \/ err = {}
                 \/ IsCancellationFrom(err, "parent")
                 \/ reported # {} /\ IsCancellationFrom(err, "child")
    IN  /\ pc = "run" /\ results # <<>>
        /\ results' = Tail(results)
        /\ runner' = [runner EXCEPT ![results[1]].pc = "collected"]
        /\ reported' = IF clean THEN reported ELSE reported \cup {results[1]}
        /\ cancelled' = IF ~clean /\ reported = {} THEN CancelSiblings ELSE cancelled
        /\ UNCHANGED <<pc, values, loading, database, exists, comparing, exit>>

\* Mutant: the first error is returned at once.
AllCollectedMutantFirstError == reported # {} \/ \A c \in Configs : runner[c].pc = "collected"

AllCollected == \A c \in Configs : runner[c].pc = "collected"

\* testSelectedConfig: cancellation alone is no error for the command.
Return ==
    LET failures == {c \in reported : ~IsCancellationFrom(runner[c].err, "parent")}
    IN  /\ pc = "run" /\ AllCollected
        /\ Leave(IF failures = {} THEN 0 ELSE 1)
        /\ UNCHANGED <<values, loading, database, exists, comparing, running, cancelled>>

----------------------------------------------------------------------------

Load == NextKey \/ Visit \/ Resolved \/ Loaded
Compare == Look \/ Verdict
RunMany == Launch \/ Collect \/ Return

Next == \/ Load \/ LoadFails \/ Compare \/ RunMany
        \/ \E c \in Configs, err \in SUBSET Causes : RunnerReturns(c, err)
        \/ \E d \in Databases : CreateDatabase(d)
        \/ Signal

Spec == Init /\ [][Next]_vars

\* The command's own steps happen, and a runner whose context is done returns.
FairSpec ==
    /\ Spec
    /\ WF_vars(Load) /\ WF_vars(Compare) /\ WF_vars(RunMany)
    /\ \A c \in Configs :
         WF_vars("child" \in cancelled /\ \E err \in SUBSET Causes : RunnerReturns(c, err))

----------------------------------------------------------------------------

StandaloneTypeOK ==
    /\ pc \in {"load", "compare", "run", "exited"}
    /\ current \in 1..N + 1
    /\ mark \in [Keys -> 0..2]
    /\ \A i \in DOMAIN stack : /\ stack[i].key \in Keys
                               /\ stack[i].seen \subseteq Keys /\ stack[i].text \subseteq Keys
    /\ resolved \in [Keys -> SUBSET Keys]
    /\ database \in [Configs -> Databases] /\ exists \subseteq Databases
    /\ pair \in (1..N) \X (2..N + 1) /\ Len(stats) \in 0..4
    /\ \A c \in Configs : /\ runner[c].pc \in {"none", "running", "returned", "collected"}
                          /\ runner[c].err \subseteq Causes
    /\ cancelled \subseteq {"parent", "child"} /\ reported \subseteq Configs
    /\ exit \in {-1, 0, 1}

\* The keys that k reaches: the least set that holds k and what its members refer to.
Reach(graph, k) ==
    {l \in Keys : \A S \in SUBSET Keys :
                    (k \in S /\ \A m \in S : graph[m] \subseteq S) => l \in S}

Cyclic(graph) == \E k \in Keys : \E l \in graph[k] : k \in Reach(graph, l)

\* A resolved value holds the text of every key it reaches and of no other, in whatever
\* order keys were met; a cycle is refused, and what is reported as one is one.
ValuesResolved ==
    /\ AllResolved => /\ ~Cyclic(values[current])
                      /\ \A k \in Keys : resolved[k] = Reach(values[current], k)
    /\ cycle # <<>> => /\ cycle[1] = cycle[Len(cycle)] /\ Len(cycle) > 1
                       /\ \A i \in 1..Len(cycle) - 1 : cycle[i + 1] \in values[current][cycle[i]]

\* No two runners share a database, though it was created while their paths were compared.
AliasNeverMissed ==
    \A c, d \in Configs :
        (c # d /\ {runner[c].pc, runner[d].pc} \cap {"none"} = {}) => database[c] # database[d]

\* The command succeeds only if no runner failed: neither the cancellation of the
\* siblings of a failure nor a signal that comes at the same time hides it.
CleanExitIsTrue ==
    (pc = "exited" /\ exit = 0) => \A c \in Configs : "failed" \notin runner[c].err

\* No daemon outlives the command, nor the start of a configuration that was refused.
NoneLeftRunning == pc = "exited" => \A c \in Configs : runner[c].pc # "running"

\* The exit code tells the truth about every daemon the command ran.
StandaloneInv == /\ StandaloneTypeOK
                 /\ CleanExitIsTrue
                 /\ NoneLeftRunning

\* The failure of one runner, or a signal, ends the command.
FailureEndsAll ==
    ((\E c \in Configs : runner[c].err # {}) \/ "parent" \in cancelled) ~> (pc = "exited")

=============================================================================

-------------------------- MODULE SupervisorProofs --------------------------
(***************************************************************************)
(* Proofs about Supervisor, for any finite set of configurations, any      *)
(* paths and aliases among them, any requests, names and limits.           *)
(***************************************************************************)
EXTENDS Supervisor, FiniteSetTheorems, WellFoundedInduction, TLAPS

RuntimesInv ==
    /\ uses \in [Configs -> Paths]
    /\ runtimes \in Seq(Runtime)
    /\ \A r \in DOMAIN runtimes :
          /\ runtimes[r].state = "ended" <=> runtimes[r].pc = "done"
          /\ runtimes[r].queue # NoPath => Equivalent(runtimes[r].database, runtimes[r].queue)
    /\ asked \in 0..MaxRequests /\ edits \in 0..MaxEdits

\* What is listed is listed under its ID and its name, and what is active is listed.
ListedInv ==
    /\ \A x \in DOMAIN instances :
          /\ x \in Ids /\ instances[x] \in DOMAIN runtimes
          /\ runtimes[instances[x]].id = x
          /\ runtimes[instances[x]].name \in DOMAIN names
          /\ names[runtimes[instances[x]].name] = x
    /\ \A n \in DOMAIN names : /\ names[n] \in DOMAIN instances
                               /\ runtimes[instances[names[n]]].name = n
    /\ DOMAIN names \cap DOMAIN instances = {}
    /\ \A r \in DOMAIN runtimes : Active(r) => /\ runtimes[r].id \in DOMAIN instances
                                               /\ instances[runtimes[r].id] = r

\* The owners' maps hold what the active instances use, and nothing else.
OwnersInv ==
    /\ \A r \in DOMAIN runtimes : Active(r) =>
          /\ runtimes[r].config \in DOMAIN activeConfigs
          /\ activeConfigs[runtimes[r].config] = runtimes[r].id
          /\ runtimes[r].database \in DOMAIN activeDatabases
          /\ activeDatabases[runtimes[r].database] = runtimes[r].id
    /\ \A c \in DOMAIN activeConfigs :
          \E r \in DOMAIN runtimes : /\ Active(r) /\ runtimes[r].config = c
                                     /\ activeConfigs[c] = runtimes[r].id
    /\ \A p \in DOMAIN activeDatabases :
          \E r \in DOMAIN runtimes : /\ Active(r) /\ runtimes[r].database = p
                                     /\ activeDatabases[p] = runtimes[r].id
    /\ \A p, o \in DOMAIN activeDatabases : Equivalent(p, o) => p = o

\* The catalogue knows a file under one path and its aliases.
KnownInv ==
    /\ \A k \in DOMAIN knownQueues :
          /\ k \in Paths
          /\ knownQueues[k] \in [config : Configs, aliases : SUBSET Paths]
          /\ \A a \in knownQueues[k].aliases : Equivalent(a, k)
    /\ OneQueuePerFile

\* A start that has been loaded holds what it read then; one that has been checked holds
\* what may be started together and for the queue that was asked for.
RequestInv(q) ==
    /\ request[q].pc \in PCs
    /\ request[q].pc \in {"loaded", "checked"} =>
          /\ DOMAIN request[q].candidates \subseteq Configs
          /\ \A c \in DOMAIN request[q].candidates : request[q].candidates[c] \in Paths
          /\ request[q].queue \in Paths \cup {NoPath}
          /\ request[q].remove \in BOOLEAN
    /\ request[q].pc = "checked" =>
          /\ ValidCandidates(request[q].candidates)
          /\ ExpectedQueue(request[q].candidates, request[q].queue)

RequestsInv == /\ DOMAIN request = Requests
               /\ \A q \in Requests : RequestInv(q)

Terminated == {x \in DOMAIN instances : ~Active(instances[x])}

RetentionInv == IsFiniteSet(Terminated) /\ Cardinality(Terminated) <= Retained

SupervisorIInv == /\ RuntimesInv /\ ListedInv /\ OwnersInv
                  /\ KnownInv /\ RequestsInv /\ RetentionInv

-----------------------------------------------------------------------------
(* Operators.                                                               *)

\* The limits are numbers, and there are finitely many configurations.
LEMMA LimitTypes ==
    /\ Retained \in Nat \ {0} /\ MaxRequests \in Nat /\ MaxEdits \in Nat
    /\ IsFiniteSet(Configs) /\ NoPath \notin Paths /\ FileOf \in [Paths -> Paths]
  BY SupervisorAssumption

\* A finite set is listed without repetition.
LEMMA SetToSeqLists ==
    ASSUME NEW S, IsFiniteSet(S)
    PROVE  /\ Cardinality(S) \in Nat
           /\ SetToSeq(S) \in [1..Cardinality(S) -> S]
           /\ IsInjective(SetToSeq(S))
  <1>1. PICK n \in Nat : ExistsBijection(1..n, S)
    BY FS_NatBijection
  <1>2. Cardinality(S) = n
    BY <1>1, FS_CountingElements
  <1>3. PICK f : f \in Bijection(1..n, S)
    BY <1>1, Zenon DEF ExistsBijection
  <1>4. f \in [1..n -> S] /\ IsInjective(f)
    BY <1>3, Zenon DEF Bijection, Injection
  <1>5. \E g \in [1..Cardinality(S) -> S] : IsInjective(g)
    BY <1>2, <1>4
  <1>6. SetToSeq(S) \in [1..Cardinality(S) -> S] /\ IsInjective(SetToSeq(S))
    BY <1>5, Zenon DEF SetToSeq
  <1> QED BY <1>1, <1>2, <1>6

\* The map from distinct keys to values.
LEMMA KeyedAt ==
    ASSUME NEW keys, NEW values, IsInjective(keys), NEW i \in DOMAIN keys
    PROVE  Keyed(keys, values)[keys[i]] = values[i]
  <1>1. PICK k : k = keys[i]
    OBVIOUS
  <1>2. PICK j : j = CHOOSE m \in DOMAIN keys : keys[m] = k
    OBVIOUS
  <1>3. j \in DOMAIN keys /\ keys[j] = k
    BY <1>1, <1>2, Zenon
  <1>4. j = i
    BY <1>1, <1>3 DEF IsInjective
  <1>5. k \in {keys[m] : m \in DOMAIN keys}
    BY <1>1
  <1>6. Keyed(keys, values)[k] = values[CHOOSE m \in DOMAIN keys : keys[m] = k]
    BY <1>5, Zenon DEF Keyed
  <1> QED BY <1>1, <1>2, <1>4, <1>6, Zenon

\* h is f with keys[i] mapped to values[i].
Extends(h, f, n, keys, values) ==
    /\ DOMAIN h = DOMAIN f \cup {keys[i] : i \in 1..n}
    /\ \A i \in 1..n : h[keys[i]] = values[i]
    /\ \A x \in DOMAIN f \ {keys[i] : i \in 1..n} : h[x] = f[x]

\* Distinct keys extend a map and leave the rest of it alone.
LEMMA Extended ==
    ASSUME NEW f, NEW n \in Nat, NEW keys, NEW values, DOMAIN keys = 1..n,
           IsInjective(keys),
           NEW h, h = Updated(f, Keyed(keys, values))
    PROVE  Extends(h, f, n, keys, values)
  <1>a. DOMAIN Keyed(keys, values) = {keys[i] : i \in 1..n}
    BY Zenon DEF Keyed
  <1>b. ASSUME NEW i \in 1..n PROVE Keyed(keys, values)[keys[i]] = values[i]
    BY KeyedAt
  <1>2. PICK g : g = Keyed(keys, values)
    OBVIOUS
  <1>3. /\ DOMAIN g = {keys[i] : i \in 1..n}
        /\ \A i \in 1..n : g[keys[i]] = values[i]
    BY <1>a, <1>b, <1>2
  <1>4. h = Updated(f, g)
    BY <1>2
  <1>5. /\ DOMAIN h = DOMAIN f \cup DOMAIN g
        /\ \A x \in DOMAIN g : h[x] = g[x]
        /\ \A x \in DOMAIN f \ DOMAIN g : h[x] = f[x]
    BY <1>4 DEF Updated
  <1> QED BY <1>3, <1>5 DEF Extends

\* Reaching one file is an equivalence.
LEMMA EquivalentIsOne ==
    /\ \A p : Equivalent(p, p)
    /\ \A p, o : Equivalent(p, o) => Equivalent(o, p)
    /\ \A p, o, s : (Equivalent(p, o) /\ Equivalent(o, s)) => Equivalent(p, s)
  BY DEF Equivalent

-----------------------------------------------------------------------------
(* What Reserve does, entry by entry: n new instances, the i-th of the      *)
(* configuration order[i], with the name and the ID of label[i].            *)

\* The labels are new, and no two are alike.
Fresh(n, label) ==
    /\ \A i \in 1..n : /\ label[i].id \notin DOMAIN instances \cup DOMAIN names
                       /\ label[i].name \notin DOMAIN instances \cup DOMAIN names
    /\ \A i, j \in 1..n : label[i].id # label[j].name
    /\ \A i, j \in 1..n : i # j => /\ label[i].id # label[j].id
                                   /\ label[i].name # label[j].name

\* Labels that availableNameLocked and availableIDLocked find are fresh.
LEMMA FreeIsFresh ==
    ASSUME NEW n \in Nat, NEW label, DOMAIN label = 1..n, NEW explicit, Free(label, explicit)
    PROVE  Fresh(n, label)
  <1>1. ASSUME NEW i \in 1..n
        PROVE  /\ label[i].name \notin Taken(label, i)
               /\ label[i].id \notin Taken(label, i)
               /\ label[i].id # label[i].name
    BY <1>1 DEF Free, First
  <1>2. ASSUME NEW i \in 1..n
        PROVE  DOMAIN instances \cup DOMAIN names \subseteq Taken(label, i)
    BY DEF Taken
  <1>3. ASSUME NEW i \in 1..n, NEW j \in 1..n, j < i
        PROVE  label[j].name \in Taken(label, i) /\ label[j].id \in Taken(label, i)
    <2>1. j \in 1..i - 1
      BY <1>3
    <2>2. {label[j].name, label[j].id} \in {{label[m].name, label[m].id} : m \in 1..i - 1}
      BY <2>1
    <2> QED BY <2>2, Zenon DEF Taken
  <1>4. ASSUME NEW i \in 1..n, NEW j \in 1..n, j < i
        PROVE  /\ label[i].id # label[j].id /\ label[i].name # label[j].name
               /\ label[i].id # label[j].name /\ label[i].name # label[j].id
    BY <1>1, <1>3, <1>4
  <1>5. \A i, j \in 1..n : i = j \/ j < i \/ i < j
    OBVIOUS
  <1>6. \A i, j \in 1..n : label[i].id # label[j].name
    BY <1>1, <1>4, <1>5
  <1>7. \A i, j \in 1..n : i # j => label[i].id # label[j].id /\ label[i].name # label[j].name
    BY <1>4, <1>5
  <1>8. \A i \in 1..n : /\ label[i].id \notin DOMAIN instances \cup DOMAIN names
                        /\ label[i].name \notin DOMAIN instances \cup DOMAIN names
    BY <1>1, <1>2
  <1> QED BY <1>6, <1>7, <1>8 DEF Fresh

\* The maps as Reserve writes them, for an order and labels.
Reserved(q, n, order, label) ==
    /\ runtimes' = runtimes \o [i \in 1..n |-> NewRuntime(request[q], order[i], label[i])]
    /\ instances' = Updated(instances, Keyed([i \in 1..n |-> label[i].id],
                                             [i \in 1..n |-> Len(runtimes) + i]))
    /\ names' = Updated(names, Keyed([i \in 1..n |-> label[i].name],
                                     [i \in 1..n |-> label[i].id]))
    /\ activeConfigs' = Updated(activeConfigs, Keyed(order, [i \in 1..n |-> label[i].id]))
    /\ activeDatabases' = Updated(activeDatabases,
                                  Keyed([i \in 1..n |-> request[q].candidates[order[i]]],
                                        [i \in 1..n |-> label[i].id]))

ReservedQueues(q, n, order) ==
    knownQueues' = Updated(knownQueues,
                           Keyed([i \in 1..n |-> QueueIdentity(request[q].candidates[order[i]])],
                                 [i \in 1..n |-> Known(order[i],
                                                       request[q].candidates[order[i]])]))

LabelRecords == [name : Names \cup AutoNames, id : Ids]

\* Every Reserve has an order and fresh labels.
LEMMA ReserveChooses ==
    ASSUME NEW q \in Requests, RequestInv(q), Reserve(q)
    PROVE  \E n \in Nat :
             \E order \in [1..n -> DOMAIN request[q].candidates], label \in [1..n -> LabelRecords] :
               /\ IsInjective(order) /\ Fresh(n, label)
               /\ Reserved(q, n, order, label) /\ ReservedQueues(q, n, order)
  <1>1. PICK S : S = DOMAIN request[q].candidates
    OBVIOUS
  <1>2. request[q].pc = "checked"
    BY Zenon DEF Reserve
  <1>3. S \subseteq Configs
    BY <1>1, <1>2 DEF RequestInv
  <1>4. IsFiniteSet(S)
    BY <1>3, LimitTypes, FS_Subset
  <1>5. PICK order : order = SetToSeq(S)
    OBVIOUS
  <1>6. PICK n : n = Cardinality(S)
    OBVIOUS
  <1>7. n \in Nat /\ order \in [1..n -> S] /\ IsInjective(order)
    BY <1>4, <1>5, <1>6, SetToSeqLists
  <1>8. DOMAIN order = 1..n
    BY <1>7
  <1>9. PICK label \in Labelings(request[q]) : Reserved(q, n, order, label)
    BY <1>1, <1>5, <1>8, Zenon DEF Reserve, Reserved
  <1>10. label \in [1..n -> LabelRecords] /\ Free(label, request[q].name)
    BY <1>1, <1>6, <1>9, Zenon DEF Labelings, LabelRecords
  <1>11. Fresh(n, label)
    <2>1. DOMAIN label = 1..n
      BY <1>10
    <2> QED BY <1>7, <1>10, <2>1, FreeIsFresh
  <1>12. ReservedQueues(q, n, order)
    BY <1>1, <1>5, <1>8, Zenon DEF Reserve, ReservedQueues
  <1> QED BY <1>1, <1>7, <1>9, <1>10, <1>11, <1>12

\* The instances of before keep their places, and the new ones follow.
Appended(q, n, order, label) ==
    /\ \E T : runtimes' \in Seq(T)
    /\ DOMAIN runtimes' = 1..Len(runtimes) + n
    /\ \A s \in DOMAIN runtimes : runtimes'[s] = runtimes[s]
    /\ \A i \in 1..n : runtimes'[Len(runtimes) + i] = NewRuntime(request[q], order[i], label[i])

\* What the concatenation of Reserve is, place by place.
LEMMA ReservedAppends ==
    ASSUME RuntimesInv, NEW q, NEW n \in Nat, NEW order, NEW label, Reserved(q, n, order, label)
    PROVE  Appended(q, n, order, label)
  <1>1. PICK new : new = [i \in 1..n |-> NewRuntime(request[q], order[i], label[i])]
    OBVIOUS
  <1>2. runtimes' = runtimes \o new
    BY <1>1 DEF Reserved
  <1>3. PICK T : runtimes \in Seq(T) /\ new \in Seq(T)
    <2>1. runtimes \in Seq(Runtime)
      BY DEF RuntimesInv
    <2>2. PICK T : T = Runtime \cup {new[i] : i \in 1..n}
      OBVIOUS
    <2>3. runtimes \in Seq(T)
      BY <2>1, <2>2
    <2>4. new \in [1..n -> T]
      BY <1>1, <2>2
    <2>5. new \in Seq(T)
      BY <2>4
    <2> QED BY <2>3, <2>5
  <1>4. Len(new) = n
    BY <1>1, <1>3
  <1>5. DOMAIN runtimes' = 1..Len(runtimes) + n
    <2>1. runtimes' \in Seq(T) /\ Len(runtimes') = Len(runtimes) + Len(new)
      BY <1>2, <1>3
    <2>2. DOMAIN runtimes' = 1..Len(runtimes')
      BY <2>1
    <2> QED BY <1>4, <2>1, <2>2
  <1>6. \A s \in DOMAIN runtimes : runtimes'[s] = runtimes[s]
    BY <1>2, <1>3, <1>4
  <1>7. \A i \in 1..n : runtimes'[Len(runtimes) + i] = new[i]
    BY <1>2, <1>3, <1>4
  <1>8. \E U : runtimes' \in Seq(U)
    BY <1>2, <1>3
  <1> QED BY <1>1, <1>5, <1>6, <1>7, <1>8 DEF Appended

\* The labels lead to the new instances, and the old ones to where they led.
Entered(n, label) ==
    /\ DOMAIN instances' = DOMAIN instances \cup {label[i].id : i \in 1..n}
    /\ \A i \in 1..n : instances'[label[i].id] = Len(runtimes) + i
    /\ \A x \in DOMAIN instances : instances'[x] = instances[x]
    /\ DOMAIN names' = DOMAIN names \cup {label[i].name : i \in 1..n}
    /\ \A i \in 1..n : names'[label[i].name] = label[i].id
    /\ \A m \in DOMAIN names : names'[m] = names[m]

\* What the registers of names and IDs are, label by label.
LEMMA ReservedEnters ==
    ASSUME NEW q, NEW n \in Nat, NEW order, NEW label, Reserved(q, n, order, label),
           Fresh(n, label)
    PROVE  Entered(n, label)
  <1>1. PICK ids : ids = [i \in 1..n |-> label[i].id]
    OBVIOUS
  <1>2. PICK places : places = [i \in 1..n |-> Len(runtimes) + i]
    OBVIOUS
  <1>3. PICK called : called = [i \in 1..n |-> label[i].name]
    OBVIOUS
  <1>4. IsInjective(ids) /\ DOMAIN ids = 1..n
    BY <1>1 DEF IsInjective, Fresh
  <1>5. IsInjective(called) /\ DOMAIN called = 1..n
    BY <1>3 DEF IsInjective, Fresh
  <1>6. instances' = Updated(instances, Keyed(ids, places))
    BY <1>1, <1>2 DEF Reserved
  <1>7. names' = Updated(names, Keyed(called, ids))
    BY <1>1, <1>3 DEF Reserved
  <1>8. /\ DOMAIN instances' = DOMAIN instances \cup {ids[i] : i \in 1..n}
        /\ \A i \in 1..n : instances'[ids[i]] = places[i]
        /\ \A x \in DOMAIN instances \ {ids[i] : i \in 1..n} : instances'[x] = instances[x]
    <2>1. Extends(instances', instances, n, ids, places)
      BY <1>4, <1>6, Extended
    <2> QED BY <2>1 DEF Extends
  <1>9. /\ DOMAIN names' = DOMAIN names \cup {called[i] : i \in 1..n}
        /\ \A i \in 1..n : names'[called[i]] = ids[i]
        /\ \A x \in DOMAIN names \ {called[i] : i \in 1..n} : names'[x] = names[x]
    <2>1. Extends(names', names, n, called, ids)
      BY <1>5, <1>7, Extended
    <2> QED BY <2>1 DEF Extends
  <1>10. \A i \in 1..n : ids[i] = label[i].id /\ called[i] = label[i].name
    BY <1>1, <1>3
  <1>11. \A i \in 1..n : places[i] = Len(runtimes) + i
    BY <1>2
  <1>12. /\ {ids[i] : i \in 1..n} = {label[i].id : i \in 1..n}
         /\ {called[i] : i \in 1..n} = {label[i].name : i \in 1..n}
    BY <1>10
  <1>13. \A i \in 1..n : ids[i] \notin DOMAIN instances /\ called[i] \notin DOMAIN names
    BY <1>10 DEF Fresh
  <1>14. \A x \in DOMAIN instances : instances'[x] = instances[x]
    BY <1>8, <1>13
  <1>15. \A x \in DOMAIN names : names'[x] = names[x]
    BY <1>9, <1>13
  <1>16. \A i \in 1..n : instances'[label[i].id] = Len(runtimes) + i
    BY <1>8, <1>10, <1>11
  <1>17. \A i \in 1..n : names'[label[i].name] = label[i].id
    BY <1>9, <1>10
  <1> QED BY <1>8, <1>9, <1>12, <1>14, <1>15, <1>16, <1>17 DEF Entered

\* The database of the i-th new instance.
Database(q, order, i) == request[q].candidates[order[i]]

\* No candidate is in use, nor are two candidates' databases one.
Unowned(q, n, order) ==
    /\ \A i \in 1..n : order[i] \notin DOMAIN activeConfigs
    /\ \A i \in 1..n : \A o \in DOMAIN activeDatabases : ~Equivalent(Database(q, order, i), o)
    /\ \A i, j \in 1..n : i # j => /\ order[i] # order[j]
                                   /\ ~Equivalent(Database(q, order, i), Database(q, order, j))

\* The copy that was inspected is current: what it does not own, nobody does.
LEMMA ReserveFindsUnowned ==
    ASSUME NEW q \in Requests, RequestInv(q), Reserve(q), NEW n \in Nat,
           NEW order \in [1..n -> DOMAIN request[q].candidates], IsInjective(order)
    PROVE  Unowned(q, n, order)
  <1>1. PICK C : C = request[q].candidates
    OBVIOUS
  <1>2. request[q].pc = "checked" /\ Current(q) /\ ~Conflicts(request[q].candidates, request[q].seen)
    BY Zenon DEF Reserve
  <1>3. request[q].seen[1] = activeConfigs /\ request[q].seen[2] = activeDatabases
    BY <1>2 DEF Current
  <1>4. \A c \in DOMAIN C : c \notin DOMAIN activeConfigs
    BY <1>1, <1>2, <1>3 DEF Conflicts
  <1>5. ASSUME NEW c \in DOMAIN C, NEW o \in DOMAIN activeDatabases PROVE ~Equivalent(C[c], o)
    <2>1. DatabaseOwners(C[c], activeDatabases) = {}
      BY <1>1, <1>2, <1>3, Zenon DEF Conflicts
    <2> QED BY <2>1, Zenon DEF DatabaseOwners
  <1>6. \A c, d \in DOMAIN C : c # d => ~Equivalent(C[c], C[d])
    BY <1>1, <1>2, Zenon DEF RequestInv, ValidCandidates
  <1>7. \A i \in 1..n : order[i] \in DOMAIN C
    BY <1>1
  <1>8. \A i, j \in 1..n : i # j => order[i] # order[j]
    <2>1. DOMAIN order = 1..n
      OBVIOUS
    <2> QED BY <2>1, Zenon DEF IsInjective
  <1> QED BY <1>1, <1>4, <1>5, <1>6, <1>7, <1>8, Zenon DEF Unowned, Database

\* The new instances own what they use; the owners of before stay.
Owned(q, n, order, label) ==
    /\ DOMAIN activeConfigs' = DOMAIN activeConfigs \cup {order[i] : i \in 1..n}
    /\ \A i \in 1..n : activeConfigs'[order[i]] = label[i].id
    /\ \A c \in DOMAIN activeConfigs : activeConfigs'[c] = activeConfigs[c]
    /\ DOMAIN activeDatabases' = DOMAIN activeDatabases \cup {Database(q, order, i) : i \in 1..n}
    /\ \A i \in 1..n : activeDatabases'[Database(q, order, i)] = label[i].id
    /\ \A p \in DOMAIN activeDatabases : activeDatabases'[p] = activeDatabases[p]

\* What the owners' maps are, key by key.
LEMMA ReservedOwns ==
    ASSUME NEW q, NEW n \in Nat, NEW order, NEW label, DOMAIN order = 1..n, IsInjective(order),
           Reserved(q, n, order, label), Unowned(q, n, order)
    PROVE  Owned(q, n, order, label)
  <1>1. PICK ids : ids = [i \in 1..n |-> label[i].id]
    OBVIOUS
  <1>2. PICK paths : paths = [i \in 1..n |-> Database(q, order, i)]
    OBVIOUS
  <1>3. \A i \in 1..n : paths[i] = Database(q, order, i) /\ ids[i] = label[i].id
    BY <1>1, <1>2
  <1>4. DOMAIN paths = 1..n
    BY <1>2
  <1>5. \A i, j \in 1..n : i # j => paths[i] # paths[j]
    BY <1>3, EquivalentIsOne, Zenon DEF Unowned
  <1>6. IsInjective(paths)
    BY <1>4, <1>5, Zenon DEF IsInjective
  <1>7. activeConfigs' = Updated(activeConfigs, Keyed(order, ids))
    BY <1>1 DEF Reserved
  <1>8. activeDatabases' = Updated(activeDatabases, Keyed(paths, ids))
    BY <1>1, <1>2 DEF Reserved, Database
  <1>9. Extends(activeConfigs', activeConfigs, n, order, ids)
    BY <1>7, Extended
  <1>10. Extends(activeDatabases', activeDatabases, n, paths, ids)
    BY <1>4, <1>6, <1>8, Extended
  <1>11. \A i \in 1..n : order[i] \notin DOMAIN activeConfigs /\ paths[i] \notin DOMAIN activeDatabases
    <2>1. \A i \in 1..n : order[i] \notin DOMAIN activeConfigs
      BY DEF Unowned
    <2>2. \A i \in 1..n : \A o \in DOMAIN activeDatabases : paths[i] # o
      BY <1>3, EquivalentIsOne, Zenon DEF Unowned
    <2> QED BY <2>1, <2>2
  <1>12. {paths[i] : i \in 1..n} = {Database(q, order, i) : i \in 1..n}
    BY <1>3
  <1>13. /\ DOMAIN activeConfigs' = DOMAIN activeConfigs \cup {order[i] : i \in 1..n}
         /\ \A i \in 1..n : activeConfigs'[order[i]] = label[i].id
         /\ \A c \in DOMAIN activeConfigs : activeConfigs'[c] = activeConfigs[c]
    BY <1>3, <1>9, <1>11 DEF Extends
  <1>14. DOMAIN activeDatabases' = DOMAIN activeDatabases \cup {Database(q, order, i) : i \in 1..n}
    BY <1>10, <1>12 DEF Extends
  <1>15. \A i \in 1..n : activeDatabases'[Database(q, order, i)] = label[i].id
    BY <1>3, <1>10 DEF Extends
  <1>16. \A p \in DOMAIN activeDatabases : activeDatabases'[p] = activeDatabases[p]
    BY <1>10, <1>11 DEF Extends
  <1> QED BY <1>13, <1>14, <1>15, <1>16 DEF Owned

\* Where the i-th new instance goes.
Place(i) == Len(runtimes) + i

\* The instances after a Reserve: those of before, and the new ones, which are active.
NewRows(q, n, order, label) ==
    /\ \A r \in DOMAIN runtimes : r \in DOMAIN runtimes' /\ runtimes'[r] = runtimes[r]
    /\ \A r \in DOMAIN runtimes' : r \in DOMAIN runtimes \/ \E i \in 1..n : r = Place(i)
    /\ \A i \in 1..n :
          /\ Place(i) \in DOMAIN runtimes'
          /\ Place(i) \notin DOMAIN runtimes
          /\ runtimes'[Place(i)] \in Runtime
          /\ runtimes'[Place(i)].config = order[i]
          /\ runtimes'[Place(i)].database = Database(q, order, i)
          /\ runtimes'[Place(i)].id = label[i].id
          /\ runtimes'[Place(i)].name = label[i].name
          /\ runtimes'[Place(i)].queue = request[q].queue
          /\ runtimes'[Place(i)].state = "running"
          /\ runtimes'[Place(i)].pc = "running"
    /\ \A i \in 1..n : instances'[label[i].id] = Place(i)

\* The new instances, field by field.
LEMMA ReservedRows ==
    ASSUME RuntimesInv, NEW q \in Requests, RequestInv(q), request[q].pc = "checked",
           NEW n \in Nat, NEW order \in [1..n -> DOMAIN request[q].candidates],
           NEW label \in [1..n -> LabelRecords],
           Appended(q, n, order, label), Entered(n, label)
    PROVE  NewRows(q, n, order, label)
  <1>0. PICK L \in Nat : L = Len(runtimes) /\ DOMAIN runtimes = 1..L
    BY DEF RuntimesInv
  <1>1. DOMAIN runtimes' = 1..L + n
    BY <1>0 DEF Appended
  <1>2. \A r \in DOMAIN runtimes : r \in DOMAIN runtimes' /\ runtimes'[r] = runtimes[r]
    BY <1>0, <1>1 DEF Appended
  <1>3. \A r \in 1..L + n : r \in 1..L \/ \E i \in 1..n : r = L + i
    <2>1. TAKE r \in 1..L + n
    <2>2. r \in 1..L \/ (r - L \in 1..n /\ r = L + (r - L))
      OBVIOUS
    <2> QED BY <2>2
  <1>4. \A i \in 1..n : L + i \in 1..L + n /\ L + i \notin 1..L
    OBVIOUS
  <1>5. ASSUME NEW i \in 1..n
        PROVE  /\ runtimes'[Place(i)] \in Runtime
               /\ runtimes'[Place(i)].config = order[i]
               /\ runtimes'[Place(i)].database = Database(q, order, i)
               /\ runtimes'[Place(i)].id = label[i].id
               /\ runtimes'[Place(i)].name = label[i].name
               /\ runtimes'[Place(i)].queue = request[q].queue
               /\ runtimes'[Place(i)].state = "running"
               /\ runtimes'[Place(i)].pc = "running"
    <2>1. runtimes'[Place(i)] = NewRuntime(request[q], order[i], label[i])
      BY DEF Appended, Place
    <2>2. order[i] \in DOMAIN request[q].candidates
      OBVIOUS
    <2>3. order[i] \in Configs /\ Database(q, order, i) \in Paths
      BY <2>2 DEF RequestInv, Database
    <2>4. label[i].id \in Ids /\ label[i].name \in Names \cup AutoNames
      BY DEF LabelRecords
    <2>5. request[q].queue \in Paths \cup {NoPath} /\ request[q].remove \in BOOLEAN
      BY DEF RequestInv
    <2> QED BY <2>1, <2>3, <2>4, <2>5 DEF NewRuntime, Runtime, Database
  <1>6. \A i \in 1..n : instances'[label[i].id] = Place(i)
    BY DEF Entered, Place
  <1>7. \A r \in DOMAIN runtimes' : r \in DOMAIN runtimes \/ \E i \in 1..n : r = Place(i)
    BY <1>0, <1>1, <1>3 DEF Place
  <1>8. \A i \in 1..n : Place(i) \in DOMAIN runtimes' /\ Place(i) \notin DOMAIN runtimes
    BY <1>0, <1>1, <1>4 DEF Place
  <1> QED BY <1>2, <1>5, <1>6, <1>7, <1>8 DEF NewRows

\* A Reserve, entry by entry.
ReservedAll(q, n, order, label) ==
    /\ order \in [1..n -> DOMAIN request[q].candidates] /\ label \in [1..n -> LabelRecords]
    /\ Fresh(n, label) /\ Unowned(q, n, order)
    /\ Appended(q, n, order, label) /\ Entered(n, label)
    /\ Owned(q, n, order, label) /\ NewRows(q, n, order, label)
    /\ ReservedQueues(q, n, order)

\* Every Reserve is one of n instances, entry by entry.
LEMMA ReserveRows ==
    ASSUME RuntimesInv, NEW q \in Requests, RequestInv(q), Reserve(q)
    PROVE  \E n \in Nat : \E order, label : ReservedAll(q, n, order, label)
  <1>0. PICK n \in Nat :
          \E order \in [1..n -> DOMAIN request[q].candidates], label \in [1..n -> LabelRecords] :
            /\ IsInjective(order) /\ Fresh(n, label)
            /\ Reserved(q, n, order, label) /\ ReservedQueues(q, n, order)
    BY ReserveChooses
  <1>1. PICK order \in [1..n -> DOMAIN request[q].candidates], label \in [1..n -> LabelRecords] :
            /\ IsInjective(order) /\ Fresh(n, label)
            /\ Reserved(q, n, order, label) /\ ReservedQueues(q, n, order)
    BY <1>0
  <1>2. request[q].pc = "checked"
    BY Zenon DEF Reserve
  <1>3. Unowned(q, n, order)
    BY <1>1, ReserveFindsUnowned
  <1>4. Appended(q, n, order, label) /\ Entered(n, label)
    BY <1>1, ReservedAppends, ReservedEnters
  <1>5. DOMAIN order = 1..n
    OBVIOUS
  <1>6. Owned(q, n, order, label)
    BY <1>1, <1>3, <1>5, ReservedOwns
  <1>7. NewRows(q, n, order, label)
    BY <1>2, <1>4, ReservedRows
  <1> QED BY <1>1, <1>3, <1>4, <1>6, <1>7 DEF ReservedAll

-----------------------------------------------------------------------------
(* Reserve keeps the invariant.                                             *)

\* The new instances are well formed and on the queue that was asked for.
LEMMA ReserveKeepsRuntimes ==
    ASSUME RuntimesInv, NEW q \in Requests, RequestInv(q), Reserve(q),
           NEW n \in Nat, NEW order, NEW label, ReservedAll(q, n, order, label)
    PROVE  RuntimesInv'
  <1>1. NewRows(q, n, order, label) /\ Appended(q, n, order, label)
        /\ order \in [1..n -> DOMAIN request[q].candidates]
    BY DEF ReservedAll
  <1>2. request[q].pc = "checked"
    BY Zenon DEF Reserve
  <1>3. UNCHANGED <<uses, asked, edits>>
    BY Zenon DEF Reserve
  <1>4. ASSUME NEW r \in DOMAIN runtimes'
        PROVE  /\ runtimes'[r] \in Runtime
               /\ runtimes'[r].state = "ended" <=> runtimes'[r].pc = "done"
               /\ runtimes'[r].queue # NoPath => Equivalent(runtimes'[r].database, runtimes'[r].queue)
    <2>1. CASE r \in DOMAIN runtimes
      BY <1>1, <2>1 DEF NewRows, RuntimesInv
    <2>2. ASSUME NEW i \in 1..n, r = Place(i)
          PROVE  /\ runtimes'[r] \in Runtime
                 /\ runtimes'[r].state = "ended" <=> runtimes'[r].pc = "done"
                 /\ runtimes'[r].queue # NoPath
                      => Equivalent(runtimes'[r].database, runtimes'[r].queue)
      <3>1. /\ runtimes'[r] \in Runtime /\ runtimes'[r].state = "running"
            /\ runtimes'[r].pc = "running" /\ runtimes'[r].database = Database(q, order, i)
            /\ runtimes'[r].queue = request[q].queue
        BY <1>1, <2>2 DEF NewRows
      <3>2. order[i] \in DOMAIN request[q].candidates
        BY <1>1
      <3>3. request[q].queue # NoPath => Equivalent(Database(q, order, i), request[q].queue)
        BY <1>2, <3>2 DEF RequestInv, ExpectedQueue, Database
      <3> QED BY <3>1, <3>3
    <2> QED BY <1>1, <2>1, <2>2 DEF NewRows
  <1>5. runtimes' \in Seq(Runtime)
    <2>1. PICK L \in Nat : L = Len(runtimes)
      BY DEF RuntimesInv
    <2>2. PICK m \in Nat : m = L + n
      OBVIOUS
    <2>3. DOMAIN runtimes' = 1..m
      BY <1>1, <2>1, <2>2 DEF Appended
    <2>4. PICK T : runtimes' \in Seq(T)
      BY <1>1 DEF Appended
    <2>5. runtimes' = [r \in 1..m |-> runtimes'[r]]
      BY <2>3, <2>4
    <2> QED BY <1>4, <2>3, <2>5
  <1> QED BY <1>3, <1>4, <1>5 DEF RuntimesInv, Equivalent

\* The new labels are fresh: the registers of names and IDs stay in step.
LEMMA ReserveKeepsListed ==
    ASSUME RuntimesInv, ListedInv, NEW q, NEW n \in Nat, NEW order, NEW label,
           ReservedAll(q, n, order, label)
    PROVE  ListedInv'
  <1>1. NewRows(q, n, order, label) /\ Entered(n, label) /\ Fresh(n, label)
    BY DEF ReservedAll
  <1>2. ASSUME NEW x \in DOMAIN instances'
        PROVE  /\ x \in Ids /\ instances'[x] \in DOMAIN runtimes'
               /\ runtimes'[instances'[x]].id = x
               /\ runtimes'[instances'[x]].name \in DOMAIN names'
               /\ names'[runtimes'[instances'[x]].name] = x
    <2>1. CASE x \in DOMAIN instances
      <3>1. /\ x \in Ids /\ instances[x] \in DOMAIN runtimes
            /\ runtimes[instances[x]].id = x
            /\ runtimes[instances[x]].name \in DOMAIN names
            /\ names[runtimes[instances[x]].name] = x
        BY <2>1 DEF ListedInv
      <3>2. instances'[x] = instances[x]
        BY <1>1, <2>1 DEF Entered
      <3>3. instances[x] \in DOMAIN runtimes' /\ runtimes'[instances[x]] = runtimes[instances[x]]
        BY <1>1, <3>1 DEF NewRows
      <3>4. /\ runtimes[instances[x]].name \in DOMAIN names'
            /\ names'[runtimes[instances[x]].name] = names[runtimes[instances[x]].name]
        BY <1>1, <3>1 DEF Entered
      <3> QED BY <3>1, <3>2, <3>3, <3>4
    <2>2. ASSUME NEW i \in 1..n, x = label[i].id
          PROVE  /\ x \in Ids /\ instances'[x] \in DOMAIN runtimes'
                 /\ runtimes'[instances'[x]].id = x
                 /\ runtimes'[instances'[x]].name \in DOMAIN names'
                 /\ names'[runtimes'[instances'[x]].name] = x
      <3>1. instances'[x] = Place(i)
        BY <1>1, <2>2 DEF NewRows
      <3>2. /\ Place(i) \in DOMAIN runtimes' /\ runtimes'[Place(i)].id = x
            /\ runtimes'[Place(i)].name = label[i].name
        BY <1>1, <2>2 DEF NewRows
      <3>3. label[i].name \in DOMAIN names' /\ names'[label[i].name] = x
        BY <1>1, <2>2 DEF Entered
      <3>4. x \in Ids
        BY <2>2 DEF ReservedAll, LabelRecords
      <3> QED BY <3>1, <3>2, <3>3, <3>4
    <2> QED BY <1>1, <2>1, <2>2 DEF Entered
  <1>3. ASSUME NEW m \in DOMAIN names'
        PROVE  names'[m] \in DOMAIN instances' /\ runtimes'[instances'[names'[m]]].name = m
    <2>1. CASE m \in DOMAIN names
      <3>1. names[m] \in DOMAIN instances /\ runtimes[instances[names[m]]].name = m
            /\ names'[m] = names[m]
        BY <1>1, <2>1 DEF ListedInv, Entered
      <3>2. names[m] \in DOMAIN instances' /\ instances'[names[m]] = instances[names[m]]
        BY <1>1, <3>1 DEF Entered
      <3>3. instances[names[m]] \in DOMAIN runtimes
        BY <3>1 DEF ListedInv
      <3>4. runtimes'[instances[names[m]]] = runtimes[instances[names[m]]]
        BY <1>1, <3>3 DEF NewRows
      <3> QED BY <3>1, <3>2, <3>4
    <2>2. ASSUME NEW i \in 1..n, m = label[i].name
          PROVE  names'[m] \in DOMAIN instances' /\ runtimes'[instances'[names'[m]]].name = m
      <3>1. names'[m] = label[i].id /\ label[i].id \in DOMAIN instances'
        BY <1>1, <2>2 DEF Entered
      <3>2. instances'[label[i].id] = Place(i) /\ runtimes'[Place(i)].name = m
        BY <1>1, <2>2 DEF NewRows
      <3> QED BY <3>1, <3>2
    <2> QED BY <1>1, <2>1, <2>2 DEF Entered
  <1>4. DOMAIN names' \cap DOMAIN instances' = {}
    <2>1. DOMAIN names \cap DOMAIN instances = {}
      BY DEF ListedInv
    <2>2. SUFFICES ASSUME NEW m \in DOMAIN names', m \in DOMAIN instances' PROVE FALSE
      OBVIOUS
    <2>3. \/ m \in DOMAIN names
          \/ \E i \in 1..n : m = label[i].name
      BY <1>1 DEF Entered
    <2>4. \/ m \in DOMAIN instances
          \/ \E i \in 1..n : m = label[i].id
      BY <1>1, <2>2 DEF Entered
    <2> QED BY <1>1, <2>1, <2>3, <2>4, Zenon DEF Fresh
  <1>5. ASSUME NEW r \in DOMAIN runtimes', Active(r)'
        PROVE  runtimes'[r].id \in DOMAIN instances' /\ instances'[runtimes'[r].id] = r
    <2>1. CASE r \in DOMAIN runtimes
      <3>1. runtimes'[r] = runtimes[r] /\ Active(r)
        BY <1>1, <1>5, <2>1 DEF NewRows, Active
      <3>2. runtimes[r].id \in DOMAIN instances /\ instances[runtimes[r].id] = r
        BY <2>1, <3>1 DEF ListedInv
      <3> QED BY <1>1, <3>1, <3>2 DEF Entered
    <2>2. ASSUME NEW i \in 1..n, r = Place(i)
          PROVE  runtimes'[r].id \in DOMAIN instances' /\ instances'[runtimes'[r].id] = r
      <3>1. runtimes'[r].id = label[i].id /\ instances'[label[i].id] = Place(i)
        BY <1>1, <2>2 DEF NewRows
      <3>2. label[i].id \in DOMAIN instances'
        BY <1>1 DEF Entered
      <3> QED BY <2>2, <3>1, <3>2
    <2> QED BY <1>1, <2>1, <2>2 DEF NewRows
  <1> QED BY <1>2, <1>3, <1>4, <1>5 DEF ListedInv

\* Nobody owned the candidates: the owners' maps stay exact.
LEMMA ReserveKeepsOwners ==
    ASSUME OwnersInv, NEW q, NEW n \in Nat, NEW order, NEW label, ReservedAll(q, n, order, label)
    PROVE  OwnersInv'
  <1>1. NewRows(q, n, order, label) /\ Owned(q, n, order, label) /\ Unowned(q, n, order)
    BY DEF ReservedAll
  <1>2. ASSUME NEW r \in DOMAIN runtimes', Active(r)'
        PROVE  /\ runtimes'[r].config \in DOMAIN activeConfigs'
               /\ activeConfigs'[runtimes'[r].config] = runtimes'[r].id
               /\ runtimes'[r].database \in DOMAIN activeDatabases'
               /\ activeDatabases'[runtimes'[r].database] = runtimes'[r].id
    <2>1. CASE r \in DOMAIN runtimes
      <3>1. runtimes'[r] = runtimes[r] /\ Active(r)
        BY <1>1, <1>2, <2>1 DEF NewRows, Active
      <3>2. /\ runtimes[r].config \in DOMAIN activeConfigs
            /\ activeConfigs[runtimes[r].config] = runtimes[r].id
            /\ runtimes[r].database \in DOMAIN activeDatabases
            /\ activeDatabases[runtimes[r].database] = runtimes[r].id
        BY <2>1, <3>1 DEF OwnersInv
      <3> QED BY <1>1, <3>1, <3>2 DEF Owned
    <2>2. ASSUME NEW i \in 1..n, r = Place(i)
          PROVE  /\ runtimes'[r].config \in DOMAIN activeConfigs'
                 /\ activeConfigs'[runtimes'[r].config] = runtimes'[r].id
                 /\ runtimes'[r].database \in DOMAIN activeDatabases'
                 /\ activeDatabases'[runtimes'[r].database] = runtimes'[r].id
      <3>1. /\ runtimes'[r].config = order[i] /\ runtimes'[r].database = Database(q, order, i)
            /\ runtimes'[r].id = label[i].id
        BY <1>1, <2>2 DEF NewRows
      <3> QED BY <1>1, <3>1 DEF Owned
    <2> QED BY <1>1, <2>1, <2>2 DEF NewRows
  <1>3. \A r \in DOMAIN runtimes : /\ r \in DOMAIN runtimes' /\ runtimes'[r] = runtimes[r]
                                   /\ Active(r) => Active(r)'
    BY <1>1 DEF NewRows, Active
  <1>4. ASSUME NEW i \in 1..n
        PROVE  \E r \in DOMAIN runtimes' : /\ Active(r)' /\ runtimes'[r].config = order[i]
                                           /\ runtimes'[r].database = Database(q, order, i)
                                           /\ runtimes'[r].id = label[i].id
    <2>1. PICK r : r = Place(i)
      OBVIOUS
    <2>2. /\ r \in DOMAIN runtimes' /\ runtimes'[r].config = order[i]
          /\ runtimes'[r].database = Database(q, order, i)
          /\ runtimes'[r].id = label[i].id /\ runtimes'[r].state = "running"
      BY <1>1, <2>1 DEF NewRows
    <2> QED BY <2>2 DEF Active
  <1>5. ASSUME NEW c \in DOMAIN activeConfigs'
        PROVE  \E r \in DOMAIN runtimes' : /\ Active(r)' /\ runtimes'[r].config = c
                                           /\ activeConfigs'[c] = runtimes'[r].id
    <2>1. CASE c \in DOMAIN activeConfigs
      <3>1. PICK r \in DOMAIN runtimes : /\ Active(r) /\ runtimes[r].config = c
                                         /\ activeConfigs[c] = runtimes[r].id
        BY <2>1 DEF OwnersInv
      <3>2. activeConfigs'[c] = activeConfigs[c]
        BY <1>1, <2>1 DEF Owned
      <3> QED BY <1>3, <3>1, <3>2
    <2>2. ASSUME NEW i \in 1..n, c = order[i]
          PROVE  \E r \in DOMAIN runtimes' : /\ Active(r)' /\ runtimes'[r].config = c
                                             /\ activeConfigs'[c] = runtimes'[r].id
      <3>1. activeConfigs'[c] = label[i].id
        BY <1>1, <2>2 DEF Owned
      <3> QED BY <1>4, <2>2, <3>1
    <2>3. c \in DOMAIN activeConfigs \/ \E i \in 1..n : c = order[i]
      BY <1>1 DEF Owned
    <2> QED BY <2>1, <2>2, <2>3
  <1>6. ASSUME NEW p \in DOMAIN activeDatabases'
        PROVE  \E r \in DOMAIN runtimes' : /\ Active(r)' /\ runtimes'[r].database = p
                                           /\ activeDatabases'[p] = runtimes'[r].id
    <2>1. CASE p \in DOMAIN activeDatabases
      <3>1. PICK r \in DOMAIN runtimes : /\ Active(r) /\ runtimes[r].database = p
                                         /\ activeDatabases[p] = runtimes[r].id
        BY <2>1 DEF OwnersInv
      <3>2. activeDatabases'[p] = activeDatabases[p]
        BY <1>1, <2>1 DEF Owned
      <3> QED BY <1>3, <3>1, <3>2
    <2>2. ASSUME NEW i \in 1..n, p = Database(q, order, i)
          PROVE  \E r \in DOMAIN runtimes' : /\ Active(r)' /\ runtimes'[r].database = p
                                             /\ activeDatabases'[p] = runtimes'[r].id
      <3>1. activeDatabases'[p] = label[i].id
        BY <1>1, <2>2 DEF Owned
      <3> QED BY <1>4, <2>2, <3>1
    <2>3. p \in DOMAIN activeDatabases \/ \E i \in 1..n : p = Database(q, order, i)
      BY <1>1 DEF Owned
    <2> QED BY <2>1, <2>2, <2>3
  <1>7. ASSUME NEW p \in DOMAIN activeDatabases', NEW o \in DOMAIN activeDatabases',
               Equivalent(p, o)
        PROVE  p = o
    <2>1. /\ p \in DOMAIN activeDatabases \/ \E i \in 1..n : p = Database(q, order, i)
          /\ o \in DOMAIN activeDatabases \/ \E i \in 1..n : o = Database(q, order, i)
      BY <1>1 DEF Owned
    <2>2. \A x, y \in DOMAIN activeDatabases : Equivalent(x, y) => x = y
      BY DEF OwnersInv
    <2>3. \A x \in DOMAIN activeDatabases : \A i \in 1..n :
            ~Equivalent(x, Database(q, order, i)) /\ ~Equivalent(Database(q, order, i), x)
      BY <1>1, EquivalentIsOne, Zenon DEF Unowned
    <2>4. \A i, j \in 1..n : Equivalent(Database(q, order, i), Database(q, order, j)) => i = j
      BY <1>1 DEF Unowned
    <2>5. CASE p \in DOMAIN activeDatabases
      BY <1>7, <2>1, <2>2, <2>3, <2>5, Zenon
    <2>6. ASSUME NEW i \in 1..n, p = Database(q, order, i) PROVE p = o
      <3>1. o \notin DOMAIN activeDatabases
        BY <1>7, <2>3, <2>6, Zenon
      <3>2. PICK j \in 1..n : o = Database(q, order, j)
        BY <2>1, <3>1
      <3> QED BY <1>7, <2>4, <2>6, <3>2
    <2> QED BY <2>1, <2>5, <2>6
  <1>8. \A p, o \in DOMAIN activeDatabases' : Equivalent(p, o)' => p = o
    BY <1>7 DEF Equivalent
  <1> QED BY <1>2, <1>5, <1>6, <1>8 DEF OwnersInv

-----------------------------------------------------------------------------
(* The catalogue.                                                           *)

\* A database is known under one identity: that of the entry that knows it, or its own.
LEMMA IdentityIsItsFile ==
    ASSUME KnownInv, NEW p \in Paths, NEW k, k = QueueIdentity(p)
    PROVE  /\ Equivalent(k, p) /\ k \in Paths
           /\ k \in DOMAIN knownQueues \/ \A l \in DOMAIN knownQueues : ~Equivalent(l, p)
  <1> DEFINE K == {l \in DOMAIN knownQueues :
                     \E alias \in {l} \cup knownQueues[l].aliases : Equivalent(p, alias)}
  <1>0. k = IF K = {} THEN p ELSE CHOOSE l \in K : TRUE
    BY Zenon DEF QueueIdentity
  <1>1. PICK knowing : knowing = K
    OBVIOUS
  <1>2. k = IF knowing = {} THEN p ELSE CHOOSE l \in knowing : TRUE
    BY <1>0, <1>1, Zenon
  <1>3. ASSUME NEW l \in knowing PROVE l \in DOMAIN knownQueues /\ Equivalent(l, p)
    <2>1. l \in DOMAIN knownQueues
      BY <1>1
    <2>2. PICK alias \in {l} \cup knownQueues[l].aliases : Equivalent(p, alias)
      BY <1>1
    <2>3. Equivalent(alias, l)
      BY <2>1, <2>2, EquivalentIsOne DEF KnownInv
    <2> QED BY <2>1, <2>2, <2>3, EquivalentIsOne, Zenon
  <1>4. ASSUME NEW l \in DOMAIN knownQueues, Equivalent(l, p) PROVE l \in knowing
    BY <1>1, <1>4, EquivalentIsOne
  <1>5. CASE knowing = {}
    BY <1>2, <1>4, <1>5, EquivalentIsOne
  <1>6. CASE knowing # {}
    <2>1. k \in knowing
      BY <1>2, <1>6, Zenon
    <2> QED BY <1>3, <2>1 DEF KnownInv
  <1> QED BY <1>5, <1>6

\* A database that was known keeps its identity, another gets its own.
LEMMA ReserveKeepsKnown ==
    ASSUME KnownInv, NEW q \in Requests, RequestInv(q), Reserve(q),
           NEW n \in Nat, NEW order, NEW label, ReservedAll(q, n, order, label)
    PROVE  KnownInv'
  <1>1. Unowned(q, n, order) /\ ReservedQueues(q, n, order)
        /\ order \in [1..n -> DOMAIN request[q].candidates]
    BY DEF ReservedAll
  <1>2. request[q].pc = "checked"
    BY Zenon DEF Reserve
  <1>3. \A i \in 1..n : order[i] \in Configs /\ Database(q, order, i) \in Paths
    BY <1>1, <1>2 DEF RequestInv, Database
  <1>4. PICK queues : queues = [i \in 1..n |-> QueueIdentity(Database(q, order, i))]
    OBVIOUS
  <1>5. PICK known : known = [i \in 1..n |-> Known(order[i], Database(q, order, i))]
    OBVIOUS
  <1>6. \A i \in 1..n : queues[i] = QueueIdentity(Database(q, order, i))
    BY <1>4, Zenon
  <1>7. ASSUME NEW i \in 1..n
        PROVE  /\ Equivalent(queues[i], Database(q, order, i)) /\ queues[i] \in Paths
               /\ \/ queues[i] \in DOMAIN knownQueues
                  \/ \A l \in DOMAIN knownQueues : ~Equivalent(l, Database(q, order, i))
    BY <1>3, <1>6, IdentityIsItsFile
  <1>8. \A i, j \in 1..n : Equivalent(queues[i], queues[j]) => i = j
    BY <1>1, <1>7, EquivalentIsOne, Zenon DEF Unowned
  <1>9. DOMAIN queues = 1..n
    BY <1>4, Zenon
  <1>10. IsInjective(queues)
    BY <1>8, <1>9, EquivalentIsOne, Zenon DEF IsInjective
  <1>11. knownQueues' = Updated(knownQueues, Keyed(queues, known))
    BY <1>1, <1>4, <1>5, Zenon DEF ReservedQueues, Database
  <1>12. Extends(knownQueues', knownQueues, n, queues, known)
    BY <1>9, <1>10, <1>11, Extended
  <1>13. ASSUME NEW i \in 1..n
         PROVE  /\ known[i] \in [config : Configs, aliases : SUBSET Paths]
                /\ \A a \in known[i].aliases : Equivalent(a, queues[i])
    <2>1. PICK p \in Paths : p = Database(q, order, i)
      BY <1>3
    <2>2. PICK c \in Configs : c = order[i]
      BY <1>3
    <2>3. PICK k : k = queues[i]
      OBVIOUS
    <2>4. PICK A : A = IF k \in DOMAIN knownQueues THEN knownQueues[k].aliases ELSE {}
      OBVIOUS
    <2>5. known[i] = Known(c, p) /\ k = QueueIdentity(p)
      BY <1>5, <1>6, <2>1, <2>2, <2>3, Zenon
    <2>6. known[i] = [config |-> c, aliases |-> (A \cup {p}) \ {k}]
      BY <2>4, <2>5, Zenon DEF Known
    <2>7. A \subseteq Paths /\ \A a \in A : Equivalent(a, k)
      BY <2>4 DEF KnownInv
    <2>8. Equivalent(p, k)
      BY <1>7, <2>1, <2>3, EquivalentIsOne, Zenon
    <2> QED BY <2>3, <2>6, <2>7, <2>8
  <1>14. ASSUME NEW k \in DOMAIN knownQueues'
         PROVE  /\ k \in Paths
                /\ knownQueues'[k] \in [config : Configs, aliases : SUBSET Paths]
                /\ \A a \in knownQueues'[k].aliases : Equivalent(a, k)
    <2>1. ASSUME NEW i \in 1..n, k = queues[i]
          PROVE  /\ k \in Paths
                 /\ knownQueues'[k] \in [config : Configs, aliases : SUBSET Paths]
                 /\ \A a \in knownQueues'[k].aliases : Equivalent(a, k)
      <3>1. knownQueues'[k] = known[i]
        BY <1>12, <2>1 DEF Extends
      <3> QED BY <1>7, <1>13, <2>1, <3>1
    <2>2. CASE k \in DOMAIN knownQueues /\ k \notin {queues[i] : i \in 1..n}
      <3>1. knownQueues'[k] = knownQueues[k]
        BY <1>12, <2>2 DEF Extends
      <3> QED BY <2>2, <3>1 DEF KnownInv
    <2> QED BY <1>12, <2>1, <2>2 DEF Extends
  <1>15. ASSUME NEW k \in DOMAIN knownQueues', NEW l \in DOMAIN knownQueues', Equivalent(k, l)
         PROVE  k = l
    <2>1. /\ k \in DOMAIN knownQueues \/ \E i \in 1..n : k = queues[i]
          /\ l \in DOMAIN knownQueues \/ \E i \in 1..n : l = queues[i]
      BY <1>12 DEF Extends
    <2>2. \A x, y \in DOMAIN knownQueues : Equivalent(x, y) => x = y
      BY DEF KnownInv, OneQueuePerFile
    <2>3. ASSUME NEW x \in DOMAIN knownQueues, NEW i \in 1..n, Equivalent(x, queues[i])
          PROVE  x = queues[i]
      <3>1. Equivalent(x, Database(q, order, i))
        BY <1>7, <2>3, EquivalentIsOne, Zenon
      <3>2. queues[i] \in DOMAIN knownQueues
        BY <1>7, <3>1
      <3> QED BY <2>2, <2>3, <3>2
    <2>4. CASE k \in DOMAIN knownQueues
      BY <1>15, <2>1, <2>2, <2>3, <2>4, Zenon
    <2>5. CASE l \in DOMAIN knownQueues
      BY <1>15, <2>1, <2>2, <2>3, <2>5, EquivalentIsOne, Zenon
    <2>6. ASSUME NEW i \in 1..n, k = queues[i], NEW j \in 1..n, l = queues[j] PROVE k = l
      BY <1>8, <1>15, <2>6
    <2> QED BY <2>1, <2>4, <2>5, <2>6
  <1> QED BY <1>14, <1>15 DEF KnownInv, OneQueuePerFile, Equivalent

-----------------------------------------------------------------------------
(* Steps that leave the instances, or the requests, alone.                  *)

\* What only the instances, the registers and the catalogue say.
LEMMA RegistersKeep ==
    ASSUME SupervisorIInv, UNCHANGED <<runtimes, registers, knownQueues>>
    PROVE  ListedInv' /\ OwnersInv' /\ KnownInv' /\ RetentionInv'
  <1>1. /\ runtimes' = runtimes /\ instances' = instances /\ names' = names
        /\ activeConfigs' = activeConfigs /\ activeDatabases' = activeDatabases
        /\ knownQueues' = knownQueues
    BY DEF registers
  <1>2. ListedInv'
    BY <1>1 DEF SupervisorIInv, ListedInv, Active
  <1>3. OwnersInv'
    BY <1>1 DEF SupervisorIInv, OwnersInv, Active, Equivalent
  <1>4. KnownInv'
    BY <1>1 DEF SupervisorIInv, KnownInv, OneQueuePerFile, Equivalent
  <1>5. Terminated' = Terminated
    BY <1>1 DEF Terminated, Active
  <1>6. RetentionInv'
    BY <1>5, Zenon DEF SupervisorIInv, RetentionInv
  <1> QED BY <1>2, <1>3, <1>4, <1>6

\* One request changes, to one that needs no more than its place.
LEMMA RequestKeeps ==
    ASSUME RequestsInv, NEW q \in Requests, NEW v, v.pc \in PCs \ {"loaded", "checked"},
           request' = [request EXCEPT ![q] = v]
    PROVE  RequestsInv'
  <1>1. DOMAIN request' = Requests
    BY DEF RequestsInv
  <1>2. ASSUME NEW s \in Requests PROVE RequestInv(s)'
    <2>1. CASE s = q
      <3>1. request'[s] = v
        BY <2>1 DEF RequestsInv
      <3> QED BY <3>1 DEF RequestInv
    <2>2. CASE s # q
      <3>1. request'[s] = request[s]
        BY <2>2 DEF RequestsInv
      <3>2. RequestInv(s)
        BY DEF RequestsInv
      <3> QED BY <3>1, <3>2 DEF RequestInv, ValidCandidates, ExpectedQueue, Equivalent
    <2> QED BY <2>1, <2>2
  <1> QED BY <1>1, <1>2 DEF RequestsInv

\* Requests that are left alone.
LEMMA RequestsKeep ==
    ASSUME RequestsInv, UNCHANGED request
    PROVE  RequestsInv'
  BY DEF RequestsInv, RequestInv, ValidCandidates, ExpectedQueue, Equivalent

\* Fewer terminated instances are within the limit.
LEMMA FewerTerminated ==
    ASSUME RetentionInv, Terminated' \subseteq Terminated
    PROVE  RetentionInv'
  <1>1. PICK T : T = Terminated
    OBVIOUS
  <1>2. PICK U : U = Terminated'
    OBVIOUS
  <1>3. IsFiniteSet(T) /\ Cardinality(T) <= Retained /\ U \subseteq T
    BY <1>1, <1>2 DEF RetentionInv
  <1>4. IsFiniteSet(U) /\ Cardinality(U) <= Cardinality(T)
    BY <1>3, FS_Subset
  <1>5. Cardinality(U) \in Nat /\ Cardinality(T) \in Nat
    BY <1>3, <1>4, FS_CardinalityType
  <1>6. Cardinality(U) <= Retained
    BY <1>3, <1>4, <1>5, LimitTypes
  <1> QED BY <1>2, <1>4, <1>6 DEF RetentionInv

\* A start that goes through keeps the invariant.
LEMMA ReserveKeeps ==
    ASSUME SupervisorIInv, NEW q \in Requests, Reserve(q)
    PROVE  SupervisorIInv'
  <1>1. RuntimesInv /\ ListedInv /\ OwnersInv /\ KnownInv /\ RequestsInv /\ RetentionInv
    BY DEF SupervisorIInv
  <1>2. RequestInv(q)
    BY <1>1 DEF RequestsInv
  <1>3. PICK n \in Nat : \E order, label : ReservedAll(q, n, order, label)
    BY <1>1, <1>2, ReserveRows
  <1>4. PICK order, label : ReservedAll(q, n, order, label)
    BY <1>3
  <1>5. RuntimesInv' /\ ListedInv' /\ OwnersInv' /\ KnownInv'
    BY <1>1, <1>2, <1>4, ReserveKeepsRuntimes, ReserveKeepsListed, ReserveKeepsOwners,
       ReserveKeepsKnown
  <1>6. RequestsInv'
    <2>1. PICK v : /\ request' = [request EXCEPT ![q] = v]
                   /\ \/ v = Idle
                      \/ \E place : v = [Idle EXCEPT !.pc = "attached", !.runtime = place]
      BY Zenon DEF Reserve
    <2>2. v.pc \in {"idle", "attached"}
      <3>1. CASE v = Idle
        BY <3>1 DEF Idle
      <3>2. ASSUME NEW place, v = [Idle EXCEPT !.pc = "attached", !.runtime = place]
            PROVE  v.pc = "attached"
        BY <3>2 DEF Idle
      <3> QED BY <2>1, <3>1, <3>2
    <2>3. v.pc \in PCs \ {"loaded", "checked"}
      BY <2>2 DEF PCs
    <2> QED BY <1>1, <2>1, <2>3, RequestKeeps
  <1>7. Terminated' \subseteq Terminated
    <2>1. NewRows(q, n, order, label) /\ Entered(n, label)
      BY <1>4 DEF ReservedAll
    <2>2. SUFFICES ASSUME NEW x \in DOMAIN instances', ~Active(instances[x])'
                   PROVE  x \in Terminated
      BY DEF Terminated
    <2>3. runtimes'[instances'[x]].state \notin {"running", "stopping"}
      BY <2>2 DEF Active
    <2>4. ASSUME NEW i \in 1..n, x = label[i].id PROVE FALSE
      <3>1. instances'[x] = Place(i) /\ runtimes'[Place(i)].state = "running"
        BY <2>1, <2>4 DEF NewRows
      <3> QED BY <2>3, <3>1
    <2>5. x \in DOMAIN instances /\ instances'[x] = instances[x]
      BY <2>1, <2>4 DEF Entered
    <2>6. runtimes'[instances[x]] = runtimes[instances[x]]
      BY <1>1, <2>1, <2>5 DEF NewRows, ListedInv
    <2> QED BY <2>3, <2>5, <2>6 DEF Terminated, Active
  <1>8. RetentionInv'
    BY <1>1, <1>7, FewerTerminated
  <1> QED BY <1>5, <1>6, <1>8 DEF SupervisorIInv

-----------------------------------------------------------------------------
(* The other steps of a request.                                            *)

\* A start that was loaded holds what it read.
LEMMA BeginKeeps ==
    ASSUME SupervisorIInv, NEW q \in Requests, NEW S \in SUBSET Configs, NEW options,
           options.queue \in Paths \cup {NoPath}, options.remove \in BOOLEAN,
           Begin(q, S, options)
    PROVE  SupervisorIInv'
  <1>1. RuntimesInv /\ RequestsInv
    BY DEF SupervisorIInv
  <1>2. PICK C : C = [c \in S |-> uses[c]]
    OBVIOUS
  <1>3. /\ Another(q, options.kind) /\ UNCHANGED <<uses, runtimes, registers, knownQueues, edits>>
    BY <1>2, Zenon DEF Begin
  <1>4. DOMAIN C \subseteq Configs /\ \A c \in DOMAIN C : C[c] \in Paths
    BY <1>1, <1>2 DEF RuntimesInv
  <1>a. PICK v :
          v = [Idle EXCEPT !.pc = "loaded", !.candidates = C, !.name = options.name,
                           !.attach = options.kind = "run", !.remove = options.remove,
                           !.queue = options.queue]
    OBVIOUS
  <1>5. request' = [request EXCEPT ![q] = v]
    BY <1>2, <1>a, Zenon DEF Begin
  <1>6. /\ v.pc = "loaded" /\ v.candidates = C
        /\ v.queue = options.queue /\ v.remove = options.remove
    BY <1>a DEF Idle
  <1>7. RequestsInv'
    <2>1. DOMAIN request' = Requests
      BY <1>1, <1>5 DEF RequestsInv
    <2>2. ASSUME NEW s \in Requests PROVE RequestInv(s)'
      <3>1. CASE s = q
        <4>1. request'[s] = v
          BY <1>1, <1>5, <3>1 DEF RequestsInv
        <4> QED BY <1>4, <1>6, <4>1 DEF RequestInv, PCs
      <3>2. CASE s # q
        <4>1. request'[s] = request[s]
          BY <1>1, <1>5, <3>2 DEF RequestsInv
        <4>2. RequestInv(s)
          BY <1>1 DEF RequestsInv
        <4> QED BY <4>1, <4>2 DEF RequestInv, ValidCandidates, ExpectedQueue, Equivalent
      <3> QED BY <3>1, <3>2
    <2> QED BY <2>1, <2>2 DEF RequestsInv
  <1>8. RuntimesInv'
    <2>1. asked' \in 0..MaxRequests
      BY <1>1, <1>3, LimitTypes DEF RuntimesInv, Another
    <2> QED BY <1>1, <1>3, <2>1 DEF RuntimesInv, Equivalent
  <1>9. ListedInv' /\ OwnersInv' /\ KnownInv' /\ RetentionInv'
    BY <1>3, RegistersKeep
  <1> QED BY <1>7, <1>8, <1>9 DEF SupervisorIInv

\* The ends of a request that change nothing else.
LEMMA RequestEndKeeps ==
    ASSUME SupervisorIInv, NEW q \in Requests, request' = [request EXCEPT ![q] = Idle],
           UNCHANGED <<uses, runtimes, registers, knownQueues, asked, edits>>
    PROVE  SupervisorIInv'
  <1>1. RuntimesInv /\ RequestsInv
    BY DEF SupervisorIInv
  <1>2. RequestsInv'
    <2>1. Idle.pc \in PCs \ {"loaded", "checked"}
      BY DEF Idle, PCs
    <2> QED BY <1>1, <2>1, RequestKeeps
  <1>3. RuntimesInv'
    BY <1>1 DEF RuntimesInv, Equivalent
  <1>4. ListedInv' /\ OwnersInv' /\ KnownInv' /\ RetentionInv'
    BY RegistersKeep
  <1> QED BY <1>2, <1>3, <1>4 DEF SupervisorIInv

\* Another copy of the owners is taken.
LEMMA SnapshotKeeps ==
    ASSUME SupervisorIInv, NEW q \in Requests, SnapshotAgain(q)
    PROVE  SupervisorIInv'
  <1>1. RuntimesInv /\ RequestsInv
    BY DEF SupervisorIInv
  <1>2. PICK seen : request' = [request EXCEPT ![q].seen = seen]
    BY Zenon DEF SnapshotAgain
  <1>3. UNCHANGED <<uses, runtimes, registers, knownQueues, asked, edits>>
    BY DEF SnapshotAgain
  <1>4. \A s \in Requests : /\ request'[s].pc = request[s].pc
                            /\ request'[s].candidates = request[s].candidates
                            /\ request'[s].queue = request[s].queue
                            /\ request'[s].remove = request[s].remove
    BY <1>1, <1>2 DEF RequestsInv
  <1>5. DOMAIN request' = Requests
    BY <1>1, <1>2 DEF RequestsInv
  <1>6. ASSUME NEW s \in Requests PROVE RequestInv(s)'
    <2>1. RequestInv(s)
      BY <1>1 DEF RequestsInv
    <2> QED BY <1>4, <2>1 DEF RequestInv, ValidCandidates, ExpectedQueue, Equivalent
  <1>7. RequestsInv'
    BY <1>5, <1>6 DEF RequestsInv
  <1>8. RuntimesInv'
    BY <1>1, <1>3 DEF RuntimesInv, Equivalent
  <1>9. ListedInv' /\ OwnersInv' /\ KnownInv' /\ RetentionInv'
    BY <1>3, RegistersKeep
  <1> QED BY <1>7, <1>8, <1>9 DEF SupervisorIInv

\* What passes the gate was compared again.
LEMMA EnterGateKeeps ==
    ASSUME SupervisorIInv, NEW q \in Requests, EnterGate(q)
    PROVE  SupervisorIInv'
  <1>1. RuntimesInv /\ RequestsInv /\ RequestInv(q)
    BY DEF SupervisorIInv, RequestsInv
  <1>2. PICK seen : request' = [request EXCEPT ![q].pc = "checked", ![q].seen = seen]
    BY Zenon DEF EnterGate
  <1>3. /\ request[q].pc = "loaded"
        /\ ValidCandidates(request[q].candidates)
        /\ ExpectedQueue(request[q].candidates, request[q].queue)
        /\ UNCHANGED <<uses, runtimes, registers, knownQueues, asked, edits>>
    BY Zenon DEF EnterGate
  <1>4. \A s \in Requests : /\ request'[s].pc = IF s = q THEN "checked" ELSE request[s].pc
                            /\ request'[s].candidates = request[s].candidates
                            /\ request'[s].queue = request[s].queue
                            /\ request'[s].remove = request[s].remove
    BY <1>1, <1>2 DEF RequestsInv
  <1>5. DOMAIN request' = Requests
    BY <1>1, <1>2 DEF RequestsInv
  <1>6. ASSUME NEW s \in Requests PROVE RequestInv(s)'
    <2>1. RequestInv(s)
      BY <1>1 DEF RequestsInv
    <2>2. CASE s = q
      BY <1>3, <1>4, <2>1, <2>2 DEF RequestInv, PCs, ValidCandidates, ExpectedQueue, Equivalent
    <2>3. CASE s # q
      BY <1>4, <2>1, <2>3 DEF RequestInv, ValidCandidates, ExpectedQueue, Equivalent
    <2> QED BY <2>2, <2>3
  <1>7. RequestsInv'
    BY <1>5, <1>6 DEF RequestsInv
  <1>8. RuntimesInv'
    BY <1>1, <1>3 DEF RuntimesInv, Equivalent
  <1>9. ListedInv' /\ OwnersInv' /\ KnownInv' /\ RetentionInv'
    BY <1>3, RegistersKeep
  <1> QED BY <1>7, <1>8, <1>9 DEF SupervisorIInv

\* An edit changes nothing that was read.
LEMMA EditKeeps ==
    ASSUME SupervisorIInv, NEW c \in Configs, NEW p \in Paths, EditConfig(c, p)
    PROVE  SupervisorIInv'
  <1>1. RuntimesInv /\ RequestsInv
    BY DEF SupervisorIInv
  <1>2. /\ UNCHANGED <<runtimes, registers, knownQueues, request, asked>>
        /\ uses' = [uses EXCEPT ![c] = p] /\ edits < MaxEdits /\ edits' = edits + 1
    BY DEF EditConfig
  <1>3. RequestsInv'
    BY <1>1, <1>2, RequestsKeep
  <1>4. uses' \in [Configs -> Paths] /\ edits' \in 0..MaxEdits
    BY <1>1, <1>2, LimitTypes DEF RuntimesInv
  <1>5. RuntimesInv'
    BY <1>1, <1>2, <1>4 DEF RuntimesInv, Equivalent
  <1>6. ListedInv' /\ OwnersInv' /\ KnownInv' /\ RetentionInv'
    BY <1>2, RegistersKeep
  <1> QED BY <1>3, <1>5, <1>6 DEF SupervisorIInv

-----------------------------------------------------------------------------
(* Steps of one instance.                                                   *)

\* The instances keep who they are.
SameIdentities ==
    /\ DOMAIN runtimes' = DOMAIN runtimes
    /\ \A s \in DOMAIN runtimes : /\ runtimes'[s].id = runtimes[s].id
                                  /\ runtimes'[s].name = runtimes[s].name
                                  /\ runtimes'[s].config = runtimes[s].config
                                  /\ runtimes'[s].database = runtimes[s].database

\* They do, and no instance begins or ends.
SameActives == SameIdentities /\ \A s \in DOMAIN runtimes : Active(s)' <=> Active(s)

\* A step that ends no instance leaves the registers in order.
LEMMA SameActivesKeep ==
    ASSUME ListedInv, OwnersInv, RetentionInv, SameActives, UNCHANGED registers
    PROVE  ListedInv' /\ OwnersInv' /\ RetentionInv'
  <1>1. /\ instances' = instances /\ names' = names
        /\ activeConfigs' = activeConfigs /\ activeDatabases' = activeDatabases
    BY DEF registers
  <1>0. SameIdentities /\ \A s \in DOMAIN runtimes : Active(s)' <=> Active(s)
    BY DEF SameActives
  <1>2. ListedInv'
    <2>1. ASSUME NEW x \in DOMAIN instances'
          PROVE  /\ x \in Ids /\ instances'[x] \in DOMAIN runtimes'
                 /\ runtimes'[instances'[x]].id = x
                 /\ runtimes'[instances'[x]].name \in DOMAIN names'
                 /\ names'[runtimes'[instances'[x]].name] = x
      BY <1>0, <1>1 DEF ListedInv, SameIdentities
    <2>2. ASSUME NEW n \in DOMAIN names'
          PROVE  names'[n] \in DOMAIN instances' /\ runtimes'[instances'[names'[n]]].name = n
      BY <1>0, <1>1 DEF ListedInv, SameIdentities
    <2>3. DOMAIN names' \cap DOMAIN instances' = {}
      BY <1>1 DEF ListedInv
    <2>4. ASSUME NEW r \in DOMAIN runtimes', Active(r)'
          PROVE  runtimes'[r].id \in DOMAIN instances' /\ instances'[runtimes'[r].id] = r
      BY <1>0, <1>1, <2>4 DEF ListedInv, SameIdentities
    <2> QED BY <2>1, <2>2, <2>3, <2>4 DEF ListedInv
  <1>3. OwnersInv'
    BY <1>0, <1>1 DEF OwnersInv, SameIdentities, Equivalent
  <1>4. Terminated' \subseteq Terminated
    <2>1. SUFFICES ASSUME NEW x \in DOMAIN instances, ~Active(instances[x])'
                   PROVE  ~Active(instances[x])
      BY <1>1 DEF Terminated
    <2>2. PICK s \in DOMAIN runtimes : s = instances[x]
      BY DEF ListedInv
    <2>3. ~Active(s)'
      BY <1>1, <2>1, <2>2 DEF Active
    <2> QED BY <1>0, <2>2, <2>3
  <1>5. RetentionInv'
    BY <1>4, FewerTerminated
  <1> QED BY <1>2, <1>3, <1>5

\* A stop marks an active instance, which stays active.
LEMMA StopStaysActive ==
    ASSUME RuntimesInv, ListedInv, NEW q \in Requests, NEW selector, Stop(q, selector)
    PROVE  SameActives
  <1>1. PICK r \in Selected(selector) :
          Active(r) /\ runtimes' = [runtimes EXCEPT ![r].state = "stopping"]
    BY Zenon DEF Stop
  <1>2. r \in DOMAIN runtimes
    BY <1>1 DEF Selected, ListedInv
  <1>3. SameIdentities
    <2>1. DOMAIN runtimes' = DOMAIN runtimes
      BY <1>1
    <2>2. ASSUME NEW s \in DOMAIN runtimes
          PROVE  /\ runtimes'[s].id = runtimes[s].id /\ runtimes'[s].name = runtimes[s].name
                 /\ runtimes'[s].config = runtimes[s].config
                 /\ runtimes'[s].database = runtimes[s].database
      <3>1. runtimes[s] \in Runtime
        BY DEF RuntimesInv
      <3>2. runtimes'[s] = runtimes[s] \/ runtimes'[s] = [runtimes[s] EXCEPT !.state = "stopping"]
        BY <1>1
      <3> QED BY <3>1, <3>2 DEF Runtime
    <2> QED BY <2>1, <2>2 DEF SameIdentities
  <1>4. \A s \in DOMAIN runtimes : Active(s)' <=> Active(s)
    <2> TAKE s \in DOMAIN runtimes
    <2>1. CASE s = r
      <3>1. runtimes[r] \in Runtime /\ runtimes'[r] = [runtimes[r] EXCEPT !.state = "stopping"]
        BY <1>1, <1>2 DEF RuntimesInv
      <3>2. runtimes'[r].state = "stopping"
        BY <3>1 DEF Runtime
      <3> QED BY <1>1, <2>1, <3>2 DEF Active
    <2>2. CASE s # r
      BY <1>1, <2>2 DEF Active
    <2> QED BY <2>1, <2>2
  <1> QED BY <1>3, <1>4 DEF SameActives

\* A stop keeps the invariant.
LEMMA StopKeeps ==
    ASSUME SupervisorIInv, NEW q \in Requests, NEW selector, Stop(q, selector)
    PROVE  SupervisorIInv'
  <1>1. RuntimesInv /\ ListedInv /\ OwnersInv /\ KnownInv /\ RequestsInv /\ RetentionInv
    BY DEF SupervisorIInv
  <1>2. PICK r \in Selected(selector) :
          /\ Another(q, "stop") /\ Active(r)
          /\ runtimes' = [runtimes EXCEPT ![r].state = "stopping"]
          /\ request' = [request EXCEPT ![q] = [Idle EXCEPT !.pc = "wait", !.runtime = r]]
          /\ UNCHANGED <<uses, registers, knownQueues, edits>>
    BY Zenon DEF Stop
  <1>3. r \in DOMAIN runtimes
    BY <1>1, <1>2 DEF Selected, ListedInv
  <1>4. RequestsInv'
    <2>1. PICK v : v = [Idle EXCEPT !.pc = "wait", !.runtime = r]
      OBVIOUS
    <2>2. v.pc \in PCs \ {"loaded", "checked"}
      BY <2>1 DEF Idle, PCs
    <2> QED BY <1>1, <1>2, <2>1, <2>2, RequestKeeps
  <1>5. RuntimesInv'
    <2>1. asked' \in 0..MaxRequests
      BY <1>1, <1>2, LimitTypes DEF RuntimesInv, Another
    <2>2. runtimes[r] \in Runtime /\ runtimes[r].pc # "done"
      BY <1>1, <1>2, <1>3 DEF RuntimesInv, Active
    <2>3. [runtimes[r] EXCEPT !.state = "stopping"] \in Runtime
      BY <2>2 DEF Runtime
    <2>4. runtimes' \in Seq(Runtime)
      BY <1>1, <1>2, <1>3, <2>3 DEF RuntimesInv
    <2>5. ASSUME NEW s \in DOMAIN runtimes'
          PROVE  /\ runtimes'[s].state = "ended" <=> runtimes'[s].pc = "done"
                 /\ runtimes'[s].queue # NoPath
                      => Equivalent(runtimes'[s].database, runtimes'[s].queue)
      <3>1. CASE s = r
        <4>1. runtimes'[s] = [runtimes[r] EXCEPT !.state = "stopping"]
          BY <1>2, <1>3, <3>1
        <4> QED BY <1>1, <1>3, <2>2, <4>1 DEF RuntimesInv, Runtime
      <3>2. CASE s # r
        BY <1>1, <1>2, <3>2 DEF RuntimesInv
      <3> QED BY <3>1, <3>2
    <2> QED BY <1>1, <1>2, <2>1, <2>4, <2>5 DEF RuntimesInv, Equivalent
  <1>6. SameActives
    BY <1>1, StopStaysActive
  <1>7. ListedInv' /\ OwnersInv' /\ RetentionInv'
    BY <1>1, <1>2, <1>6, SameActivesKeep
  <1>8. KnownInv'
    BY <1>1, <1>2 DEF KnownInv, OneQueuePerFile, Equivalent
  <1> QED BY <1>4, <1>5, <1>7, <1>8 DEF SupervisorIInv

\* An instance whose runner has returned stays active until it is published.
LEMMA RunnerStaysActive ==
    ASSUME RuntimesInv, NEW r \in DOMAIN runtimes, RunnerReturns(r)
    PROVE  SameActives
  <1>1. PICK f : runtimes' = [runtimes EXCEPT ![r].pc = "finalizing", ![r].finished = f]
    BY Zenon DEF RunnerReturns
  <1>2. PICK v : v = [runtimes[r] EXCEPT !.pc = "finalizing", !.finished = f]
    OBVIOUS
  <1>3. runtimes[r] \in Runtime
    BY DEF RuntimesInv
  <1>4. /\ v.state = runtimes[r].state /\ v.id = runtimes[r].id /\ v.name = runtimes[r].name
        /\ v.config = runtimes[r].config /\ v.database = runtimes[r].database
    BY <1>2, <1>3 DEF Runtime
  <1>5. /\ DOMAIN runtimes' = DOMAIN runtimes /\ runtimes'[r] = v
        /\ \A s \in DOMAIN runtimes : s # r => runtimes'[s] = runtimes[s]
    BY <1>1, <1>2
  <1> QED BY <1>4, <1>5 DEF SameActives, SameIdentities, Active

\* The return of a runner keeps the invariant.
LEMMA RunnerReturnsKeeps ==
    ASSUME SupervisorIInv, NEW r \in DOMAIN runtimes, RunnerReturns(r)
    PROVE  SupervisorIInv'
  <1>1. RuntimesInv /\ ListedInv /\ OwnersInv /\ KnownInv /\ RequestsInv /\ RetentionInv
    BY DEF SupervisorIInv
  <1>2. PICK f : f = 1 + Cardinality({s \in DOMAIN runtimes : runtimes[s].finished > 0})
    OBVIOUS
  <1>3. /\ runtimes[r].pc = "running"
        /\ runtimes' = [runtimes EXCEPT ![r].pc = "finalizing", ![r].finished = f]
        /\ UNCHANGED <<uses, registers, knownQueues, request, asked, edits>>
    BY <1>2 DEF RunnerReturns
  <1>4. f \in Nat
    <2>1. DOMAIN runtimes = 1..Len(runtimes) /\ Len(runtimes) \in Nat
      BY <1>1 DEF RuntimesInv
    <2>2. IsFiniteSet(DOMAIN runtimes)
      BY <2>1, FS_Interval
    <2>3. IsFiniteSet({s \in DOMAIN runtimes : runtimes[s].finished > 0})
      BY <2>2, FS_Subset
    <2>4. Cardinality({s \in DOMAIN runtimes : runtimes[s].finished > 0}) \in Nat
      BY <2>3, FS_CardinalityType
    <2> QED BY <1>2, <2>4
  <1>5. PICK v : v = [runtimes[r] EXCEPT !.pc = "finalizing", !.finished = f]
    OBVIOUS
  <1>6. runtimes[r] \in Runtime /\ runtimes[r].state # "ended"
    BY <1>1, <1>3 DEF RuntimesInv
  <1>7. /\ v \in Runtime /\ v.pc = "finalizing" /\ v.state = runtimes[r].state
        /\ v.id = runtimes[r].id /\ v.name = runtimes[r].name /\ v.config = runtimes[r].config
        /\ v.database = runtimes[r].database /\ v.queue = runtimes[r].queue
    BY <1>4, <1>5, <1>6 DEF Runtime
  <1>8. /\ DOMAIN runtimes' = DOMAIN runtimes /\ runtimes'[r] = v
        /\ \A s \in DOMAIN runtimes : s # r => runtimes'[s] = runtimes[s]
    BY <1>3, <1>5
  <1>9. RuntimesInv'
    <2>0. runtimes' = [runtimes EXCEPT ![r] = v]
      BY <1>3, <1>5
    <2>1. runtimes' \in Seq(Runtime)
      BY <1>1, <1>7, <2>0 DEF RuntimesInv
    <2>2. ASSUME NEW s \in DOMAIN runtimes'
          PROVE  /\ runtimes'[s].state = "ended" <=> runtimes'[s].pc = "done"
                 /\ runtimes'[s].queue # NoPath
                      => Equivalent(runtimes'[s].database, runtimes'[s].queue)
      BY <1>1, <1>6, <1>7, <1>8 DEF RuntimesInv
    <2> QED BY <1>1, <1>3, <2>1, <2>2 DEF RuntimesInv, Equivalent
  <1>10. SameActives
    BY <1>1, RunnerStaysActive
  <1>11. ListedInv' /\ OwnersInv' /\ RetentionInv'
    BY <1>1, <1>3, <1>10, SameActivesKeep
  <1>12. KnownInv'
    BY <1>1, <1>3 DEF KnownInv, OneQueuePerFile, Equivalent
  <1>13. RequestsInv'
    BY <1>1, <1>3, RequestsKeep
  <1> QED BY <1>9, <1>11, <1>12, <1>13 DEF SupervisorIInv

-----------------------------------------------------------------------------
(* The end of an instance.                                                  *)

\* The IDs that go when r ends.
Gone(r) == IF runtimes[r].remove THEN {runtimes[r].id} ELSE Evicted(r)

Released(owners, key, id) ==
    IF key \in DOMAIN owners /\ owners[key] = id THEN Without(owners, key) ELSE owners

\* What Publish does, entry by entry.
Published(r) ==
    /\ DOMAIN runtimes' = DOMAIN runtimes
    /\ runtimes'[r] = [runtimes[r] EXCEPT !.state = "ended", !.pc = "done"]
    /\ \A s \in DOMAIN runtimes : s # r => runtimes'[s] = runtimes[s]
    /\ DOMAIN instances' = DOMAIN instances \ Gone(r)
    /\ \A x \in DOMAIN instances' : instances'[x] = instances[x]
    /\ DOMAIN names' = {m \in DOMAIN names : names[m] \notin Gone(r)}
    /\ \A m \in DOMAIN names' : names'[m] = names[m]
    /\ DOMAIN activeConfigs' = DOMAIN activeConfigs \ {runtimes[r].config}
    /\ \A c \in DOMAIN activeConfigs' : activeConfigs'[c] = activeConfigs[c]
    /\ DOMAIN activeDatabases' = DOMAIN activeDatabases \ {runtimes[r].database}
    /\ \A p \in DOMAIN activeDatabases' : activeDatabases'[p] = activeDatabases[p]

\* What the end of an instance writes, entry by entry.
LEMMA PublishRows ==
    ASSUME RuntimesInv, ListedInv, OwnersInv, NEW r \in DOMAIN runtimes, Publish(r)
    PROVE  Published(r) /\ Active(r)
  <1>1. /\ runtimes[r].pc = "finalizing"
        /\ runtimes' = [runtimes EXCEPT ![r].state = "ended", ![r].pc = "done"]
        /\ activeConfigs' = Released(activeConfigs, runtimes[r].config, runtimes[r].id)
        /\ activeDatabases' = Released(activeDatabases, runtimes[r].database, runtimes[r].id)
    BY Zenon DEF Publish, Released
  <1>2. /\ instances' = [x \in DOMAIN instances \ Gone(r) |-> instances[x]]
        /\ names' = [n \in {m \in DOMAIN names : names[m] \notin Gone(r)} |-> names[n]]
    BY Zenon DEF Publish, Gone
  <1>3. Active(r)
    <2>1. runtimes[r] \in Runtime /\ runtimes[r].state # "ended"
      BY <1>1 DEF RuntimesInv
    <2> QED BY <2>1 DEF Active, Runtime
  <1>4. /\ runtimes[r].config \in DOMAIN activeConfigs
        /\ activeConfigs[runtimes[r].config] = runtimes[r].id
        /\ runtimes[r].database \in DOMAIN activeDatabases
        /\ activeDatabases[runtimes[r].database] = runtimes[r].id
    BY <1>3 DEF OwnersInv
  <1>5. /\ DOMAIN activeConfigs' = DOMAIN activeConfigs \ {runtimes[r].config}
        /\ \A c \in DOMAIN activeConfigs' : activeConfigs'[c] = activeConfigs[c]
    BY <1>1, <1>4 DEF Released, Without
  <1>6. /\ DOMAIN activeDatabases' = DOMAIN activeDatabases \ {runtimes[r].database}
        /\ \A p \in DOMAIN activeDatabases' : activeDatabases'[p] = activeDatabases[p]
    BY <1>1, <1>4 DEF Released, Without
  <1>7. /\ DOMAIN runtimes' = DOMAIN runtimes
        /\ runtimes'[r] = [runtimes[r] EXCEPT !.state = "ended", !.pc = "done"]
        /\ \A s \in DOMAIN runtimes : s # r => runtimes'[s] = runtimes[s]
    BY <1>1
  <1>8. /\ DOMAIN instances' = DOMAIN instances \ Gone(r)
        /\ \A x \in DOMAIN instances' : instances'[x] = instances[x]
        /\ DOMAIN names' = {m \in DOMAIN names : names[m] \notin Gone(r)}
        /\ \A m \in DOMAIN names' : names'[m] = names[m]
    BY <1>2
  <1> QED BY <1>3, <1>5, <1>6, <1>7, <1>8, Zenon DEF Published

\* Only r and what has ended goes.
LEMMA GoneIsOver ==
    ASSUME ListedInv, NEW r \in DOMAIN runtimes, Active(r)
    PROVE  \A x \in DOMAIN instances :
              x \in Gone(r) => x = runtimes[r].id \/ ~Active(instances[x])
  BY DEF Gone, Evicted, Evictable

\* The instance that ends is the only one that is no longer active.
LEMMA PublishKeepsRuntimes ==
    ASSUME RuntimesInv, NEW r \in DOMAIN runtimes, Publish(r), Published(r)
    PROVE  /\ RuntimesInv' /\ SameIdentities
           /\ \A s \in DOMAIN runtimes : Active(s)' <=> Active(s) /\ s # r
  <1>1. PICK v : v = [runtimes[r] EXCEPT !.state = "ended", !.pc = "done"]
    OBVIOUS
  <1>2. runtimes[r] \in Runtime
    BY DEF RuntimesInv
  <1>3. /\ v \in Runtime /\ v.pc = "done" /\ v.state = "ended"
        /\ v.id = runtimes[r].id /\ v.name = runtimes[r].name /\ v.config = runtimes[r].config
        /\ v.database = runtimes[r].database /\ v.queue = runtimes[r].queue
    BY <1>1, <1>2 DEF Runtime
  <1>4. /\ DOMAIN runtimes' = DOMAIN runtimes /\ runtimes'[r] = v
        /\ \A s \in DOMAIN runtimes : s # r => runtimes'[s] = runtimes[s]
    BY <1>1, Zenon DEF Published
  <1>5. UNCHANGED <<uses, asked, edits>>
    BY Zenon DEF Publish
  <1>6. runtimes' \in Seq(Runtime)
    <2>1. runtimes' = [runtimes EXCEPT ![r] = v]
      <3>1. runtimes' = [runtimes EXCEPT ![r].state = "ended", ![r].pc = "done"]
        BY Zenon DEF Publish
      <3> QED BY <1>1, <3>1
    <2> QED BY <1>3, <2>1 DEF RuntimesInv
  <1>7. ASSUME NEW s \in DOMAIN runtimes'
        PROVE  /\ runtimes'[s].state = "ended" <=> runtimes'[s].pc = "done"
               /\ runtimes'[s].queue # NoPath
                    => Equivalent(runtimes'[s].database, runtimes'[s].queue)
    BY <1>3, <1>4 DEF RuntimesInv
  <1>8. RuntimesInv'
    BY <1>5, <1>6, <1>7 DEF RuntimesInv, Equivalent
  <1>9. SameIdentities
    BY <1>3, <1>4 DEF SameIdentities
  <1>10. \A s \in DOMAIN runtimes : Active(s)' <=> Active(s) /\ s # r
    BY <1>3, <1>4 DEF Active
  <1> QED BY <1>8, <1>9, <1>10

\* r is gone from the owners, and what else is active stays listed.
LEMMA PublishKeepsRegisters ==
    ASSUME ListedInv, OwnersInv, NEW r \in DOMAIN runtimes, Active(r), Published(r),
           SameIdentities, \A s \in DOMAIN runtimes : Active(s)' <=> Active(s) /\ s # r
    PROVE  ListedInv' /\ OwnersInv'
  <1>1. \A s \in DOMAIN runtimes :
           Active(s) /\ s # r => /\ runtimes[s].id # runtimes[r].id
                                 /\ runtimes[s].id \in DOMAIN instances
                                 /\ instances[runtimes[s].id] = s
    BY DEF ListedInv
  <1>2. ListedInv'
    <2>1. ASSUME NEW x \in DOMAIN instances'
          PROVE  /\ x \in Ids /\ instances'[x] \in DOMAIN runtimes'
                 /\ runtimes'[instances'[x]].id = x
                 /\ runtimes'[instances'[x]].name \in DOMAIN names'
                 /\ names'[runtimes'[instances'[x]].name] = x
      <3>1. x \in DOMAIN instances /\ x \notin Gone(r) /\ instances'[x] = instances[x]
        BY DEF Published
      <3>2. /\ x \in Ids /\ instances[x] \in DOMAIN runtimes
            /\ runtimes[instances[x]].id = x
            /\ runtimes[instances[x]].name \in DOMAIN names
            /\ names[runtimes[instances[x]].name] = x
        BY <3>1 DEF ListedInv
      <3>3. /\ runtimes[instances[x]].name \in DOMAIN names'
            /\ names'[runtimes[instances[x]].name] = x
        BY <3>1, <3>2 DEF Published
      <3> QED BY <3>1, <3>2, <3>3 DEF SameIdentities
    <2>2. ASSUME NEW n \in DOMAIN names'
          PROVE  names'[n] \in DOMAIN instances' /\ runtimes'[instances'[names'[n]]].name = n
      <3>1. n \in DOMAIN names /\ names[n] \notin Gone(r) /\ names'[n] = names[n]
        BY DEF Published
      <3>2. names[n] \in DOMAIN instances /\ runtimes[instances[names[n]]].name = n
        BY <3>1 DEF ListedInv
      <3>3. names[n] \in DOMAIN instances' /\ instances'[names[n]] = instances[names[n]]
        BY <3>1, <3>2 DEF Published
      <3>4. instances[names[n]] \in DOMAIN runtimes
        BY <3>2 DEF ListedInv
      <3> QED BY <3>1, <3>2, <3>3, <3>4 DEF SameIdentities
    <2>3. DOMAIN names' \cap DOMAIN instances' = {}
      BY DEF ListedInv, Published
    <2>4. ASSUME NEW s \in DOMAIN runtimes', Active(s)'
          PROVE  runtimes'[s].id \in DOMAIN instances' /\ instances'[runtimes'[s].id] = s
      <3>1. s \in DOMAIN runtimes /\ Active(s) /\ s # r /\ runtimes'[s].id = runtimes[s].id
        BY <2>4 DEF SameIdentities
      <3>2. /\ runtimes[s].id # runtimes[r].id /\ runtimes[s].id \in DOMAIN instances
            /\ instances[runtimes[s].id] = s
        BY <1>1, <3>1
      <3>3. runtimes[s].id \notin Gone(r)
        BY <3>1, <3>2, GoneIsOver
      <3> QED BY <3>1, <3>2, <3>3 DEF Published
    <2> QED BY <2>1, <2>2, <2>3, <2>4 DEF ListedInv
  <1>3. OwnersInv'
    <2>1. ASSUME NEW s \in DOMAIN runtimes', Active(s)'
          PROVE  /\ runtimes'[s].config \in DOMAIN activeConfigs'
                 /\ activeConfigs'[runtimes'[s].config] = runtimes'[s].id
                 /\ runtimes'[s].database \in DOMAIN activeDatabases'
                 /\ activeDatabases'[runtimes'[s].database] = runtimes'[s].id
      <3>1. /\ s \in DOMAIN runtimes /\ Active(s) /\ s # r /\ runtimes'[s].id = runtimes[s].id
            /\ runtimes'[s].config = runtimes[s].config
            /\ runtimes'[s].database = runtimes[s].database
        BY <2>1 DEF SameIdentities
      <3>2. /\ runtimes[s].config \in DOMAIN activeConfigs
            /\ activeConfigs[runtimes[s].config] = runtimes[s].id
            /\ runtimes[s].database \in DOMAIN activeDatabases
            /\ activeDatabases[runtimes[s].database] = runtimes[s].id
        BY <3>1 DEF OwnersInv
      <3>3. /\ activeConfigs[runtimes[r].config] = runtimes[r].id
            /\ activeDatabases[runtimes[r].database] = runtimes[r].id
        BY DEF OwnersInv
      <3>4. runtimes[s].config # runtimes[r].config /\ runtimes[s].database # runtimes[r].database
        BY <1>1, <3>1, <3>2, <3>3
      <3> QED BY <3>1, <3>2, <3>4 DEF Published
    <2>2. ASSUME NEW c \in DOMAIN activeConfigs'
          PROVE  \E s \in DOMAIN runtimes' : /\ Active(s)' /\ runtimes'[s].config = c
                                             /\ activeConfigs'[c] = runtimes'[s].id
      <3>1. /\ c \in DOMAIN activeConfigs /\ c # runtimes[r].config
            /\ activeConfigs'[c] = activeConfigs[c]
        BY DEF Published
      <3>2. PICK s \in DOMAIN runtimes : /\ Active(s) /\ runtimes[s].config = c
                                         /\ activeConfigs[c] = runtimes[s].id
        BY <3>1 DEF OwnersInv
      <3> QED BY <3>1, <3>2 DEF SameIdentities
    <2>3. ASSUME NEW p \in DOMAIN activeDatabases'
          PROVE  \E s \in DOMAIN runtimes' : /\ Active(s)' /\ runtimes'[s].database = p
                                             /\ activeDatabases'[p] = runtimes'[s].id
      <3>1. /\ p \in DOMAIN activeDatabases /\ p # runtimes[r].database
            /\ activeDatabases'[p] = activeDatabases[p]
        BY DEF Published
      <3>2. PICK s \in DOMAIN runtimes : /\ Active(s) /\ runtimes[s].database = p
                                         /\ activeDatabases[p] = runtimes[s].id
        BY <3>1 DEF OwnersInv
      <3> QED BY <3>1, <3>2 DEF SameIdentities
    <2>4. \A p, o \in DOMAIN activeDatabases' : Equivalent(p, o)' => p = o
      BY DEF OwnersInv, Published, Equivalent
    <2> QED BY <2>1, <2>2, <2>3, <2>4 DEF OwnersInv
  <1> QED BY <1>2, <1>3

\* Numbers that are not none have a least one.
LEMMA LeastNumber ==
    ASSUME NEW S \in SUBSET Nat, S # {}
    PROVE  \E k \in S : \A l \in S : ~(l < k)
  <1>1. PICK k \in S : \A l \in S : ~ (<<l, k>> \in OpToRel(<, Nat))
    BY WFMin, NatLessThanWellFounded, Zenon
  <1>2. \A l \in S : ~(l < k)
    BY <1>1 DEF OpToRel
  <1> QED BY <1>2

\* Of terminated instances, one finished before the others.
LEMMA OneIsFirst ==
    ASSUME RuntimesInv, ListedInv, NEW T \in SUBSET DOMAIN instances, T # {}
    PROVE  \E m \in T : \A y \in T : ~Before(instances[y], instances[m])
  <1>1. \A x \in T : instances[x] \in Nat /\ runtimes[instances[x]].finished \in Nat
    <2> TAKE x \in T
    <2>1. instances[x] \in DOMAIN runtimes
      BY DEF ListedInv
    <2>2. runtimes[instances[x]] \in Runtime /\ instances[x] \in Nat
      BY <2>1 DEF RuntimesInv
    <2> QED BY <2>2 DEF Runtime
  <1>2. PICK V : V = {runtimes[instances[x]].finished : x \in T}
    OBVIOUS
  <1>3. PICK v \in V : \A w \in V : ~(w < v)
    <2>1. V \in SUBSET Nat /\ V # {}
      BY <1>1, <1>2
    <2> QED BY <2>1, LeastNumber
  <1>4. PICK W : W = {instances[x] : x \in {y \in T : runtimes[instances[y]].finished = v}}
    OBVIOUS
  <1>5. PICK w \in W : \A u \in W : ~(u < w)
    <2>1. PICK x \in T : runtimes[instances[x]].finished = v
      BY <1>2, <1>3
    <2>2. instances[x] \in W
      BY <1>4, <2>1
    <2>3. W \in SUBSET Nat
      BY <1>1, <1>4
    <2>4. W # {}
      BY <2>2
    <2> QED BY <2>3, <2>4, LeastNumber
  <1>6. PICK m \in T : runtimes[instances[m]].finished = v /\ instances[m] = w
    BY <1>4, <1>5
  <1>7. ASSUME NEW y \in T PROVE ~Before(instances[y], instances[m])
    <2>1. ~(runtimes[instances[y]].finished < v)
      BY <1>2, <1>3
    <2>2. runtimes[instances[y]].finished = v => instances[y] \in W
      BY <1>4
    <2>3. runtimes[instances[y]].finished = v => ~(instances[y] < w)
      BY <1>5, <2>2
    <2> QED BY <1>6, <2>1, <2>3 DEF Before
  <1> QED BY <1>6, <1>7

\* At the limit, the end of one instance evicts another.
LEMMA FullEvicts ==
    ASSUME RuntimesInv, ListedInv, RetentionInv, NEW r \in DOMAIN runtimes, Active(r),
           Cardinality(Terminated) = Retained
    PROVE  \E m \in Terminated : m \in Evicted(r)
  <1>1. PICK T : T = Terminated
    OBVIOUS
  <1>2. IsFiniteSet(T) /\ Cardinality(T) = Retained /\ T \in SUBSET DOMAIN instances
    BY <1>1 DEF RetentionInv, Terminated
  <1>3. PICK id \in DOMAIN instances : id = runtimes[r].id /\ instances[id] = r
    BY DEF ListedInv
  <1>4. id \notin T
    BY <1>1, <1>3 DEF Terminated
  <1>5. \A x \in DOMAIN instances : instances[x] = r => x = id
    BY <1>3 DEF ListedInv
  <1>6. {x \in DOMAIN instances : ~Active(instances[x]) \/ instances[x] = r} = T \cup {id}
    BY <1>1, <1>3, <1>5 DEF Terminated
  <1>7. Cardinality(T \cup {id}) = Retained + 1
    BY <1>2, <1>4, FS_AddElement
  <1>8. Excess(r) = 1
    <2>1. Excess(r) = (Retained + 1) - Retained
      BY <1>6, <1>7 DEF Excess
    <2> QED BY <2>1, LimitTypes
  <1>9. Evictable(r) = T
    BY <1>1 DEF Evictable, Terminated
  <1>10. T # {}
    BY <1>2, FS_EmptySet, LimitTypes
  <1>11. PICK m \in T : \A y \in T : ~Before(instances[y], instances[m])
    BY <1>2, <1>10, OneIsFirst
  <1>12. {y \in Evictable(r) : Before(instances[y], instances[m])} = {}
    BY <1>9, <1>11
  <1>13. Cardinality({y \in Evictable(r) : Before(instances[y], instances[m])}) < Excess(r)
    BY <1>8, <1>12, FS_EmptySet
  <1>14. m \in Evicted(r)
    BY <1>9, <1>13, Zenon DEF Evicted
  <1> QED BY <1>1, <1>14

\* An instance that ends is kept, or removed, or one that ended before it makes way.
LEMMA PublishKeepsRetention ==
    ASSUME RuntimesInv, ListedInv, RetentionInv, NEW r \in DOMAIN runtimes, Active(r),
           Published(r), \A s \in DOMAIN runtimes : Active(s)' <=> Active(s) /\ s # r
    PROVE  RetentionInv'
  <1>1. PICK T : T = Terminated
    OBVIOUS
  <1>2. PICK U : U = Terminated'
    OBVIOUS
  <1>3. PICK id \in DOMAIN instances : id = runtimes[r].id /\ instances[id] = r
    BY DEF ListedInv
  <1>4. IsFiniteSet(T) /\ Cardinality(T) \in Nat /\ Cardinality(T) <= Retained
    BY <1>1, FS_CardinalityType DEF RetentionInv
  <1>5. ASSUME NEW x \in U PROVE x \in T \cup {id} /\ x \notin Gone(r)
    <2>1. x \in DOMAIN instances' /\ ~Active(instances[x])'
      BY <1>2 DEF Terminated
    <2>2. x \in DOMAIN instances /\ x \notin Gone(r) /\ instances'[x] = instances[x]
      BY <2>1 DEF Published
    <2>3. PICK s \in DOMAIN runtimes : s = instances[x] /\ runtimes[s].id = x
      BY <2>2 DEF ListedInv
    <2>4. ~Active(s)'
      BY <2>1, <2>2, <2>3 DEF Active
    <2>5. ~Active(s) \/ s = r
      BY <2>4
    <2> QED BY <1>1, <1>3, <2>2, <2>3, <2>5 DEF Terminated
  <1>6. IsFiniteSet(T \cup {id}) /\ Cardinality(T \cup {id}) \in Nat
        /\ Cardinality(T \cup {id}) <= Cardinality(T) + 1
    BY <1>4, FS_AddElement
  <1>7. IsFiniteSet(U) /\ Cardinality(U) \in Nat
    <2>1. U \subseteq T \cup {id}
      BY <1>5
    <2> QED BY <1>6, <2>1, FS_Subset, FS_CardinalityType
  <1>8. Cardinality(U) <= Retained
    <2>1. CASE runtimes[r].remove
      <3>1. U \subseteq T
        BY <1>3, <1>5, <2>1 DEF Gone
      <3>2. Cardinality(U) <= Cardinality(T)
        BY <1>4, <3>1, FS_Subset
      <3> QED BY <1>4, <1>7, <3>2, LimitTypes
    <2>2. CASE Cardinality(T) < Retained
      <3>1. U \subseteq T \cup {id}
        BY <1>5
      <3>2. Cardinality(U) <= Cardinality(T \cup {id})
        BY <1>6, <3>1, FS_Subset
      <3> QED BY <1>4, <1>6, <1>7, <2>2, <3>2, LimitTypes
    <2>3. CASE ~runtimes[r].remove /\ Cardinality(T) = Retained
      <3>1. PICK m \in T : m \in Evicted(r)
        BY <1>1, <2>3, FullEvicts
      <3>2. Gone(r) = Evicted(r)
        BY <2>3 DEF Gone
      <3>3. U \subseteq (T \cup {id}) \ {m}
        BY <1>5, <3>1, <3>2
      <3>4. /\ IsFiniteSet((T \cup {id}) \ {m})
            /\ Cardinality((T \cup {id}) \ {m}) = Cardinality(T \cup {id}) - 1
        BY <1>6, <3>1, FS_RemoveElement
      <3>5. Cardinality(U) <= Cardinality((T \cup {id}) \ {m})
        BY <3>3, <3>4, FS_Subset
      <3> QED BY <1>4, <1>6, <1>7, <2>3, <3>4, <3>5, LimitTypes
    <2> QED BY <1>4, <2>1, <2>2, <2>3, LimitTypes
  <1> QED BY <1>2, <1>7, <1>8 DEF RetentionInv

\* The end of an instance keeps the invariant.
LEMMA PublishKeeps ==
    ASSUME SupervisorIInv, NEW r \in DOMAIN runtimes, Publish(r)
    PROVE  SupervisorIInv'
  <1>1. RuntimesInv /\ ListedInv /\ OwnersInv /\ KnownInv /\ RequestsInv /\ RetentionInv
    BY DEF SupervisorIInv
  <1>2. Published(r) /\ Active(r)
    BY <1>1, PublishRows
  <1>3. /\ RuntimesInv' /\ SameIdentities
        /\ \A s \in DOMAIN runtimes : Active(s)' <=> Active(s) /\ s # r
    BY <1>1, <1>2, PublishKeepsRuntimes
  <1>4. ListedInv' /\ OwnersInv'
    BY <1>1, <1>2, <1>3, PublishKeepsRegisters
  <1>5. RetentionInv'
    BY <1>1, <1>2, <1>3, PublishKeepsRetention
  <1>6. UNCHANGED <<knownQueues, request>>
    BY Zenon DEF Publish
  <1>7. KnownInv'
    BY <1>1, <1>6 DEF KnownInv, OneQueuePerFile, Equivalent
  <1>8. RequestsInv'
    BY <1>1, <1>6, RequestsKeep
  <1> QED BY <1>3, <1>4, <1>5, <1>7, <1>8 DEF SupervisorIInv

-----------------------------------------------------------------------------
(* The theorems.                                                            *)

\* An empty manager satisfies the invariant.
LEMMA InitHolds == Init => SupervisorIInv
  <1>1. SUFFICES ASSUME Init PROVE SupervisorIInv
    OBVIOUS
  <1>2. /\ runtimes = <<>> /\ instances = <<>> /\ names = <<>> /\ activeConfigs = <<>>
        /\ activeDatabases = <<>> /\ knownQueues = <<>> /\ asked = 0 /\ edits = 0
        /\ uses \in InitialUses /\ request = [q \in Requests |-> Idle]
    BY <1>1 DEF Init
  <1>3. /\ DOMAIN runtimes = {} /\ DOMAIN instances = {} /\ DOMAIN names = {}
        /\ DOMAIN activeConfigs = {} /\ DOMAIN activeDatabases = {} /\ DOMAIN knownQueues = {}
    BY <1>2
  <1>4. RuntimesInv
    BY <1>2, <1>3, LimitTypes, SupervisorAssumption DEF RuntimesInv
  <1>5. ListedInv /\ OwnersInv /\ KnownInv
    BY <1>3 DEF ListedInv, OwnersInv, KnownInv, OneQueuePerFile
  <1>6. RequestsInv
    <2>1. Idle.pc = "idle"
      BY DEF Idle
    <2> QED BY <1>2, <2>1 DEF RequestsInv, RequestInv, PCs
  <1>7. Terminated = {}
    BY <1>3 DEF Terminated
  <1>8. RetentionInv
    BY <1>7, FS_EmptySet, LimitTypes DEF RetentionInv
  <1> QED BY <1>4, <1>5, <1>6, <1>8 DEF SupervisorIInv

\* What clients ask for keeps the invariant.
LEMMA ClientKeeps ==
    ASSUME SupervisorIInv, NEW q \in Requests, Client(q)
    PROVE  SupervisorIInv'
  <1>1. ASSUME NEW S \in SUBSET Configs, NEW name, Start(q, S, name) PROVE SupervisorIInv'
    <2>1. PICK o : o = [name |-> name, kind |-> "start", remove |-> FALSE, queue |-> NoPath]
      OBVIOUS
    <2>2. o.queue = NoPath /\ o.remove = FALSE
      BY <2>1
    <2>3. Begin(q, S, o)
      BY <1>1, <2>1, Zenon DEF Start
    <2> QED BY <2>2, <2>3, BeginKeeps
  <1>2. ASSUME NEW c \in Configs, NEW name, NEW remove \in BOOLEAN, Run(q, c, name, remove)
        PROVE  SupervisorIInv'
    <2>1. PICK o : o = [name |-> name, kind |-> "run", remove |-> remove, queue |-> NoPath]
      OBVIOUS
    <2>2. o.queue = NoPath /\ o.remove \in BOOLEAN
      BY <2>1, Zenon
    <2>3. Begin(q, {c}, o)
      BY <1>2, <2>1, Zenon DEF Run
    <2>4. {c} \in SUBSET Configs
      OBVIOUS
    <2> QED BY <2>2, <2>3, <2>4, BeginKeeps
  <1>3. ASSUME NEW k \in DOMAIN knownQueues, StartKnown(q, k) PROVE SupervisorIInv'
    <2>1. PICK o : o = [name |-> NoLabel, kind |-> "known", remove |-> FALSE, queue |-> k]
      OBVIOUS
    <2>2. k \in Paths /\ knownQueues[k].config \in Configs
      BY DEF SupervisorIInv, KnownInv
    <2>3. o.queue \in Paths /\ o.remove = FALSE
      BY <2>1, <2>2
    <2>4. Begin(q, {knownQueues[k].config}, o)
      BY <1>3, <2>1, Zenon DEF StartKnown
    <2>5. {knownQueues[k].config} \in SUBSET Configs
      BY <2>2
    <2> QED BY <2>3, <2>4, <2>5, BeginKeeps
  <1>4. ASSUME NEW s, Stop(q, s) PROVE SupervisorIInv'
    BY <1>4, StopKeeps
  <1>5. ASSUME Refuse(q) \/ Leave(q) PROVE SupervisorIInv'
    BY <1>5, RequestEndKeeps DEF Refuse, Leave
  <1> QED BY <1>1, <1>2, <1>3, <1>4, <1>5, Zenon DEF Client

\* Every step keeps the invariant.
LEMMA NextKeeps == SupervisorIInv /\ [Next]_vars => SupervisorIInv'
  <1>1. SUFFICES ASSUME SupervisorIInv, [Next]_vars PROVE SupervisorIInv'
    OBVIOUS
  <1>2. ASSUME NEW r \in DOMAIN runtimes, RunnerStep(r) PROVE SupervisorIInv'
    BY <1>1, <1>2, RunnerReturnsKeeps, PublishKeeps DEF RunnerStep
  <1>3. ASSUME NEW q \in Requests, StartStep(q) PROVE SupervisorIInv'
    <2>1. CASE EnterGate(q) \/ SnapshotAgain(q)
      BY <1>1, <2>1, EnterGateKeeps, SnapshotKeeps
    <2>2. CASE RefuseActive(q) \/ RefuseLabel(q)
      <3>1. /\ request' = [request EXCEPT ![q] = Idle]
            /\ UNCHANGED <<uses, runtimes, registers, knownQueues, asked, edits>>
        BY <2>2, Zenon DEF RefuseActive, RefuseLabel
      <3> QED BY <1>1, <3>1, RequestEndKeeps
    <2>3. CASE Reserve(q)
      BY <1>1, <2>3, ReserveKeeps
    <2> QED BY <1>3, <2>1, <2>2, <2>3 DEF StartStep
  <1>4. ASSUME NEW q \in Requests, WaitStep(q) PROVE SupervisorIInv'
    BY <1>1, <1>4, RequestEndKeeps DEF WaitStep, WaitReturns, SendExited
  <1>5. ASSUME NEW c \in Configs, NEW p \in EditsTo[c], EditConfig(c, p) PROVE SupervisorIInv'
    <2>1. p \in Paths
      BY <1>5, SupervisorAssumption
    <2> QED BY <1>1, <1>5, <2>1, EditKeeps
  <1>6. CASE UNCHANGED vars
    <2>1. UNCHANGED <<runtimes, registers, knownQueues>> /\ UNCHANGED request
          /\ UNCHANGED <<uses, asked, edits>>
      BY <1>6 DEF vars
    <2>2. RuntimesInv'
      BY <1>1, <2>1 DEF SupervisorIInv, RuntimesInv, Equivalent
    <2>3. RequestsInv'
      BY <1>1, <2>1, RequestsKeep DEF SupervisorIInv
    <2>4. ListedInv' /\ OwnersInv' /\ KnownInv' /\ RetentionInv'
      BY <1>1, <2>1, RegistersKeep
    <2> QED BY <2>2, <2>3, <2>4 DEF SupervisorIInv
  <1> QED BY <1>1, <1>2, <1>3, <1>4, <1>5, <1>6, ClientKeeps, Zenon DEF Next

\* The registers, the owners, the catalogue and the requests agree in every state.
THEOREM SupervisorConsistent == Spec => []SupervisorIInv
  BY InitHolds, NextKeeps, PTL DEF Spec

\* Different active instances have different IDs.
LEMMA ActivesDiffer ==
    ASSUME SupervisorIInv, NEW r \in Running, NEW s \in Running, r # s
    PROVE  runtimes[r].id # runtimes[s].id
  BY DEF SupervisorIInv, ListedInv, Running

\* Owners' maps that agree with the active instances name one owner.
LEMMA OwnersAreOne ==
    ASSUME SupervisorIInv
    PROVE  OneOwner
  <1>1. SUFFICES ASSUME NEW r \in Running, NEW s \in Running, r # s
                 PROVE  /\ runtimes[r].config # runtimes[s].config
                        /\ ~Equivalent(runtimes[r].database, runtimes[s].database)
    BY DEF OneOwner
  <1>2. runtimes[r].id # runtimes[s].id
    BY <1>1, ActivesDiffer
  <1>3. /\ activeConfigs[runtimes[r].config] = runtimes[r].id
        /\ activeConfigs[runtimes[s].config] = runtimes[s].id
        /\ runtimes[r].database \in DOMAIN activeDatabases
        /\ runtimes[s].database \in DOMAIN activeDatabases
        /\ activeDatabases[runtimes[r].database] = runtimes[r].id
        /\ activeDatabases[runtimes[s].database] = runtimes[s].id
    BY <1>1 DEF SupervisorIInv, OwnersInv, Running
  <1>4. Equivalent(runtimes[r].database, runtimes[s].database)
          => runtimes[r].database = runtimes[s].database
    BY <1>1, <1>3 DEF SupervisorIInv, OwnersInv
  <1> QED BY <1>2, <1>3, <1>4

\* However starts race, files are edited and instances end, no two active instances share
\* a configuration or a database file, under whatever paths (activeConfigs and
\* activeDatabases, reserved with the copy that was inspected still current).
THEOREM SupervisorOneOwner == Spec => []OneOwner
  <1>1. SupervisorIInv => OneOwner
    BY OwnersAreOne
  <1> QED BY <1>1, SupervisorConsistent, PTL

\* Every active instance is found under its name and its ID, and a name leads to its
\* bearer, whatever was evicted, removed and named anew.
THEOREM SupervisorAddressable == Spec => []Addressable
  <1>1. SupervisorIInv => Addressable
    <2>1. SUFFICES ASSUME SupervisorIInv PROVE Addressable
      OBVIOUS
    <2>2. ListedInv
      BY <2>1 DEF SupervisorIInv
    <2>3. ASSUME NEW r \in Running
          PROVE  /\ runtimes[r].id \in DOMAIN instances
                 /\ instances[runtimes[r].id] = r
                 /\ runtimes[r].name \in DOMAIN names
      BY <2>2 DEF ListedInv, Running
    <2> QED BY <2>2, <2>3 DEF ListedInv, Addressable
  <1> QED BY <1>1, SupervisorConsistent, PTL

\* The listed instances that ended are as few as the IDs they are listed under.
LEMMA FewListed ==
    ASSUME SupervisorIInv
    PROVE  RetentionBounded
  <1>1. PICK A : A = Listed \ Running
    OBVIOUS
  <1>2. PICK f : f = [r \in A |-> runtimes[r].id]
    OBVIOUS
  <1>3. ASSUME NEW r \in A
        PROVE  runtimes[r].id \in Terminated /\ instances[runtimes[r].id] = r
    <2>1. PICK x \in DOMAIN instances : r = instances[x]
      BY <1>1 DEF Listed
    <2>2. runtimes[r].id = x /\ r \in DOMAIN runtimes
      BY <2>1 DEF SupervisorIInv, ListedInv
    <2>3. ~Active(r)
      BY <1>1, <2>2 DEF Running
    <2> QED BY <2>1, <2>2, <2>3 DEF Terminated
  <1>4. f \in [A -> Terminated] /\ \A r, s \in A : f[r] = f[s] => r = s
    BY <1>2, <1>3
  <1>5. f \in Injection(A, Terminated)
    <2>1. DOMAIN f = A
      BY <1>2
    <2>2. IsInjective(f)
      BY <1>4, <2>1, Zenon DEF IsInjective
    <2> QED BY <1>4, <2>2, Zenon DEF Injection
  <1>6. IsFiniteSet(Terminated) /\ Cardinality(Terminated) <= Retained
    BY DEF SupervisorIInv, RetentionInv
  <1>7. IsFiniteSet(A) /\ Cardinality(A) <= Cardinality(Terminated)
    BY <1>5, <1>6, FS_Injection, Zenon DEF ExistsInjection
  <1>8. Cardinality(A) \in Nat /\ Cardinality(Terminated) \in Nat
    BY <1>6, <1>7, FS_CardinalityType
  <1> QED BY <1>1, <1>6, <1>7, <1>8, LimitTypes DEF RetentionBounded

\* The registers keep their promises: ended instances stay within retainedInstances,
\* the catalogue knows a database file once, and a queue that is started again is the
\* one that was shown.
THEOREM SupervisorSafe == Spec => []SupervisorInv
  <1>1. SupervisorIInv => SupervisorInv
    <2>1. SUFFICES ASSUME SupervisorIInv PROVE SupervisorInv
      OBVIOUS
    <2>2. RuntimesInv /\ ListedInv /\ OwnersInv /\ KnownInv /\ RequestsInv
      BY <2>1 DEF SupervisorIInv
    <2>3. \A r \in DOMAIN runtimes : runtimes[r] \in Runtime /\ runtimes[r].id \in Ids
      <3>1. \A r \in DOMAIN runtimes : runtimes[r] \in Runtime
        BY <2>2 DEF RuntimesInv
      <3> QED BY <3>1 DEF Runtime
    <2>4. /\ \A x \in DOMAIN instances : instances[x] \in DOMAIN runtimes
          /\ \A n \in DOMAIN names : names[n] \in Ids
      BY <2>2 DEF ListedInv
    <2>5. /\ \A c \in DOMAIN activeConfigs : activeConfigs[c] \in Ids
          /\ \A p \in DOMAIN activeDatabases : activeDatabases[p] \in Ids
      BY <2>2, <2>3 DEF OwnersInv
    <2>6. \A q \in Requests : request[q].pc \in PCs
      BY <2>2 DEF RequestsInv, RequestInv
    <2>7. SupervisorTypeOK
      BY <2>2, <2>3, <2>4, <2>5, <2>6 DEF SupervisorTypeOK, RuntimesInv, KnownInv
    <2>8. RetentionBounded
      BY <2>1, FewListed
    <2>9. OneQueuePerFile /\ SameQueue
      BY <2>2 DEF KnownInv, RuntimesInv, SameQueue
    <2> QED BY <2>7, <2>8, <2>9 DEF SupervisorInv
  <1> QED BY <1>1, SupervisorConsistent, PTL

\* "already active" is only said while an active instance owns a configuration or a
\* database of the start (validateActiveCandidates on a copy found current).
THEOREM SupervisorBusyMeansActive == Spec => BusyMeansActive
  <1>1. SupervisorIInv => BusyRefusal
    <2>1. SUFFICES ASSUME SupervisorIInv, NEW q \in Requests, RefuseActive(q)
                   PROVE  \E r \in Running, c \in DOMAIN request[q].candidates :
                             \/ runtimes[r].config = c
                             \/ Equivalent(runtimes[r].database, request[q].candidates[c])
      BY Zenon DEF BusyRefusal
    <2>2. Current(q) /\ Conflicts(request[q].candidates, request[q].seen)
      BY <2>1, Zenon DEF RefuseActive
    <2>3. request[q].seen[1] = activeConfigs /\ request[q].seen[2] = activeDatabases
      BY <2>2 DEF Current
    <2>4. ASSUME NEW c \in DOMAIN request[q].candidates, c \in DOMAIN activeConfigs
          PROVE  \E r \in Running : runtimes[r].config = c
      BY <2>1, <2>4 DEF SupervisorIInv, OwnersInv, Running
    <2>5. ASSUME NEW c \in DOMAIN request[q].candidates,
                 DatabaseOwners(request[q].candidates[c], activeDatabases) # {}
          PROVE  \E r \in Running : Equivalent(runtimes[r].database, request[q].candidates[c])
      <3>1. PICK o \in DOMAIN activeDatabases : Equivalent(request[q].candidates[c], o)
        BY <2>5 DEF DatabaseOwners
      <3>2. PICK r \in Running : runtimes[r].database = o
        BY <2>1 DEF SupervisorIInv, OwnersInv, Running
      <3> QED BY <3>1, <3>2, EquivalentIsOne
    <2>6. \/ \E c \in DOMAIN request[q].candidates : c \in DOMAIN activeConfigs
          \/ \E c \in DOMAIN request[q].candidates :
               DatabaseOwners(request[q].candidates[c], activeDatabases) # {}
      BY <2>2, <2>3 DEF Conflicts
    <2> QED BY <2>4, <2>5, <2>6, Zenon
  <1>2. SupervisorIInv /\ [Next]_vars => [BusyRefusal]_vars
    BY <1>1
  <1> QED BY <1>2, SupervisorConsistent, PTL DEF Spec, BusyMeansActive

-----------------------------------------------------------------------------
(* The manager implements DatabaseLeases.                                   *)

\* The leases, instance by instance.
LEMMA LeaseRows ==
    /\ \A l : l \in leasesOf <=> \E r \in Running : l = leaseOf(r)
    /\ \A r : /\ leaseOf(r).instance = r
              /\ leaseOf(r).config = runtimes[r].config
              /\ leaseOf(r).file = FileOf[runtimes[r].database]
  BY DEF leasesOf, leaseOf

\* The instances are numbered from 1.
LEMMA Numbered ==
    ASSUME RuntimesInv
    PROVE  Len(runtimes) \in Nat /\ DOMAIN runtimes = 1..Len(runtimes)
  BY DEF RuntimesInv

\* As many instances have been started as before.
LEMMA SameLength ==
    ASSUME RuntimesInv, RuntimesInv', DOMAIN runtimes' = DOMAIN runtimes
    PROVE  Len(runtimes)' = Len(runtimes)
  <1>1. Len(runtimes) \in Nat /\ DOMAIN runtimes = 1..Len(runtimes)
    BY Numbered
  <1>2. runtimes' \in Seq(Runtime)
    BY DEF RuntimesInv
  <1>3. Len(runtimes') \in Nat /\ DOMAIN runtimes' = 1..Len(runtimes')
    BY <1>2
  <1>4. \A m, n \in Nat : 1..m = 1..n => m = n
    OBVIOUS
  <1> QED BY <1>1, <1>3, <1>4

\* An instance that keeps who it is keeps its lease.
LEMMA SameLease ==
    ASSUME SameIdentities, NEW r \in DOMAIN runtimes
    PROVE  leaseOf(r)' = leaseOf(r)
  BY DEF SameIdentities, leaseOf

\* Steps that begin and end no instance change no lease.
LEMMA SameActivesLease ==
    ASSUME RuntimesInv, RuntimesInv', SameActives
    PROVE  UNCHANGED Leases!vars
  <1>1. SameIdentities /\ Running' = Running
    BY DEF SameActives, SameIdentities, Running
  <1>2. \A r \in Running : leaseOf(r)' = leaseOf(r)
    BY <1>1, SameLease DEF Running
  <1>3. leasesOf' = leasesOf
    BY <1>1, <1>2 DEF leasesOf
  <1>4. Len(runtimes)' = Len(runtimes)
    BY <1>1, SameLength DEF SameIdentities
  <1> QED BY <1>3, <1>4 DEF Leases!vars

\* Publish gives one lease back.
LEMMA PublishDrops ==
    ASSUME SupervisorIInv, SupervisorIInv', NEW r \in DOMAIN runtimes, Publish(r)
    PROVE  Leases!Drop
  <1>1. RuntimesInv /\ ListedInv /\ OwnersInv /\ RuntimesInv'
    BY DEF SupervisorIInv
  <1>2. Published(r) /\ Active(r)
    BY <1>1, PublishRows
  <1>3. SameIdentities /\ \A s \in DOMAIN runtimes : Active(s)' <=> Active(s) /\ s # r
    BY <1>1, <1>2, PublishKeepsRuntimes
  <1>4. Running' = Running \ {r} /\ r \in Running
    BY <1>2, <1>3 DEF Running, SameIdentities
  <1>5. \A s \in Running : leaseOf(s)' = leaseOf(s)
    BY <1>3, SameLease DEF Running
  <1>6. leasesOf' = {leaseOf(s) : s \in Running \ {r}}
    BY <1>4, <1>5 DEF leasesOf
  <1>7. \A s \in Running : leaseOf(s) = leaseOf(r) => s = r
    BY LeaseRows
  <1>8. leasesOf' = leasesOf \ {leaseOf(r)} /\ leaseOf(r) \in leasesOf
    BY <1>4, <1>6, <1>7 DEF leasesOf
  <1>9. Len(runtimes)' = Len(runtimes)
    BY <1>1, <1>3, SameLength DEF SameIdentities
  <1> QED BY <1>8, <1>9 DEF Leases!Drop

\* Reserve takes leases of its own for its new instances.
LEMMA ReserveTakes ==
    ASSUME SupervisorIInv, SupervisorIInv', OneOwner', NEW q \in Requests, Reserve(q)
    PROVE  Leases!Take
  <1>1. RuntimesInv /\ RuntimesInv' /\ RequestInv(q)
    BY DEF SupervisorIInv, RequestsInv
  <1>2. PICK n \in Nat : \E order, label : ReservedAll(q, n, order, label)
    BY <1>1, ReserveRows
  <1>3. PICK order, label : Appended(q, n, order, label) /\ NewRows(q, n, order, label)
    BY <1>2, Zenon DEF ReservedAll
  <1>4. Len(runtimes) \in Nat /\ DOMAIN runtimes = 1..Len(runtimes)
    BY <1>1, Numbered
  <1>5. Len(runtimes') = Len(runtimes) + n
    <2>1. runtimes' \in Seq(Runtime)
      BY <1>1 DEF RuntimesInv
    <2>2. Len(runtimes') \in Nat /\ DOMAIN runtimes' = 1..Len(runtimes')
      BY <2>1
    <2>3. DOMAIN runtimes' = 1..Len(runtimes) + n
      BY <1>3 DEF Appended
    <2>4. \A k, m \in Nat : 1..k = 1..m => k = m
      OBVIOUS
    <2>5. Len(runtimes) + n \in Nat
      BY <1>4
    <2> QED BY <2>2, <2>3, <2>4, <2>5
  <1>6. ASSUME NEW s \in Running PROVE s \in Running' /\ leaseOf(s)' = leaseOf(s)
    <2>1. s \in DOMAIN runtimes' /\ runtimes'[s] = runtimes[s]
      BY <1>3 DEF NewRows, Running
    <2> QED BY <2>1 DEF Running, Active, leaseOf
  <1>7. leasesOf \subseteq leasesOf'
    BY <1>6 DEF leasesOf
  <1>8. ASSUME NEW s \in Running', leaseOf(s)' \notin leasesOf
        PROVE  s \in Len(runtimes) + 1..Len(runtimes')
    <2>1. s \notin DOMAIN runtimes
      <3>1. SUFFICES ASSUME s \in DOMAIN runtimes PROVE FALSE
        OBVIOUS
      <3>2. runtimes'[s] = runtimes[s]
        BY <1>3, <3>1 DEF NewRows
      <3>3. s \in Running
        BY <3>1, <3>2 DEF Running, Active
      <3> QED BY <1>6, <1>8, <3>3 DEF leasesOf
    <2>2. s \in 1..Len(runtimes) + n
      BY <1>3 DEF Running, Appended
    <2> QED BY <1>4, <1>5, <2>1, <2>2
  <1>9. ASSUME NEW s \in Running', NEW t \in Running', s # t
        PROVE  /\ runtimes'[s].config # runtimes'[t].config
               /\ FileOf[runtimes'[s].database] # FileOf[runtimes'[t].database]
    BY <1>9 DEF OneOwner, Equivalent
  <1>10. /\ \A l : l \in leasesOf' <=> \E s \in Running' : l = leaseOf(s)'
         /\ \A s : /\ leaseOf(s)'.instance = s
                   /\ leaseOf(s)'.config = runtimes'[s].config
                   /\ leaseOf(s)'.file = FileOf[runtimes'[s].database]
    BY DEF leasesOf, leaseOf
  <1>11. ASSUME NEW l \in leasesOf' \ leasesOf
         PROVE  /\ l.instance \in Len(runtimes) + 1..Len(runtimes')
                /\ \A h \in leasesOf' : l # h => /\ l.instance # h.instance
                                                /\ l.config # h.config
                                                /\ l.file # h.file
    <2>1. PICK s \in Running' : l = leaseOf(s)'
      BY <1>10
    <2>2. l.instance = s /\ s \in Len(runtimes) + 1..Len(runtimes')
      BY <1>8, <1>10, <2>1
    <2>3. ASSUME NEW h \in leasesOf', l # h
          PROVE  l.instance # h.instance /\ l.config # h.config /\ l.file # h.file
      <3>1. PICK t \in Running' : h = leaseOf(t)'
        BY <1>10
      <3>2. s # t
        BY <2>1, <2>3, <3>1
      <3> QED BY <1>9, <1>10, <2>1, <3>1, <3>2
    <2> QED BY <2>2, <2>3
  <1>12. Len(runtimes') >= Len(runtimes)
    BY <1>4, <1>5
  <1> QED BY <1>7, <1>11, <1>12 DEF Leases!Take

\* Every step takes leases, drops one or changes none.
LEMMA NextLeases ==
    ASSUME SupervisorIInv, SupervisorIInv', OneOwner', [Next]_vars
    PROVE  [Leases!Next]_(Leases!vars)
  <1>1. RuntimesInv /\ RuntimesInv' /\ ListedInv
    BY DEF SupervisorIInv
  <1>2. ASSUME UNCHANGED runtimes PROVE UNCHANGED Leases!vars
    <2>1. SameActives
      BY <1>2 DEF SameActives, SameIdentities, Active
    <2> QED BY <1>1, <2>1, SameActivesLease
  <1>3. ASSUME NEW r \in DOMAIN runtimes, RunnerStep(r) PROVE [Leases!Next]_(Leases!vars)
    <2>1. CASE RunnerReturns(r)
      BY <1>1, <2>1, RunnerStaysActive, SameActivesLease
    <2>2. CASE Publish(r)
      BY <2>2, PublishDrops DEF Leases!Next
    <2> QED BY <1>3, <2>1, <2>2 DEF RunnerStep
  <1>4. ASSUME NEW q \in Requests, StartStep(q) PROVE [Leases!Next]_(Leases!vars)
    <2>1. CASE Reserve(q)
      BY <2>1, ReserveTakes DEF Leases!Next
    <2>2. CASE EnterGate(q) \/ SnapshotAgain(q) \/ RefuseActive(q) \/ RefuseLabel(q)
      BY <1>2, <2>2 DEF EnterGate, SnapshotAgain, RefuseActive, RefuseLabel
    <2> QED BY <1>4, <2>1, <2>2 DEF StartStep
  <1>5. ASSUME NEW q \in Requests, WaitStep(q) PROVE UNCHANGED Leases!vars
    BY <1>2, <1>5 DEF WaitStep, WaitReturns, SendExited
  <1>6. ASSUME NEW q \in Requests, Client(q) PROVE UNCHANGED Leases!vars
    <2>1. ASSUME NEW S, NEW options, Begin(q, S, options) PROVE UNCHANGED Leases!vars
      BY <1>2, <2>1, Zenon DEF Begin
    <2>2. ASSUME NEW s, Stop(q, s) PROVE UNCHANGED Leases!vars
      BY <1>1, <2>2, StopStaysActive, SameActivesLease
    <2>3. CASE Refuse(q) \/ Leave(q)
      BY <1>2, <2>3 DEF Refuse, Leave
    <2> QED BY <1>6, <2>1, <2>2, <2>3, Zenon DEF Client, Start, Run, StartKnown
  <1>7. ASSUME NEW c, NEW p, EditConfig(c, p) PROVE UNCHANGED Leases!vars
    BY <1>2, <1>7 DEF EditConfig
  <1>8. CASE UNCHANGED vars
    BY <1>2, <1>8 DEF vars
  <1> QED BY <1>3, <1>4, <1>5, <1>6, <1>7, <1>8, Zenon DEF Next

\* The manager implements DatabaseLeases: configurations and database files are leased
\* together to new instances only (Reserve under the mutex, on a current copy), stay
\* with an instance through its stopping and finalization, and come back one instance
\* at a time (Publish).
THEOREM SupervisorImplementsLeases == Spec => ImplementsLeases
  <1>1. Init => Leases!Init
    BY DEF Init, Leases!Init, leasesOf, Running
  <1>2. SupervisorIInv /\ SupervisorIInv' /\ OneOwner' /\ [Next]_vars
          => [Leases!Next]_(Leases!vars)
    BY NextLeases
  <1> QED BY <1>1, <1>2, SupervisorConsistent, SupervisorOneOwner, PTL
          DEF Spec, ImplementsLeases, Leases!Spec

=============================================================================

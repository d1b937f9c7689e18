-------------------------- MODULE QueueStoreProofs --------------------------
(***************************************************************************)
(* The tables stay consistent whatever calls are made, for every set of    *)
(* keys, every retry limit and delay and any number of rows: StoreInv is   *)
(* an inductive invariant of QueueStore, and QueueStore implements         *)
(* JobLifecycle.                                                           *)
(***************************************************************************)
EXTENDS QueueStore, SequenceTheorems, TLAPS

----------------------------------------------------------------------------
(* Rows of a table.                                                         *)

\* Appending a row keeps the other rows where they are.
LEMMA AppendRow ==
    ASSUME NEW S, NEW s \in Seq(S), NEW e \in S
    PROVE  /\ Append(s, e) \in Seq(S)
           /\ Len(Append(s, e)) = Len(s) + 1
           /\ DOMAIN Append(s, e) = DOMAIN s \cup {Len(s) + 1}
           /\ Len(s) + 1 \notin DOMAIN s
           /\ \A i \in DOMAIN s : Append(s, e)[i] = s[i]
           /\ Append(s, e)[Len(s) + 1] = e
BY AppendProperties, LenProperties

\* An UPDATE rewrites rows in place: the table has the same ids afterwards.
LEMMA UpdateRows ==
    ASSUME NEW S, NEW s \in Seq(S), NEW t,
           t = [i \in DOMAIN s |-> t[i]],
           \A i \in DOMAIN s : t[i] \in S
    PROVE  t \in Seq(S) /\ DOMAIN t = DOMAIN s
<1>1. Len(s) \in Nat /\ DOMAIN s = 1..Len(s)
  BY LenProperties
<1>2. t \in [1..Len(s) -> S]
  BY <1>1
<1> QED
  BY <1>1, <1>2, SeqDef

\* An UPDATE of one row leaves the others alone.
LEMMA UpdateRow ==
    ASSUME NEW S, NEW s \in Seq(S), NEW i \in DOMAIN s, NEW e \in S
    PROVE  LET t == [s EXCEPT ![i] = e]
           IN  /\ t \in Seq(S)
               /\ DOMAIN t = DOMAIN s
               /\ t[i] = e
               /\ \A k \in DOMAIN s : k # i => t[k] = s[k]
<1>1. s \in [1..Len(s) -> S] /\ Len(s) \in Nat /\ DOMAIN s = 1..Len(s)
  BY LenProperties
<1> QED
  BY <1>1, SeqDef

\* The columns of an updated row.
LEMMA JobRow ==
    ASSUME NEW x \in Job, NEW st \in JobStatuses
    PROVE  /\ WithStatus(x, st) \in Job
           /\ WithStatus(x, st).status = st
           /\ WithStatus(x, st).attempts = x.attempts
BY DEF Job, WithStatus

\* Available, the UPDATE of Fail and RecoverRunning, keeps a job row a job row and
\* sets nothing but status and available_at.
LEMMA AvailableRow ==
    ASSUME NEW x \in Job, NEW st \in JobStatuses, NEW n \in Nat
    PROVE  /\ Available(x, st, n) \in Job
           /\ Available(x, st, n).status = st
           /\ Available(x, st, n).attempts = x.attempts
           /\ Available(x, st, n).maxRetries = x.maxRetries
BY DEF Job, Available

\* Claimed, the UPDATE of Claim, sets nothing but status and attempts.
LEMMA ClaimedRow ==
    ASSUME NEW x \in Job, NEW n \in Nat
    PROVE  /\ Claimed(x, n) \in Job
           /\ Claimed(x, n).status = "RUNNING"
           /\ Claimed(x, n).attempts = n
BY DEF Job, JobStatuses, Claimed

\* WithStatus on a run row sets nothing but its status.
LEMMA RunRow ==
    ASSUME NEW x \in Run, NEW st \in RunStatuses
    PROVE  /\ WithStatus(x, st) \in Run
           /\ WithStatus(x, st).status = st
           /\ WithStatus(x, st).job = x.job
           /\ WithStatus(x, st).attempt = x.attempt
BY DEF Run, WithStatus

\* WithStatus on a command row sets nothing but its status.
LEMMA CommandRow ==
    ASSUME NEW x \in Command, NEW st \in RunStatuses
    PROVE  /\ WithStatus(x, st) \in Command
           /\ WithStatus(x, st).status = st
           /\ WithStatus(x, st).run = x.run
BY DEF Command, WithStatus

\* What the type invariant says of single rows.
LEMMA RowTypes ==
    ASSUME StoreTypeOK
    PROVE  /\ \A j \in JobIDs : /\ j \in Nat /\ jobs[j] \in Job
                                /\ jobs[j].status \in JobStatuses
                                /\ jobs[j].attempts \in Nat
                                /\ jobs[j].maxRetries \in Nat
           /\ \A r \in RunIDs : /\ r \in Nat /\ runs[r] \in Run
                                /\ runs[r].job \in Nat
                                /\ runs[r].attempt \in Nat
                                /\ runs[r].status \in RunStatuses
           /\ \A c \in CommandIDs : /\ c \in Nat /\ commands[c] \in Command
                                    /\ commands[c].run \in Nat
                                    /\ commands[c].status \in RunStatuses
<1>1. \A j \in JobIDs : j \in Nat /\ jobs[j] \in Job
  BY LenProperties, ElementOfSeq DEF StoreTypeOK, JobIDs
<1>2. \A r \in RunIDs : r \in Nat /\ runs[r] \in Run
  BY LenProperties, ElementOfSeq DEF StoreTypeOK, RunIDs
<1>3. \A c \in CommandIDs : c \in Nat /\ commands[c] \in Command
  BY LenProperties, ElementOfSeq DEF StoreTypeOK, CommandIDs
<1> QED
  BY <1>1, <1>2, <1>3, StoreAssumption DEF Job, Run, Command

----------------------------------------------------------------------------
(* One lemma per transaction.                                               *)

\* Enqueue adds a job without runs, or nothing.
LEMMA EnqueueKeepsInv ==
    ASSUME StoreInv, NEW k \in Keys, NEW m \in RetryLimits, Enqueue(k, m)
    PROVE  StoreInv'
<1> DEFINE row == [key |-> k, status |-> "QUEUED", attempts |-> 0,
                   maxRetries |-> m, availableAt |-> now]
<1> USE DEF JobIDs, RunIDs, CommandIDs
<1>1. CASE UNCHANGED jobs
  BY <1>1 DEF Enqueue, StoreInv, StoreTypeOK, OneOpenRun, AttemptNumbering,
              OutcomeMatchesHistory, FailedRunsAreClosed
<1>2. CASE jobs' = Append(jobs, row)
  <2>1. jobs \in Seq(Job) /\ row \in Job /\ row.status = "QUEUED"
    BY DEF StoreInv, StoreTypeOK, Job, JobStatuses
  <2>2. /\ jobs' \in Seq(Job)
        /\ DOMAIN jobs' = DOMAIN jobs \cup {Len(jobs) + 1}
        /\ \A j \in DOMAIN jobs : jobs'[j] = jobs[j]
        /\ jobs'[Len(jobs) + 1].status = "QUEUED"
    BY <1>2, <2>1, AppendRow
  <2>3. UNCHANGED <<runs, commands, now>>
    BY DEF Enqueue
  <2>4. StoreTypeOK'
    BY <2>2, <2>3 DEF StoreInv, StoreTypeOK
  <2>5. OneOpenRun'
    BY <2>2, <2>3 DEF StoreInv, OneOpenRun
  <2>6. AttemptNumbering'
    BY <2>2, <2>3 DEF StoreInv, AttemptNumbering
  <2>7. OutcomeMatchesHistory'
    BY <2>2, <2>3 DEF StoreInv, OutcomeMatchesHistory
  <2>8. FailedRunsAreClosed'
    BY <2>3 DEF StoreInv, FailedRunsAreClosed
  <2> QED
    BY <2>4, <2>5, <2>6, <2>7, <2>8 DEF StoreInv
<1> QED
  BY <1>1, <1>2 DEF Enqueue

\* Claim opens the one run of a job that had only failed ones.
LEMMA ClaimKeepsInv ==
    ASSUME StoreInv, Claim
    PROVE  StoreInv'
<1> USE DEF JobIDs, RunIDs, CommandIDs
<1> DEFINE new == Len(runs) + 1
<1>1. PICK j \in Due :
        /\ jobs' = [jobs EXCEPT ![j] = Claimed(@, jobs[j].attempts + 1)]
        /\ runs' = Append(runs, [job |-> j, attempt |-> jobs[j].attempts + 1,
                                 status |-> "RUNNING"])
  BY DEF Claim
<1>2. j \in DOMAIN jobs /\ jobs[j].status = "QUEUED"
  BY DEF Due
<1>3. StoreTypeOK /\ jobs \in Seq(Job) /\ runs \in Seq(Run)
  BY DEF StoreInv, StoreTypeOK
<1>4. [job |-> j, attempt |-> jobs[j].attempts + 1, status |-> "RUNNING"] \in Run
  BY <1>2, <1>3, RowTypes DEF Run, RunStatuses
<1>5. /\ runs' \in Seq(Run)
      /\ DOMAIN runs' = DOMAIN runs \cup {new}
      /\ new \notin DOMAIN runs
      /\ \A r \in DOMAIN runs : runs'[r] = runs[r]
      /\ runs'[new].job = j
      /\ runs'[new].attempt = jobs[j].attempts + 1
      /\ runs'[new].status = "RUNNING"
  BY <1>1, <1>3, <1>4, AppendRow
<1>6. /\ Claimed(jobs[j], jobs[j].attempts + 1) \in Job
      /\ Claimed(jobs[j], jobs[j].attempts + 1).status = "RUNNING"
      /\ Claimed(jobs[j], jobs[j].attempts + 1).attempts = jobs[j].attempts + 1
  <2>1. jobs[j] \in Job /\ jobs[j].attempts + 1 \in Nat
    BY <1>2, <1>3, RowTypes
  <2> QED
    BY <2>1, ClaimedRow
<1>7. /\ jobs' \in Seq(Job) /\ DOMAIN jobs' = DOMAIN jobs
      /\ \A i \in DOMAIN jobs : i # j => jobs'[i] = jobs[i]
      /\ jobs'[j].status = "RUNNING"
      /\ jobs'[j].attempts = jobs[j].attempts + 1
  BY <1>1, <1>2, <1>3, <1>6, UpdateRow
<1>8. UNCHANGED <<commands, now>>
  BY DEF Claim
<1>9. \A r \in DOMAIN runs : runs[r].job = j => runs[r].status = "FAILED"
  BY <1>2, <1>3, RowTypes DEF StoreInv, OneOpenRun, OutcomeMatchesHistory, RunStatuses
<1>10. StoreTypeOK'
  BY <1>5, <1>7, <1>8 DEF StoreInv, StoreTypeOK
<1>11. OneOpenRun'
  <2>1. ASSUME NEW r \in DOMAIN runs', runs'[r].status = "RUNNING"
        PROVE  /\ runs'[r].job \in DOMAIN jobs'
               /\ jobs'[runs'[r].job].status = "RUNNING"
               /\ runs'[r].attempt = jobs'[runs'[r].job].attempts
    <3>1. CASE r = new
      BY <1>2, <1>5, <1>7, <3>1
    <3>2. CASE r \in DOMAIN runs
      <4>1. runs'[r] = runs[r] /\ runs[r].job \in DOMAIN jobs /\ runs[r].job # j
        BY <1>5, <1>9, <2>1, <3>2 DEF StoreInv, OneOpenRun
      <4> QED
        BY <1>7, <2>1, <3>2, <4>1 DEF StoreInv, OneOpenRun
    <3> QED
      BY <1>5, <3>1, <3>2
  <2>2. ASSUME NEW i \in DOMAIN jobs', jobs'[i].status = "RUNNING"
        PROVE  \E r \in DOMAIN runs' : runs'[r].job = i /\ runs'[r].status = "RUNNING"
    <3>1. CASE i = j
      BY <1>5, <3>1
    <3>2. CASE i # j
      BY <1>5, <1>7, <2>2, <3>2 DEF StoreInv, OneOpenRun
    <3> QED
      BY <3>1, <3>2
  <2> QED
    BY <2>1, <2>2 DEF OneOpenRun
<1>12. AttemptNumbering'
  <2>1. \A i \in DOMAIN jobs : /\ jobs[i].attempts \in Nat
                               /\ jobs'[i].attempts \in Nat
                               /\ jobs'[i].attempts >= jobs[i].attempts
    <3>1. \A i \in DOMAIN jobs : jobs[i].attempts \in Nat
      BY <1>3, RowTypes
    <3>2. \A i \in DOMAIN jobs : i # j => jobs'[i].attempts = jobs[i].attempts
      BY <1>7
    <3>3. jobs'[j].attempts = jobs[j].attempts + 1
      BY <1>7
    <3> QED
      BY <3>1, <3>2, <3>3
  <2>2. \A r \in DOMAIN runs : runs[r].attempt \in 1..jobs[runs[r].job].attempts
                                /\ runs[r].job \in DOMAIN jobs
    BY DEF StoreInv, AttemptNumbering
  <2>3. \A r \in DOMAIN runs' : /\ runs'[r].job \in DOMAIN jobs'
                                /\ runs'[r].attempt \in 1..jobs'[runs'[r].job].attempts
    <3>1. ASSUME NEW r \in DOMAIN runs
          PROVE  /\ runs'[r].job \in DOMAIN jobs'
                 /\ runs'[r].attempt \in 1..jobs'[runs'[r].job].attempts
      <4>1. runs'[r] = runs[r] /\ runs[r].job \in DOMAIN jobs /\ DOMAIN jobs' = DOMAIN jobs
        BY <1>5, <1>7, <2>2, <3>1
      <4>2. runs[r].attempt \in 1..jobs[runs[r].job].attempts
        BY <2>2, <3>1
      <4> QED
        BY <2>1, <4>1, <4>2
    <3>2. runs'[new].job \in DOMAIN jobs' /\ runs'[new].attempt \in 1..jobs'[j].attempts
      BY <1>2, <1>5, <1>7, <2>1
    <3> QED
      BY <1>5, <3>1, <3>2
  <2>4. \A r \in DOMAIN runs : runs[r].job = j => runs[r].attempt # jobs[j].attempts + 1
    BY <1>2, <2>1, <2>2
  <2>5. \A q, r \in DOMAIN runs' :
          (runs'[q].job = runs'[r].job /\ runs'[q].attempt = runs'[r].attempt) => q = r
    BY <1>5, <2>4 DEF StoreInv, AttemptNumbering
  <2> QED
    BY <2>3, <2>5 DEF AttemptNumbering
<1>13. OutcomeMatchesHistory'
  <2>1. ASSUME NEW r \in DOMAIN runs', runs'[r].status = "SUCCEEDED"
        PROVE  /\ runs'[r].job \in DOMAIN jobs'
               /\ jobs'[runs'[r].job].status = "SUCCEEDED"
               /\ runs'[r].attempt = jobs'[runs'[r].job].attempts
    <3>1. r \in DOMAIN runs /\ runs'[r] = runs[r] /\ runs[r].job # j
      BY <1>5, <1>9, <2>1
    <3> QED
      BY <1>7, <2>1, <3>1 DEF StoreInv, OutcomeMatchesHistory
  <2>2. ASSUME NEW i \in DOMAIN jobs'
        PROVE  /\ jobs'[i].status = "SUCCEEDED" =>
                    \E r \in DOMAIN runs' : runs'[r].job = i /\ runs'[r].status = "SUCCEEDED"
               /\ jobs'[i].status = "FAILED" => jobs'[i].attempts > jobs'[i].maxRetries
    BY <1>5, <1>7 DEF StoreInv, OutcomeMatchesHistory
  <2> QED
    BY <2>1, <2>2 DEF OutcomeMatchesHistory
<1>14. FailedRunsAreClosed'
  BY <1>5, <1>8 DEF StoreInv, FailedRunsAreClosed
<1> QED
  BY <1>10, <1>11, <1>12, <1>13, <1>14 DEF StoreInv

\* The open run of a job is its only unfailed one: what Succeed and Fail rely on
\* when they update the job by its id.
LEMMA OtherRunsFailed ==
    ASSUME StoreInv, NEW j, NEW r, Open(j, r)
    PROVE  \A q \in RunIDs : (runs[q].job = j /\ q # r) => runs[q].status = "FAILED"
<1> SUFFICES ASSUME NEW q \in RunIDs, runs[q].job = j, q # r
             PROVE  runs[q].status = "FAILED"
  OBVIOUS
<1>1. StoreTypeOK /\ j \in JobIDs /\ r \in RunIDs
  BY DEF StoreInv, Open
<1>2. runs[q].status # "RUNNING"
  BY DEF StoreInv, OneOpenRun, AttemptNumbering, Open
<1>3. runs[q].status # "SUCCEEDED"
  BY DEF StoreInv, OutcomeMatchesHistory, Open
<1> QED
  BY <1>1, <1>2, <1>3, RowTypes DEF RunStatuses

\* Ending the open run with one status and its job with a matching one.
LEMMA EndRunKeepsTables ==
    ASSUME StoreInv, NEW j, NEW r, Open(j, r),
           NEW row \in Job, NEW st \in {"SUCCEEDED", "FAILED"},
           jobs' = [jobs EXCEPT ![j] = row],
           runs' = [runs EXCEPT ![r] = WithStatus(@, st)],
           row.status # "RUNNING",
           row.attempts = jobs[j].attempts,
           row.status = "SUCCEEDED" <=> st = "SUCCEEDED",
           row.status = "FAILED" => row.attempts > row.maxRetries
    PROVE  /\ jobs' \in Seq(Job) /\ runs' \in Seq(Run)
           /\ RunIDs' = RunIDs
           /\ runs'[r].status = st
           /\ \A q \in RunIDs : q # r => runs'[q] = runs[q]
           /\ OneOpenRun' /\ AttemptNumbering' /\ OutcomeMatchesHistory'
<1> USE DEF JobIDs, RunIDs
<1>1. /\ StoreTypeOK /\ jobs \in Seq(Job) /\ runs \in Seq(Run)
      /\ j \in DOMAIN jobs /\ r \in DOMAIN runs /\ runs[r].job = j
      /\ runs[r].status = "RUNNING" /\ jobs[j].status = "RUNNING"
  BY DEF StoreInv, StoreTypeOK, Open
<1>2. /\ jobs' \in Seq(Job) /\ DOMAIN jobs' = DOMAIN jobs
      /\ jobs'[j] = row
      /\ \A i \in DOMAIN jobs : i # j => jobs'[i] = jobs[i]
  BY <1>1, UpdateRow
<1>3. /\ WithStatus(runs[r], st) \in Run
      /\ WithStatus(runs[r], st).status = st
      /\ WithStatus(runs[r], st).job = runs[r].job
      /\ WithStatus(runs[r], st).attempt = runs[r].attempt
  <2>1. runs[r] \in Run /\ st \in RunStatuses
    BY <1>1, RowTypes DEF RunStatuses
  <2> QED
    BY <2>1, RunRow
<1>4. /\ runs' \in Seq(Run) /\ DOMAIN runs' = DOMAIN runs
      /\ runs'[r] = WithStatus(runs[r], st)
      /\ \A q \in DOMAIN runs : q # r => runs'[q] = runs[q]
  BY <1>1, <1>3, UpdateRow
<1>5. /\ \A q \in DOMAIN runs : /\ runs'[q].job = runs[q].job
                                /\ runs'[q].attempt = runs[q].attempt
      /\ \A i \in DOMAIN jobs : jobs'[i].attempts = jobs[i].attempts
  BY <1>1, <1>2, <1>3, <1>4
<1>6. \A q \in DOMAIN runs : (runs[q].job = j /\ q # r) => runs'[q].status = "FAILED"
  BY <1>4, OtherRunsFailed
<1>7. OneOpenRun'
  <2>1. ASSUME NEW q \in DOMAIN runs', runs'[q].status = "RUNNING"
        PROVE  /\ runs'[q].job \in DOMAIN jobs'
               /\ jobs'[runs'[q].job].status = "RUNNING"
               /\ runs'[q].attempt = jobs'[runs'[q].job].attempts
    <3>1. q # r /\ q \in DOMAIN runs /\ runs[q].status = "RUNNING"
      BY <1>3, <1>4, <2>1
    <3>2. runs[q].job # j /\ runs[q].job \in DOMAIN jobs
      BY <1>6, <2>1, <3>1 DEF StoreInv, OneOpenRun
    <3> QED
      BY <1>2, <1>4, <3>1, <3>2 DEF StoreInv, OneOpenRun
  <2>2. ASSUME NEW i \in DOMAIN jobs', jobs'[i].status = "RUNNING"
        PROVE  \E q \in DOMAIN runs' : runs'[q].job = i /\ runs'[q].status = "RUNNING"
    <3>1. i # j /\ i \in DOMAIN jobs /\ jobs[i].status = "RUNNING"
      BY <1>2, <2>2
    <3>2. PICK q \in DOMAIN runs : runs[q].job = i /\ runs[q].status = "RUNNING"
      BY <3>1 DEF StoreInv, OneOpenRun
    <3> QED
      BY <1>1, <1>4, <3>1, <3>2
  <2> QED
    BY <2>1, <2>2 DEF OneOpenRun
<1>8. AttemptNumbering'
  BY <1>2, <1>4, <1>5 DEF StoreInv, AttemptNumbering
<1>9. OutcomeMatchesHistory'
  <2>1. ASSUME NEW q \in DOMAIN runs', runs'[q].status = "SUCCEEDED"
        PROVE  /\ runs'[q].job \in DOMAIN jobs'
               /\ jobs'[runs'[q].job].status = "SUCCEEDED"
               /\ runs'[q].attempt = jobs'[runs'[q].job].attempts
    <3>1. CASE q = r
      BY <1>1, <1>2, <1>3, <1>4, <1>5, <2>1, <3>1 DEF StoreInv, OneOpenRun
    <3>2. CASE q # r
      <4>1. q \in DOMAIN runs /\ runs'[q] = runs[q] /\ runs[q].job # j
        BY <1>4, <1>6, <2>1, <3>2
      <4> QED
        BY <1>2, <2>1, <4>1 DEF StoreInv, OutcomeMatchesHistory
    <3> QED
      BY <3>1, <3>2
  <2>2. ASSUME NEW i \in DOMAIN jobs', jobs'[i].status = "SUCCEEDED"
        PROVE  \E q \in DOMAIN runs' : runs'[q].job = i /\ runs'[q].status = "SUCCEEDED"
    <3>1. CASE i = j
      BY <1>1, <1>2, <1>3, <1>4, <2>2, <3>1
    <3>2. CASE i # j
      <4>1. PICK q \in DOMAIN runs : runs[q].job = i /\ runs[q].status = "SUCCEEDED"
        BY <1>2, <2>2, <3>2 DEF StoreInv, OutcomeMatchesHistory
      <4> QED
        BY <1>1, <1>4, <3>2, <4>1
    <3> QED
      BY <3>1, <3>2
  <2>3. ASSUME NEW i \in DOMAIN jobs', jobs'[i].status = "FAILED"
        PROVE  jobs'[i].attempts > jobs'[i].maxRetries
    BY <1>2, <2>3 DEF StoreInv, OutcomeMatchesHistory
  <2> QED
    BY <2>1, <2>2, <2>3 DEF OutcomeMatchesHistory
<1> QED
  BY <1>2, <1>3, <1>4, <1>7, <1>8, <1>9

\* Succeed ends the job with its open run.
LEMMA SucceedKeepsInv ==
    ASSUME StoreInv, NEW j, NEW r, Succeed(j, r)
    PROVE  StoreInv'
<1> DEFINE row == WithStatus(jobs[j], "SUCCEEDED")
<1>1. Open(j, r) /\ StoreTypeOK /\ j \in JobIDs /\ UNCHANGED <<commands, now>>
  BY DEF Succeed, Open, StoreInv
<1>2. row \in Job /\ row.status = "SUCCEEDED" /\ row.attempts = jobs[j].attempts
  <2>1. jobs[j] \in Job /\ "SUCCEEDED" \in JobStatuses
    BY <1>1, RowTypes DEF JobStatuses
  <2> QED
    BY <2>1, JobRow
<1>3. /\ jobs' = [jobs EXCEPT ![j] = row]
      /\ runs' = [runs EXCEPT ![r] = WithStatus(@, "SUCCEEDED")]
  BY DEF Succeed
<1> HIDE DEF row
<1>4. /\ jobs' \in Seq(Job) /\ runs' \in Seq(Run)
      /\ RunIDs' = RunIDs
      /\ runs'[r].status = "SUCCEEDED"
      /\ \A q \in RunIDs : q # r => runs'[q] = runs[q]
      /\ OneOpenRun' /\ AttemptNumbering' /\ OutcomeMatchesHistory'
  BY <1>1, <1>2, <1>3, EndRunKeepsTables
<1>5. FailedRunsAreClosed'
  BY <1>1, <1>4 DEF StoreInv, FailedRunsAreClosed, CommandIDs, RunIDs
<1> QED
  BY <1>1, <1>4, <1>5 DEF StoreInv, StoreTypeOK

\* Closing the commands of some runs rewrites command rows only, and leaves none
\* of those runs' commands RUNNING.
LEMMA CloseCommandsFacts ==
    ASSUME StoreTypeOK, NEW S, CloseCommands(S)
    PROVE  /\ commands' \in Seq(Command) /\ CommandIDs' = CommandIDs
           /\ \A c \in CommandIDs :
                /\ commands'[c].run = commands[c].run
                /\ commands'[c].status = "RUNNING" =>
                      commands[c].status = "RUNNING" /\ commands[c].run \notin S
<1> USE DEF CommandIDs
<1>1. /\ commands \in Seq(Command)
      /\ \A c \in DOMAIN commands : commands[c] \in Command
      /\ "FAILED" \in RunStatuses
  BY RowTypes DEF StoreTypeOK, RunStatuses
<1>2. \A c \in DOMAIN commands :
        /\ WithStatus(commands[c], "FAILED") \in Command
        /\ WithStatus(commands[c], "FAILED").status = "FAILED"
        /\ WithStatus(commands[c], "FAILED").run = commands[c].run
  BY <1>1, CommandRow
<1>3. commands' = [c \in DOMAIN commands |-> commands'[c]]
  BY DEF CloseCommands
<1>4. \A c \in DOMAIN commands :
        commands'[c] = IF commands[c].run \in S /\ commands[c].status = "RUNNING"
                       THEN WithStatus(commands[c], "FAILED") ELSE commands[c]
  BY DEF CloseCommands
<1>5. \A c \in DOMAIN commands : commands'[c] \in Command
  BY <1>1, <1>2, <1>4
<1>6. commands' \in Seq(Command) /\ DOMAIN commands' = DOMAIN commands
  BY <1>1, <1>3, <1>5, UpdateRows
<1> QED
  BY <1>2, <1>4, <1>6

\* Fail ends the open run and its commands, and the job if its retries are used up.
LEMMA FailKeepsInv ==
    ASSUME StoreInv, NEW j, NEW r, Fail(j, r)
    PROVE  StoreInv'
<1> DEFINE at == now + RetryDelay
           row == IF HasRetries(j) THEN Available(jobs[j], "QUEUED", at)
                                   ELSE Available(jobs[j], "FAILED", now)
<1>1. Open(j, r) /\ StoreTypeOK /\ j \in JobIDs /\ UNCHANGED now
  BY DEF Fail, Open, StoreInv
<1>2. /\ jobs[j] \in Job /\ now \in Nat /\ at \in Nat
      /\ "QUEUED" \in JobStatuses /\ "FAILED" \in JobStatuses
  BY <1>1, RowTypes, StoreAssumption DEF StoreTypeOK, JobStatuses
<1>3. /\ jobs' = [jobs EXCEPT ![j] = row]
      /\ runs' = [runs EXCEPT ![r] = WithStatus(@, "FAILED")]
      /\ CloseCommands({r})
  BY DEF Fail
<1> HIDE DEF at
<1>4. /\ row \in Job /\ row.attempts = jobs[j].attempts
      /\ row.status \in {"QUEUED", "FAILED"}
      /\ row.status = "FAILED" => row.attempts > row.maxRetries
  <2>1. CASE HasRetries(j)
    <3>1. /\ Available(jobs[j], "QUEUED", at) \in Job
          /\ Available(jobs[j], "QUEUED", at).status = "QUEUED"
          /\ Available(jobs[j], "QUEUED", at).attempts = jobs[j].attempts
      BY <1>2, AvailableRow, ZenonT(40)
    <3> QED
      BY <2>1, <3>1
  <2>2. CASE ~HasRetries(j)
    <3>1. jobs[j].attempts > jobs[j].maxRetries
      BY <1>1, <2>2, RowTypes DEF HasRetries
    <3>2. /\ Available(jobs[j], "FAILED", now) \in Job
          /\ Available(jobs[j], "FAILED", now).status = "FAILED"
          /\ Available(jobs[j], "FAILED", now).attempts = jobs[j].attempts
          /\ Available(jobs[j], "FAILED", now).maxRetries = jobs[j].maxRetries
      BY <1>2, AvailableRow, ZenonT(40)
    <3> QED
      BY <2>2, <3>1, <3>2
  <2> QED
    BY <2>1, <2>2
<1> HIDE DEF row
<1>5. /\ jobs' \in Seq(Job) /\ runs' \in Seq(Run)
      /\ RunIDs' = RunIDs
      /\ \A q \in RunIDs : q # r => runs'[q] = runs[q]
      /\ OneOpenRun' /\ AttemptNumbering' /\ OutcomeMatchesHistory'
  BY <1>1, <1>3, <1>4, EndRunKeepsTables
<1>6. commands' \in Seq(Command)
  BY <1>1, <1>3, CloseCommandsFacts
<1>7. FailedRunsAreClosed'
  <2>1. SUFFICES ASSUME NEW c \in CommandIDs'
                 PROVE  /\ commands'[c].run \in RunIDs'
                        /\ commands'[c].status = "RUNNING" =>
                              runs'[commands'[c].run].status # "FAILED"
    BY DEF FailedRunsAreClosed
  <2>2. /\ c \in CommandIDs /\ commands'[c].run = commands[c].run
        /\ commands'[c].status = "RUNNING" =>
              commands[c].status = "RUNNING" /\ commands[c].run # r
    BY <1>1, <1>3, <2>1, CloseCommandsFacts
  <2> QED
    BY <1>5, <2>2 DEF StoreInv, FailedRunsAreClosed
<1> QED
  BY <1>1, <1>5, <1>6, <1>7 DEF StoreInv, StoreTypeOK

\* RecoverRunning fails every open run and command and requeues their jobs.
LEMMA RecoverKeepsInv ==
    ASSUME StoreInv, RecoverRunning
    PROVE  StoreInv'
<1> USE DEF JobIDs, RunIDs
<1>1. /\ StoreTypeOK /\ jobs \in Seq(Job) /\ runs \in Seq(Run) /\ now \in Nat
      /\ CloseCommands(Nat) /\ UNCHANGED now
      /\ "QUEUED" \in JobStatuses /\ "FAILED" \in RunStatuses
  BY DEF StoreInv, StoreTypeOK, RecoverRunning, JobStatuses, RunStatuses
<1>2. \A r \in DOMAIN runs : /\ WithStatus(runs[r], "FAILED") \in Run
                             /\ WithStatus(runs[r], "FAILED").status = "FAILED"
                             /\ WithStatus(runs[r], "FAILED").job = runs[r].job
                             /\ WithStatus(runs[r], "FAILED").attempt = runs[r].attempt
  BY <1>1, RowTypes, RunRow
<1>3. \A r \in DOMAIN runs : runs'[r] = IF runs[r].status = "RUNNING"
                                        THEN WithStatus(runs[r], "FAILED") ELSE runs[r]
  BY DEF RecoverRunning
<1>4. runs' \in Seq(Run) /\ DOMAIN runs' = DOMAIN runs
  <2>1. runs' = [r \in DOMAIN runs |-> runs'[r]]
    BY DEF RecoverRunning
  <2>2. \A r \in DOMAIN runs : runs'[r] \in Run
    BY <1>1, <1>2, <1>3, RowTypes
  <2> QED
    BY <1>1, <2>1, <2>2, UpdateRows
<1>5. \A r \in DOMAIN runs : /\ runs'[r].job = runs[r].job
                             /\ runs'[r].attempt = runs[r].attempt
                             /\ runs'[r].status # "RUNNING"
                             /\ runs'[r].status = "SUCCEEDED" <=> runs[r].status = "SUCCEEDED"
  BY <1>2, <1>3
<1>6. \A j \in DOMAIN jobs :
        /\ Available(jobs[j], "QUEUED", now) \in Job
        /\ Available(jobs[j], "QUEUED", now).status = "QUEUED"
        /\ Available(jobs[j], "QUEUED", now).attempts = jobs[j].attempts
  <2>1. ASSUME NEW j \in DOMAIN jobs
        PROVE  jobs[j] \in Job
    BY <1>1, <2>1, RowTypes
  <2> QED
    BY <1>1, <2>1, AvailableRow, ZenonT(40)
<1>7. \A j \in DOMAIN jobs : jobs'[j] = IF jobs[j].status = "RUNNING"
                                        THEN Available(jobs[j], "QUEUED", now) ELSE jobs[j]
  BY DEF RecoverRunning
<1>8. jobs' \in Seq(Job) /\ DOMAIN jobs' = DOMAIN jobs
  <2>1. jobs' = [j \in DOMAIN jobs |-> jobs'[j]]
    BY DEF RecoverRunning
  <2>2. \A j \in DOMAIN jobs : jobs'[j] \in Job
    BY <1>1, <1>6, <1>7, RowTypes
  <2> QED
    BY <1>1, <2>1, <2>2, UpdateRows
<1>9. \A j \in DOMAIN jobs :
        /\ jobs'[j].attempts = jobs[j].attempts
        /\ jobs'[j].status # "RUNNING"
        /\ jobs[j].status \in {"SUCCEEDED", "FAILED"} => jobs'[j] = jobs[j]
        /\ jobs'[j].status \in {"SUCCEEDED", "FAILED"} => jobs'[j] = jobs[j]
  BY <1>6, <1>7
<1>10. commands' \in Seq(Command)
  BY <1>1, CloseCommandsFacts
<1>11. OneOpenRun'
  BY <1>4, <1>5, <1>8, <1>9 DEF OneOpenRun
<1>12. AttemptNumbering'
  BY <1>4, <1>5, <1>8, <1>9 DEF StoreInv, AttemptNumbering
<1>13. OutcomeMatchesHistory'
  <2>1. ASSUME NEW r \in DOMAIN runs', runs'[r].status = "SUCCEEDED"
        PROVE  /\ runs'[r].job \in DOMAIN jobs'
               /\ jobs'[runs'[r].job].status = "SUCCEEDED"
               /\ runs'[r].attempt = jobs'[runs'[r].job].attempts
    BY <1>4, <1>5, <1>8, <1>9, <2>1 DEF StoreInv, OutcomeMatchesHistory
  <2>2. ASSUME NEW j \in DOMAIN jobs', jobs'[j].status = "SUCCEEDED"
        PROVE  \E r \in DOMAIN runs' : runs'[r].job = j /\ runs'[r].status = "SUCCEEDED"
    <3>1. j \in DOMAIN jobs /\ jobs[j].status = "SUCCEEDED"
      BY <1>8, <1>9, <2>2
    <3>2. PICK r \in DOMAIN runs : runs[r].job = j /\ runs[r].status = "SUCCEEDED"
      BY <3>1 DEF StoreInv, OutcomeMatchesHistory
    <3> QED
      BY <1>4, <1>5, <3>2
  <2>3. ASSUME NEW j \in DOMAIN jobs', jobs'[j].status = "FAILED"
        PROVE  jobs'[j].attempts > jobs'[j].maxRetries
    BY <1>8, <1>9, <2>3 DEF StoreInv, OutcomeMatchesHistory
  <2> QED
    BY <2>1, <2>2, <2>3 DEF OutcomeMatchesHistory
<1>14. FailedRunsAreClosed'
  <2>1. SUFFICES ASSUME NEW c \in CommandIDs'
                 PROVE  /\ commands'[c].run \in RunIDs'
                        /\ commands'[c].status # "RUNNING"
    BY DEF FailedRunsAreClosed
  <2>2. /\ c \in CommandIDs /\ commands'[c].run = commands[c].run
        /\ commands'[c].status = "RUNNING" => commands[c].run \notin Nat
    BY <1>1, <2>1, CloseCommandsFacts
  <2> QED
    BY <1>1, <1>4, <2>2, RowTypes DEF StoreInv, FailedRunsAreClosed
<1> QED
  BY <1>1, <1>4, <1>8, <1>10, <1>11, <1>12, <1>13, <1>14 DEF StoreInv, StoreTypeOK

\* StartCommand adds a command to an open run.
LEMMA StartCommandKeepsInv ==
    ASSUME StoreInv, NEW r \in RunIDs, NEW s \in 1..PipelineLen, StartCommand(r, s)
    PROVE  StoreInv'
<1> DEFINE row == [run |-> r, sequence |-> s, status |-> "RUNNING"]
<1>1. /\ StoreTypeOK /\ commands \in Seq(Command)
      /\ UNCHANGED <<jobs, runs, now>>
      /\ commands' = Append(commands, row)
      /\ runs[r].status = "RUNNING"
  BY DEF StoreInv, StoreTypeOK, StartCommand, CanStartCommand
<1>2. row \in Command
  BY <1>1, RowTypes, StoreAssumption DEF Command, RunStatuses
<1>3. /\ commands' \in Seq(Command)
      /\ DOMAIN commands' = DOMAIN commands \cup {Len(commands) + 1}
      /\ \A c \in DOMAIN commands : commands'[c] = commands[c]
      /\ commands'[Len(commands) + 1] = row
  BY <1>1, <1>2, AppendRow
<1>4. FailedRunsAreClosed'
  BY <1>1, <1>3 DEF StoreInv, FailedRunsAreClosed, CommandIDs, RunIDs
<1>5. OneOpenRun' /\ AttemptNumbering' /\ OutcomeMatchesHistory'
  BY <1>1 DEF StoreInv, OneOpenRun, AttemptNumbering, OutcomeMatchesHistory, JobIDs, RunIDs
<1> QED
  BY <1>1, <1>3, <1>4, <1>5 DEF StoreInv, StoreTypeOK

\* CompleteCommand closes one open command.
LEMMA CompleteCommandKeepsInv ==
    ASSUME StoreInv, NEW c \in CommandIDs, NEW outcome, CompleteCommand(c, outcome)
    PROVE  StoreInv'
<1> DEFINE row == WithStatus(commands[c], outcome)
<1>1. /\ StoreTypeOK /\ commands \in Seq(Command)
      /\ UNCHANGED <<jobs, runs, now>>
      /\ commands' = [commands EXCEPT ![c] = row]
      /\ outcome \in RunStatuses /\ outcome # "RUNNING"
  BY DEF StoreInv, StoreTypeOK, CompleteCommand, RunStatuses
<1>2. row \in Command /\ row.status = outcome /\ row.run = commands[c].run
  <2>1. commands[c] \in Command
    BY <1>1, RowTypes
  <2> QED
    BY <1>1, <2>1, CommandRow
<1> HIDE DEF row
<1>3. /\ commands' \in Seq(Command) /\ DOMAIN commands' = DOMAIN commands
      /\ commands'[c] = row
      /\ \A d \in DOMAIN commands : d # c => commands'[d] = commands[d]
  BY <1>1, <1>2, UpdateRow DEF CommandIDs
<1>4. FailedRunsAreClosed'
  BY <1>1, <1>2, <1>3 DEF StoreInv, FailedRunsAreClosed, CommandIDs, RunIDs
<1>5. OneOpenRun' /\ AttemptNumbering' /\ OutcomeMatchesHistory'
  BY <1>1 DEF StoreInv, OneOpenRun, AttemptNumbering, OutcomeMatchesHistory, JobIDs, RunIDs
<1> QED
  BY <1>1, <1>3, <1>4, <1>5 DEF StoreInv, StoreTypeOK

\* A step that leaves the three tables alone (the clock, or nothing at all).
LEMMA TablesUnchangedKeepInv ==
    ASSUME StoreInv, UNCHANGED <<jobs, runs, commands>>, now' \in Nat
    PROVE  StoreInv'
BY DEF StoreInv, StoreTypeOK, OneOpenRun, AttemptNumbering, OutcomeMatchesHistory,
       FailedRunsAreClosed, JobIDs, RunIDs, CommandIDs

----------------------------------------------------------------------------

\* A new database satisfies the invariant.
LEMMA InitEstablishesInv == StoreInit => StoreInv
BY EmptySeq DEF StoreInit, StoreInv, StoreTypeOK, OneOpenRun, AttemptNumbering,
       OutcomeMatchesHistory, FailedRunsAreClosed, JobIDs, RunIDs, CommandIDs

\* No transaction, and no tick of the clock, breaks the invariant.
LEMMA StepKeepsInv == StoreInv /\ [StoreNext]_storeVars => StoreInv'
<1> SUFFICES ASSUME StoreInv, [StoreNext]_storeVars
             PROVE  StoreInv'
  OBVIOUS
<1>1. ASSUME NEW k \in Keys, NEW m \in RetryLimits, Enqueue(k, m)
      PROVE  StoreInv'
  BY <1>1, EnqueueKeepsInv
<1>2. CASE Claim
  BY <1>2, ClaimKeepsInv
<1>3. ASSUME NEW j \in JobIDs, NEW r \in RunIDs, Succeed(j, r)
      PROVE  StoreInv'
  BY <1>3, SucceedKeepsInv
<1>4. ASSUME NEW j \in JobIDs, NEW r \in RunIDs, Fail(j, r)
      PROVE  StoreInv'
  BY <1>4, FailKeepsInv
<1>5. CASE RecoverRunning
  BY <1>5, RecoverKeepsInv
<1>6. ASSUME NEW r \in RunIDs, NEW s \in 1..PipelineLen, StartCommand(r, s)
      PROVE  StoreInv'
  BY <1>6, StartCommandKeepsInv
<1>7. ASSUME NEW c \in CommandIDs, NEW outcome \in RunStatuses, CompleteCommand(c, outcome)
      PROVE  StoreInv'
  BY <1>7, CompleteCommandKeepsInv
<1>8. CASE Tick
  BY <1>8, TablesUnchangedKeepInv DEF Tick, StoreInv, StoreTypeOK
<1>9. CASE UNCHANGED storeVars
  BY <1>9, TablesUnchangedKeepInv DEF storeVars, StoreInv, StoreTypeOK
<1> QED
  BY <1>1, <1>2, <1>3, <1>4, <1>5, <1>6, <1>7, <1>8, <1>9 DEF StoreNext

\* The tables agree with one another after every sequence of calls on the store,
\* by however many workers and processes: types, one open run per running job,
\* attempt numbers, outcomes and closed commands, all at once.
THEOREM StoreConsistent == StoreSpec => []StoreInv
BY InitEstablishesInv, StepKeepsInv, PTL DEF StoreSpec

\* The type invariant of the tables (internal/queue/store.go, schema).
THEOREM StoreTypeCorrect == StoreSpec => []StoreTypeOK
<1>1. StoreInv => StoreTypeOK
  BY DEF StoreInv
<1> QED
  BY <1>1, StoreConsistent, PTL

\* A job is RUNNING exactly while one run of it is: no call on the store, in any
\* order, splits the two rows that Claim, Succeed, Fail and RecoverRunning
\* update together.
THEOREM StoreOneOpenRun == StoreSpec => []OneOpenRun
<1>1. StoreInv => OneOpenRun
  BY DEF StoreInv
<1> QED
  BY <1>1, StoreConsistent, PTL

\* A job's outcome is that of its last run, and FAILED means every retry of
\* max_retries was used.
THEOREM StoreOutcomeMatchesHistory == StoreSpec => []OutcomeMatchesHistory
<1>1. StoreInv => OutcomeMatchesHistory
  BY DEF StoreInv
<1> QED
  BY <1>1, StoreConsistent, PTL

----------------------------------------------------------------------------
(* Finished rows never change.                                              *)

\* No transaction touches a row whose status is terminal.
LEMMA StepKeepsFinishedRows ==
    ASSUME StoreTypeOK, StoreNext
    PROVE  FinishedRowsKept
<1> USE DEF JobIDs, RunIDs, CommandIDs
<1>1. /\ jobs \in Seq(Job) /\ runs \in Seq(Run) /\ commands \in Seq(Command)
      /\ jobs \in [DOMAIN jobs -> Job] /\ runs \in [DOMAIN runs -> Run]
      /\ commands \in [DOMAIN commands -> Command]
  BY LenProperties DEF StoreTypeOK
<1>2. ASSUME NEW k \in Keys, NEW m \in RetryLimits, Enqueue(k, m)
      PROVE  FinishedRowsKept
  <2> DEFINE row == [key |-> k, status |-> "QUEUED", attempts |-> 0,
                     maxRetries |-> m, availableAt |-> now]
  <2>1. row \in Job
    BY DEF StoreTypeOK, Job, JobStatuses
  <2>2. \A j \in DOMAIN jobs : Append(jobs, row)[j] = jobs[j]
    BY <1>1, <2>1, AppendRow
  <2> QED
    BY <1>2, <2>2 DEF Enqueue, FinishedRowsKept
<1>3. CASE Claim
  <2>1. PICK j \in Due :
          /\ jobs' = [jobs EXCEPT ![j] = Claimed(@, jobs[j].attempts + 1)]
          /\ runs' = Append(runs, [job |-> j, attempt |-> jobs[j].attempts + 1,
                                   status |-> "RUNNING"])
    BY <1>3 DEF Claim
  <2>2. j \in DOMAIN jobs /\ jobs[j].status = "QUEUED"
    BY DEF Due
  <2>3. [job |-> j, attempt |-> jobs[j].attempts + 1, status |-> "RUNNING"] \in Run
    BY <2>2, RowTypes DEF Run, RunStatuses
  <2>4. \A r \in DOMAIN runs : runs'[r] = runs[r]
    BY <1>1, <2>1, <2>3, AppendRow
  <2>5. \A i \in DOMAIN jobs : i # j => jobs'[i] = jobs[i]
    BY <1>1, <2>1
  <2> QED
    BY <1>3, <2>2, <2>4, <2>5 DEF Claim, FinishedRowsKept
<1>4. ASSUME NEW j \in JobIDs, NEW r \in RunIDs, Succeed(j, r) \/ Fail(j, r)
      PROVE  FinishedRowsKept
  <2>1. jobs[j].status = "RUNNING" /\ runs[r].status = "RUNNING"
    BY <1>4 DEF Succeed, Fail, Open
  <2>2. /\ \A i \in DOMAIN jobs : i # j => jobs'[i] = jobs[i]
        /\ \A q \in DOMAIN runs : q # r => runs'[q] = runs[q]
    BY <1>1, <1>4 DEF Succeed, Fail
  <2>3. \A c \in DOMAIN commands : commands[c].status # "RUNNING" => commands'[c] = commands[c]
    BY <1>4 DEF Succeed, Fail, CloseCommands
  <2> QED
    BY <2>1, <2>2, <2>3 DEF FinishedRowsKept
<1>5. CASE RecoverRunning
  BY <1>5 DEF RecoverRunning, CloseCommands, FinishedRowsKept
<1>6. ASSUME NEW r \in RunIDs, NEW s \in 1..PipelineLen, StartCommand(r, s)
      PROVE  FinishedRowsKept
  <2> DEFINE row == [run |-> r, sequence |-> s, status |-> "RUNNING"]
  <2>1. row \in Command
    BY RowTypes, StoreAssumption DEF Command, RunStatuses
  <2>2. \A c \in DOMAIN commands : Append(commands, row)[c] = commands[c]
    BY <1>1, <2>1, AppendRow
  <2> QED
    BY <1>6, <2>2 DEF StartCommand, FinishedRowsKept
<1>7. ASSUME NEW c \in CommandIDs, NEW outcome \in RunStatuses, CompleteCommand(c, outcome)
      PROVE  FinishedRowsKept
  BY <1>1, <1>7 DEF CompleteCommand, CanCompleteCommand, FinishedRowsKept
<1>8. CASE Tick
  BY <1>8 DEF Tick, FinishedRowsKept
<1> QED
  BY <1>2, <1>3, <1>4, <1>5, <1>6, <1>7, <1>8 DEF StoreNext

\* No call, however late and by whomever, rewrites a finished run, command or
\* job: the guards of the UPDATE statements fence off a worker whose attempt was
\* ended by somebody else.
THEOREM StoreHistoryIsFinal == StoreSpec => HistoryIsFinal
<1>1. StoreTypeOK /\ [StoreNext]_storeVars => [FinishedRowsKept]_storeVars
  BY StepKeepsFinishedRows
<1> QED
  BY <1>1, StoreTypeCorrect, PTL DEF StoreSpec, HistoryIsFinal

----------------------------------------------------------------------------
(* The refinement of JobLifecycle. It needs that keys are unique, which the *)
(* other properties do not. Steps about CHOOSE are left to Zenon.           *)


\* The UNIQUE (watch, path, fingerprint) constraint: no two jobs share a key.
OneJobPerKey == \A i, j \in JobIDs : jobs[i].key = jobs[j].key => i = j

\* jobOf holds every job under its key, and NoJob under the others.
JobOfIsTable ==
    /\ jobOf = [k \in Keys |-> jobOf[k]]
    /\ \A j \in JobIDs : jobs[j].key \in Keys => jobOf[jobs[j].key] = jobs[j]
    /\ \A k \in Keys : (\A j \in JobIDs : jobs[j].key # k) => jobOf[k] = NoJob

\* With unique keys CHOOSE has no choice.
LEMMA JobOfFacts == OneJobPerKey => JobOfIsTable
<1> SUFFICES ASSUME OneJobPerKey
             PROVE  JobOfIsTable
  OBVIOUS
<1>1. jobOf = [k \in Keys |-> jobOf[k]]
  BY DEF jobOf
<1>2. ASSUME NEW j \in JobIDs, jobs[j].key \in Keys
      PROVE  jobOf[jobs[j].key] = jobs[j]
  <2>1. RowOf(jobs[j].key) = j
    BY Zenon DEF OneJobPerKey, RowOf
  <2>2. Recorded(jobs[j].key)
    BY DEF Recorded
  <2> QED
    BY <1>2, <2>1, <2>2, Zenon DEF jobOf
<1>3. ASSUME NEW k \in Keys, \A j \in JobIDs : jobs[j].key # k
      PROVE  jobOf[k] = NoJob
  BY <1>3, Zenon DEF jobOf, Recorded
<1> QED
  BY <1>1, <1>2, <1>3, Zenon DEF JobOfIsTable

\* The same after a step.
LEMMA JobOfFactsAfter == OneJobPerKey' => JobOfIsTable'
BY JobOfFacts, PTL

\* Appending the job of a new key changes what is known of that key alone.
LEMMA NewKeyAdded ==
    ASSUME StoreTypeOK, OneJobPerKey, NEW k \in Keys, ~Recorded(k),
           NEW row \in Job, row.key = k, jobs' = Append(jobs, row)
    PROVE  /\ OneJobPerKey'
           /\ jobOf[k] = NoJob
           /\ jobOf' = [jobOf EXCEPT ![k] = row]
<1> DEFINE new == Len(jobs) + 1
<1>1. jobs \in Seq(Job)
  BY DEF StoreTypeOK
<1>2. /\ JobIDs' = JobIDs \cup {new} /\ new \notin JobIDs
      /\ \A j \in JobIDs : jobs'[j] = jobs[j]
      /\ jobs'[new] = row
  BY <1>1, AppendRow DEF JobIDs
<1>3. \A j \in JobIDs : jobs[j].key # k
  BY DEF Recorded
<1> HIDE DEF new
<1>4. OneJobPerKey'
  <2>1. SUFFICES ASSUME NEW i \in JobIDs', NEW j \in JobIDs', jobs'[i].key = jobs'[j].key
                 PROVE  i = j
    BY DEF OneJobPerKey
  <2>2. CASE i = new \/ j = new
    BY <1>2, <1>3, <2>1, <2>2
  <2>3. CASE i \in JobIDs /\ j \in JobIDs
    BY <1>2, <2>1, <2>3 DEF OneJobPerKey
  <2> QED
    BY <1>2, <2>2, <2>3
<1>5. JobOfIsTable /\ JobOfIsTable'
  BY <1>4, JobOfFacts, JobOfFactsAfter
<1>6. ASSUME NEW l \in Keys
      PROVE  jobOf'[l] = IF l = k THEN row ELSE jobOf[l]
  <2>1. CASE l = k
    BY <1>2, <1>5, <2>1 DEF JobOfIsTable
  <2>2. CASE l # k /\ \E j \in JobIDs : jobs[j].key = l
    <3>1. PICK j \in JobIDs : jobs[j].key = l
      BY <2>2
    <3>2. j \in JobIDs' /\ jobs'[j] = jobs[j] /\ jobs'[j].key = l
      BY <1>2, <3>1
    <3> QED
      BY <1>5, <2>2, <3>1, <3>2 DEF JobOfIsTable
  <2>3. CASE l # k /\ ~\E j \in JobIDs : jobs[j].key = l
    <3>1. \A j \in JobIDs' : jobs'[j].key # l
      BY <1>2, <2>3
    <3> QED
      BY <1>5, <2>3, <3>1 DEF JobOfIsTable
  <2> QED
    BY <2>1, <2>2, <2>3
<1>7. jobOf[k] = NoJob
  BY <1>3, <1>5 DEF JobOfIsTable
<1> QED
  BY <1>4, <1>5, <1>6, <1>7 DEF JobOfIsTable

\* An UPDATE that keeps keys changes jobOf row by row.
LEMMA RowsUpdated ==
    ASSUME StoreTypeOK, OneJobPerKey,
           JobIDs' = JobIDs,
           \A j \in JobIDs : jobs'[j].key = jobs[j].key
    PROVE  /\ OneJobPerKey'
           /\ jobOf = [k \in Keys |-> jobOf[k]] /\ jobOf' = [k \in Keys |-> jobOf'[k]]
           /\ \A j \in JobIDs : /\ jobs[j].key \in Keys
                                /\ jobOf[jobs[j].key] = jobs[j]
                                /\ jobOf'[jobs[j].key] = jobs'[j]
           /\ \A k \in Keys : (\A j \in JobIDs : jobs[j].key # k) => /\ jobOf[k] = NoJob
                                                                     /\ jobOf'[k] = NoJob
<1>1. OneJobPerKey'
  BY DEF OneJobPerKey
<1>2. JobOfIsTable /\ JobOfIsTable'
  BY <1>1, JobOfFacts, JobOfFactsAfter
<1>3. \A j \in JobIDs : jobs[j].key \in Keys
  BY RowTypes DEF Job
<1> QED
  BY <1>1, <1>2, <1>3 DEF JobOfIsTable

\* An UPDATE of one job changes what is known of its key, and of no other.
LEMMA OneKeyUpdated ==
    ASSUME StoreTypeOK, OneJobPerKey, NEW j \in JobIDs, NEW row \in Job,
           row.key = jobs[j].key, jobs' = [jobs EXCEPT ![j] = row]
    PROVE  /\ OneJobPerKey'
           /\ jobs[j].key \in Keys
           /\ jobOf[jobs[j].key] = jobs[j]
           /\ jobOf = [k \in Keys |-> jobOf[k]]
           /\ jobOf' = [jobOf EXCEPT ![jobs[j].key] = row]
<1>1. jobs \in Seq(Job) /\ JobIDs = DOMAIN jobs
  BY DEF StoreTypeOK, JobIDs
<1>2. /\ JobIDs' = JobIDs /\ jobs'[j] = row
      /\ \A i \in JobIDs : i # j => jobs'[i] = jobs[i]
  BY <1>1, UpdateRow DEF JobIDs
<1>3. \A i \in JobIDs : jobs'[i].key = jobs[i].key
  BY <1>2
<1>4. /\ OneJobPerKey'
      /\ jobOf = [k \in Keys |-> jobOf[k]] /\ jobOf' = [k \in Keys |-> jobOf'[k]]
      /\ \A i \in JobIDs : /\ jobs[i].key \in Keys
                           /\ jobOf[jobs[i].key] = jobs[i]
                           /\ jobOf'[jobs[i].key] = jobs'[i]
      /\ \A k \in Keys : (\A i \in JobIDs : jobs[i].key # k) => /\ jobOf[k] = NoJob
                                                                /\ jobOf'[k] = NoJob
  BY <1>2, <1>3, RowsUpdated
<1>5. ASSUME NEW k \in Keys
      PROVE  jobOf'[k] = IF k = jobs[j].key THEN row ELSE jobOf[k]
  <2>1. CASE \E i \in JobIDs : jobs[i].key = k
    <3>1. PICK i \in JobIDs : jobs[i].key = k
      BY <2>1
    <3>2. CASE i = j
      BY <1>2, <1>4, <3>1, <3>2
    <3>3. CASE i # j
      BY <1>2, <1>4, <3>1, <3>3 DEF OneJobPerKey
    <3> QED
      BY <3>2, <3>3
  <2>2. CASE ~\E i \in JobIDs : jobs[i].key = k
    BY <1>4, <2>2
  <2> QED
    BY <2>1, <2>2
<1> QED
  BY <1>4, <1>5

----------------------------------------------------------------------------
(* Each transaction is a step of the life cycle.                            *)

\* A new database maps to the initial state of the life cycle.
LEMMA InitIsLifecycleInit == StoreInit => OneJobPerKey /\ Lifecycle!Init
<1> SUFFICES ASSUME StoreInit
             PROVE  OneJobPerKey /\ Lifecycle!Init
  OBVIOUS
<1>1. JobIDs = {}
  BY DEF StoreInit, JobIDs
<1>2. OneJobPerKey
  BY <1>1 DEF OneJobPerKey
<1>3. \A k \in Keys : jobOf[k] = NoJob
  BY <1>1, <1>2, JobOfFacts DEF JobOfIsTable
<1> QED
  BY <1>2, <1>3 DEF Lifecycle!Init, NoJob

\* A step that leaves the jobs alone is invisible.
LEMMA JobsUnchanged ==
    ASSUME StoreTypeOK, OneJobPerKey, UNCHANGED jobs
    PROVE  OneJobPerKey' /\ UNCHANGED Lifecycle!vars
<1>1. JobIDs' = JobIDs /\ \A j \in JobIDs : jobs'[j] = jobs[j] /\ jobs'[j].key = jobs[j].key
  BY DEF JobIDs
<1>2. /\ OneJobPerKey'
      /\ jobOf = [k \in Keys |-> jobOf[k]] /\ jobOf' = [k \in Keys |-> jobOf'[k]]
      /\ \A j \in JobIDs : /\ jobs[j].key \in Keys
                           /\ jobOf[jobs[j].key] = jobs[j]
                           /\ jobOf'[jobs[j].key] = jobs'[j]
      /\ \A k \in Keys : (\A j \in JobIDs : jobs[j].key # k) => /\ jobOf[k] = NoJob
                                                                /\ jobOf'[k] = NoJob
  BY <1>1, RowsUpdated
<1>3. ASSUME NEW k \in Keys
      PROVE  jobOf'[k] = jobOf[k]
  <2>1. CASE \E j \in JobIDs : jobs[j].key = k
    BY <1>1, <1>2, <2>1
  <2>2. CASE ~\E j \in JobIDs : jobs[j].key = k
    BY <1>2, <2>2
  <2> QED
    BY <2>1, <2>2
<1>4. jobOf' = jobOf
  BY <1>2, <1>3
<1> QED
  BY <1>2, <1>4 DEF Lifecycle!vars

\* Enqueue of an unrecorded key is Submit; of a recorded one it is invisible.
LEMMA EnqueueIsSubmit ==
    ASSUME StoreTypeOK, OneJobPerKey, NEW k \in Keys, NEW m \in RetryLimits, Enqueue(k, m)
    PROVE  OneJobPerKey' /\ [Lifecycle!Next]_(Lifecycle!vars)
<1> DEFINE row == [key |-> k, status |-> "QUEUED", attempts |-> 0,
                   maxRetries |-> m, availableAt |-> now]
<1>1. CASE UNCHANGED jobs
  BY <1>1, JobsUnchanged
<1>2. CASE ~Recorded(k) /\ jobs' = Append(jobs, row)
  <2>1. row \in Job
    BY DEF StoreTypeOK, Job, JobStatuses
  <2>2. OneJobPerKey' /\ jobOf[k] = NoJob /\ jobOf' = [jobOf EXCEPT ![k] = row]
    BY <1>2, <2>1, NewKeyAdded
  <2>3. jobOf = [l \in Keys |-> jobOf[l]]
    BY JobOfFacts DEF JobOfIsTable
  <2>4. row.status = "QUEUED" /\ row.attempts = 0 /\ row.maxRetries = m
    OBVIOUS
  <2> HIDE DEF row
  <2>5. Lifecycle!Submit(k)
    <3>1. \A l \in Keys : jobOf'[l] = IF l = k THEN row ELSE jobOf[l]
      BY <2>2, <2>3
    <3>2. /\ jobOf[k].status = "ABSENT" /\ jobOf[k].attempts = 0
          /\ \A l \in Keys : jobOf'[l].attempts = jobOf[l].attempts
      BY <2>2, <2>4, <3>1 DEF NoJob
    <3>3. [l \in Keys |-> jobOf'[l].status] =
              [[l \in Keys |-> jobOf[l].status] EXCEPT ![k] = "QUEUED"]
      BY <2>4, <3>1
    <3>4. [l \in Keys |-> jobOf'[l].maxRetries] =
              [[l \in Keys |-> jobOf[l].maxRetries] EXCEPT ![k] = m]
      BY <2>4, <3>1
    <3> QED
      BY <3>2, <3>3, <3>4 DEF Lifecycle!Submit
  <2> QED
    BY <2>2, <2>5 DEF Lifecycle!Next
<1> QED
  BY <1>1, <1>2 DEF Enqueue

\* Claim begins the next attempt of the job it picks.
LEMMA ClaimIsBegin ==
    ASSUME StoreTypeOK, OneJobPerKey, Claim
    PROVE  OneJobPerKey' /\ Lifecycle!Next
<1>1. PICK j \in Due : jobs' = [jobs EXCEPT ![j] = Claimed(@, jobs[j].attempts + 1)]
  BY DEF Claim
<1> DEFINE row == Claimed(jobs[j], jobs[j].attempts + 1)
           k   == jobs[j].key
<1>2. j \in JobIDs /\ jobs[j].status = "QUEUED"
  BY DEF Due
<1>3. jobs[j] \in Job /\ jobs[j].attempts + 1 \in Nat
  BY <1>2, RowTypes
<1>4. /\ row \in Job /\ row.key = k /\ row.status = "RUNNING"
      /\ row.attempts = jobs[j].attempts + 1 /\ row.maxRetries = jobs[j].maxRetries
  BY <1>3, ClaimedRow DEF Claimed, Job
<1> HIDE DEF row
<1>5. jobs' = [jobs EXCEPT ![j] = row]
  BY <1>1 DEF row
<1>6. /\ OneJobPerKey'
      /\ k \in Keys
      /\ jobOf[k] = jobs[j]
      /\ jobOf = [l \in Keys |-> jobOf[l]]
      /\ jobOf' = [jobOf EXCEPT ![k] = row]
  BY <1>2, <1>4, <1>5, OneKeyUpdated
<1>7. Lifecycle!Begin(k)
  BY <1>2, <1>4, <1>6 DEF Lifecycle!Begin
<1> QED
  BY <1>6, <1>7 DEF Lifecycle!Next, Lifecycle!Begin

\* Succeed and Fail end the running attempt of the job they name.
LEMMA EndRunIsEnd ==
    ASSUME StoreTypeOK, OneJobPerKey, NEW j \in JobIDs, NEW r \in RunIDs,
           Succeed(j, r) \/ Fail(j, r)
    PROVE  OneJobPerKey' /\ Lifecycle!Next
<1> DEFINE k == jobs[j].key
<1>1. /\ jobs[j] \in Job /\ jobs[j].status = "RUNNING" /\ now \in Nat
      /\ jobs[j].attempts \in Nat /\ jobs[j].maxRetries \in Nat
  BY RowTypes DEF Succeed, Fail, Open, StoreTypeOK
<1>2. PICK row \in Job :
        /\ jobs' = [jobs EXCEPT ![j] = row]
        /\ row.key = k /\ row.attempts = jobs[j].attempts /\ row.maxRetries = jobs[j].maxRetries
        /\ \/ row.status = "SUCCEEDED"
           \/ row.status = "QUEUED" /\ jobs[j].attempts <= jobs[j].maxRetries
           \/ row.status = "FAILED" /\ jobs[j].attempts > jobs[j].maxRetries
  <2>1. CASE Succeed(j, r)
    <3>1. /\ WithStatus(jobs[j], "SUCCEEDED") \in Job
          /\ WithStatus(jobs[j], "SUCCEEDED").key = k
          /\ WithStatus(jobs[j], "SUCCEEDED").attempts = jobs[j].attempts
          /\ WithStatus(jobs[j], "SUCCEEDED").maxRetries = jobs[j].maxRetries
          /\ WithStatus(jobs[j], "SUCCEEDED").status = "SUCCEEDED"
      BY <1>1 DEF WithStatus, Job, JobStatuses
    <3> QED
      BY <2>1, <3>1 DEF Succeed
  <2>2. CASE Fail(j, r) /\ HasRetries(j)
    <3> DEFINE row == Available(jobs[j], "QUEUED", now + RetryDelay)
    <3>1. now + RetryDelay \in Nat
      BY <1>1, StoreAssumption
    <3>2. /\ row \in Job /\ row.key = k /\ row.attempts = jobs[j].attempts
          /\ row.maxRetries = jobs[j].maxRetries /\ row.status = "QUEUED"
      BY <1>1, <3>1 DEF Available, Job, JobStatuses
    <3>3. jobs' = [jobs EXCEPT ![j] = row] /\ jobs[j].attempts <= jobs[j].maxRetries
      BY <2>2 DEF Fail, HasRetries
    <3> QED
      BY <3>2, <3>3
  <2>3. CASE Fail(j, r) /\ ~HasRetries(j)
    <3> DEFINE row == Available(jobs[j], "FAILED", now)
    <3>1. /\ row \in Job /\ row.key = k /\ row.attempts = jobs[j].attempts
          /\ row.maxRetries = jobs[j].maxRetries /\ row.status = "FAILED"
      BY <1>1 DEF Available, Job, JobStatuses
    <3>2. jobs' = [jobs EXCEPT ![j] = row] /\ jobs[j].attempts > jobs[j].maxRetries
      BY <1>1, <2>3 DEF Fail, HasRetries
    <3> QED
      BY <3>1, <3>2
  <2> QED
    BY <2>1, <2>2, <2>3
<1>3. /\ OneJobPerKey'
      /\ k \in Keys
      /\ jobOf[k] = jobs[j]
      /\ jobOf = [l \in Keys |-> jobOf[l]]
      /\ jobOf' = [jobOf EXCEPT ![k] = row]
  BY <1>2, OneKeyUpdated
<1>4. Lifecycle!End(k, row.status)
  BY <1>1, <1>2, <1>3 DEF Lifecycle!End
<1>5. row.status \in Lifecycle!Phases
  BY <1>2 DEF Lifecycle!Phases
<1> QED
  BY <1>3, <1>4, <1>5 DEF Lifecycle!Next

\* RecoverRunning interrupts all running attempts at once.
LEMMA RecoverIsInterruptAll ==
    ASSUME StoreTypeOK, OneJobPerKey, RecoverRunning
    PROVE  OneJobPerKey' /\ Lifecycle!Next
<1>1. /\ JobIDs' = JobIDs
      /\ \A j \in JobIDs : jobs'[j] = IF jobs[j].status = "RUNNING"
                                      THEN Available(jobs[j], "QUEUED", now) ELSE jobs[j]
  BY DEF RecoverRunning, JobIDs
<1>2. \A j \in JobIDs : /\ jobs'[j].key = jobs[j].key
                        /\ jobs'[j].attempts = jobs[j].attempts
                        /\ jobs'[j].maxRetries = jobs[j].maxRetries
                        /\ jobs'[j].status = IF jobs[j].status = "RUNNING" THEN "QUEUED"
                                                                           ELSE jobs[j].status
  BY <1>1, RowTypes DEF Available, Job
<1>3. /\ OneJobPerKey'
      /\ jobOf = [k \in Keys |-> jobOf[k]] /\ jobOf' = [k \in Keys |-> jobOf'[k]]
      /\ \A j \in JobIDs : /\ jobs[j].key \in Keys
                           /\ jobOf[jobs[j].key] = jobs[j]
                           /\ jobOf'[jobs[j].key] = jobs'[j]
      /\ \A k \in Keys : (\A j \in JobIDs : jobs[j].key # k) => /\ jobOf[k] = NoJob
                                                                /\ jobOf'[k] = NoJob
  BY <1>1, <1>2, RowsUpdated
<1>4. ASSUME NEW k \in Keys
      PROVE  /\ jobOf'[k].attempts = jobOf[k].attempts
             /\ jobOf'[k].maxRetries = jobOf[k].maxRetries
             /\ jobOf'[k].status = IF jobOf[k].status = "RUNNING" THEN "QUEUED" ELSE jobOf[k].status
  <2>1. CASE \E j \in JobIDs : jobs[j].key = k
    BY <1>2, <1>3, <2>1
  <2>2. CASE ~\E j \in JobIDs : jobs[j].key = k
    BY <1>3, <2>2 DEF NoJob
  <2> QED
    BY <2>1, <2>2
<1>5. Lifecycle!InterruptAll
  BY <1>4 DEF Lifecycle!InterruptAll
<1> QED
  BY <1>3, <1>5 DEF Lifecycle!Next

\* Every step of the store is a step of the life cycle or invisible.
LEMMA StepIsLifecycleStep ==
    StoreTypeOK /\ OneJobPerKey /\ [StoreNext]_storeVars =>
        OneJobPerKey' /\ [Lifecycle!Next]_(Lifecycle!vars)
<1> SUFFICES ASSUME StoreTypeOK, OneJobPerKey, [StoreNext]_storeVars
             PROVE  OneJobPerKey' /\ [Lifecycle!Next]_(Lifecycle!vars)
  OBVIOUS
<1>1. ASSUME NEW k \in Keys, NEW m \in RetryLimits, Enqueue(k, m)
      PROVE  OneJobPerKey' /\ [Lifecycle!Next]_(Lifecycle!vars)
  BY <1>1, EnqueueIsSubmit
<1>2. CASE Claim
  BY <1>2, ClaimIsBegin
<1>3. ASSUME NEW j \in JobIDs, NEW r \in RunIDs, Succeed(j, r) \/ Fail(j, r)
      PROVE  OneJobPerKey' /\ Lifecycle!Next
  BY <1>3, EndRunIsEnd
<1>4. CASE RecoverRunning
  BY <1>4, RecoverIsInterruptAll
<1>5. CASE UNCHANGED jobs
  BY <1>5, JobsUnchanged
<1>6. ASSUME NEW r \in RunIDs, NEW s \in 1..PipelineLen, StartCommand(r, s)
      PROVE  UNCHANGED jobs
  BY <1>6 DEF StartCommand
<1>7. ASSUME NEW c \in CommandIDs, NEW outcome \in RunStatuses, CompleteCommand(c, outcome)
      PROVE  UNCHANGED jobs
  BY <1>7 DEF CompleteCommand
<1>8. Tick \/ UNCHANGED storeVars => UNCHANGED jobs
  BY DEF Tick, storeVars
<1> QED
  BY <1>1, <1>2, <1>3, <1>4, <1>5, <1>6, <1>7, <1>8 DEF StoreNext

\* The tables implement the abstract life cycle: whatever is called in whatever
\* order, a key is submitted once, worked on by one attempt at a time, tried
\* again within its limit or after an interruption, and ends for good.
THEOREM StoreImplementsLifecycle == StoreSpec => ImplementsLifecycle
<1>1. StoreInit => OneJobPerKey /\ Lifecycle!Init
  BY InitIsLifecycleInit
<1>2. StoreTypeOK /\ OneJobPerKey /\ [StoreNext]_storeVars =>
          OneJobPerKey' /\ [Lifecycle!Next]_(Lifecycle!vars)
  BY StepIsLifecycleStep
<1> QED
  BY <1>1, <1>2, StoreTypeCorrect, PTL DEF StoreSpec, ImplementsLifecycle, Lifecycle!Spec

\* A file version is recorded once, however often and by whomever it is
\* discovered (ON CONFLICT DO NOTHING).
THEOREM StoreOneJobPerKey == StoreSpec => []OneJobPerKey
<1>1. StoreInit => OneJobPerKey
  BY InitIsLifecycleInit
<1>2. StoreTypeOK /\ OneJobPerKey /\ [StoreNext]_storeVars => OneJobPerKey'
  BY StepIsLifecycleStep
<1> QED
  BY <1>1, <1>2, StoreTypeCorrect, PTL DEF StoreSpec

=============================================================================

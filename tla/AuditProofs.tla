---------------------------- MODULE AuditProofs ----------------------------
(***************************************************************************)
(* The two workers of common/audit/audit.go.  For any number of workers,   *)
(* rows and attempts, the columns of minio_delete_retries that             *)
(* unsynchronised workers overwrite still mean what a reader of the table  *)
(* takes them to mean.  For any events and sizes, the audit writer keeps   *)
(* its buffers within their bounds and leaves nothing in them.             *)
(***************************************************************************)
EXTENDS MinioRetry, AuditWriter, FiniteSetTheorems, TLAPS

-----------------------------------------------------------------------------
(* The retry table *)

\* What a worker knows of the row in hand: its removal worked, and the object is gone,
\* or it failed once more than the snapshot says.
InHandInv ==
  \A w \in Workers : worker[w].stage = "update" =>
    LET s == worker[w].inHand IN
    /\ worker[w].ok => ObjectOf[s.row] \notin stored
    /\ ~worker[w].ok => s.attempts + 1 <= failures[s.row]

\* Snapshots may be out of date, but never ahead of the failures.
SnapshotInv ==
  \A w \in Workers : \A s \in worker[w].batch : s.attempts <= failures[s.row]

\* The invariant of the retry table.
Inv == TypeOK /\ DoneIsGone /\ CountsFailures /\ InHandInv /\ SnapshotInv

\* The worker states that the actions build are well-formed.
LEMMA WorkingType ==
  ASSUME NEW S \in SUBSET Snapshots
  PROVE  /\ Working(S) \in WorkerStates
         /\ Working(S).stage # "update" /\ Working(S).batch = S
BY DEF Working, Idle, WorkerStates

\* So is that of a worker between the removal and the update.
LEMMA UpdateType ==
  ASSUME NEW S \in SUBSET Snapshots, NEW s \in Snapshots, NEW ok \in BOOLEAN
  PROVE  [stage |-> "update", batch |-> S, inHand |-> s, ok |-> ok] \in WorkerStates
BY DEF WorkerStates

\* The fields of a worker state.
LEMMA WorkerFields ==
  ASSUME NEW x \in WorkerStates
  PROVE  /\ x.batch \in SUBSET Snapshots
         /\ x.stage = "update" => x.inHand \in Snapshots /\ x.ok \in BOOLEAN
BY DEF WorkerStates

\* The invariant holds in an empty table.
LEMMA InitInv == Init => Inv
<1> SUFFICES ASSUME Init PROVE Inv
  OBVIOUS
<1>1. Idle \in WorkerStates /\ Idle.stage # "update" /\ Idle.batch = {}
  BY DEF Idle, WorkerStates
<1>2. TypeOK
  BY <1>1, RetryAssumption DEF Init, TypeOK
<1>3. DoneIsGone /\ CountsFailures
  BY DEF Init, DoneIsGone, CountsFailures
<1>4. InHandInv /\ SnapshotInv
  BY <1>1 DEF Init, InHandInv, SnapshotInv
<1> QED
  BY <1>2, <1>3, <1>4 DEF Inv

\* Loading rows copies the attempts as they are.
LEMMA LoadInv ==
  ASSUME Inv, NEW w \in Workers, Load(w)
  PROVE  Inv'
<1>1. PICK S \in SUBSET {r \in Rows : Selectable(r)} :
        worker' = [worker EXCEPT ![w] = Working({Snapshot(r) : r \in S})]
  BY DEF Load
<1> DEFINE B == {Snapshot(r) : r \in S}
<1>2. B \in SUBSET Snapshots /\ \A s \in B : s.attempts <= failures[s.row]
  <2> SUFFICES ASSUME NEW r \in S
               PROVE  /\ Snapshot(r) \in Snapshots
                      /\ Snapshot(r).attempts <= failures[Snapshot(r).row]
    OBVIOUS
  <2>1. r \in Rows /\ attempts[r] < MaxAttempts /\ attempts[r] \in 0..MaxAttempts
    BY DEF Selectable, Inv, TypeOK
  <2>2. attempts[r] \in 0..MaxAttempts - 1
    BY <2>1, RetryAssumption
  <2>3. attempts[r] <= failures[r]
    BY <2>1 DEF Inv, CountsFailures
  <2> QED
    BY <2>1, <2>2, <2>3 DEF Snapshot, Snapshots
<1> HIDE DEF B
<1>3. worker' = [worker EXCEPT ![w] = Working(B)]
  BY <1>1 DEF B
<1>4. /\ Working(B) \in WorkerStates
      /\ Working(B).stage # "update" /\ Working(B).batch = B
  BY <1>2, WorkingType
<1>5. UNCHANGED <<status, attempts, due, stored, stopped, failures, errors, stops>>
  BY DEF Load, row
<1>6. TypeOK'
  BY <1>3, <1>4, <1>5 DEF Inv, TypeOK
<1>7. (DoneIsGone /\ CountsFailures)'
  BY <1>5 DEF Inv, DoneIsGone, CountsFailures
<1>8. InHandInv'
  BY <1>3, <1>4, <1>5 DEF Inv, TypeOK, InHandInv
<1>9. SnapshotInv'
  BY <1>2, <1>3, <1>4, <1>5 DEF Inv, TypeOK, SnapshotInv
<1> QED
  BY <1>6, <1>7, <1>8, <1>9 DEF Inv

\* A removal makes the object go, or adds a failure; neither falsifies what the table
\* or another worker's snapshot says.
LEMMA RemoveFileInv ==
  ASSUME Inv, NEW w \in Workers, NEW s \in worker[w].batch,
         NEW ok \in BOOLEAN, NEW gone \in BOOLEAN, RemoveFile(w, s, ok, gone)
  PROVE  Inv'
<1>1. /\ worker[w].batch \in SUBSET Snapshots /\ s \in Snapshots
      /\ s.row \in Rows /\ s.attempts \in Int
  <2>1. worker[w] \in WorkerStates
    BY DEF Inv, TypeOK
  <2>2. worker[w].batch \in SUBSET Snapshots
    BY <2>1, WorkerFields
  <2> QED
    BY <2>2, RetryAssumption DEF Snapshots
<1> DEFINE x == [stage |-> "update", batch |-> worker[w].batch \ {s},
                 inHand |-> s, ok |-> ok]
<1>2. x \in WorkerStates
  BY <1>1, UpdateType
<1>3. /\ x.stage = "update" /\ x.batch = worker[w].batch \ {s}
      /\ x.inHand = s /\ x.ok = ok
  OBVIOUS
<1>4. worker' = [worker EXCEPT ![w] = x]
  BY DEF RemoveFile
<1> HIDE DEF x
<1>5. UNCHANGED <<status, attempts, due, stopped, errors, stops>>
  BY DEF RemoveFile, row
<1>6. stored' \subseteq stored /\ (ok => ObjectOf[s.row] \notin stored')
  BY DEF RemoveFile
<1>7. /\ failures' \in [Rows -> Nat]
      /\ \A r \in Rows : failures[r] <= failures'[r]
      /\ ~ok => failures'[s.row] = failures[s.row] + 1
  BY <1>1 DEF RemoveFile, Inv, TypeOK
<1>8. TypeOK'
  BY <1>2, <1>4, <1>5, <1>6, <1>7 DEF Inv, TypeOK
<1>9. DoneIsGone'
  BY <1>5, <1>6 DEF Inv, DoneIsGone
<1>10. CountsFailures'
  <2> SUFFICES ASSUME NEW r \in Rows
               PROVE  /\ attempts[r] <= failures'[r]
                      /\ status[r] = "failed" => failures'[r] >= MaxAttempts
    BY <1>5 DEF CountsFailures
  <2>1. attempts[r] \in Int /\ failures[r] \in Int /\ failures'[r] \in Int
    BY <1>7, RetryAssumption DEF Inv, TypeOK
  <2> QED
    BY <1>7, <2>1, RetryAssumption DEF Inv, CountsFailures
<1>11. s.attempts <= failures[s.row]
  BY DEF Inv, SnapshotInv
<1>12. InHandInv'
  <2> SUFFICES ASSUME NEW v \in Workers, worker'[v].stage = "update"
               PROVE  /\ worker'[v].ok => ObjectOf[worker'[v].inHand.row] \notin stored'
                      /\ ~worker'[v].ok => worker'[v].inHand.attempts + 1
                                             <= failures'[worker'[v].inHand.row]
    BY DEF InHandInv
  <2>1. CASE v = w
    <3>1. worker'[v] = x
      BY <1>4, <2>1 DEF Inv, TypeOK
    <3>2. failures[s.row] \in Nat
      BY <1>1 DEF Inv, TypeOK
    <3> QED
      BY <1>1, <1>3, <1>6, <1>7, <1>11, <3>1, <3>2
  <2>2. CASE v # w
    <3>1. worker'[v] = worker[v]
      BY <1>4, <2>2 DEF Inv, TypeOK
    <3> DEFINE q == worker[v].inHand
    <3>2. q \in Snapshots /\ q.row \in Rows /\ q.attempts \in Int
      BY <3>1, WorkerFields, RetryAssumption DEF Inv, TypeOK, Snapshots
    <3>3. /\ worker[v].ok => ObjectOf[q.row] \notin stored
          /\ ~worker[v].ok => q.attempts + 1 <= failures[q.row]
      BY <3>1 DEF Inv, InHandInv
    <3>4. failures[q.row] \in Nat /\ failures'[q.row] \in Nat
          /\ failures[q.row] <= failures'[q.row]
      BY <1>7, <3>2 DEF Inv, TypeOK
    <3> QED
      BY <1>6, <3>1, <3>2, <3>3, <3>4
  <2> QED
    BY <2>1, <2>2
<1>13. SnapshotInv'
  <2> SUFFICES ASSUME NEW v \in Workers, NEW q \in worker'[v].batch
               PROVE  q.attempts <= failures'[q.row]
    BY DEF SnapshotInv
  <2>1. q \in worker[v].batch
    BY <1>3, <1>4 DEF Inv, TypeOK
  <2>2. q \in Snapshots
    BY <2>1, WorkerFields DEF Inv, TypeOK
  <2>3. q.row \in Rows /\ q.attempts \in Int
    BY <2>2, RetryAssumption DEF Snapshots
  <2>4. failures[q.row] \in Nat /\ failures'[q.row] \in Nat
        /\ failures[q.row] <= failures'[q.row] /\ q.attempts <= failures[q.row]
    BY <1>7, <2>1, <2>3 DEF Inv, TypeOK, SnapshotInv
  <2> QED
    BY <2>3, <2>4
<1> QED
  BY <1>8, <1>9, <1>10, <1>12, <1>13 DEF Inv

\* The update writes what InHandInv says of the row in hand.
LEMMA UpdateInv ==
  ASSUME Inv, NEW w \in Workers, Update(w)
  PROVE  Inv'
<1> DEFINE s == worker[w].inHand
           n == s.attempts + 1
           ok == worker[w].ok
           B == worker[w].batch
<1>1. worker[w] \in WorkerStates /\ worker[w].stage = "update"
  BY DEF Inv, TypeOK, Update
<1>2. s \in Snapshots /\ ok \in BOOLEAN /\ B \in SUBSET Snapshots
  BY <1>1, WorkerFields
<1>3. s.row \in Rows /\ s.attempts \in 0..MaxAttempts - 1
  BY <1>2 DEF Snapshots
<1>4. n \in 1..MaxAttempts
  BY <1>3, RetryAssumption
<1>5. /\ ok => ObjectOf[s.row] \notin stored
      /\ ~ok => n <= failures[s.row]
  BY <1>1 DEF Inv, InHandInv
<1>6. /\ status' = [status EXCEPT ![s.row] = Outcome(ok, n)]
      /\ attempts' = IF ok THEN attempts ELSE [attempts EXCEPT ![s.row] = n]
      /\ due' = IF ok THEN due ELSE [due EXCEPT ![s.row] = FALSE]
      /\ worker' = [worker EXCEPT ![w] = Working(B)]
      /\ UNCHANGED <<stored, stopped, failures, errors, stops>>
  BY DEF Update, Counted
<1>7. /\ Working(B) \in WorkerStates
      /\ Working(B).stage # "update" /\ Working(B).batch = B
  BY <1>2, WorkingType
<1>8. \A v \in Workers : worker'[v] = IF v = w THEN Working(B) ELSE worker[v]
  BY <1>6 DEF Inv, TypeOK
<1>9. InHandInv'
  BY <1>6, <1>7, <1>8 DEF Inv, InHandInv
<1>10. SnapshotInv'
  BY <1>6, <1>7, <1>8 DEF Inv, SnapshotInv
<1> HIDE DEF s, n, ok, B
<1>11. Outcome(ok, n) \in {"pending", "done", "failed"}
  BY DEF Outcome
<1>12. TypeOK'
  <2>1. status' \in [Rows -> {"none", "pending", "done", "failed"}]
    BY <1>6, <1>11 DEF Inv, TypeOK
  <2>2. attempts' \in [Rows -> 0..MaxAttempts]
    <3>1. attempts \in [Rows -> 0..MaxAttempts]
      BY DEF Inv, TypeOK
    <3>2. n \in 0..MaxAttempts
      BY <1>4, RetryAssumption
    <3> QED
      BY <1>6, <3>1, <3>2
  <2>3. due' \in [Rows -> BOOLEAN] /\ worker' \in [Workers -> WorkerStates]
    BY <1>6, <1>7 DEF Inv, TypeOK
  <2> QED
    BY <1>6, <2>1, <2>2, <2>3 DEF Inv, TypeOK
<1>13. DoneIsGone'
  <2> SUFFICES ASSUME NEW r \in Rows, status'[r] = "done"
               PROVE  ObjectOf[r] \notin stored
    BY <1>6 DEF DoneIsGone
  <2>1. CASE r = s.row
    <3>1. Outcome(ok, n) = "done"
      BY <1>3, <1>6, <2>1 DEF Inv, TypeOK
    <3>2. ok
      BY <3>1 DEF Outcome
    <3> QED
      BY <1>5, <2>1, <3>2
  <2>2. CASE r # s.row
    BY <1>6, <2>2 DEF Inv, TypeOK, DoneIsGone
  <2> QED
    BY <2>1, <2>2
<1>14. CountsFailures'
  <2> SUFFICES ASSUME NEW r \in Rows
               PROVE  /\ attempts'[r] <= failures[r]
                      /\ status'[r] = "failed" => failures[r] >= MaxAttempts
    BY <1>6 DEF CountsFailures
  <2>1. /\ attempts[r] <= failures[r]
        /\ status[r] = "failed" => failures[r] >= MaxAttempts
    BY DEF Inv, CountsFailures
  <2>2. CASE r = s.row /\ ~ok
    <3>1. attempts'[r] = n /\ status'[r] = Outcome(ok, n) /\ n <= failures[r]
      BY <1>5, <1>6, <2>2 DEF Inv, TypeOK
    <3>2. status'[r] = "failed" => n >= MaxAttempts
      BY <3>1, <2>2 DEF Outcome, Spent
    <3>3. failures[r] \in Nat
      BY DEF Inv, TypeOK
    <3> QED
      BY <1>4, <3>1, <3>2, <3>3, RetryAssumption
  <2>3. CASE r = s.row /\ ok
    <3>1. attempts' = attempts /\ status'[r] = "done"
      BY <1>6, <2>3 DEF Inv, TypeOK, Outcome
    <3> QED
      BY <2>1, <3>1
  <2>4. CASE r # s.row
    <3>1. attempts'[r] = attempts[r] /\ status'[r] = status[r]
      BY <1>6, <2>4 DEF Inv, TypeOK
    <3> QED
      BY <2>1, <3>1
  <2> QED
    BY <2>2, <2>3, <2>4
<1> QED
  BY <1>9, <1>10, <1>12, <1>13, <1>14 DEF Inv

\* The steps that only leave a batch, write a row, stop a worker or let time pass.
LEMMA OtherInv ==
  ASSUME Inv,
         \/ \E r \in Rows : Record(r) \/ ComesDue(r)
         \/ \E w \in Workers : LoseUpdate(w) \/ StopWorker(w) \/ Restart(w)
         \/ UNCHANGED vars
  PROVE  Inv'
<1>1. ASSUME NEW r \in Rows, Record(r)
      PROVE  Inv'
  <2>1. /\ status' = [status EXCEPT ![r] = "pending"]
        /\ UNCHANGED <<attempts, due, stored, worker, stopped, failures, errors, stops>>
    BY <1>1 DEF Record
  <2>2. TypeOK' /\ InHandInv' /\ SnapshotInv'
    BY <2>1 DEF Inv, TypeOK, InHandInv, SnapshotInv
  <2>3. DoneIsGone' /\ CountsFailures'
    BY <2>1 DEF Inv, TypeOK, DoneIsGone, CountsFailures
  <2> QED
    BY <2>2, <2>3 DEF Inv
<1>2. ASSUME NEW r \in Rows, ComesDue(r)
      PROVE  Inv'
  BY <1>2 DEF ComesDue, Inv, TypeOK, DoneIsGone, CountsFailures, InHandInv, SnapshotInv
<1>3. ASSUME NEW w \in Workers, LoseUpdate(w) \/ Restart(w)
      PROVE  Inv'
  <2>1. PICK B \in {worker[w].batch, {}} : worker' = [worker EXCEPT ![w] = Working(B)]
    BY <1>3 DEF LoseUpdate, Restart, Working
  <2>2. B \in SUBSET Snapshots
    BY WorkerFields DEF Inv, TypeOK
  <2>3. /\ Working(B) \in WorkerStates
        /\ Working(B).stage # "update" /\ Working(B).batch \subseteq worker[w].batch
    BY <2>2, WorkingType
  <2>4. /\ UNCHANGED <<status, attempts, due, stored, failures, stops>>
        /\ stopped' \subseteq stopped /\ errors' \in 0..MaxErrors
    BY <1>3, RetryAssumption DEF LoseUpdate, Restart, row, Inv, TypeOK
  <2>5. TypeOK'
    BY <2>1, <2>3, <2>4 DEF Inv, TypeOK
  <2>6. (DoneIsGone /\ CountsFailures)'
    BY <2>4 DEF Inv, DoneIsGone, CountsFailures
  <2>7. \A v \in Workers : worker'[v] = IF v = w THEN Working(B) ELSE worker[v]
    BY <2>1 DEF Inv, TypeOK
  <2>8. InHandInv' /\ SnapshotInv'
    BY <2>3, <2>4, <2>7 DEF Inv, InHandInv, SnapshotInv
  <2> QED
    BY <2>5, <2>6, <2>8 DEF Inv
<1>4. ASSUME NEW w \in Workers, StopWorker(w)
      PROVE  Inv'
  BY <1>4, RetryAssumption
     DEF StopWorker, row, Inv, TypeOK, DoneIsGone, CountsFailures, InHandInv, SnapshotInv
<1>5. CASE UNCHANGED vars
  BY <1>5 DEF vars, row, Inv, TypeOK, DoneIsGone, CountsFailures, InHandInv, SnapshotInv
<1> QED
  BY <1>1, <1>2, <1>3, <1>4, <1>5

\* Every step preserves the invariant.
LEMMA StepInv == Inv /\ [Next]_vars => Inv'
<1> SUFFICES ASSUME Inv, [Next]_vars PROVE Inv'
  OBVIOUS
<1>1. CASE \E r \in Rows : Record(r) \/ ComesDue(r)
  BY <1>1, OtherInv
<1>2. ASSUME NEW w \in Workers, WorkerStep(w)
      PROVE  Inv'
  <2>1. CASE Load(w)
    BY <2>1, LoadInv
  <2>2. ASSUME NEW s \in worker[w].batch, NEW ok \in BOOLEAN, NEW gone \in BOOLEAN,
               RemoveFile(w, s, ok, gone)
        PROVE  Inv'
    BY <2>2, RemoveFileInv
  <2>3. CASE Update(w)
    BY <2>3, UpdateInv
  <2>4. CASE LoseUpdate(w)
    BY <2>4, OtherInv
  <2> QED
    BY <1>2, <2>1, <2>2, <2>3, <2>4 DEF WorkerStep
<1>3. CASE \E w \in Workers : StopWorker(w) \/ Restart(w)
  BY <1>3, OtherInv
<1>4. CASE UNCHANGED vars
  BY <1>4, OtherInv
<1> QED
  BY <1>1, <1>2, <1>3, <1>4 DEF Next

\* No batch and no counter leaves its range, whatever the workers overwrite.
THEOREM RetryTypeCorrect == Spec => []TypeOK
<1>1. Inv => TypeOK
  BY DEF Inv
<1> QED
  BY InitInv, StepInv, <1>1, PTL DEF Spec

\* A row that is marked done has lost its object.
THEOREM RetryDoneIsGone == Spec => []DoneIsGone
<1>1. Inv => DoneIsGone
  BY DEF Inv
<1> QED
  BY InitInv, StepInv, <1>1, PTL DEF Spec

\* No row is given up before MaxAttempts removals of its object have failed.
THEOREM RetryCountsFailures == Spec => []CountsFailures
<1>1. Inv => CountsFailures
  BY DEF Inv
<1> QED
  BY InitInv, StepInv, <1>1, PTL DEF Spec

-----------------------------------------------------------------------------
(* The promise of the table *)

\* A step of a worker that holds pending rows only is one of the table's promise, or none.
LEMMA WorkerKeepsPromise ==
  ASSUME Inv, NEW w \in Workers, WorkerStep(w), \A r \in Held(w) : status[r] = "pending"
  PROVE  [Table!Next]_<<status, stored>>
<1> USE DEF Table!Next, Table!Record, Table!Remove, Table!Done, Table!GiveUp
<1>1. worker[w] \in WorkerStates
  BY DEF Inv, TypeOK
<1>2. ASSUME NEW s \in worker[w].batch, NEW ok \in BOOLEAN, NEW gone \in BOOLEAN,
             RemoveFile(w, s, ok, gone)
      PROVE  [Table!Next]_<<status, stored>>
  <2>1. s.row \in Rows /\ status[s.row] = "pending"
    BY <1>1, WorkerFields DEF Snapshots, Held
  <2>2. /\ status' = status
        /\ stored' = stored \ {ObjectOf[s.row]} \/ stored' = stored
    BY <1>2 DEF RemoveFile, row
  <2> QED
    BY <2>1, <2>2
<1>3. ASSUME Update(w)
      PROVE  [Table!Next]_<<status, stored>>
  <2> DEFINE r == worker[w].inHand.row
             n == worker[w].inHand.attempts + 1
             ok == worker[w].ok
  <2>1. r \in Rows /\ status[r] = "pending" /\ (ok => ObjectOf[r] \notin stored)
    BY <1>1, <1>3, WorkerFields DEF Update, Held, Inv, InHandInv, Snapshots
  <2>2. status' = [status EXCEPT ![r] = Outcome(ok, n)] /\ stored' = stored
    BY <1>3 DEF Update
  <2> HIDE DEF r, n, ok
  <2>3. \/ ok /\ Outcome(ok, n) = "done"
        \/ Outcome(ok, n) = "failed"
        \/ Outcome(ok, n) = "pending"
    BY DEF Outcome
  <2>4. CASE Outcome(ok, n) = "pending"
    BY <2>1, <2>2, <2>4 DEF Inv, TypeOK
  <2> QED
    BY <2>1, <2>2, <2>3, <2>4
<1>4. CASE Load(w) \/ LoseUpdate(w)
  BY <1>4 DEF Load, LoseUpdate, row
<1> QED
  BY <1>2, <1>3, <1>4 DEF WorkerStep

\* So is every step of any number of workers but those Outrun names.
LEMMA StepKeepsPromise ==
  Inv /\ [Next]_vars => [Table!Next \/ \E w \in Workers : Outrun(w)]_<<status, stored>>
<1> SUFFICES ASSUME Inv, [Next]_vars
             PROVE  [Table!Next \/ \E w \in Workers : Outrun(w)]_<<status, stored>>
  OBVIOUS
<1>1. ASSUME NEW r \in Rows, Record(r) \/ ComesDue(r)
      PROVE  [Table!Next]_<<status, stored>>
  BY <1>1 DEF Record, ComesDue, Table!Next, Table!Record
<1>2. ASSUME NEW w \in Workers, WorkerStep(w)
      PROVE  [Table!Next \/ Outrun(w)]_<<status, stored>>
  BY <1>2, WorkerKeepsPromise DEF Outrun
<1>3. CASE (\E w \in Workers : StopWorker(w) \/ Restart(w)) \/ UNCHANGED vars
  BY <1>3 DEF StopWorker, Restart, vars, row
<1> QED
  BY <1>1, <1>2, <1>3 DEF Next

\* Any number of server processes keep the table's promise, in every step but those of a
\* worker that holds a row another one has settled since it was loaded.
THEOREM WorkersKeepPromise == Spec => PromiseKeptUnlessOutrun
<1>1. Init => Table!Init
  BY DEF Init, Table!Init
<1> QED
  BY InitInv, StepInv, StepKeepsPromise, <1>1, PTL DEF Spec, PromiseKeptUnlessOutrun

-----------------------------------------------------------------------------
(* One worker alone *)

\* What it has loaded and not yet written back is still pending, each row once.
AloneInv ==
  \A w \in Workers :
    /\ \A s \in worker[w].batch : status[s.row] = "pending"
    /\ \A s, q \in worker[w].batch : s.row = q.row => s = q
    /\ worker[w].stage = "update" =>
         /\ status[worker[w].inHand.row] = "pending"
         /\ \A s \in worker[w].batch : s.row # worker[w].inHand.row

\* With a second worker an update can settle a row of another's batch; with one it
\* settles the row in hand only.
LEMMA AloneStep ==
  ASSUME NEW v, Workers = {v}, Inv, AloneInv, [Next]_vars
  PROVE  AloneInv'
<1>1. worker[v] \in WorkerStates
  BY DEF Inv, TypeOK
<1>2. /\ worker[v].batch \in SUBSET Snapshots
      /\ \A s \in worker[v].batch : status[s.row] = "pending" /\ s.row \in Rows
      /\ \A s, q \in worker[v].batch : s.row = q.row => s = q
  BY <1>1, WorkerFields DEF AloneInv, Snapshots
<1>3. ASSUME NEW r \in Rows, Record(r) \/ ComesDue(r)
      PROVE  AloneInv'
  <2>1. worker' = worker
    BY <1>3 DEF Record, ComesDue
  <2>2. \A q \in Rows : status[q] = "pending" => status'[q] = "pending"
    BY <1>3 DEF Record, ComesDue, Inv, TypeOK
  <2>3. worker[v].stage = "update" => worker[v].inHand.row \in Rows
    BY <1>1, WorkerFields DEF Snapshots
  <2> QED
    BY <1>2, <2>1, <2>2, <2>3 DEF AloneInv
<1>4. ASSUME Load(v)
      PROVE  AloneInv'
  <2>1. PICK S \in SUBSET {r \in Rows : Selectable(r)} :
          worker' = [worker EXCEPT ![v] = Working({Snapshot(r) : r \in S})]
    BY <1>4 DEF Load
  <2> DEFINE B == {Snapshot(r) : r \in S}
  <2>2. /\ B \in SUBSET Snapshots
        /\ \A s \in B : status[s.row] = "pending"
        /\ \A s, q \in B : s.row = q.row => s = q
    <3>1. \A r \in S : /\ r \in Rows /\ status[r] = "pending"
                       /\ attempts[r] \in 0..MaxAttempts - 1
      BY RetryAssumption DEF Selectable, Inv, TypeOK
    <3> QED
      BY <3>1 DEF Snapshot, Snapshots
  <2>3. worker'[v] = Working(B)
    BY <2>1 DEF Inv, TypeOK
  <2> HIDE DEF B
  <2>4. worker'[v].stage # "update" /\ worker'[v].batch = B
    BY <2>2, <2>3, WorkingType
  <2>5. status' = status
    BY <1>4 DEF Load, row
  <2> QED
    BY <2>2, <2>4, <2>5 DEF AloneInv
<1>5. ASSUME NEW s \in worker[v].batch, NEW ok \in BOOLEAN, NEW gone \in BOOLEAN,
             RemoveFile(v, s, ok, gone)
      PROVE  AloneInv'
  <2>1. /\ worker'[v].batch = worker[v].batch \ {s} /\ worker'[v].inHand = s
        /\ status' = status
    BY <1>5 DEF RemoveFile, row, Inv, TypeOK
  <2> QED
    BY <1>2, <2>1 DEF AloneInv
<1>6. ASSUME Update(v)
      PROVE  AloneInv'
  <2> DEFINE h == worker[v].inHand
             B == worker[v].batch
  <2>1. /\ h \in Snapshots /\ h.row \in Rows
        /\ \A s \in B : s.row # h.row
    BY <1>1, <1>6, WorkerFields DEF Update, AloneInv, Snapshots
  <2>2. \A r \in Rows : r # h.row => status'[r] = status[r]
    BY <1>6 DEF Update, Inv, TypeOK
  <2>3. worker'[v] = Working(B)
    BY <1>6 DEF Update, Inv, TypeOK
  <2>4. worker'[v].stage # "update" /\ worker'[v].batch = B
    BY <1>2, <2>3, WorkingType
  <2> QED
    BY <1>2, <2>1, <2>2, <2>4 DEF AloneInv
<1>7. ASSUME LoseUpdate(v) \/ Restart(v)
      PROVE  AloneInv'
  <2>1. status' = status
    BY <1>7 DEF LoseUpdate, Restart, row
  <2>2. worker'[v] = Working(worker[v].batch) \/ worker'[v] = Working({})
    BY <1>7 DEF LoseUpdate, Restart, Working, Inv, TypeOK
  <2>3. worker'[v].stage # "update" /\ worker'[v].batch \subseteq worker[v].batch
    BY <1>2, <2>2, WorkingType
  <2> QED
    BY <1>2, <2>1, <2>3 DEF AloneInv
<1>8. ASSUME StopWorker(v) \/ UNCHANGED vars
      PROVE  AloneInv'
  BY <1>8 DEF StopWorker, vars, row, AloneInv
<1> QED
  BY <1>3, <1>4, <1>5, <1>6, <1>7, <1>8 DEF Next, WorkerStep

\* The one worker is never outrun.
LEMMA AloneRefines ==
  ASSUME NEW v, Workers = {v}, Inv, AloneInv, [Next]_vars
  PROVE  [Table!Next]_<<status, stored>>
<1>1. \A w \in Workers : \A r \in Held(w) : status[r] = "pending"
  BY DEF AloneInv, Held
<1>2. \A w \in Workers : ~Outrun(w)
  BY <1>1 DEF Outrun
<1> QED
  BY <1>2, StepKeepsPromise

\* A single server process keeps the table's promise: a row is pending until it is
\* settled once and for good, and done only when its object is gone.
THEOREM OneWorkerKeepsPromise ==
  ASSUME NEW v, Workers = {v}
  PROVE  Spec => PromiseKept
<1>1. Init => AloneInv
  BY DEF Init, Idle, AloneInv
<1>2. Init => Table!Init
  BY DEF Init, Table!Init
<1>3. Inv /\ AloneInv /\ [Next]_vars => AloneInv'
  BY AloneStep
<1>4. Inv /\ AloneInv /\ [Next]_vars => [Table!Next]_<<status, stored>>
  BY AloneRefines
<1> QED
  BY InitInv, StepInv, <1>1, <1>2, <1>3, <1>4, PTL DEF Spec, PromiseKept, Table!Spec

-----------------------------------------------------------------------------
(* The audit writer *)

\* The places of an event, and the values of the variables.
Places == {"new", "refused", "sending", "panicked", "queued", "dropped", "batched",
           "stored", "lost"}
WriterType ==
  /\ at \in [Events -> Places] /\ closed \in BOOLEAN
  /\ writer \in {"wait", "flush", "last", "done"}
  /\ shutdown \in {"no", "waiting", "returned"}

\* The channel and the batch keep to their sizes; a batch that is full is inserted next.
BuffersInv ==
  /\ IsFiniteSet(Queued) /\ Cardinality(Queued) <= Capacity
  /\ IsFiniteSet(Batched) /\ Cardinality(Batched) <= BatchSize
  /\ writer = "wait" => Cardinality(Batched) < BatchSize

\* The writer ends only when the channel is closed and empty, and with an empty batch;
\* a closed channel takes nothing in.
DrainedInv ==
  /\ writer \in {"last", "done"} => closed /\ Queued = {}
  /\ writer = "done" => Batched = {}
WriterInv == WriterType /\ BuffersInv /\ DrainedInv

\* It begins with empty buffers.
LEMMA WriterInitInv == AuditInit => WriterInv
<1> SUFFICES ASSUME AuditInit PROVE WriterInv
  OBVIOUS
<1>1. Queued = {} /\ Batched = {}
  BY DEF AuditInit, Queued, Batched
<1>2. IsFiniteSet({}) /\ Cardinality({}) = 0
  BY FS_EmptySet
<1>3. WriterType
  BY DEF AuditInit, WriterType, Places
<1>4. BuffersInv /\ DrainedInv
  BY <1>1, <1>2, SizesAssumption DEF AuditInit, BuffersInv, DrainedInv
<1> QED
  BY <1>3, <1>4 DEF WriterInv

\* What a move of events does to the two buffers.
LEMMA MoveSets ==
  ASSUME WriterType, NEW S \in SUBSET Events, NEW p \in Places, Move(S, p)
  PROVE  /\ at' \in [Events -> Places]
         /\ Queued' = IF p = "queued" THEN Queued \cup S ELSE Queued \ S
         /\ Batched' = IF p = "batched" THEN Batched \cup S ELSE Batched \ S
BY DEF WriterType, Move, Queued, Batched

\* A step of a producer keeps the invariant: it fills the channel up to its size, and not
\* once it is closed.
LEMMA EmitInv ==
  ASSUME WriterInv, NEW e \in Events, Check(e) \/ Send(e)
  PROVE  WriterInv'
<1>1. UNCHANGED <<closed, writer, shutdown>> /\ WriterType
  BY DEF Check, Send, WriterInv
<1>2. /\ at[e] \in {"new", "sending"} /\ e \notin Queued /\ e \notin Batched
      /\ \E p \in Places : /\ Move({e}, p) /\ p # "batched"
                           /\ p = "queued" => ~closed /\ HasRoom
  BY DEF Check, Send, Queued, Batched, Places
<1>3. PICK p \in Places : /\ Move({e}, p) /\ p # "batched"
                          /\ p = "queued" => ~closed /\ HasRoom
  BY <1>2
<1>4. /\ at' \in [Events -> Places] /\ Batched' = Batched
      /\ Queued' = IF p = "queued" THEN Queued \cup {e} ELSE Queued
  <2>1. /\ at' \in [Events -> Places]
        /\ Queued' = IF p = "queued" THEN Queued \cup {e} ELSE Queued \ {e}
        /\ Batched' = IF p = "batched" THEN Batched \cup {e} ELSE Batched \ {e}
    BY <1>1, <1>3, MoveSets
  <2>2. Queued \ {e} = Queued /\ Batched \ {e} = Batched
    BY <1>2
  <2> QED
    BY <1>3, <2>1, <2>2
<1>5. IsFiniteSet(Queued') /\ Cardinality(Queued') <= Capacity
  <2>1. IsFiniteSet(Queued) /\ Cardinality(Queued) \in Nat /\ Cardinality(Queued) <= Capacity
    BY FS_CardinalityType DEF WriterInv, BuffersInv
  <2>2. /\ IsFiniteSet(Queued \cup {e})
        /\ Cardinality(Queued \cup {e}) = Cardinality(Queued) + 1
    BY <1>2, <2>1, FS_AddElement
  <2> QED
    BY <1>3, <1>4, <2>1, <2>2, SizesAssumption DEF HasRoom
<1>6. DrainedInv'
  BY <1>1, <1>3, <1>4 DEF WriterInv, DrainedInv
<1> QED
  BY <1>1, <1>4, <1>5, <1>6 DEF WriterInv, WriterType, BuffersInv

\* The writer takes events over until the batch is full, and empties it.
LEMMA WriterStepInv ==
  ASSUME WriterInv, WriterStep
  PROVE  WriterInv'
<1>1. WriterType /\ IsFiniteSet(Queued) /\ Cardinality(Queued) \in Nat
      /\ IsFiniteSet(Batched) /\ Cardinality(Batched) \in Nat
  BY FS_CardinalityType DEF WriterInv, BuffersInv
<1>2. ASSUME NEW e \in Events, Receive(e) PROVE WriterInv'
  <2>1. /\ writer = "wait" /\ e \in Queued /\ e \notin Batched /\ Move({e}, "batched")
        /\ writer' = IF Full(Batched \cup {e}) THEN "flush" ELSE "wait"
        /\ UNCHANGED <<closed, shutdown>>
    BY <1>2 DEF Receive, Queued, Batched
  <2>2. /\ at' \in [Events -> Places] /\ Queued' = Queued \ {e}
        /\ Batched' = Batched \cup {e}
    BY <1>1, <2>1, MoveSets DEF Places
  <2>3. /\ IsFiniteSet(Batched') /\ Cardinality(Batched') = Cardinality(Batched) + 1
    BY <1>1, <2>1, <2>2, FS_AddElement
  <2>4. /\ IsFiniteSet(Queued') /\ Cardinality(Queued') = Cardinality(Queued) - 1
    BY <1>1, <2>1, <2>2, FS_RemoveElement
  <2>5. BuffersInv'
    BY <1>1, <2>1, <2>2, <2>3, <2>4, SizesAssumption DEF WriterInv, BuffersInv, Full
  <2> QED
    BY <1>1, <2>1, <2>2, <2>5 DEF WriterInv, WriterType, DrainedInv
<1>3. CASE TickerFires \/ LastFlush
  BY <1>3 DEF TickerFires, LastFlush, Drained, WriterInv, WriterType, BuffersInv, DrainedInv,
              Queued, Batched
<1>4. ASSUME NEW ok \in BOOLEAN, Flush(ok) PROVE WriterInv'
  <2>1. /\ writer \in {"flush", "last"} /\ writer' = IF writer = "last" THEN "done" ELSE "wait"
        /\ UNCHANGED <<closed, shutdown>>
        /\ \E p \in {"stored", "lost"} : Move(Batched, p)
    BY <1>4 DEF Flush
  <2>2. at' \in [Events -> Places] /\ Queued' = Queued /\ Batched' = {}
    <3>1. Queued \cap Batched = {} /\ Batched \in SUBSET Events
      BY DEF Queued, Batched
    <3> QED
      BY <1>1, <2>1, <3>1, MoveSets DEF Places
  <2> QED
    BY <1>1, <2>1, <2>2, FS_EmptySet, SizesAssumption
    DEF WriterInv, WriterType, BuffersInv, DrainedInv
<1> QED
  BY <1>2, <1>3, <1>4 DEF WriterStep

\* Every step keeps the invariant; Shutdown closes a channel whatever is in it.
LEMMA AuditStepInv == WriterInv /\ [AuditNext]_auditVars => WriterInv'
<1> SUFFICES ASSUME WriterInv, [AuditNext]_auditVars PROVE WriterInv'
  OBVIOUS
<1>1. CASE UNCHANGED auditVars \/ Shutdown \/ \E inTime \in BOOLEAN : ShutdownReturns(inTime)
  BY <1>1 DEF auditVars, Shutdown, ShutdownReturns, WriterInv, WriterType, BuffersInv,
              DrainedInv, Queued, Batched
<1> QED
  BY <1>1, EmitInv, WriterStepInv DEF AuditNext

\* The invariant holds in every state.
LEMMA WriterHolds == AuditSpec => []WriterInv
BY WriterInitInv, AuditStepInv, PTL DEF AuditSpec

\* However many goroutines send while the writer takes over and the ticker fires, the
\* channel never holds more than its capacity and an insert never more than a batch.
THEOREM AuditBuffersBounded == AuditSpec => [](WriterType /\ BuffersInv)
<1>1. WriterInv => WriterType /\ BuffersInv
  BY DEF WriterInv
<1> QED
  BY WriterHolds, <1>1, PTL

\* When Shutdown returns in time every event that Emit accepted was inserted, or lost
\* with an insert that failed: none is left in the channel or in the batch, and none gets
\* there afterwards.
LeavesNothing ==
  [][\A e \in Events : /\ ShutdownReturns(TRUE) => at[e] \notin {"queued", "batched"}
                       /\ writer = "done" => at'[e] \notin {"queued", "batched"}]_auditVars
THEOREM AuditShutdownLeavesNothing == AuditSpec => LeavesNothing
<1>1. WriterInv /\ WriterInv' /\ [AuditNext]_auditVars =>
        [\A e \in Events : /\ ShutdownReturns(TRUE) => at[e] \notin {"queued", "batched"}
                           /\ writer = "done" => at'[e] \notin {"queued", "batched"}]_auditVars
  <2> SUFFICES ASSUME WriterInv, WriterInv', AuditNext, NEW e \in Events
               PROVE  /\ ShutdownReturns(TRUE) => at[e] \notin {"queued", "batched"}
                      /\ writer = "done" => at'[e] \notin {"queued", "batched"}
    OBVIOUS
  <2>1. writer = "done" => Queued = {} /\ Batched = {}
    BY DEF WriterInv, DrainedInv
  <2>2. writer = "done" => writer' = "done"
    BY DEF AuditNext, Check, Send, WriterStep, Receive, TickerFires, LastFlush, Flush, Shutdown,
           ShutdownReturns
  <2>3. writer' = "done" => Queued' = {} /\ Batched' = {}
    BY DEF WriterInv, DrainedInv
  <2> QED
    BY <2>1, <2>2, <2>3 DEF Queued, Batched, ShutdownReturns
<1> QED
  BY WriterHolds, <1>1, PTL DEF AuditSpec, LeavesNothing
=============================================================================

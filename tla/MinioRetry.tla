----------------------------- MODULE MinioRetry -----------------------------
(***************************************************************************)
(* common/audit/audit.go, the compensation queue for objects whose removal *)
(* from MinIO failed.  Every server process runs one worker: each minute   *)
(* it loads the rows that are due, and for each removes the object and     *)
(* writes the outcome back.  What it writes is computed from the row as it *)
(* was loaded; neither a lock nor a condition of the UPDATE protects it.   *)
(***************************************************************************)
EXTENDS Integers, FiniteSets

CONSTANTS
  Rows,         \* rows of minio_delete_retries
  Objects,      \* object names
  ObjectOf,     \* the object a row is about
  Workers,      \* server processes
  MaxAttempts,  \* tries per row (5)
  BatchLimit,   \* rows per load (50)
  MaxErrors,    \* bound: updates that are lost
  MaxStops      \* bound: workers that are stopped

ASSUME RetryAssumption ==
  /\ ObjectOf \in [Rows -> Objects]
  /\ MaxAttempts \in Nat \ {0} /\ BatchLimit \in Nat \ {0}
  /\ MaxErrors \in Nat /\ MaxStops \in Nat

VARIABLES
  status, attempts, due,  \* columns of each row; due: next_run_at has come
  stored,                 \* the objects that are in the bucket
  worker,                 \* what each worker does
  stopped,                \* the workers whose context is cancelled
  failures,               \* history: failed removals per row
  errors, stops           \* what has been used of the bounds

row  == <<status, attempts, due>>
vars == <<row, stored, worker, stopped, failures, errors, stops>>

\* A worker holds the rows of its batch as it loaded them, and, between the removal
\* and the update, the row in hand and the outcome.
Idle          == [stage |-> "idle", batch |-> {}]
Working(S)    == IF S = {} THEN Idle ELSE [stage |-> "batch", batch |-> S]
Snapshot(r)   == [row |-> r, attempts |-> attempts[r]]

Init ==
  /\ status = [r \in Rows |-> "none"]
  /\ attempts = [r \in Rows |-> 0]
  /\ due = [r \in Rows |-> FALSE]
  /\ stored \in SUBSET Objects
  /\ worker = [w \in Workers |-> Idle]
  /\ stopped = {}
  /\ failures = [r \in Rows |-> 0]
  /\ errors = 0 /\ stops = 0

-----------------------------------------------------------------------------
(* RecordMinioDeleteRetry, and time *)

Record(r) ==
  /\ status[r] = "none"
  /\ status' = [status EXCEPT ![r] = "pending"]
  /\ UNCHANGED <<attempts, due, stored, worker, stopped, failures, errors, stops>>

\* next_run_at, a minute after the row was written, or attempts^2 minutes after it
\* failed, comes.
ComesDue(r) ==
  /\ status[r] = "pending" /\ ~due[r]
  /\ due' = [due EXCEPT ![r] = TRUE]
  /\ UNCHANGED <<status, attempts, stored, worker, stopped, failures, errors, stops>>

-----------------------------------------------------------------------------
(* runMinioDeleteRetries *)

Selectable(r) == status[r] = "pending" /\ due[r] /\ attempts[r] < MaxAttempts

\* The load takes as many rows as there are, up to the limit; which ones, and in what
\* order they are worked off, is left open.
Load(w) ==
  /\ worker[w] = Idle /\ w \notin stopped
  /\ \E S \in SUBSET {r \in Rows : Selectable(r)} :
       /\ S # {} /\ Cardinality(S) <= BatchLimit
       /\ \/ Cardinality(S) = BatchLimit
          \/ S = {r \in Rows : Selectable(r)}
       /\ worker' = [worker EXCEPT ![w] = Working({Snapshot(r) : r \in S})]
  /\ UNCHANGED <<row, stored, stopped, failures, errors, stops>>

\* RemoveFile.  Removing what is not there succeeds; an error may hide a success.
RemoveFile(w, s, ok, gone) ==
  /\ worker[w].stage = "batch" /\ s \in worker[w].batch
  /\ ok => gone
  /\ stored' = IF gone THEN stored \ {ObjectOf[s.row]} ELSE stored
  /\ failures' = IF ok THEN failures ELSE [failures EXCEPT ![s.row] = @ + 1]
  /\ worker' = [worker EXCEPT ![w] = [stage |-> "update", batch |-> @.batch \ {s},
                                      inHand |-> s, ok |-> ok]]
  /\ UNCHANGED <<row, stopped, errors, stops>>

\* Fault: a row is never given up.
SpentLate(n) == n > MaxAttempts
Spent(n)     == n >= MaxAttempts

\* Fault: a row whose removal failed is marked done.
AlwaysDone(ok, n) == IF ok \/ ~Spent(n) THEN "done" ELSE "failed"
Outcome(ok, n)    == IF ok THEN "done" ELSE IF Spent(n) THEN "failed" ELSE "pending"

Counted(n) == n

\* The update, from the snapshot.
Update(w) ==
  /\ worker[w].stage = "update" /\ w \notin stopped
  /\ LET s == worker[w].inHand
         n == s.attempts + 1
         ok == worker[w].ok
     IN /\ status' = [status EXCEPT ![s.row] = Outcome(ok, n)]
        /\ attempts' = IF ok THEN attempts ELSE [attempts EXCEPT ![s.row] = Counted(n)]
        /\ due' = IF ok THEN due ELSE [due EXCEPT ![s.row] = FALSE]
  /\ worker' = [worker EXCEPT ![w] = Working(@.batch)]
  /\ UNCHANGED <<stored, stopped, failures, errors, stops>>

\* Its error is ignored.  The context of the update is the one that
\* StopMinioDeleteRetryWorker cancels, that of the removal is not.
LoseUpdate(w) ==
  /\ worker[w].stage = "update"
  /\ \/ w \in stopped /\ UNCHANGED errors
     \/ w \notin stopped /\ errors < MaxErrors /\ errors' = errors + 1
  /\ worker' = [worker EXCEPT ![w] = Working(@.batch)]
  /\ UNCHANGED <<row, stored, stopped, failures, stops>>

StopWorker(w) ==
  /\ w \notin stopped /\ stops < MaxStops
  /\ stopped' = stopped \cup {w} /\ stops' = stops + 1
  /\ UNCHANGED <<row, stored, worker, failures, errors>>

\* The process ends, at any point of the batch, and a new one starts.
Restart(w) ==
  /\ w \in stopped
  /\ stopped' = stopped \ {w}
  /\ worker' = [worker EXCEPT ![w] = Idle]
  /\ UNCHANGED <<row, stored, failures, errors, stops>>

-----------------------------------------------------------------------------
WorkerStep(w) ==
  \/ Load(w)
  \/ \E s \in worker[w].batch, ok, gone \in BOOLEAN : RemoveFile(w, s, ok, gone)
  \/ Update(w)
  \/ LoseUpdate(w)

Next ==
  \/ \E r \in Rows : Record(r) \/ ComesDue(r)
  \/ \E w \in Workers : WorkerStep(w) \/ StopWorker(w) \/ Restart(w)

Spec == Init /\ [][Next]_vars

\* The ticker of a worker fires every minute and its calls have timeouts of their own;
\* time passes.  That a stopped process comes back is not assumed.
Fairness ==
  /\ \A w \in Workers : WF_vars(WorkerStep(w))
  /\ \A r \in Rows : WF_vars(ComesDue(r))

FairSpec == Spec /\ Fairness

-----------------------------------------------------------------------------
(* Properties *)

Snapshots == [row : Rows, attempts : 0..MaxAttempts - 1]
WorkerStates ==
  [stage : {"idle", "batch"}, batch : SUBSET Snapshots] \cup
  [stage : {"update"}, batch : SUBSET Snapshots, inHand : Snapshots, ok : BOOLEAN]

\* No row is loaded, or counted, beyond the last attempt.
TypeOK ==
  /\ status \in [Rows -> {"none", "pending", "done", "failed"}]
  /\ attempts \in [Rows -> 0..MaxAttempts]
  /\ due \in [Rows -> BOOLEAN]
  /\ stored \subseteq Objects
  /\ worker \in [Workers -> WorkerStates]
  /\ stopped \subseteq Workers
  /\ failures \in [Rows -> Nat]
  /\ errors \in 0..MaxErrors /\ stops \in 0..MaxStops

\* Whatever the workers overwrite of each other's, a row is marked done only when its
\* object is gone.
DoneIsGone == \A r \in Rows : status[r] = "done" => ObjectOf[r] \notin stored

\* The attempts of a row never exceed the removals that did fail, so that a row is
\* given up only after MaxAttempts of them.
CountsFailures ==
  \A r \in Rows :
    /\ attempts[r] <= failures[r]
    /\ status[r] = "failed" => failures[r] >= MaxAttempts

\* A row does not stay pending: it ends done or failed and stays so, while one process
\* lives, even if the workers overwrite each other's attempts.
SettlesForGood ==
  \A r \in Rows :
    (status[r] = "pending") ~> [](status[r] \in {"done", "failed"} \/ stopped = Workers)

\* One process alone: the table keeps its promise.
Table == INSTANCE RetryTable
PromiseKept == Table!Spec

\* Several processes: it keeps it too, but for the removals and updates of a worker that
\* holds a row another has settled since it was loaded.
Held(w) == {s.row : s \in worker[w].batch} \cup
           (IF worker[w].stage = "update" THEN {worker[w].inHand.row} ELSE {})
Outrun(w) == WorkerStep(w) /\ \E r \in Held(w) : status[r] # "pending"
PromiseKeptUnlessOutrun ==
  Table!Init /\ [][Table!Next \/ \E w \in Workers : Outrun(w)]_<<status, stored>>
=============================================================================

------------------------------- MODULE Market -------------------------------
(***************************************************************************)
(* services/market/app/market.go: publishing and deleting apps.  An app is *)
(* a row of apps and an object in MinIO that the row's metadata names; no  *)
(* transaction spans the two.  A publication uploads the object and then   *)
(* inserts the row, and removes the object again when the insert fails; a  *)
(* deletion deletes the row and then removes the object, and leaves the    *)
(* removal to minio_delete_retries when that fails.  An idempotency key    *)
(* makes a repeated publication answer with the app of the first one.  The *)
(* metadata is the client's to replace: both the key and the object name   *)
(* in it may become anything.                                              *)
(***************************************************************************)
EXTENDS Integers, FiniteSets

CONSTANTS
  Apps,       \* calls of PublishApp; each makes up an app_id, and an object name from it
  Keys,       \* pairs of a developer and an idempotency key
  NoKey,      \* a publication without a key
  NoApp,      \* an answer, or an object name, that names no app
  KeyOf,      \* the key of each publication
  Edits,      \* pairs of an app and the metadata that its owner may put in its place
  Deleters,   \* calls of DeleteApp by the owner
  Target      \* the app of each deletion

\* What the model tells apart in the metadata of an app: the idempotency key, and the
\* object name, which is known by the app that made it up.
Metadata   == [key : Keys \cup {NoKey}, name : Apps \cup {NoApp}]
NoMetadata == [key |-> NoKey, name |-> NoApp]

ASSUME MarketAssumption ==
  /\ KeyOf \in [Apps -> Keys \cup {NoKey}] /\ NoKey \notin Keys
  /\ Edits \subseteq Apps \X Metadata
  /\ Target \in [Deleters -> Apps] /\ NoApp \notin Apps

VARIABLES
  rows,       \* the apps that have a row
  meta,       \* its metadata
  stored,     \* the objects in MinIO
  status,     \* rows of minio_delete_retries: a deletion and the object it could not remove
  locks,      \* the publication locks that are set in Redis
  publish,    \* where each publication is
  answer,     \* the app that its answer names
  delete,     \* where each deletion is, and the object name it has read
  created,    \* history: the apps that ever had a row,
  rewritten,  \* those whose metadata a client replaced,
  borrowed,   \* those whose object a client named in the metadata of another app,
  ghosts,     \* those whose insert took effect though its caller saw an error,
  dropped     \* and those whose object was let go of by a mishap that nothing records

table == <<rows, meta, created, rewritten, borrowed>>
lost  == <<ghosts, dropped>>
vars  == <<table, stored, status, locks, publish, answer, delete, lost>>

RetryRows == Deleters \X Apps
Retries   == INSTANCE RetryTable WITH
  Rows <- RetryRows, Objects <- Apps, ObjectOf <- [r \in RetryRows |-> r[2]]

Deletion(at, o) == [at |-> at, object |-> o]
Deletions == [at : {"read", "row", "object", "record", "done"}, object : Apps \cup {NoApp}]
Finished  == Deletion("done", NoApp)

Init ==
  /\ rows = {} /\ created = {} /\ rewritten = {} /\ borrowed = {}
  /\ meta = [a \in Apps |-> NoMetadata]
  /\ stored = {} /\ ghosts = {} /\ dropped = {}
  /\ status = [r \in RetryRows |-> "none"]
  /\ locks = {}
  /\ publish = [a \in Apps |-> "lookup"]
  /\ answer = [a \in Apps |-> NoApp]
  /\ delete = [d \in Deleters |-> Deletion("read", NoApp)]

At(a, stage)   == publish[a] = stage
Go(a, stage)   == publish' = [publish EXCEPT ![a] = stage]
Reply(a, b)    == answer' = [answer EXCEPT ![a] = b]
Drop(a)        == dropped' = dropped \cup {a} /\ UNCHANGED ghosts

\* GetByDeveloperIDAndIdempotencyKey
SameKey(a)     == {b \in rows : meta[b].key = KeyOf[a]}

-----------------------------------------------------------------------------
(* PublishApp *)

\* The lookup of an earlier publication with the key.
Lookup(a) ==
  /\ At(a, "lookup")
  /\ \/ KeyOf[a] = NoKey /\ Go(a, "upload") /\ UNCHANGED answer
     \/ KeyOf[a] # NoKey /\ SameKey(a) = {} /\ Go(a, "lock") /\ UNCHANGED answer
     \/ \E b \in SameKey(a) : KeyOf[a] # NoKey /\ Reply(a, b) /\ Go(a, "done")
  /\ UNCHANGED <<table, stored, status, locks, delete, lost>>

\* Its error, or that of acquirePublishLock, is answered.
LookupFails(a) ==
  /\ At(a, "lookup") \/ At(a, "lock")
  /\ KeyOf[a] # NoKey /\ Go(a, "done")
  /\ UNCHANGED <<table, stored, status, locks, answer, delete, lost>>

\* acquirePublishLock: SetNX.
Lock(a) ==
  /\ At(a, "lock")
  /\ locks' = locks \cup {KeyOf[a]}
  /\ Go(a, IF KeyOf[a] \in locks THEN "done" ELSE "upload")
  /\ UNCHANGED <<table, stored, status, answer, delete, lost>>

\* The lock is set but its answer is lost: 500, and the lock stays until it expires.
LockAnswerLost(a) ==
  /\ At(a, "lock")
  /\ locks' = locks \cup {KeyOf[a]} /\ Go(a, "done")
  /\ UNCHANGED <<table, stored, status, answer, delete, lost>>

\* Two minutes are over, whatever the holder is doing.
LockExpires(k) ==
  /\ k \in locks /\ locks' = locks \ {k}
  /\ UNCHANGED <<table, stored, status, publish, answer, delete, lost>>

Upload(a) ==
  /\ At(a, "upload")
  /\ stored' = stored \cup {a} /\ Go(a, "insert")
  /\ UNCHANGED <<table, status, locks, answer, delete, lost>>

\* The error is answered; nothing is removed, though the object may be there.
UploadFails(a) ==
  /\ At(a, "upload")
  /\ \/ UNCHANGED <<stored, lost>>
     \/ stored' = stored \cup {a} /\ Drop(a)
  /\ Go(a, "unlock")
  /\ UNCHANGED <<table, status, locks, answer, delete>>

\* Fault: the unique index on developer and idempotency key is missing.
NoUniqueIndex(a, k) == TRUE
KeyFree(a, k)       == k = NoKey \/ \A b \in rows \ {a} : meta[b].key # k

InsertRow(a) ==
  /\ KeyFree(a, KeyOf[a])
  /\ rows' = rows \cup {a} /\ created' = created \cup {a}
  /\ meta' = [meta EXCEPT ![a] = [key |-> KeyOf[a], name |-> a]]
  /\ UNCHANGED <<rewritten, borrowed>>

Insert(a) ==
  /\ At(a, "insert")
  /\ InsertRow(a) /\ Reply(a, a) /\ Go(a, "unlock")
  /\ UNCHANGED <<stored, status, locks, delete, lost>>

\* Fault: a failed insert is answered without removing the object.
NoCompensation(a) == "unlock"
Compensation(a)   == IF KeyOf[a] = NoKey THEN "remove" ELSE "relookup"

\* The insert fails, by the unique index, by an error, or after five seconds; then it
\* may have been committed all the same.
InsertFails(a) ==
  /\ At(a, "insert")
  /\ \/ UNCHANGED <<table, ghosts>>
     \/ InsertRow(a) /\ ghosts' = ghosts \cup {a}
  /\ Go(a, Compensation(a))
  /\ UNCHANGED <<stored, status, locks, answer, delete, dropped>>

\* Was another request with this key faster?
Found(a) == SameKey(a)

Relookup(a) ==
  /\ At(a, "relookup")
  /\ \/ UNCHANGED answer
     \/ \E b \in Found(a) : Reply(a, b)
  /\ Go(a, "remove")
  /\ UNCHANGED <<table, stored, status, locks, delete, lost>>

\* removeUploadedObject; its error is only logged.
RemoveUploaded(a) ==
  /\ At(a, "remove")
  /\ \/ stored' = stored \ {a} /\ UNCHANGED lost
     \/ UNCHANGED stored /\ Drop(a)
  /\ Go(a, "unlock")
  /\ UNCHANGED <<table, status, locks, answer, delete>>

\* The deferred unlock: DEL, whoever holds the lock by now; its error is ignored.
Unlock(a) ==
  /\ At(a, "unlock")
  /\ locks' \in {locks, locks \ {KeyOf[a]}}
  /\ Go(a, "done")
  /\ UNCHANGED <<table, stored, status, answer, delete, lost>>

-----------------------------------------------------------------------------
(* UpdateApp, DeleteApp *)

\* UpdateApp with metadata in its body: the column is replaced as a whole by what the
\* client sent, unless the unique index refuses its key.
ReplaceMetadata(a, m) ==
  /\ <<a, m>> \in Edits /\ a \in rows /\ KeyFree(a, m.key)
  /\ meta' = [meta EXCEPT ![a] = m]
  /\ rewritten' = rewritten \cup {a}
  /\ borrowed' = borrowed \cup ({m.name} \ {a, NoApp})
  /\ IF m.name = a THEN UNCHANGED lost ELSE Drop(a)
  /\ UNCHANGED <<rows, created, stored, status, locks, publish, answer, delete>>

In(d, stage) == delete[d].at = stage
To(d, next)  == delete' = [delete EXCEPT ![d] = next]
Object(d)    == delete[d].object

\* A deletion ends without the removal of its object: if that is the app's own, nothing
\* else knows of it any more.
LetGo(d) == IF Object(d) = Target[d] THEN Drop(Target[d]) ELSE UNCHANGED lost

\* The object name is taken from the row as it is now; no row, or an error, is
\* answered with 404.  Fault: the object goes first.
ObjectFirst(d) == Deletion("object", meta[Target[d]].name)
RowFirst(d)    == Deletion("row", meta[Target[d]].name)

Read(d) ==
  /\ In(d, "read")
  /\ To(d, Finished) \/ (Target[d] \in rows /\ To(d, RowFirst(d)))
  /\ UNCHANGED <<table, stored, status, locks, publish, answer, lost>>

Delete(a) ==
  /\ rows' = rows \ {a} /\ meta' = [meta EXCEPT ![a] = NoMetadata]
  /\ UNCHANGED <<created, rewritten, borrowed>>

\* The DELETE, which may find no row any more, and goes on all the same.
DeleteRow(d) ==
  /\ In(d, "row")
  /\ To(d, IF Object(d) = NoApp THEN Finished ELSE Deletion("object", Object(d)))
  /\ Delete(Target[d])
  /\ UNCHANGED <<stored, status, locks, publish, answer, lost>>

DeleteFails(d) ==
  /\ In(d, "row") /\ To(d, Finished)
  /\ \/ UNCHANGED <<table, lost>>
     \/ Delete(Target[d]) /\ LetGo(d)
  /\ UNCHANGED <<stored, status, locks, publish, answer>>

RemoveObject(d) ==
  /\ In(d, "object") /\ To(d, Finished)
  /\ stored' = stored \ {Object(d)}
  /\ UNCHANGED <<table, status, locks, publish, answer, lost>>

\* An error, which may hide a success.  Fault: the failure is only logged.
OnlyLogged(d) == Finished
Failed(d)     == Deletion("record", Object(d))

RemoveFails(d) ==
  /\ In(d, "object") /\ To(d, Failed(d))
  /\ stored' \in {stored, stored \ {Object(d)}}
  /\ UNCHANGED <<table, status, locks, publish, answer, lost>>

\* RecordMinioDeleteRetry; its error is only logged.
Record(d) ==
  /\ In(d, "record") /\ To(d, Finished)
  /\ \/ Retries!Record(<<d, Object(d)>>) /\ UNCHANGED lost
     \/ UNCHANGED <<status, stored>> /\ LetGo(d)
  /\ UNCHANGED <<table, locks, publish, answer>>

-----------------------------------------------------------------------------
\* The process of a request dies: what it was about to do is not done.
CrashPublish(a) ==
  /\ ~At(a, "done") /\ Go(a, "done")
  /\ IF publish[a] \in {"insert", "relookup", "remove"} THEN Drop(a) ELSE UNCHANGED lost
  /\ UNCHANGED <<table, stored, status, locks, answer, delete>>

CrashDelete(d) ==
  /\ ~In(d, "done") /\ To(d, Finished)
  /\ IF In(d, "object") \/ In(d, "record") THEN LetGo(d) ELSE UNCHANGED lost
  /\ UNCHANGED <<table, stored, status, locks, publish, answer>>

\* The retry worker does what RetryTable says of it.
Worker(r) ==
  /\ Retries!Remove(r) \/ Retries!Done(r) \/ Retries!GiveUp(r)
  /\ UNCHANGED <<table, locks, publish, answer, delete, lost>>

PublishStep(a) ==
  \/ Lookup(a) \/ LookupFails(a) \/ Lock(a) \/ LockAnswerLost(a)
  \/ Upload(a) \/ UploadFails(a) \/ Insert(a) \/ InsertFails(a)
  \/ Relookup(a) \/ RemoveUploaded(a) \/ Unlock(a)

DeleteStep(d) ==
  \/ Read(d) \/ DeleteRow(d) \/ DeleteFails(d)
  \/ RemoveObject(d) \/ RemoveFails(d) \/ Record(d)

Next ==
  \/ \E a \in Apps : PublishStep(a) \/ CrashPublish(a)
  \/ \E a \in Apps, m \in Metadata : ReplaceMetadata(a, m)
  \/ \E k \in Keys : LockExpires(k)
  \/ \E d \in Deleters : DeleteStep(d) \/ CrashDelete(d)
  \/ \E r \in RetryRows : Worker(r)

Spec == Init /\ [][Next]_vars

\* Once under way a request goes on: its calls fail or return in time.  The worker
\* settles its rows (MinioRetry!SettlesForGood).
Fairness ==
  /\ \A a \in Apps : WF_vars(~At(a, "lookup") /\ PublishStep(a))
  /\ \A d \in Deleters : WF_vars(~In(d, "read") /\ DeleteStep(d))
  /\ \A r \in RetryRows : WF_vars(/\ Retries!Done(r) \/ Retries!GiveUp(r)
                                  /\ UNCHANGED <<table, locks, publish, answer, delete, lost>>)

FairSpec == Spec /\ Fairness

-----------------------------------------------------------------------------
(* Properties *)

TypeOK ==
  /\ rows \subseteq created /\ created \subseteq Apps /\ stored \subseteq Apps
  /\ meta \in [Apps -> Metadata]
  /\ rewritten \subseteq created /\ borrowed \subseteq Apps
  /\ ghosts \subseteq created /\ dropped \subseteq Apps
  /\ status \in [RetryRows -> {"none", "pending", "done", "failed"}]
  /\ locks \subseteq Keys
  /\ publish \in [Apps -> {"lookup", "lock", "upload", "insert", "relookup", "remove",
                           "unlock", "done"}]
  /\ answer \in [Apps -> Apps \cup {NoApp}]
  /\ delete \in [Deleters -> Deletions]

\* Two answers to one key name the same app, as long as both apps are there with the
\* metadata they were published with.
OneAnswerPerKey ==
  \A a, b \in Apps :
    /\ KeyOf[a] = KeyOf[b] /\ KeyOf[a] # NoKey
    /\ {answer[a], answer[b]} \subseteq rows \ rewritten
    => answer[a] = answer[b]

\* One app per idempotency key, although the Redis lock expires under its holder and
\* is deleted by whoever finishes, and clients write keys into the metadata themselves.
OneAppPerKey ==
  /\ \A a, b \in rows : meta[a].key = meta[b].key /\ meta[a].key # NoKey => a = b
  /\ OneAnswerPerKey

\* A publication that is answered with an app is answered with one that was published,
\* with the key of the request, or was given that key by its owner later.
AnswerIsPublished ==
  \A a \in Apps : answer[a] # NoApp =>
    /\ answer[a] \in created
    /\ KeyOf[answer[a]] = KeyOf[a] \/ answer[a] \in rewritten

\* A row that names the object of its own publication, which no client has named in
\* the metadata of another app: the deletion of that other app would take it along.
Intact(a) == a \in rows /\ meta[a].name = a /\ a \notin borrowed

\* What the documents say of the order of the two stores: a row that names an object
\* has that object.
RowHasObject == \A a \in Apps : Intact(a) => a \in stored

\* The code keeps that for every app whose insert was answered truly, whatever happens
\* to its deletions, to the compensations of other publications and to the retries.
PublishedHasObject == \A a \in Apps : Intact(a) /\ a \notin ghosts => a \in stored

AtWork(a) ==
  \/ publish[a] \in {"insert", "relookup", "remove"}
  \/ \E d \in Deleters : Target[d] = a /\ Object(d) = a /\ (In(d, "object") \/ In(d, "record"))
RetryIs(a, S) == \E d \in Deleters : Target[d] = a /\ status[<<d, a>>] \in S
Tracked(a)    == RetryIs(a, {"pending", "failed"})
GivenUp(a)    == RetryIs(a, {"failed"})

\* An object without a row is being dealt with by a request of its own app, or is in
\* minio_delete_retries, unless a mishap that is only logged, or metadata that names it
\* no more, let go of it.
OrphanIsTracked == \A a \in stored \ rows : a \in dropped \/ AtWork(a) \/ Tracked(a)

\* No such object stays: it goes in the end, or is given up after the retries.
OrphanIsSettled ==
  \A a \in Apps : []<>(a \notin stored \ rows \/ GivenUp(a) \/ a \in dropped)
=============================================================================

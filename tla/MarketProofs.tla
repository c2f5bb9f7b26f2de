---------------------------- MODULE MarketProofs ----------------------------
(***************************************************************************)
(* services/market/app/market.go, for any number of requests, apps,        *)
(* processes and days.  Whatever mishaps happen, the idempotency key of a  *)
(* publication works, and a row that was not reported as failed has its    *)
(* object unless a client wrote the name of it elsewhere; no finished      *)
(* writer leaves an old entry in the cache; and the counters of a download *)
(* agree while their sets live.                                            *)
(***************************************************************************)
EXTENDS Market, DetailCache, Rankings, Sums

\* An app gets its row from the one insert of its publication, at most once; only a
\* publication with a key takes a lock.
PublishInv ==
  \A a \in Apps :
    /\ publish[a] \in {"lookup", "lock", "upload", "insert"} => a \notin created
    /\ publish[a] = "lock" => KeyOf[a] # NoKey

\* The unique index, and what a row says while no client has replaced its metadata:
\* an object name that is not the app's own is one that a client wrote.
KeysDiffer == \A a, b \in rows : meta[a].key = meta[b].key /\ meta[a].key # NoKey => a = b
MetaInv ==
  /\ \A a \in rows \ rewritten : meta[a].key = KeyOf[a]
  /\ \A a \in rows : meta[a].name \in borrowed \cup {a, NoApp}

\* The invariant that types and names the rows.
Inv == TypeOK /\ KeysDiffer /\ MetaInv /\ AnswerIsPublished /\ PublishInv

\* The stages of a publication and of a deletion, and the states of a retry row.
Stages  == {"lookup", "lock", "upload", "insert", "relookup", "remove", "unlock", "done"}
States  == {"none", "pending", "done", "failed"}

\* The invariant holds before the first request.
LEMMA InitInv == Init => Inv
BY MarketAssumption DEF Init, Inv, TypeOK, KeysDiffer, MetaInv, AnswerIsPublished, PublishInv,
     Metadata, NoMetadata, Deletion, Deletions

\* A column of metadata that the unique index admits keeps the table in order.
LEMMA WriteMetaInv ==
  ASSUME Inv, NEW a \in Apps, NEW m \in Metadata, KeyFree(a, m.key),
         rows' = rows \cup {a}, meta' = [meta EXCEPT ![a] = m],
         rewritten \subseteq rewritten', borrowed \subseteq borrowed',
         a \notin rewritten' => m.key = KeyOf[a],
         m.name \in borrowed' \cup {a, NoApp}
  PROVE  KeysDiffer' /\ MetaInv' /\ meta' \in [Apps -> Metadata]
<1>1. \A b \in Apps : meta'[b] = IF b = a THEN m ELSE meta[b]
  BY DEF Inv, TypeOK
<1>2. rows \subseteq Apps
  BY DEF Inv, TypeOK
<1>3. KeysDiffer'
  BY <1>1, <1>2 DEF KeyFree, Inv, KeysDiffer
<1>4. MetaInv'
  BY <1>1, <1>2 DEF Inv, MetaInv
<1> QED
  BY <1>3, <1>4 DEF Inv, TypeOK

\* An insert of a row.
LEMMA InsertRowInv ==
  ASSUME Inv, NEW a \in Apps, InsertRow(a)
  PROVE  /\ KeysDiffer' /\ MetaInv' /\ meta' \in [Apps -> Metadata]
         /\ rows' = rows \cup {a} /\ created' = created \cup {a}
         /\ UNCHANGED <<rewritten, borrowed>>
<1> DEFINE m == [key |-> KeyOf[a], name |-> a]
<1>1. m \in Metadata /\ KeyFree(a, m.key)
  BY MarketAssumption DEF InsertRow, Metadata
<1> QED
  BY <1>1, WriteMetaInv DEF InsertRow

\* The steps of a publication that leave the table alone.
LEMMA PublishQuiet ==
  ASSUME Inv, NEW a \in Apps, UNCHANGED <<table, status, delete, ghosts>>,
         dropped' \subseteq Apps, stored' \subseteq Apps, locks' \subseteq Keys,
         NEW place \in Stages, Go(a, place),
         place \in {"lookup", "lock", "upload", "insert"}
           => publish[a] \in {"lookup", "lock", "upload", "insert"},
         place = "lock" => KeyOf[a] # NoKey,
         NEW b \in Apps \cup {NoApp}, answer' = [answer EXCEPT ![a] = b],
         b # NoApp => b \in created /\ (KeyOf[b] = KeyOf[a] \/ b \in rewritten)
  PROVE  Inv'
<1>1. publish' \in [Apps -> Stages] /\ answer' \in [Apps -> Apps \cup {NoApp}]
  BY DEF Go, Inv, TypeOK, Stages
<1>2. TypeOK'
  BY <1>1 DEF Inv, TypeOK, table, Stages
<1>3. KeysDiffer' /\ MetaInv'
  BY DEF Inv, KeysDiffer, MetaInv, table
<1>4. AnswerIsPublished'
  <2>1. \A c \in Apps : answer'[c] = IF c = a THEN b ELSE answer[c]
    BY DEF Inv, TypeOK
  <2> QED
    BY <2>1 DEF Inv, AnswerIsPublished, table
<1>5. PublishInv'
  <2>1. \A c \in Apps : publish'[c] = IF c = a THEN place ELSE publish[c]
    BY DEF Go, Inv, TypeOK
  <2> QED
    BY <2>1 DEF Inv, PublishInv, table
<1> QED
  BY <1>2, <1>3, <1>4, <1>5 DEF Inv

\* Every step of a publication.
LEMMA PublishStepInv ==
  ASSUME Inv, NEW a \in Apps, PublishStep(a) \/ CrashPublish(a)
  PROVE  Inv'
<1>1. /\ answer[a] \in Apps \cup {NoApp} /\ answer = [answer EXCEPT ![a] = answer[a]]
      /\ answer[a] # NoApp
           => answer[a] \in created /\ (KeyOf[answer[a]] = KeyOf[a] \/ answer[a] \in rewritten)
  BY DEF Inv, TypeOK, AnswerIsPublished
<1>2. /\ stored \subseteq Apps /\ locks \subseteq Keys /\ rows \subseteq created
      /\ created \subseteq Apps /\ dropped \subseteq Apps
      /\ \A b \in SameKey(a) :
           b \in created /\ b \in Apps /\ (KeyOf[b] = KeyOf[a] \/ b \in rewritten)
  BY DEF Inv, TypeOK, MetaInv, SameKey
<1>3. KeyOf[a] \in Keys \cup {NoKey}
  BY MarketAssumption
<1>4. CASE Lookup(a)
  <2>1. /\ At(a, "lookup") /\ UNCHANGED <<table, stored, status, locks, delete, lost>>
    BY <1>4 DEF Lookup
  <2>2. CASE /\ UNCHANGED answer
             /\ Go(a, "upload") \/ (Go(a, "lock") /\ KeyOf[a] # NoKey)
    BY <1>1, <1>2, <2>1, <2>2, PublishQuiet DEF At, Stages, lost
  <2>3. ASSUME NEW b \in SameKey(a), Reply(a, b), Go(a, "done")
        PROVE  Inv'
    <3>1. b \in created /\ b \in Apps /\ (KeyOf[b] = KeyOf[a] \/ b \in rewritten)
      BY <1>2
    <3>2. answer' = [answer EXCEPT ![a] = b]
      BY <2>3 DEF Reply
    <3>3. "done" \in Stages
      BY DEF Stages
    <3> QED
      BY <1>2, <2>1, <2>3, <3>1, <3>2, <3>3, PublishQuiet DEF lost
  <2> QED
    BY <1>4, <2>2, <2>3 DEF Lookup
<1>5. CASE LookupFails(a) \/ CrashPublish(a)
  <2>1. /\ Go(a, "done") /\ dropped' \subseteq Apps
        /\ UNCHANGED <<table, stored, status, locks, answer, delete, ghosts>>
    BY <1>2, <1>5 DEF LookupFails, CrashPublish, Drop, lost
  <2> QED
    BY <1>1, <1>2, <2>1, PublishQuiet DEF Stages
<1>6. CASE Lock(a) \/ LockAnswerLost(a)
  <2>1. /\ At(a, "lock") /\ (Go(a, "done") \/ Go(a, "upload"))
        /\ locks' = locks \cup {KeyOf[a]}
        /\ UNCHANGED <<table, stored, status, answer, delete, lost>>
    BY <1>6 DEF Lock, LockAnswerLost
  <2>2. KeyOf[a] \in Keys
    BY <1>3, <2>1 DEF At, Inv, PublishInv
  <2> QED
    BY <1>1, <1>2, <2>1, <2>2, PublishQuiet DEF At, Stages, lost
<1>7. CASE Upload(a) \/ UploadFails(a)
  <2>1. /\ At(a, "upload") /\ (Go(a, "insert") \/ Go(a, "unlock"))
        /\ stored' \subseteq stored \cup {a} /\ dropped' \subseteq Apps
        /\ UNCHANGED <<table, status, locks, answer, delete, ghosts>>
    BY <1>2, <1>7 DEF Upload, UploadFails, Drop, lost
  <2>2. stored' \subseteq Apps /\ locks' \subseteq Keys
    BY <1>2, <2>1
  <2>3. PICK place \in {"insert", "unlock"} : Go(a, place)
    BY <2>1
  <2>4. place \in Stages /\ publish[a] \in {"lookup", "lock", "upload", "insert"}
    BY <2>1, <2>3 DEF At, Stages
  <2>5. UNCHANGED <<table, status, delete, ghosts>> /\ answer' = [answer EXCEPT ![a] = answer[a]]
    BY <1>1, <2>1
  <2> QED
    BY <1>1, <2>1, <2>2, <2>3, <2>4, <2>5, PublishQuiet
<1>8. ASSUME InsertRow(a), At(a, "insert"),
             NEW place \in {"remove", "relookup", "unlock"}, Go(a, place),
             NEW b \in {a, answer[a]}, answer' = [answer EXCEPT ![a] = b],
             ghosts' \subseteq ghosts \cup {a},
             UNCHANGED <<stored, status, locks, delete, dropped>>
      PROVE  Inv'
  <2>1. /\ KeysDiffer' /\ MetaInv' /\ meta' \in [Apps -> Metadata]
        /\ rows' = rows \cup {a} /\ created' = created \cup {a}
        /\ UNCHANGED <<rewritten, borrowed>>
    BY <1>8, InsertRowInv
  <2>2. \A c \in Apps : /\ publish'[c] = IF c = a THEN place ELSE publish[c]
                        /\ answer'[c] = IF c = a THEN b ELSE answer[c]
    BY <1>8 DEF Go, Inv, TypeOK
  <2>3. TypeOK'
    BY <1>8, <2>1 DEF Inv, TypeOK, Go
  <2>4. AnswerIsPublished'
    BY <1>1, <2>1, <2>2 DEF Inv, AnswerIsPublished
  <2>5. PublishInv'
    BY <2>1, <2>2 DEF Inv, PublishInv
  <2> QED
    BY <2>1, <2>3, <2>4, <2>5 DEF Inv
<1>9. CASE Insert(a)
  BY <1>8, <1>9 DEF Insert, Reply, lost
<1>10. CASE InsertFails(a)
  <2>1. /\ At(a, "insert") /\ (Go(a, "remove") \/ Go(a, "relookup"))
        /\ UNCHANGED <<stored, status, locks, answer, delete, dropped>>
    BY <1>10 DEF InsertFails, Compensation
  <2>2. CASE UNCHANGED <<table, ghosts>>
    BY <1>1, <1>2, <2>1, <2>2, PublishQuiet DEF Stages
  <2>3. CASE InsertRow(a) /\ ghosts' = ghosts \cup {a}
    BY <1>1, <1>8, <2>1, <2>3
  <2> QED
    BY <1>10, <2>2, <2>3 DEF InsertFails
<1>11. CASE Relookup(a)
  <2>1. Go(a, "remove") /\ UNCHANGED <<table, stored, status, locks, delete, lost>>
    BY <1>11 DEF Relookup
  <2>2. CASE UNCHANGED answer
    BY <1>1, <1>2, <2>1, <2>2, PublishQuiet DEF Stages, lost
  <2>3. ASSUME NEW b \in Found(a), Reply(a, b)
        PROVE  Inv'
    <3>1. b \in created /\ b \in Apps /\ (KeyOf[b] = KeyOf[a] \/ b \in rewritten)
      BY <1>2 DEF Found
    <3>2. answer' = [answer EXCEPT ![a] = b]
      BY <2>3 DEF Reply
    <3>3. "remove" \in Stages
      BY DEF Stages
    <3> QED
      BY <1>2, <2>1, <3>1, <3>2, <3>3, PublishQuiet DEF lost
  <2> QED
    BY <1>11, <2>2, <2>3 DEF Relookup
<1>12. CASE RemoveUploaded(a)
  <2>1. /\ Go(a, "unlock") /\ stored' \subseteq stored /\ dropped' \subseteq Apps
        /\ UNCHANGED <<table, status, locks, answer, delete, ghosts>>
    BY <1>2, <1>12 DEF RemoveUploaded, Drop, lost
  <2> QED
    BY <1>1, <1>2, <2>1, PublishQuiet DEF Stages
<1>13. CASE Unlock(a)
  <2>1. /\ Go(a, "done") /\ locks' \subseteq locks
        /\ UNCHANGED <<table, stored, status, answer, delete, lost>>
    BY <1>13 DEF Unlock
  <2> QED
    BY <1>1, <1>2, <2>1, PublishQuiet DEF Stages, lost
<1> QED
  BY <1>4, <1>5, <1>6, <1>7, <1>9, <1>10, <1>11, <1>12, <1>13 DEF PublishStep

\* Deletions, the retry worker and the clock only take rows, objects and locks away.
LEMMA OtherStepInv ==
  ASSUME Inv,
         rows' \subseteq rows, \A a \in rows' : meta'[a] = meta[a],
         meta' \in [Apps -> Metadata],
         UNCHANGED <<created, rewritten, borrowed, publish, answer, ghosts>>,
         stored' \subseteq stored, locks' \subseteq locks, dropped' \subseteq Apps,
         delete' \in [Deleters -> Deletions], status' \in [RetryRows -> States]
  PROVE  Inv'
<1>1. TypeOK'
  BY DEF Inv, TypeOK, States
<1> QED
  BY <1>1 DEF Inv, KeysDiffer, MetaInv, AnswerIsPublished, PublishInv

\* A step of a deletion moves it to one of its stages, and names an app or nothing.
LEMMA DeleteType ==
  ASSUME Inv, NEW d \in Deleters, DeleteStep(d) \/ CrashDelete(d)
  PROVE  delete' \in [Deleters -> Deletions]
<1>1. /\ delete \in [Deleters -> Deletions] /\ meta \in [Apps -> Metadata]
      /\ Target[d] \in Apps
  BY MarketAssumption DEF Inv, TypeOK
<1>2. Object(d) \in Apps \cup {NoApp} /\ meta[Target[d]].name \in Apps \cup {NoApp}
  BY <1>1 DEF Object, Deletions, Metadata
<1>3. PICK next \in Deletions : delete' = [delete EXCEPT ![d] = next]
  BY <1>2 DEF DeleteStep, CrashDelete, Read, RowFirst, DeleteRow, DeleteFails, RemoveObject,
              RemoveFails, Failed, Record, To, Finished, Deletion, Deletions
<1> QED
  BY <1>1, <1>3

\* A deleted row has no metadata.
LEMMA DeleteMeta ==
  ASSUME Inv, NEW a \in Apps, Delete(a)
  PROVE  /\ rows' \subseteq rows /\ meta' \in [Apps -> Metadata]
         /\ \A b \in rows' : meta'[b] = meta[b]
         /\ UNCHANGED <<created, rewritten, borrowed>>
<1>1. NoMetadata \in Metadata
  BY DEF NoMetadata, Metadata
<1> QED
  BY <1>1 DEF Delete, Inv, TypeOK

\* Every step preserves the invariant.
LEMMA StepInv == Inv /\ [Next]_vars => Inv'
<1> SUFFICES ASSUME Inv, [Next]_vars PROVE Inv'
  OBVIOUS
<1>0. /\ meta \in [Apps -> Metadata] /\ delete \in [Deleters -> Deletions]
      /\ status \in [RetryRows -> States]
      /\ dropped \subseteq Apps /\ \A d \in Deleters : Target[d] \in Apps
  BY MarketAssumption DEF Inv, TypeOK, States
<1>1. ASSUME NEW a \in Apps, PublishStep(a) \/ CrashPublish(a)
      PROVE  Inv'
  BY <1>1, PublishStepInv
<1>2. ASSUME NEW a \in Apps, NEW m \in Metadata, ReplaceMetadata(a, m)
      PROVE  Inv'
  <2>1. /\ a \in rows /\ KeyFree(a, m.key) /\ meta' = [meta EXCEPT ![a] = m]
        /\ rewritten' = rewritten \cup {a}
        /\ borrowed' = borrowed \cup ({m.name} \ {a, NoApp})
        /\ ghosts' = ghosts /\ dropped' \subseteq Apps
        /\ UNCHANGED <<rows, created, stored, status, locks, publish, answer, delete>>
    BY <1>0, <1>2 DEF ReplaceMetadata, Drop, lost
  <2>2. m.name \in Apps \cup {NoApp}
    BY DEF Metadata
  <2>3. KeysDiffer' /\ MetaInv' /\ meta' \in [Apps -> Metadata]
    BY <2>1, <2>2, WriteMetaInv
  <2>4. TypeOK'
    BY <2>1, <2>2, <2>3 DEF Inv, TypeOK
  <2> QED
    BY <2>1, <2>3, <2>4 DEF Inv, AnswerIsPublished, PublishInv
<1>3. ASSUME NEW k \in Keys, LockExpires(k)
      PROVE  Inv'
  BY <1>0, <1>3, OtherStepInv DEF LockExpires, table, lost
<1>4. ASSUME NEW d \in Deleters, DeleteStep(d) \/ CrashDelete(d)
      PROVE  Inv'
  <2>1. delete' \in [Deleters -> Deletions]
    BY <1>4, DeleteType
  <2>2. CASE Read(d) \/ CrashDelete(d)
    BY <1>0, <2>1, <2>2, OtherStepInv DEF Read, CrashDelete, LetGo, Drop, table, lost
  <2>3. CASE DeleteRow(d) \/ DeleteFails(d)
    <3>1. /\ UNCHANGED <<stored, status, locks, publish, answer, ghosts>>
          /\ dropped' \subseteq Apps /\ (Delete(Target[d]) \/ UNCHANGED table)
      BY <1>0, <2>3 DEF DeleteRow, DeleteFails, LetGo, Drop, lost
    <3>2. CASE Delete(Target[d])
      BY <1>0, <2>1, <3>1, <3>2, DeleteMeta, OtherStepInv
    <3>3. CASE UNCHANGED table
      BY <1>0, <2>1, <3>1, <3>3, OtherStepInv DEF table
    <3> QED
      BY <3>1, <3>2, <3>3
  <2>4. CASE RemoveObject(d) \/ RemoveFails(d)
    BY <1>0, <2>1, <2>4, OtherStepInv DEF RemoveObject, RemoveFails, table, lost
  <2>5. CASE Record(d)
    <3>1. /\ status' \in [RetryRows -> States] /\ dropped' \subseteq Apps
          /\ UNCHANGED <<table, stored, locks, publish, answer, ghosts>>
      BY <1>0, <2>5 DEF Record, Retries!Record, LetGo, Drop, lost, States
    <3> QED
      BY <1>0, <2>1, <3>1, OtherStepInv DEF table
  <2> QED
    BY <1>4, <2>2, <2>3, <2>4, <2>5 DEF DeleteStep
<1>5. ASSUME NEW r \in RetryRows, Worker(r)
      PROVE  Inv'
  <2>1. /\ status' \in [RetryRows -> States] /\ stored' \subseteq stored
        /\ UNCHANGED <<table, locks, publish, answer, delete, lost>>
    BY <1>0, <1>5 DEF Worker, Retries!Remove, Retries!Done, Retries!GiveUp, States
  <2> QED
    BY <1>0, <2>1, OtherStepInv DEF table, lost
<1>6. CASE UNCHANGED vars
  BY <1>0, <1>6, OtherStepInv DEF vars, table, lost
<1> QED
  BY <1>1, <1>2, <1>3, <1>4, <1>5, <1>6 DEF Next

\* Every variable keeps its type: the metadata that clients write, too.
THEOREM MarketTypeCorrect == Spec => []TypeOK
<1>1. Inv => TypeOK
  BY DEF Inv
<1> QED
  BY InitInv, StepInv, <1>1, PTL DEF Spec

\* At most one app per idempotency key, and one answer as long as that app is there as
\* it was published, whatever becomes of the Redis lock and whatever keys clients write
\* into the metadata themselves.
THEOREM MarketOneAppPerKey == Spec => []OneAppPerKey
<1>1. Inv => OneAppPerKey
  <2> SUFFICES ASSUME Inv, NEW a \in Apps, NEW b \in Apps,
                      KeyOf[a] = KeyOf[b], KeyOf[a] # NoKey,
                      {answer[a], answer[b]} \subseteq rows \ rewritten
               PROVE  answer[a] = answer[b]
    BY DEF Inv, KeysDiffer, OneAppPerKey, OneAnswerPerKey
  <2>1. rows \subseteq Apps /\ NoApp \notin Apps
    BY MarketAssumption DEF Inv, TypeOK
  <2>2. KeyOf[answer[a]] = KeyOf[a] /\ KeyOf[answer[b]] = KeyOf[a]
    BY <2>1 DEF Inv, AnswerIsPublished
  <2>3. meta[answer[a]].key = KeyOf[a] /\ meta[answer[b]].key = KeyOf[a]
    BY <2>2 DEF Inv, MetaInv
  <2> QED
    BY <2>3 DEF Inv, KeysDiffer
<1> QED
  BY InitInv, StepInv, <1>1, PTL DEF Spec

\* Every answer names an app that was published, with the key of the request or with
\* metadata that its owner replaced later.
THEOREM MarketAnswerIsPublished == Spec => []AnswerIsPublished
<1>1. Inv => AnswerIsPublished
  BY DEF Inv
<1> QED
  BY InitInv, StepInv, <1>1, PTL DEF Spec

-----------------------------------------------------------------------------
(* The row and its object *)

\* An object is uploaded before its row is inserted, and removed only when the insert
\* failed, truly or not, when the row is deleted, which does not come back, or with
\* another app whose metadata named it.
Removable(a) == a \in created \ rows
Takeable(o)  == o \in borrowed \cup {NoApp} \/ Removable(o)
StoredInv    == rows \ (ghosts \cup borrowed) \subseteq stored
ObjectInv ==
  /\ StoredInv
  /\ \A a \in Apps :
       /\ publish[a] = "insert" => a \in stored \cup borrowed
       /\ publish[a] \in {"relookup", "remove"} => a \notin created \ ghosts
  /\ \A d \in Deleters :
       /\ In(d, "row") =>
            Target[d] \in created /\ Object(d) \in borrowed \cup {Target[d], NoApp}
       /\ In(d, "object") \/ In(d, "record") => Takeable(Object(d))
  /\ \A r \in RetryRows : status[r] # "none" => Takeable(r[2])

\* The steps of a publication.
LEMMA PublishObject ==
  ASSUME Inv, ObjectInv, NEW a \in Apps,
         PublishStep(a) \/ CrashPublish(a)
  PROVE  ObjectInv'
<1> USE DEF At
<1>1. delete' = delete /\ status' = status
  BY DEF PublishStep, Lookup, LookupFails, Lock, LockAnswerLost, Upload, UploadFails,
         Insert, InsertFails, Relookup, RemoveUploaded, Unlock, CrashPublish
<1>2. /\ rows \subseteq created /\ created \subseteq Apps
      /\ publish \in [Apps -> Stages] /\ meta \in [Apps -> Metadata]
  BY DEF Inv, TypeOK, Stages
<1>3. ASSUME UNCHANGED <<table, ghosts>>, stored \subseteq stored', NEW place, Go(a, place),
             place = "insert" => a \in stored',
             place \in {"relookup", "remove"} => a \notin created \ ghosts
      PROVE  ObjectInv'
  <2>1. \A c \in Apps : publish'[c] = IF c = a THEN place ELSE publish[c]
    BY <1>2, <1>3 DEF Go
  <2>2. StoredInv'
    BY <1>3 DEF ObjectInv, StoredInv, table
  <2>3. \A c \in Apps : /\ publish'[c] = "insert" => c \in stored' \cup borrowed'
                        /\ publish'[c] \in {"relookup", "remove"} => c \notin created' \ ghosts'
    BY <1>3, <2>1 DEF ObjectInv, table
  <2>4. \A o : Takeable(o)' <=> Takeable(o)
    BY <1>3 DEF Takeable, Removable, table
  <2> QED
    BY <1>1, <1>3, <2>2, <2>3, <2>4 DEF ObjectInv, In, Object, table
<1>4. CASE Lookup(a) \/ LookupFails(a) \/ Lock(a) \/ LockAnswerLost(a) \/ Unlock(a)
           \/ CrashPublish(a)
  <2>1. /\ UNCHANGED <<table, stored, ghosts>>
        /\ \E s \in {"done", "upload", "lock"} : Go(a, s)
    BY <1>4 DEF Lookup, LookupFails, Lock, LockAnswerLost, Unlock, CrashPublish, Drop, lost
  <2> QED
    BY <1>3, <2>1
<1>5. CASE Upload(a) \/ UploadFails(a)
  <2>1. /\ UNCHANGED <<table, ghosts>> /\ stored \subseteq stored'
        /\ Go(a, "unlock") \/ (Go(a, "insert") /\ a \in stored')
    BY <1>5 DEF Upload, UploadFails, Drop, lost
  <2> QED
    BY <1>3, <2>1
<1>6. ASSUME At(a, "insert"), InsertRow(a), UNCHANGED stored,
             NEW place, Go(a, place),
             \/ place = "unlock" /\ ghosts' = ghosts
             \/ place \in {"relookup", "remove"} /\ ghosts' = ghosts \cup {a}
      PROVE  ObjectInv'
  <2>1. /\ rows' = rows \cup {a} /\ created' = created \cup {a}
        /\ \A b \in Apps \ {a} : meta'[b] = meta[b]
        /\ stored' = stored /\ borrowed' = borrowed /\ ghosts \subseteq ghosts'
    BY <1>2, <1>6 DEF InsertRow
  <2>2. a \notin created /\ a \in stored \cup borrowed
    BY <1>6 DEF Inv, PublishInv, ObjectInv
  <2>3. \A c \in Apps : publish'[c] = IF c = a THEN place ELSE publish[c]
    BY <1>2, <1>6 DEF Go
  <2>4. \A o : Takeable(o) => Takeable(o)'
    BY <2>1, <2>2 DEF Takeable, Removable
  <2>5. StoredInv'
    BY <2>1, <2>2 DEF ObjectInv, StoredInv
  <2>6. \A c \in Apps :
          /\ publish'[c] = "insert" => c \in stored' \cup borrowed'
          /\ publish'[c] \in {"relookup", "remove"} => c \notin created' \ ghosts'
    BY <1>6, <2>1, <2>3 DEF ObjectInv
  <2> QED
    BY <1>1, <2>1, <2>4, <2>5, <2>6 DEF ObjectInv, In, Object
<1>7. CASE Insert(a)
  BY <1>6, <1>7 DEF Insert, lost
<1>8. CASE InsertFails(a)
  <2>1. /\ publish[a] = "insert" /\ stored' = stored
        /\ Go(a, "relookup") \/ Go(a, "remove")
    BY <1>8 DEF InsertFails, Compensation
  <2>2. a \notin created
    BY <2>1 DEF Inv, PublishInv
  <2>3. CASE UNCHANGED <<table, ghosts>>
    BY <1>3, <2>1, <2>2, <2>3
  <2>4. CASE InsertRow(a) /\ ghosts' = ghosts \cup {a}
    BY <1>6, <2>1, <2>4
  <2> QED
    BY <1>8, <2>3, <2>4 DEF InsertFails
<1>9. CASE Relookup(a)
  <2>1. /\ UNCHANGED <<table, stored, ghosts>>
        /\ publish[a] = "relookup" /\ Go(a, "remove")
    BY <1>9 DEF Relookup, lost
  <2>2. a \notin created \ ghosts
    BY <2>1 DEF ObjectInv
  <2> QED
    BY <1>3, <2>1, <2>2
<1>10. CASE RemoveUploaded(a)
  <2>1. /\ UNCHANGED <<table, ghosts>> /\ Go(a, "unlock") /\ publish[a] = "remove"
        /\ stored \ {a} \subseteq stored'
    BY <1>10 DEF RemoveUploaded, Drop, lost
  <2>2. a \notin rows \ ghosts
    BY <1>2, <2>1 DEF ObjectInv
  <2>3. \A c \in Apps : publish'[c] = IF c = a THEN "unlock" ELSE publish[c]
    BY <1>2, <2>1 DEF Go
  <2>4. StoredInv'
    BY <2>1, <2>2 DEF ObjectInv, StoredInv, table
  <2>5. \A o : Takeable(o)' <=> Takeable(o)
    BY <2>1 DEF Takeable, Removable, table
  <2>6. \A c \in Apps :
          /\ publish'[c] = "insert" => c \in stored' \cup borrowed'
          /\ publish'[c] \in {"relookup", "remove"} => c \notin created' \ ghosts'
    BY <2>1, <2>3 DEF ObjectInv, table
  <2> QED
    BY <1>1, <2>1, <2>4, <2>5, <2>6 DEF ObjectInv, In, Object, table
<1> QED
  BY <1>4, <1>5, <1>7, <1>8, <1>9, <1>10 DEF PublishStep

\* The steps of everybody else: what they take out of MinIO they may.
LEMMA OtherObject ==
  ASSUME Inv, ObjectInv, UNCHANGED <<publish, created, ghosts>>,
         borrowed \subseteq borrowed', rows' \subseteq rows,
         \A a \in Apps : a \in stored /\ a \notin stored' => Takeable(a)',
         \A d \in Deleters :
           /\ In(d, "row")' =>
                Target[d] \in created /\ Object(d)' \in borrowed' \cup {Target[d], NoApp}
           /\ In(d, "object")' \/ In(d, "record")' => Takeable(Object(d))',
         \A r \in RetryRows : status'[r] # "none" => Takeable(r[2])'
  PROVE  ObjectInv'
<1>1. /\ rows \subseteq Apps /\ NoApp \notin Apps
      /\ \A a \in Apps : publish[a] = "insert" => a \notin created
  BY MarketAssumption DEF Inv, TypeOK, PublishInv
<1>2. StoredInv'
  BY <1>1 DEF ObjectInv, StoredInv, Takeable, Removable
<1>3. \A a \in Apps : /\ publish[a] = "insert" => a \in stored' \cup borrowed'
                      /\ publish[a] \in {"relookup", "remove"} => a \notin created \ ghosts
  BY <1>1 DEF ObjectInv, Takeable, Removable
<1> QED
  BY <1>2, <1>3 DEF ObjectInv

\* What may be removed may be removed for good, as rows do not come back.
LEMMA TakeableStays ==
  ASSUME UNCHANGED created, borrowed \subseteq borrowed', rows' \subseteq rows, NEW o, Takeable(o)
  PROVE  Takeable(o)'
BY DEF Takeable, Removable

\* Every step preserves the invariant about objects.
LEMMA ObjectStep ==
  ASSUME Inv, ObjectInv, [Next]_vars
  PROVE  ObjectInv'
<1>0. /\ rows \subseteq created /\ delete \in [Deleters -> Deletions]
      /\ status \in [RetryRows -> States]
      /\ \A d \in Deleters : Target[d] \in Apps
  BY MarketAssumption DEF Inv, TypeOK, States
<1>1. ASSUME NEW a \in Apps, PublishStep(a) \/ CrashPublish(a)
      PROVE  ObjectInv'
  BY <1>1, PublishObject
<1>2. ASSUME \/ \E a \in Apps, m \in Metadata : ReplaceMetadata(a, m)
             \/ \E k \in Keys : LockExpires(k)
             \/ UNCHANGED vars
      PROVE  ObjectInv'
  <2>1. /\ UNCHANGED <<publish, created, rows, stored, delete, status, ghosts>>
        /\ borrowed \subseteq borrowed'
    BY <1>2 DEF ReplaceMetadata, LockExpires, Drop, vars, table, lost
  <2>2. \A o : Takeable(o) => Takeable(o)'
    BY <2>1, TakeableStays
  <2> QED
    BY <2>1, <2>2, OtherObject DEF ObjectInv, In, Object
<1>3. ASSUME NEW d \in Deleters, DeleteStep(d) \/ CrashDelete(d)
      PROVE  ObjectInv'
  <2>1. /\ UNCHANGED <<publish, created, borrowed, ghosts>> /\ rows' \subseteq rows
        /\ Target[d] \in Apps
    BY <1>0, <1>3 DEF DeleteStep, CrashDelete, Read, DeleteRow, DeleteFails, Delete,
                RemoveObject, RemoveFails, Record, LetGo, Drop, table, lost
  <2>2. \A o : Takeable(o) => Takeable(o)'
    BY <2>1, TakeableStays
  <2>3. ASSUME NEW next, To(d, next), stored' = stored, status' = status,
               next.at \in {"row", "object", "record", "done"},
               next.at = "row" => Target[d] \in created
                                  /\ next.object \in borrowed \cup {Target[d], NoApp},
               next.at \in {"object", "record"} => Takeable(next.object)'
        PROVE  ObjectInv'
    <3>1. \A c \in Deleters : delete'[c] = IF c = d THEN next ELSE delete[c]
      BY <1>0, <2>3 DEF To
    <3>2. \A c \in Deleters :
            /\ In(c, "row")' =>
                 Target[c] \in created /\ Object(c)' \in borrowed' \cup {Target[c], NoApp}
            /\ In(c, "object")' \/ In(c, "record")' => Takeable(Object(c))'
      BY <2>1, <2>2, <2>3, <3>1 DEF ObjectInv, In, Object
    <3> QED
      BY <2>1, <2>2, <2>3, <3>2, OtherObject DEF ObjectInv
  <2>4. CASE Read(d) \/ CrashDelete(d)
    <3>1. /\ UNCHANGED <<stored, status>>
          /\ To(d, Finished) \/ (Target[d] \in rows /\ To(d, RowFirst(d)))
      BY <2>4 DEF Read, CrashDelete
    <3>2. Target[d] \in rows => meta[Target[d]].name \in borrowed \cup {Target[d], NoApp}
      BY DEF Inv, MetaInv
    <3> QED
      BY <1>0, <2>3, <3>1, <3>2 DEF RowFirst, Finished, Deletion
  <2>5. CASE DeleteRow(d) \/ DeleteFails(d)
    <3>1. /\ In(d, "row") /\ UNCHANGED <<stored, status>>
          /\ \/ To(d, Finished)
             \/ To(d, Deletion("object", Object(d))) /\ rows' = rows \ {Target[d]}
      BY <2>5 DEF DeleteRow, DeleteFails, Delete
    <3>o. PICK o : o = Object(d)
      OBVIOUS
    <3>2. Target[d] \in created /\ o \in borrowed \cup {Target[d], NoApp}
      BY <3>1, <3>o DEF ObjectInv
    <3>3. rows' = rows \ {Target[d]} => Takeable(o)'
      BY <2>1, <3>2 DEF Takeable, Removable
    <3>4. CASE To(d, Finished)
      BY <2>3, <3>1, <3>4 DEF Finished, Deletion
    <3>5. CASE To(d, Deletion("object", o)) /\ rows' = rows \ {Target[d]}
      BY <2>3, <3>1, <3>3, <3>5 DEF Deletion
    <3> QED
      BY <3>o, <3>1, <3>4, <3>5
  <2>6. CASE RemoveObject(d) \/ RemoveFails(d)
    <3>1. /\ In(d, "object") /\ stored \ {Object(d)} \subseteq stored'
          /\ UNCHANGED status /\ (To(d, Finished) \/ To(d, Deletion("record", Object(d))))
      BY <2>6 DEF RemoveObject, RemoveFails, Failed
    <3>o. PICK o : o = Object(d)
      OBVIOUS
    <3>2. Takeable(o) /\ Takeable(o)'
      BY <2>2, <3>o, <3>1 DEF ObjectInv
    <3>3. \A c \in Deleters :
            /\ In(c, "row")' =>
                 Target[c] \in created /\ Object(c)' \in borrowed' \cup {Target[c], NoApp}
            /\ In(c, "object")' \/ In(c, "record")' => Takeable(Object(c))'
      <4>1. \A c \in Deleters :
              delete'[c] = IF c = d THEN delete'[d] ELSE delete[c]
        BY <1>0, <3>1 DEF To
      <4>2. delete'[d] = Finished \/ delete'[d] = Deletion("record", Object(d))
        BY <1>0, <3>1 DEF To
      <4> QED
        BY <2>1, <2>2, <3>o, <3>2, <4>1, <4>2 DEF ObjectInv, In, Object, Finished, Deletion
    <3> QED
      BY <2>1, <2>2, <3>o, <3>1, <3>2, <3>3, OtherObject DEF ObjectInv
  <2>7. CASE Record(d)
    <3>1. /\ In(d, "record") /\ To(d, Finished) /\ stored' = stored
          /\ status' = [status EXCEPT ![<<d, Object(d)>>] = "pending"] \/ status' = status
      BY <2>7 DEF Record, Retries!Record
    <3>o. PICK o : o = Object(d)
      OBVIOUS
    <3>2. Takeable(o)'
      BY <2>2, <3>o, <3>1 DEF ObjectInv
    <3>3. \A r \in RetryRows : status'[r] # "none" => Takeable(r[2])'
      BY <1>0, <2>2, <3>o, <3>1, <3>2 DEF ObjectInv
    <3>4. \A c \in Deleters :
            /\ In(c, "row")' =>
                 Target[c] \in created /\ Object(c)' \in borrowed' \cup {Target[c], NoApp}
            /\ In(c, "object")' \/ In(c, "record")' => Takeable(Object(c))'
      <4>1. \A c \in Deleters : delete'[c] = IF c = d THEN Finished ELSE delete[c]
        BY <1>0, <3>1 DEF To
      <4> QED
        BY <2>1, <2>2, <4>1 DEF ObjectInv, In, Object, Finished, Deletion
    <3> QED
      BY <2>1, <3>1, <3>3, <3>4, OtherObject DEF ObjectInv
  <2> QED
    BY <1>3, <2>4, <2>5, <2>6, <2>7 DEF DeleteStep
<1>4. ASSUME NEW r \in RetryRows, Worker(r)
      PROVE  ObjectInv'
  <2>1. /\ status[r] = "pending" /\ stored \ {r[2]} \subseteq stored'
        /\ UNCHANGED <<publish, created, rows, borrowed, delete, ghosts>>
        /\ \A q \in RetryRows : status'[q] # "none" => status[q] # "none"
    BY <1>0, <1>4 DEF Worker, Retries!Remove, Retries!Done, Retries!GiveUp, table, lost, States
  <2>2. \A o : Takeable(o) => Takeable(o)'
    BY <2>1, TakeableStays
  <2>3. Takeable(r[2])'
    BY <2>1, <2>2 DEF ObjectInv
  <2> QED
    BY <2>1, <2>2, <2>3, OtherObject DEF ObjectInv, In, Object
<1> QED
  BY <1>1, <1>2, <1>3, <1>4 DEF Next

\* An app whose insert was answered truly has the object its row names, whatever else
\* goes wrong with it and with others, as long as no client names it in the metadata of
\* another app.
THEOREM MarketPublishedHasObject == Spec => []PublishedHasObject
<1>1. Init => ObjectInv
  BY DEF Init, ObjectInv, StoredInv, In, Deletion
<1>2. Inv /\ ObjectInv /\ [Next]_vars => ObjectInv'
  BY ObjectStep
<1>3. ObjectInv => PublishedHasObject
  BY DEF ObjectInv, StoredInv, PublishedHasObject, Intact
<1> QED
  BY InitInv, StepInv, <1>1, <1>2, <1>3, PTL DEF Spec

-----------------------------------------------------------------------------
(* The object without a row *)

\* A row that names another object than its own has let go of its own, and so has a
\* deletion that read such a row.
NamesOwn(a) == meta[a].name = a
OrphanInv ==
  /\ OrphanIsTracked
  /\ \A a \in rows : NamesOwn(a) \/ a \in dropped
  /\ \A d \in Deleters : In(d, "row") => Object(d) = Target[d] \/ Target[d] \in dropped

\* The stages at which a publication, a deletion and its retry row still answer for the
\* object of their app.
Holding     == {"insert", "relookup", "remove"}
Removing(d) == Object(d) = Target[d] /\ (In(d, "object") \/ In(d, "record"))
ToRetry(d)  == status[<<d, Target[d]>>] \in {"pending", "failed"}

\* Who deals with an object, in these terms.
LEMMA WhoDeals ==
  ASSUME NEW a
  PROVE  /\ AtWork(a) <=> publish[a] \in Holding
                          \/ \E d \in Deleters : Target[d] = a /\ Removing(d)
         /\ Tracked(a) <=> \E d \in Deleters : Target[d] = a /\ ToRetry(d)
BY DEF AtWork, Tracked, RetryIs, Holding, Removing, ToRetry

\* A publication may touch only its own app, and accounts for that.
LEMMA PublishOrphan ==
  ASSUME OrphanInv, NEW a \in Apps, UNCHANGED <<delete, status>>,
         dropped \subseteq dropped',
         \A b \in rows' : NamesOwn(b)' \/ b \in dropped',
         \A b \in Apps \ {a} : publish'[b] = publish[b],
         stored' \ rows' \subseteq (stored \ rows) \cup {a}, stored' \subseteq Apps,
         a \in stored' \ rows'
           => \/ a \in dropped' \/ publish'[a] \in Holding
              \/ a \in stored \ rows /\ publish[a] \notin Holding
  PROVE  OrphanInv'
<1>0. \A d \in Deleters : /\ Removing(d)' <=> Removing(d)
                          /\ ToRetry(d)' <=> ToRetry(d)
                          /\ In(d, "row")' <=> In(d, "row")
                          /\ Object(d)' = Object(d)
  BY DEF Removing, ToRetry, In, Object
<1>1. ASSUME NEW b \in stored' \ rows'
      PROVE  b \in dropped' \/ AtWork(b)' \/ Tracked(b)'
  <2>1. CASE b = a /\ (a \in dropped' \/ publish'[a] \in Holding)
    BY <2>1 DEF AtWork, Holding
  <2>2. CASE b \in stored \ rows /\ (b = a => publish[a] \notin Holding)
    <3>1. b \in dropped \/ AtWork(b) \/ Tracked(b)
      BY <2>2 DEF OrphanInv, OrphanIsTracked
    <3>2. b # a => publish'[b] = publish[b]
      BY <1>1
    <3>3. /\ AtWork(b) => AtWork(b)'
          /\ Tracked(b) => Tracked(b)'
      BY <1>0, <2>2, <3>2, WhoDeals DEF AtWork, Tracked, RetryIs, Holding, Removing, ToRetry
    <3> QED
      BY <3>1, <3>3
  <2> QED
    BY <1>1, <2>1, <2>2
<1>2. \A d \in Deleters : In(d, "row")' => Object(d)' = Target[d] \/ Target[d] \in dropped'
  BY <1>0 DEF OrphanInv
<1> QED
  BY <1>1, <1>2 DEF OrphanInv, OrphanIsTracked

\* A deletion, or the retry row it wrote, accounts for the object of its own app.
LEMMA DeleteOrphan ==
  ASSUME OrphanInv, NEW d \in Deleters, publish' = publish,
         dropped \subseteq dropped',
         \A b \in rows' : NamesOwn(b)' \/ b \in dropped',
         \A c \in Deleters \ {d} : delete'[c] = delete[c] /\ (ToRetry(c) => ToRetry(c)'
                                                              \/ Target[c] \notin stored'),
         stored' \ rows' \subseteq (stored \ rows) \cup {Target[d]},
         In(d, "row")' => Object(d)' = Target[d] \/ Target[d] \in dropped',
         Target[d] \in stored' \ rows'
           => \/ Target[d] \in dropped' \/ Removing(d)' \/ ToRetry(d)'
              \/ Target[d] \in stored \ rows /\ ~Removing(d) /\ ~ToRetry(d)
  PROVE  OrphanInv'
<1>0. \A c \in Deleters \ {d} : /\ Removing(c) => Removing(c)'
                                /\ In(c, "row")' => In(c, "row") /\ Object(c)' = Object(c)
  BY DEF Removing, In, Object
<1>1. ASSUME NEW b \in stored' \ rows'
      PROVE  b \in dropped' \/ AtWork(b)' \/ Tracked(b)'
  <2>1. CASE b = Target[d] /\ (Removing(d)' \/ ToRetry(d)')
    BY <2>1 DEF AtWork, Tracked, RetryIs, Removing, ToRetry, In, Object
  <2>2. CASE b \in stored \ rows /\ (b = Target[d] => ~Removing(d) /\ ~ToRetry(d))
    <3>1. b \in dropped \/ AtWork(b) \/ Tracked(b)
      BY <2>2 DEF OrphanInv, OrphanIsTracked
    <3>2. CASE Tracked(b)
      <4>1. PICK c \in Deleters : Target[c] = b /\ ToRetry(c)
        BY <3>2, WhoDeals
      <4>2. ToRetry(c)'
        BY <1>1, <2>2, <4>1
      <4> QED
        BY <4>1, <4>2 DEF Tracked, RetryIs, ToRetry
    <3>3. CASE publish[b] \in Holding
      BY <3>3 DEF AtWork, Holding
    <3>4. ASSUME NEW c \in Deleters, Target[c] = b, Removing(c)
          PROVE  AtWork(b)'
      <4>1. Removing(c)'
        BY <1>0, <2>2, <3>4
      <4> QED
        BY <3>4, <4>1 DEF AtWork, Removing, In, Object
    <3> QED
      BY <3>1, <3>2, <3>3, <3>4, WhoDeals
  <2>3. CASE b \in dropped'
    BY <2>3
  <2> QED
    BY <1>1, <2>1, <2>2, <2>3
<1>2. \A c \in Deleters : In(c, "row")' => Object(c)' = Target[c] \/ Target[c] \in dropped'
  BY <1>0 DEF OrphanInv
<1> QED
  BY <1>1, <1>2 DEF OrphanInv, OrphanIsTracked

\* Every step preserves the invariant about orphans.
LEMMA OrphanStep ==
  ASSUME Inv, OrphanInv, [Next]_vars
  PROVE  OrphanInv'
<1>0. /\ rows \subseteq Apps /\ stored \subseteq Apps /\ meta \in [Apps -> Metadata]
      /\ \A b \in rows : NamesOwn(b) \/ b \in dropped
      /\ publish \in [Apps -> Stages] /\ delete \in [Deleters -> Deletions]
      /\ status \in [RetryRows -> States]
      /\ \A d \in Deleters : Target[d] \in Apps
      /\ NoApp \notin Apps
  BY MarketAssumption DEF Inv, TypeOK, Stages, States, OrphanInv
<1>1. ASSUME NEW a \in Apps, PublishStep(a) \/ CrashPublish(a)
      PROVE  OrphanInv'
  <2> USE DEF At
  <2>1. /\ UNCHANGED <<delete, status>> /\ dropped \subseteq dropped'
        /\ \A b \in Apps \ {a} : publish'[b] = publish[b]
    BY <1>0, <1>1 DEF PublishStep, Lookup, LookupFails, Lock, LockAnswerLost, Upload,
         UploadFails, Insert, InsertFails, Relookup, RemoveUploaded, Unlock, CrashPublish,
         Go, Drop, lost
  <2>2. \A place : Go(a, place) => publish'[a] = place
    BY <1>0 DEF Go
  <2>3. CASE Lookup(a) \/ LookupFails(a) \/ Lock(a) \/ LockAnswerLost(a) \/ Unlock(a)
             \/ CrashPublish(a)
    <3>1. /\ UNCHANGED <<rows, meta, stored>>
          /\ publish[a] \notin Holding \/ a \in dropped'
      BY <2>3 DEF Lookup, LookupFails, Lock, LockAnswerLost, Unlock, CrashPublish, Drop,
                  table, Holding
    <3> QED
      BY <1>0, <2>1, <3>1, PublishOrphan DEF NamesOwn
  <2>4. CASE Upload(a) \/ UploadFails(a)
    <3>1. /\ UNCHANGED <<rows, meta>> /\ publish[a] = "upload"
          /\ \/ stored' = stored
             \/ stored' = stored \cup {a} /\ (publish'[a] = "insert" \/ a \in dropped')
      BY <2>2, <2>4 DEF Upload, UploadFails, Drop, table
    <3> QED
      BY <1>0, <2>1, <3>1, PublishOrphan DEF Holding, NamesOwn
  <2>5. CASE Insert(a) \/ InsertFails(a)
    <3>1. /\ stored' = stored
          /\ a \in rows' \/ publish'[a] \in Holding
          /\ \/ rows' = rows /\ meta' = meta
             \/ rows' = rows \cup {a} /\ meta' = [meta EXCEPT ![a] = [key |-> KeyOf[a], name |-> a]]
      BY <2>2, <2>5 DEF Insert, InsertFails, InsertRow, Compensation, table, Holding
    <3>2. \A b \in rows' : NamesOwn(b)' \/ b \in dropped'
      BY <1>0, <2>1, <3>1 DEF NamesOwn
    <3> QED
      BY <1>0, <2>1, <3>1, <3>2, PublishOrphan
  <2>6. CASE Relookup(a) \/ RemoveUploaded(a)
    <3>1. /\ UNCHANGED <<rows, meta>> /\ stored' \subseteq stored
          /\ publish'[a] = "remove" \/ a \notin stored' \/ a \in dropped'
      BY <2>2, <2>6 DEF Relookup, RemoveUploaded, Drop, table
    <3> QED
      BY <1>0, <2>1, <3>1, PublishOrphan DEF Holding, NamesOwn
  <2> QED
    BY <1>1, <2>3, <2>4, <2>5, <2>6 DEF PublishStep
<1>2. ASSUME NEW a \in Apps, NEW m \in Metadata, ReplaceMetadata(a, m)
      PROVE  OrphanInv'
  <2>1. /\ UNCHANGED <<publish, rows, stored, delete, status>>
        /\ dropped \subseteq dropped'
        /\ \A b \in Apps \ {a} : meta'[b] = meta[b]
        /\ meta'[a].name = a \/ a \in dropped'
    BY <1>0, <1>2 DEF ReplaceMetadata, Drop, lost
  <2>2. \A b \in rows' : NamesOwn(b)' \/ b \in dropped'
    BY <1>0, <2>1 DEF NamesOwn
  <2> QED
    BY <2>1, <2>2 DEF OrphanInv, OrphanIsTracked, AtWork, Tracked, RetryIs, In, Object
<1>3. CASE (\E k \in Keys : LockExpires(k)) \/ UNCHANGED vars
  <2>1. UNCHANGED <<publish, rows, meta, stored, delete, status, dropped>>
    BY <1>3 DEF LockExpires, vars, table, lost
  <2> QED
    BY <2>1 DEF OrphanInv, OrphanIsTracked, AtWork, Tracked, RetryIs, In, Object, NamesOwn
<1>4. ASSUME NEW d \in Deleters, DeleteStep(d) \/ CrashDelete(d)
      PROVE  OrphanInv'
  <2>0. /\ In(d, "row") => Object(d) = Target[d] \/ Target[d] \in dropped
        /\ Target[d] \in Apps
    BY <1>0 DEF OrphanInv
  <2>1. /\ publish' = publish /\ dropped \subseteq dropped'
        /\ \A c \in Deleters \ {d} : delete'[c] = delete[c] /\ (ToRetry(c) => ToRetry(c)')
    <3>1. publish' = publish /\ dropped \subseteq dropped'
      BY <1>4 DEF DeleteStep, CrashDelete, Read, DeleteRow, DeleteFails, RemoveObject,
           RemoveFails, Record, LetGo, Drop, lost
    <3>2. PICK next : To(d, next)
      BY <1>4 DEF DeleteStep, CrashDelete, Read, DeleteRow, DeleteFails, RemoveObject,
           RemoveFails, Record
    <3>3. \A c \in Deleters \ {d} : delete'[c] = delete[c]
      BY <1>0, <3>2 DEF To
    <3>4. \/ status' = status
          \/ status' = [status EXCEPT ![<<d, Object(d)>>] = "pending"]
      BY <1>4 DEF DeleteStep, CrashDelete, Read, DeleteRow, DeleteFails, RemoveObject,
           RemoveFails, Record, Retries!Record
    <3>5. \A c \in Deleters \ {d} : ToRetry(c) => ToRetry(c)'
      BY <1>0, <3>4 DEF ToRetry, RetryRows
    <3> QED
      BY <3>1, <3>3, <3>5
  <2>2. \A next : To(d, next) => delete'[d] = next
    BY <1>0 DEF To
  <2>3. CASE Read(d)
    <3>1. /\ UNCHANGED <<rows, meta, stored, status>> /\ In(d, "read")
          /\ \/ delete'[d] = Finished
             \/ delete'[d] = Deletion("row", meta[Target[d]].name) /\ Target[d] \in rows
      BY <2>2, <2>3 DEF Read, RowFirst, table
    <3>2. In(d, "row")' => Object(d)' = Target[d] \/ Target[d] \in dropped'
      BY <1>0, <2>1, <3>1 DEF In, Object, Finished, Deletion, NamesOwn
    <3>3. ~Removing(d) /\ (ToRetry(d)' <=> ToRetry(d))
      BY <3>1 DEF In, Removing, ToRetry
    <3> QED
      BY <1>0, <2>1, <3>1, <3>2, <3>3, DeleteOrphan DEF NamesOwn
  <2>4. CASE DeleteRow(d) \/ DeleteFails(d)
    <3>1. /\ UNCHANGED <<stored, status>> /\ In(d, "row") /\ ~In(d, "row")'
          /\ \/ rows' = rows /\ meta' = meta
             \/ /\ rows' = rows \ {Target[d]}
                /\ meta' = [meta EXCEPT ![Target[d]] = NoMetadata]
                /\ \/ delete'[d] = Deletion("object", Object(d))
                   \/ Object(d) = NoApp
                   \/ Object(d) = Target[d] => Target[d] \in dropped'
      BY <2>2, <2>4 DEF DeleteRow, DeleteFails, Delete, LetGo, Drop, In, Finished, Deletion,
                        table
    <3>2. \A b \in rows' : NamesOwn(b)' \/ b \in dropped'
      BY <1>0, <2>1, <3>1 DEF NamesOwn
    <3>3. ~Removing(d) /\ (ToRetry(d)' <=> ToRetry(d))
      BY <3>1 DEF In, Removing, ToRetry
    <3>4. Target[d] \in stored' \ rows'
            => Target[d] \in dropped' \/ Removing(d)' \/ Target[d] \in stored \ rows
      BY <1>0, <2>0, <2>1, <3>1 DEF Removing, In, Object, Deletion
    <3> QED
      BY <1>0, <2>1, <3>1, <3>2, <3>3, <3>4, DeleteOrphan
  <2>5. CASE RemoveObject(d) \/ RemoveFails(d)
    <3>1. /\ UNCHANGED <<rows, meta, status>> /\ stored' \subseteq stored /\ In(d, "object")
          /\ \/ delete'[d] = Finished /\ stored' = stored \ {Object(d)}
             \/ delete'[d] = Deletion("record", Object(d))
      BY <2>2, <2>5 DEF RemoveObject, RemoveFails, Failed, table
    <3>2. Removing(d) => Target[d] \notin stored' \/ Removing(d)'
      BY <3>1 DEF Removing, In, Object, Deletion
    <3>3. ~In(d, "row")' /\ (ToRetry(d)' <=> ToRetry(d))
      BY <3>1 DEF In, ToRetry, Finished, Deletion
    <3> QED
      BY <1>0, <2>1, <3>1, <3>2, <3>3, DeleteOrphan DEF NamesOwn
  <2>6. CASE Record(d)
    <3>1. /\ UNCHANGED <<rows, meta, stored>> /\ delete'[d] = Finished
          /\ \/ status' = [status EXCEPT ![<<d, Object(d)>>] = "pending"]
             \/ status' = status /\ (Object(d) = Target[d] => Target[d] \in dropped')
      BY <2>2, <2>6 DEF Record, Retries!Record, LetGo, Drop, table
    <3>2. /\ Removing(d) => ToRetry(d)' \/ Target[d] \in dropped'
          /\ ToRetry(d) => ToRetry(d)'
      BY <1>0, <2>0, <3>1 DEF Removing, ToRetry, RetryRows
    <3>3. ~In(d, "row")'
      BY <3>1 DEF In, Finished, Deletion
    <3> QED
      BY <1>0, <2>1, <3>1, <3>2, <3>3, DeleteOrphan DEF NamesOwn
  <2>7. CASE CrashDelete(d)
    <3>1. /\ UNCHANGED <<rows, meta, stored, status>> /\ delete'[d] = Finished
          /\ Removing(d) => Target[d] \in dropped'
      BY <2>2, <2>7 DEF CrashDelete, LetGo, Drop, table, Removing
    <3>2. ~In(d, "row")' /\ (ToRetry(d)' <=> ToRetry(d))
      BY <3>1 DEF In, ToRetry, Finished, Deletion
    <3> QED
      BY <1>0, <2>1, <3>1, <3>2, DeleteOrphan DEF NamesOwn
  <2> QED
    BY <1>4, <2>3, <2>4, <2>5, <2>6, <2>7 DEF DeleteStep
<1>5. ASSUME NEW r \in RetryRows, Worker(r)
      PROVE  OrphanInv'
  <2>1. /\ UNCHANGED <<publish, rows, meta, delete, dropped>> /\ stored' \subseteq stored
        /\ \A q \in RetryRows :
             \/ status'[q] = status[q]
             \/ status'[q] = "failed"
             \/ q[2] \notin stored'
    BY <1>0, <1>5 DEF Worker, Retries!Remove, Retries!Done, Retries!GiveUp, table, lost
  <2>2. \A d \in Deleters : <<d, Target[d]>> \in RetryRows /\ <<d, Target[d]>>[2] = Target[d]
    BY <1>0 DEF RetryRows
  <2>3. \A d \in Deleters : /\ ToRetry(d) => ToRetry(d)' \/ Target[d] \notin stored'
                            /\ Removing(d)' <=> Removing(d)
                            /\ In(d, "row")' <=> In(d, "row")
                            /\ Object(d)' = Object(d)
    BY <2>1, <2>2 DEF ToRetry, Removing, In, Object
  <2>4. ASSUME NEW b \in stored' \ rows'
        PROVE  b \in dropped' \/ AtWork(b)' \/ Tracked(b)'
    <3>1. b \in dropped \/ AtWork(b) \/ Tracked(b)
      BY <2>1, <2>4 DEF OrphanInv, OrphanIsTracked
    <3>2. AtWork(b) => AtWork(b)'
      BY <2>1 DEF AtWork, In, Object
    <3>3. Tracked(b) => Tracked(b)'
      BY <2>3, <2>4, WhoDeals DEF Tracked, RetryIs, ToRetry
    <3> QED
      BY <2>1, <3>1, <3>2, <3>3
  <2> QED
    BY <1>0, <2>1, <2>3, <2>4 DEF OrphanInv, OrphanIsTracked, NamesOwn
<1> QED
  BY <1>1, <1>2, <1>3, <1>4, <1>5 DEF Next

\* An object without a row is a request's or the retry table's business, unless a mishap
\* that is only logged let go of it: no interleaving of publications, deletions,
\* updates and the retry worker loses one otherwise.
THEOREM MarketOrphanIsTracked == Spec => []OrphanIsTracked
<1>1. Init => OrphanInv
  BY DEF Init, OrphanInv, OrphanIsTracked, In, Deletion
<1>2. Inv /\ OrphanInv /\ [Next]_vars => OrphanInv'
  BY OrphanStep
<1>3. OrphanInv => OrphanIsTracked
  BY DEF OrphanInv
<1> QED
  BY InitInv, StepInv, <1>1, <1>2, <1>3, PTL DEF Spec

-----------------------------------------------------------------------------
(* The cached details of an app                                                    *)

\* A reader that loads for its process.
Loading == {"load", "store", "return"}

\* The reader that loads for its process is the one singleflight knows.
LoaderIsKnown ==
  \A r \in Readers : stage[r] \in Loading => flight[ProcessOf[r]] = r

\* The invariant of the cache.
CacheInv == CacheType /\ OldIsAwaited /\ LoaderIsKnown

\* The invariant holds before the first write.
LEMMA CacheInitInv == CacheInit => CacheInv
<1>. SUFFICES ASSUME CacheInit PROVE CacheInv
  OBVIOUS
<1>1. Newest = 1
  BY DEF CacheInit, Newest
<1>. QED
  BY <1>1 DEF CacheInit, CacheInv, CacheType, OldIsAwaited, LoaderIsKnown, Loading

\* A write makes one more version and waits for its own deletion.
LEMMA WriteInv ==
  ASSUME CacheInv, NEW row \in BOOLEAN, Write(row)
  PROVE  CacheInv'
<1>1. /\ versions' \in Seq(BOOLEAN) /\ Newest' = Newest + 1 /\ Newest \in Nat \ {0}
      /\ pending' = pending \cup {Newest + 1}
      /\ UNCHANGED <<missed, entry, stage, loaded, flight>>
  BY DEF CacheInv, CacheType, Write, Committed, Newest, reads
<1>2. 1..Newest \subseteq 1..Newest' /\ Newest + 1 \in 1..Newest'
  BY <1>1
<1>3. CacheType'
  <2>1. pending' \subseteq 1..Newest' /\ missed' \subseteq 1..Newest'
    BY <1>1, <1>2 DEF CacheInv, CacheType
  <2>2. entry' # Nothing => entry' \in [of : 1..Newest', since : 1..Newest']
    BY <1>1, <1>2 DEF CacheInv, CacheType, Entries
  <2>3. loaded' \in [Readers -> 1..Newest']
    BY <1>1, <1>2 DEF CacheInv, CacheType
  <2>. QED  BY <1>1, <2>1, <2>2, <2>3 DEF CacheInv, CacheType, Entries
<1>4. OldIsAwaited'
  <2>. SUFFICES ASSUME entry' # Nothing, NEW v \in entry'.since + 1 .. Newest'
                PROVE  v \in pending' \cup missed'
    BY DEF OldIsAwaited
  <2>1. entry.since \in 1..Newest /\ entry' = entry
    BY <1>1 DEF CacheInv, CacheType, Entries
  <2>2. v = Newest + 1 \/ v \in entry.since + 1 .. Newest
    BY <1>1, <2>1
  <2>. QED  BY <1>1, <2>1, <2>2 DEF CacheInv, OldIsAwaited
<1>5. LoaderIsKnown'
  BY <1>1 DEF CacheInv, LoaderIsKnown
<1>. QED  BY <1>3, <1>4, <1>5 DEF CacheInv

\* A deletion takes the entry away; one that is missed is remembered.
LEMMA InvalidateInv ==
  ASSUME CacheInv, NEW v \in pending, Invalidate(v) \/ MissInvalidation(v)
  PROVE  CacheInv'
<1>1. /\ UNCHANGED <<versions, stage, loaded, flight>> /\ Newest' = Newest
      /\ pending' = pending \ {v}
      /\ \/ entry' = Nothing /\ missed' = missed
         \/ entry' = entry /\ missed' = missed \cup {v}
  BY DEF Invalidate, MissInvalidation, reads, Newest
<1>2. CacheType'
  BY <1>1 DEF CacheInv, CacheType, Entries
<1>3. OldIsAwaited'
  BY <1>1 DEF CacheInv, OldIsAwaited
<1>4. LoaderIsKnown'
  BY <1>1 DEF CacheInv, LoaderIsKnown
<1>. QED  BY <1>2, <1>3, <1>4 DEF CacheInv

\* No reader changes the row; what it stores is stamped with the newest version.
LEMMA ReaderKeepsOld ==
  ASSUME CacheInv, UNCHANGED writes,
         \/ entry' \in {entry, Nothing}
         \/ \E r \in Readers : entry' = [of |-> loaded[r], since |-> Newest]
  PROVE  /\ versions' = versions /\ Newest' = Newest /\ pending' = pending /\ missed' = missed
         /\ entry' # Nothing => entry' \in [of : 1..Newest, since : 1..Newest]
         /\ OldIsAwaited'
<1>1. /\ versions' = versions /\ Newest' = Newest /\ pending' = pending /\ missed' = missed
      /\ Newest \in Nat \ {0}
  BY DEF writes, Newest, CacheInv, CacheType
<1>2. CASE entry' \in {entry, Nothing}
  BY <1>1, <1>2 DEF CacheInv, CacheType, Entries, OldIsAwaited
<1>3. ASSUME NEW r \in Readers, entry' = [of |-> loaded[r], since |-> Newest]
      PROVE  /\ entry' \in [of : 1..Newest, since : 1..Newest] /\ OldIsAwaited'
  <2>1. loaded[r] \in 1..Newest /\ Newest \in 1..Newest
    BY <1>1 DEF CacheInv, CacheType
  <2>2. entry'.since + 1 .. Newest' = {}
    BY <1>1, <1>3
  <2>. QED  BY <1>3, <2>1, <2>2 DEF OldIsAwaited
<1>. QED  BY <1>1, <1>2, <1>3

\* The steps of the readers, of the clock, and the death of a process.
LEMMA ReadInv ==
  ASSUME CacheInv,
         \/ \E r \in Readers : Get(r) \/ ReadStep(r)
         \/ Expire
         \/ \E p \in Processes : Crash(p)
  PROVE  CacheInv'
<1>. DEFINE Doings == {"idle", "missed", "load", "store", "return", "wait"}
            Kept   == /\ stage' \in [Readers -> Doings] /\ loaded' \in [Readers -> 1..Newest]
                      /\ flight' \in [Processes -> Readers \cup {Nobody}] /\ LoaderIsKnown'
<1>0. Newest \in Nat \ {0}
  BY DEF CacheInv, CacheType, Newest
<1>1. /\ ProcessOf \in [Readers -> Processes] /\ Newest \in Nat \ {0}
      /\ stage \in [Readers -> Doings] /\ loaded \in [Readers -> 1..Newest]
      /\ flight \in [Processes -> Readers \cup {Nobody}] /\ Nobody \notin Readers
  BY <1>0, CacheAssumption DEF CacheInv, CacheType
<1>2. /\ UNCHANGED writes
      /\ \/ entry' \in {entry, Nothing}
         \/ \E r \in Readers : entry' = [of |-> loaded[r], since |-> Newest]
  BY DEF Get, ReadStep, Lead, Follow, Load, LoadFails, Store, Return, Expire, Crash
<1>3. Kept
  <2>. USE DEF CacheInv, LoaderIsKnown, Loading, Proceed
  <2>1. ASSUME NEW r \in Readers, Get(r) \/ Follow(r)
        PROVE  Kept
    BY <2>1, <1>1 DEF Get, Follow
  <2>2. ASSUME NEW r \in Readers, Lead(r)
        PROVE  Kept
    BY <2>2, <1>1 DEF Lead, IsFree
  <2>3. ASSUME NEW r \in Readers, Load(r) \/ LoadFails(r) \/ Store(r)
        PROVE  Kept
    BY <2>3, <1>1 DEF Load, LoadFails, Store, Visible
  <2>4. ASSUME NEW r \in Readers, Return(r)
        PROVE  Kept
    BY <2>4, <1>1 DEF Return, Released
  <2>5. CASE Expire
    BY <2>5, <1>1 DEF Expire, reads
  <2>6. ASSUME NEW p \in Processes, Crash(p)
        PROVE  Kept
    BY <2>6, <1>1 DEF Crash
  <2>. QED  BY <2>1, <2>2, <2>3, <2>4, <2>5, <2>6 DEF ReadStep
<1>. QED  BY <1>2, <1>3, ReaderKeepsOld DEF CacheInv, CacheType, Entries

\* Every step of the cache keeps the invariant.
LEMMA CacheStepInv == CacheInv /\ [CacheNext]_cacheVars => CacheInv'
<1>. SUFFICES ASSUME CacheInv, [CacheNext]_cacheVars PROVE CacheInv'
  OBVIOUS
<1>1. CASE UNCHANGED cacheVars
  BY <1>1 DEF cacheVars, writes, reads, CacheInv, CacheType, Entries, Newest, OldIsAwaited, LoaderIsKnown
<1>. QED  BY <1>1, WriteInv, InvalidateInv, ReadInv DEF CacheNext

\* The cache's variables keep their types for any readers, processes and writes.
THEOREM CacheTypeCorrect == CacheSpec => []CacheType
<1>1. CacheInv => CacheType
  BY DEF CacheInv
<1>. QED  BY CacheInitInv, CacheStepInv, <1>1, PTL DEF CacheSpec

\* For any readers, processes and writes, an entry that was there before a write is
\* awaited by that write's deletion, unless this was missed.
THEOREM CacheOldIsAwaited == CacheSpec => []OldIsAwaited
<1>1. CacheInv => OldIsAwaited
  BY DEF CacheInv
<1>. QED  BY CacheInitInv, CacheStepInv, <1>1, PTL DEF CacheSpec

\* For any number of readers, a process has at most one load under way.
THEOREM CacheOneLoadPerProcess == CacheSpec => []OneLoadPerProcess
<1>1. CacheInv => OneLoadPerProcess
  <2>. SUFFICES ASSUME CacheInv, NEW q \in Readers, NEW r \in Readers,
                       ProcessOf[q] = ProcessOf[r],
                       {stage[q], stage[r]} \subseteq {"load", "store", "return"}
                PROVE  q = r
    BY DEF OneLoadPerProcess
  <2>. QED  BY DEF CacheInv, LoaderIsKnown, Loading
<1>. QED  BY CacheInitInv, CacheStepInv, <1>1, PTL DEF CacheSpec

-----------------------------------------------------------------------------
(* The counters of a download                                                      *)

\* The sorted sets of a download, and the places it passes.
Sets   == {"daily", "weekly", "total"}
Places == {"idle", "metric", "delete", "done"} \cup Pipeline

\* The days whose downloads a key counts, and the downloads of an app that the table has
\* counted and the key has still to count.
DaysOf(k) == {d \in 1..Days : RankingKey(k[1], d) = k}
ToCount   == [daily  |-> {"daily"},
              weekly |-> {"daily", "expireDaily", "weekly"},
              total  |-> Pipeline]
Behind(a, k) ==
  {r \in Downloads : /\ download[r].app = a /\ download[r].day \in DaysOf(k)
                     /\ download[r].at \in ToCount[k[1]]}
UnderWay == {r \in Downloads : download[r].at # "idle"}

\* The types of the counters; finitely many downloads have begun.
CountType ==
  /\ today \in 1..Days /\ published \subseteq Listed
  /\ metric \in [Listed -> [1..Days -> Nat]]
  /\ score \in [RankingKeys -> [Listed -> Nat]]
  /\ due \in [RankingKeys -> Nat] /\ expired \subseteq RankingKeys
  /\ download \in [Downloads -> [at : Places, app : Listed \cup {0}, day : 0..Days]]
  /\ \A r \in UnderWay : download[r].app \in Listed /\ download[r].day \in 1..Days
  /\ IsFiniteSet(UnderWay)

\* A key has what the table has on its days, but for the downloads that are behind.
CountInv ==
  \A a \in Listed \ spoilt, k \in RankingKeys \ expired :
    score[k][a] + Cardinality(Behind(a, k)) = SumOver(metric[a], DaysOf(k))

\* A set is due, and expires, only after all the days it counts; a download is never
\* ahead of the date.
LifeInv ==
  /\ \A r \in UnderWay : download[r].day <= today
  /\ \A k \in RankingKeys : due[k] # 0 => k[1] # "total" /\ \A d \in DaysOf(k) : d < due[k]
  /\ \A k \in expired : k[1] # "total" /\ \A d \in DaysOf(k) : d < today

\* A key is made of its type and names the days it was made for.
LEMMA KeyFacts ==
  /\ \A k \in RankingKeys : k[1] \in Sets /\ IsFiniteSet(DaysOf(k)) /\ DaysOf(k) \subseteq 1..Days
  /\ \A t \in Sets, d \in 1..Days :
       RankingKey(t, d) \in RankingKeys /\ RankingKey(t, d)[1] = t
<1>1. ASSUME NEW k \in RankingKeys PROVE k[1] \in Sets
  BY DEF RankingKeys, Sets
<1>2. ASSUME NEW k PROVE IsFiniteSet(DaysOf(k)) /\ DaysOf(k) \subseteq 1..Days
  <2>1. IsFiniteSet(1..Days) /\ DaysOf(k) \subseteq 1..Days
    BY FS_Interval, RankingAssumption DEF DaysOf
  <2> QED
    BY <2>1, FS_Subset
<1>3. ASSUME NEW t \in Sets, NEW d \in 1..Days
      PROVE  RankingKey(t, d) \in RankingKeys /\ RankingKey(t, d)[1] = t
  BY RankingAssumption DEF RankingKey, RankingKeys, Sets, Weeks
<1> QED
  BY <1>1, <1>2, <1>3

\* A set lives for some days.
LEMMA LivesOn == \A type \in {"daily", "weekly"} : Life[type] \in Nat \ {0}
BY RankingAssumption

\* The sets that are due when the behaviour begins.
LEMMA FirstDue ==
  \A k \in FirstKeys \ {<<"total", 0>>} :
    k[1] \in {"daily", "weekly"} /\ k = RankingKey(k[1], 1)
<1> SUFFICES ASSUME NEW k \in FirstKeys, k # <<"total", 0>>
             PROVE  k[1] \in {"daily", "weekly"} /\ k = RankingKey(k[1], 1)
  OBVIOUS
<1>1. PICK t \in {"daily", "weekly", "total"} : k = RankingKey(t, 1)
  BY DEF FirstKeys
<1>2. t # "total"
  BY <1>1 DEF RankingKey
<1>3. k[1] = t
  BY <1>1 DEF RankingKey
<1> QED
  BY <1>1, <1>2, <1>3

\* A set that is counted in on a day of its own lives beyond all the days it counts.
LEMMA LastsLonger ==
  ASSUME NEW type \in {"daily", "weekly"}, NEW e \in 1..Days
  PROVE  \A d \in DaysOf(RankingKey(type, e)) : d < e + Life[type]
<1>1. /\ Life["daily"] \in Nat \ {0}
      /\ \A d, c \in 1..Days : WeekOf[d] = WeekOf[c] => c < d + Life["weekly"]
  BY RankingAssumption
<1>2. CASE type = "daily"
  <2>1. DaysOf(RankingKey(type, e)) = {e}
    BY <1>2 DEF DaysOf, RankingKey
  <2> QED
    BY <1>1, <1>2, <2>1
<1>3. CASE type = "weekly"
  <2>1. DaysOf(RankingKey(type, e)) = {d \in 1..Days : WeekOf[d] = WeekOf[e]}
    BY <1>3 DEF DaysOf, RankingKey
  <2> QED
    BY <1>1, <1>3, <2>1
<1> QED
  BY <1>2, <1>3

\* What the table holds for an app are numbers.
LEMMA TableType ==
  ASSUME CountType, NEW a \in Listed
  PROVE  /\ metric[a] \in [1..Days -> Nat]
         /\ \A d \in 1..Days : metric[a][d] \in Nat /\ metric[a][d] \in Int
<1>1. metric[a] \in [1..Days -> Nat]
  BY DEF CountType
<1>2. ASSUME NEW d \in 1..Days PROVE metric[a][d] \in Nat
  BY <1>1
<1> QED
  BY <1>1, <1>2

\* What is behind is under way, so it is finite.
LEMMA BehindIsFinite ==
  ASSUME CountType, NEW a, NEW k \in RankingKeys
  PROVE  IsFiniteSet(Behind(a, k)) /\ Cardinality(Behind(a, k)) \in Nat
<1>1. \A t \in Sets : "idle" \notin ToCount[t]
  BY DEF Sets, ToCount, Pipeline
<1>2. Behind(a, k) \subseteq UnderWay
  BY <1>1, KeyFacts DEF Behind, UnderWay
<1> QED
  BY <1>2, FS_Subset, FS_CardinalityType DEF CountType

\* A download that moves on keeps its app and its day; the others stay where they are.
LEMMA MoveOn ==
  ASSUME CountType, NEW r \in Downloads, NEW place \in Places \ {"idle"}, Move(r, place),
         r \in UnderWay
  PROVE  /\ download' \in [Downloads -> [at : Places, app : Listed \cup {0}, day : 0..Days]]
         /\ \A q \in Downloads : /\ download'[q].app = download[q].app
                                 /\ download'[q].day = download[q].day
                                 /\ q # r => download'[q].at = download[q].at
         /\ download'[r].at = place /\ UnderWay' = UnderWay
         /\ \A q \in UnderWay' : download'[q].app \in Listed /\ download'[q].day \in 1..Days
<1>1. \A c \in [at : Places, app : Listed \cup {0}, day : 0..Days] :
        /\ [c EXCEPT !.at = place] \in [at : Places, app : Listed \cup {0}, day : 0..Days]
        /\ [c EXCEPT !.at = place].at = place
        /\ [c EXCEPT !.at = place].app = c.app /\ [c EXCEPT !.at = place].day = c.day
  OBVIOUS
<1>2. /\ download \in [Downloads -> [at : Places, app : Listed \cup {0}, day : 0..Days]]
      /\ download' = [download EXCEPT ![r] = [download[r] EXCEPT !.at = place]]
  BY DEF CountType, Move
<1>3. /\ download' \in [Downloads -> [at : Places, app : Listed \cup {0}, day : 0..Days]]
      /\ \A q \in Downloads : /\ download'[q].app = download[q].app
                              /\ download'[q].day = download[q].day
                              /\ q # r => download'[q].at = download[q].at
      /\ download'[r].at = place
  BY <1>1, <1>2
<1>4. UnderWay' = UnderWay
  BY <1>3 DEF UnderWay
<1>5. \A q \in UnderWay : q \in Downloads
  BY DEF UnderWay
<1> QED
  BY <1>3, <1>4, <1>5 DEF CountType

\* A download that moves on within, or outside, what a key has still to count changes
\* nothing for this key; and never for another app, or a key of other days.
LEMMA BehindSame ==
  ASSUME CountType, NEW r \in UnderWay, NEW place \in Places \ {"idle"}, Move(r, place),
         NEW a, NEW k \in RankingKeys,
         \/ a # download[r].app \/ download[r].day \notin DaysOf(k)
         \/ download[r].at \in ToCount[k[1]] <=> place \in ToCount[k[1]]
  PROVE  Behind(a, k)' = Behind(a, k)
<1>1. r \in Downloads
  BY DEF UnderWay
<1>2. /\ \A q \in Downloads : /\ download'[q].app = download[q].app
                              /\ download'[q].day = download[q].day
                              /\ q # r => download'[q].at = download[q].at
      /\ download'[r].at = place
  BY <1>1, MoveOn
<1> QED
  BY <1>2 DEF Behind

\* Steps that count nothing: whatever is not spoilt is behind as before.
LEMMA NothingCounted ==
  ASSUME CountType, CountInv, UNCHANGED <<today, published, metric, score, expired>>,
         due' \in [RankingKeys -> Nat],
         NEW r \in UnderWay, NEW place \in Places \ {"idle"}, Move(r, place),
         spoilt \subseteq spoilt',
         \/ download[r].app \in spoilt'
         \/ \A t \in Sets : download[r].at \in ToCount[t] <=> place \in ToCount[t]
  PROVE  CountType' /\ CountInv'
<1>1. r \in Downloads
  BY DEF UnderWay
<1>2. CountType'
  BY <1>1, MoveOn DEF CountType
<1>3. ASSUME NEW a \in Listed \ spoilt', NEW k \in RankingKeys
      PROVE  Behind(a, k)' = Behind(a, k)
  BY <1>3, BehindSame, KeyFacts
<1>4. CountInv'
  BY <1>3 DEF CountInv
<1> QED
  BY <1>2, <1>4

\* The table counts a download: every key of its day is one behind.
LEMMA TableCounts ==
  ASSUME CountType, CountInv, NEW r \in Downloads, CountInTable(r)
  PROVE  CountType' /\ CountInv'
<1> DEFINE b == download[r].app
           e == download[r].day
<1>1. /\ r \in UnderWay /\ download[r].at = "metric" /\ Move(r, "daily")
      /\ metric' = [metric EXCEPT ![b][e] = @ + 1]
      /\ UNCHANGED <<today, published, sets, spoilt>>
  BY DEF CountInTable, IsAt, UnderWay, calendar, sets
<1>2. b \in Listed /\ e \in 1..Days /\ "daily" \in Places \ {"idle"}
  BY <1>1 DEF CountType, Places, Pipeline, Sets
<1>3. /\ metric' \in [Listed -> [1..Days -> Nat]]
      /\ \A a \in Listed, d \in 1..Days :
           metric'[a][d] = IF a = b /\ d = e THEN metric[a][d] + 1 ELSE metric[a][d]
      /\ \A a \in Listed : a # b => metric'[a] = metric[a]
  <2>1. metric \in [Listed -> [1..Days -> Nat]]
    BY DEF CountType
  <2> HIDE DEF b, e
  <2>2. metric' = [metric EXCEPT ![b] = [metric[b] EXCEPT ![e] = metric[b][e] + 1]]
    BY <1>1
  <2>3. /\ [metric[b] EXCEPT ![e] = metric[b][e] + 1] \in [1..Days -> Nat]
        /\ \A d \in 1..Days : [metric[b] EXCEPT ![e] = metric[b][e] + 1][d]
                                = IF d = e THEN metric[b][d] + 1 ELSE metric[b][d]
    <3>1. metric[b] \in [1..Days -> Nat] /\ metric[b][e] \in Nat
      BY <1>2, TableType
    <3>2. metric[b][e] + 1 \in Nat
      BY <3>1
    <3> QED
      BY <1>2, <3>1, <3>2
  <2> QED
    BY <1>2, <2>1, <2>2, <2>3
<1>4. CountType'
  BY <1>1, <1>2, <1>3, MoveOn DEF CountType, sets
<1>5. ASSUME NEW a \in Listed \ spoilt, NEW k \in RankingKeys \ expired
      PROVE  score'[k][a] + Cardinality(Behind(a, k)') = SumOver(metric'[a], DaysOf(k))
  <2>1. score[k][a] + Cardinality(Behind(a, k)) = SumOver(metric[a], DaysOf(k))
    BY DEF CountInv
  <2>2. k[1] \in Sets /\ IsFiniteSet(DaysOf(k)) /\ DaysOf(k) \subseteq 1..Days
    BY KeyFacts
  <2>3. \A t \in Sets : "daily" \in ToCount[t] /\ "metric" \notin ToCount[t]
    BY DEF ToCount, Pipeline, Sets
  <2>4. \A d \in DaysOf(k) : metric[a][d] \in Int
    BY <2>2, TableType
  <2>5. CASE a = b /\ e \in DaysOf(k)
    <3>1. r \notin Behind(a, k)
      BY <1>1, <2>2, <2>3 DEF Behind
    <3>2. Behind(a, k)' = Behind(a, k) \cup {r}
      <4>1. /\ \A q \in Downloads : /\ download'[q].app = download[q].app
                                    /\ download'[q].day = download[q].day
                                    /\ q # r => download'[q].at = download[q].at
            /\ download'[r].at = "daily"
        BY <1>1, <1>2, MoveOn
      <4> QED
        BY <1>1, <2>2, <2>3, <2>5, <4>1 DEF Behind
    <3>3. Cardinality(Behind(a, k)') = Cardinality(Behind(a, k)) + 1
      BY <3>1, <3>2, BehindIsFinite, FS_AddElement
    <3>4. SumOver(metric'[a], DaysOf(k)) = SumOver(metric[a], DaysOf(k)) + 1
      <4>1. metric'[a][e] = metric[a][e] + 1
            /\ \A d \in DaysOf(k) \ {e} : metric'[a][d] = metric[a][d]
        BY <1>2, <1>3, <2>2, <2>5
      <4> HIDE DEF e
      <4> QED
        BY <2>2, <2>4, <2>5, <4>1, SumChanges
    <3>5. Cardinality(Behind(a, k)) \in Nat /\ score[k][a] \in Nat /\ score' = score
      BY <1>1, BehindIsFinite DEF CountType, sets
    <3> QED
      BY <2>1, <3>3, <3>4, <3>5
  <2>6. CASE a # b \/ e \notin DaysOf(k)
    <3>1. Behind(a, k)' = Behind(a, k)
      BY <1>1, <1>2, <2>6, BehindSame
    <3>2. \A d \in DaysOf(k) : metric'[a][d] = metric[a][d]
      BY <1>3, <2>2, <2>6
    <3>3. SumOver(metric'[a], DaysOf(k)) = SumOver(metric[a], DaysOf(k))
      BY <2>2, <3>2, SumSame
    <3> QED
      BY <1>1, <2>1, <3>1, <3>3 DEF sets
  <2> QED
    BY <2>5, <2>6
<1> QED
  BY <1>1, <1>4, <1>5 DEF CountInv, sets

\* A set counts a download: the key of its day has it, the others are as far behind as
\* they were.
LEMMA SetCounts ==
  ASSUME CountType, CountInv, NEW r \in Downloads, NEW type \in Sets, CountInSet(r, type)
  PROVE  CountType' /\ CountInv'
<1> DEFINE b == download[r].app
           e == download[r].day
           j == RankingKey(type, e)
<1>1. /\ r \in UnderWay /\ download[r].at = type /\ Move(r, Following(type))
      /\ score' = [score EXCEPT ![j][b] = @ + 1]
      /\ UNCHANGED <<today, published, metric, due, expired, spoilt>>
  BY DEF CountInSet, IsAt, UnderWay, calendar, DayTaken, Sets
<1>2. b \in Listed /\ e \in 1..Days /\ j \in RankingKeys /\ j[1] = type
  BY <1>1, KeyFacts DEF CountType
<1>3. Following(type) \in Places \ {"idle"}
  BY DEF Following, Places, Pipeline, Sets
<1>4. /\ score' \in [RankingKeys -> [Listed -> Nat]]
      /\ \A k \in RankingKeys, a \in Listed :
           score'[k][a] = IF k = j /\ a = b THEN score[k][a] + 1 ELSE score[k][a]
  <2>1. score \in [RankingKeys -> [Listed -> Nat]]
    BY DEF CountType
  <2> HIDE DEF b, e, j
  <2>2. score' = [score EXCEPT ![j] = [score[j] EXCEPT ![b] = score[j][b] + 1]]
    BY <1>1
  <2>3. /\ [score[j] EXCEPT ![b] = score[j][b] + 1] \in [Listed -> Nat]
        /\ \A a \in Listed : [score[j] EXCEPT ![b] = score[j][b] + 1][a]
                               = IF a = b THEN score[j][a] + 1 ELSE score[j][a]
    BY <1>2, <2>1
  <2> QED
    BY <1>2, <2>1, <2>2, <2>3
<1>5. CountType'
  BY <1>1, <1>3, <1>4, MoveOn DEF CountType
<1>6. /\ type \in ToCount[type] /\ Following(type) \notin ToCount[type]
      /\ \A t \in Sets \ {type} : type \in ToCount[t] <=> Following(type) \in ToCount[t]
  BY DEF ToCount, Pipeline, Following, Sets
<1>7. ASSUME NEW a \in Listed \ spoilt, NEW k \in RankingKeys \ expired
      PROVE  score'[k][a] + Cardinality(Behind(a, k)') = SumOver(metric[a], DaysOf(k))
  <2>1. score[k][a] + Cardinality(Behind(a, k)) = SumOver(metric[a], DaysOf(k))
    BY DEF CountInv
  <2>2. Cardinality(Behind(a, k)) \in Nat /\ score[k][a] \in Nat
    BY BehindIsFinite DEF CountType
  <2>3. CASE k = j /\ a = b
    <3>1. e \in DaysOf(k)
      BY <1>2, <2>3 DEF DaysOf
    <3>2. r \in Behind(a, k)
      BY <1>1, <1>2, <1>6, <2>3, <3>1 DEF Behind
    <3>3. Behind(a, k)' = Behind(a, k) \ {r}
      <4>1. /\ \A q \in Downloads : /\ download'[q].app = download[q].app
                                    /\ download'[q].day = download[q].day
                                    /\ q # r => download'[q].at = download[q].at
            /\ download'[r].at = Following(type)
        BY <1>1, <1>3, MoveOn
      <4> QED
        BY <1>2, <1>6, <2>3, <4>1 DEF Behind
    <3>4. Cardinality(Behind(a, k)') = Cardinality(Behind(a, k)) - 1
      BY <3>2, <3>3, BehindIsFinite, FS_RemoveElement
    <3>5. score'[k][a] = score[k][a] + 1
      BY <1>2, <1>4, <2>3
    <3> QED
      BY <2>1, <2>2, <3>4, <3>5
  <2>4. CASE k # j \/ a # b
    <3>1. \/ a # b \/ e \notin DaysOf(k) \/ k[1] # type
      BY <2>4 DEF DaysOf
    <3>2. k[1] \in Sets
      BY KeyFacts
    <3>3. Behind(a, k)' = Behind(a, k)
      BY <1>1, <1>3, <1>6, <3>1, <3>2, BehindSame
    <3>4. score'[k][a] = score[k][a]
      BY <1>4, <2>4
    <3> QED
      BY <2>1, <3>3, <3>4
  <2> QED
    BY <2>3, <2>4
<1> QED
  BY <1>1, <1>5, <1>7 DEF CountInv

\* An EXPIRE changes no count.
LEMMA LifeCounts ==
  ASSUME CountType, CountInv, NEW r \in Downloads, NEW type, SetLife(r, type)
  PROVE  CountType' /\ CountInv'
<1>1. PICK place \in {"weekly", "total"} :
        /\ Move(r, place) /\ download[r].at = IF place = "weekly" THEN "expireDaily"
                                                                 ELSE "expireWeekly"
        /\ type \in {"daily", "weekly"}
  BY DEF SetLife, IsAt
<1>2. /\ UNCHANGED <<today, published, metric, score, expired, spoilt>>
      /\ due' = [due EXCEPT ![RankingKey(type, download[r].day)] = today + Life[type]]
  BY DEF SetLife, DayTaken, calendar
<1>3. due' \in [RankingKeys -> Nat]
  <2>1. today + Life[type] \in Nat
    BY <1>1, LivesOn DEF CountType
  <2> QED
    BY <1>2, <2>1 DEF CountType
<1>4. r \in UnderWay /\ place \in Places \ {"idle"}
  BY <1>1 DEF UnderWay, Places, Pipeline
<1>5. \A t \in Sets : download[r].at \in ToCount[t] <=> place \in ToCount[t]
  BY <1>1 DEF Sets, ToCount, Pipeline
<1> QED
  BY <1>1, <1>2, <1>3, <1>4, <1>5, NothingCounted

\* A set that expires is no longer held to the table.
LEMMA ExpiryCounts ==
  ASSUME CountType, CountInv, NEW k \in RankingKeys, SetExpires(k)
  PROVE  CountType' /\ CountInv'
<1>1. /\ UNCHANGED <<today, published, metric, download, spoilt>>
      /\ due' = [due EXCEPT ![k] = 0] /\ expired' = expired \cup {k}
      /\ score' = [score EXCEPT ![k] = [a \in Listed |-> 0]]
  BY DEF SetExpires, calendar
<1>2. UnderWay' = UnderWay /\ \A a, j : Behind(a, j)' = Behind(a, j)
  BY <1>1 DEF UnderWay, Behind
<1>3. /\ due' \in [RankingKeys -> Nat] /\ expired' \subseteq RankingKeys
      /\ score' \in [RankingKeys -> [Listed -> Nat]]
      /\ \A j \in RankingKeys \ {k} : score'[j] = score[j]
  BY <1>1 DEF CountType
<1>4. CountType'
  BY <1>1, <1>2, <1>3 DEF CountType
<1>5. CountInv'
  BY <1>1, <1>2, <1>3 DEF CountInv
<1> QED
  BY <1>4, <1>5

\* A download begins, which nothing has counted.
LEMMA ServeCounts ==
  ASSUME CountType, CountInv, NEW r \in Downloads, NEW a \in Listed, Serve(r, a)
  PROVE  CountType' /\ CountInv'
<1>1. /\ download' = [download EXCEPT ![r] = [at |-> "metric", app |-> a, day |-> today]]
      /\ download[r].at = "idle" /\ UNCHANGED <<today, published, metric, sets, spoilt>>
  BY DEF Serve, IsAt, calendar, sets
<1>2. [at |-> "metric", app |-> a, day |-> today]
        \in [at : Places, app : Listed \cup {0}, day : 0..Days]
  BY DEF CountType, Places, Pipeline
<1>3. /\ download' \in [Downloads -> [at : Places, app : Listed \cup {0}, day : 0..Days]]
      /\ \A q \in Downloads \ {r} : download'[q] = download[q]
      /\ download'[r].at = "metric" /\ download'[r].app = a /\ download'[r].day = today
  BY <1>1, <1>2 DEF CountType
<1>4. UnderWay' = UnderWay \cup {r}
  BY <1>3 DEF UnderWay
<1>5. IsFiniteSet(UnderWay')
  BY <1>4, FS_AddElement DEF CountType
<1>6. \A q \in UnderWay' : download'[q].app \in Listed /\ download'[q].day \in 1..Days
  <2>1. \A q \in UnderWay : q \in Downloads
    BY DEF UnderWay
  <2> QED
    BY <1>3, <1>4, <2>1 DEF CountType
<1>7. CountType'
  BY <1>1, <1>3, <1>5, <1>6 DEF CountType, sets
<1>8. ASSUME NEW b, NEW k \in RankingKeys PROVE Behind(b, k)' = Behind(b, k)
  <2>1. \A t \in Sets : "idle" \notin ToCount[t] /\ "metric" \notin ToCount[t]
    BY DEF ToCount, Pipeline, Sets
  <2> QED
    BY <1>1, <1>3, <2>1, KeyFacts DEF Behind
<1> QED
  BY <1>1, <1>7, <1>8 DEF CountInv, sets

\* Every step of a download keeps table and keys together.
LEMMA DownloadCounts ==
  ASSUME CountType, CountInv, NEW r \in Downloads, DownloadStep(r)
  PROVE  CountType' /\ CountInv'
<1>1. ASSUME TableFails(r) \/ PipelineFails(r) \/ PipelineRepeats(r)
      PROVE  CountType' /\ CountInv'
  <2>1. PICK place \in {"daily", "delete", "done"} : Move(r, place)
    BY <1>1 DEF TableFails, PipelineFails, PipelineRepeats
  <2>2. r \in UnderWay
    BY <1>1 DEF TableFails, PipelineFails, PipelineRepeats, IsAt, UnderWay, Pipeline
  <2>3. /\ spoilt' = spoilt \cup {download[r].app}
        /\ UNCHANGED <<today, published, metric, sets>>
    BY <1>1 DEF TableFails, PipelineFails, PipelineRepeats, Spoil, calendar
  <2>4. place \in Places \ {"idle"}
    BY DEF Places, Pipeline, Sets
  <2> QED
    BY <2>1, <2>2, <2>3, <2>4, NothingCounted DEF sets, CountType
<1>2. CASE DeleteAnswers(r)
  <2>1. /\ r \in UnderWay /\ download[r].at = "delete" /\ Move(r, "done")
        /\ UNCHANGED <<today, published, metric, sets, spoilt>>
    BY <1>2 DEF DeleteAnswers, IsAt, UnderWay, calendar
  <2>2. \A t \in Sets : "delete" \notin ToCount[t] /\ "done" \notin ToCount[t]
    BY DEF ToCount, Pipeline, Sets
  <2>3. "done" \in Places \ {"idle"}
    BY DEF Places, Pipeline
  <2> QED
    BY <2>1, <2>2, <2>3, NothingCounted DEF sets, CountType
<1> QED
  BY <1>1, <1>2, TableCounts, SetCounts, LifeCounts DEF DownloadStep, Sets

\* Where no counter and no download changes, nothing does.
LEMMA CountsUntouched ==
  ASSUME CountType, CountInv, UNCHANGED counts, today' \in 1..Days, published' \subseteq Listed
  PROVE  CountType' /\ CountInv'
<1>1. UNCHANGED <<metric, score, due, expired, download, spoilt>>
  BY DEF counts, sets
<1>2. UnderWay' = UnderWay /\ \A a, k : Behind(a, k)' = Behind(a, k)
  BY <1>1 DEF UnderWay, Behind
<1> QED
  BY <1>1, <1>2 DEF CountType, CountInv

\* On the first day the keys have what was there before.
LEMMA CountsBegin == RankingInit => CountType /\ CountInv
<1> SUFFICES ASSUME RankingInit PROVE CountType /\ CountInv
  OBVIOUS
<1>1. UnderWay = {}
  BY DEF RankingInit, Waiting, UnderWay
<1>2. Earlier \in [Listed -> Nat] /\ Days \in Nat \ {0} /\ 1 \in 1..Days
  BY RankingAssumption
<1>3. CountType
  <2>1. Waiting \in [at : Places, app : Listed \cup {0}, day : 0..Days]
    BY <1>2 DEF Waiting, Places, Pipeline
  <2>2. metric \in [Listed -> [1..Days -> Nat]] /\ score \in [RankingKeys -> [Listed -> Nat]]
    BY <1>2 DEF RankingInit
  <2>3. due \in [RankingKeys -> Nat] /\ expired \subseteq RankingKeys
    <3>1. \A k \in FirstKeys \ {<<"total", 0>>} : 1 + Life[k[1]] \in Nat
      BY FirstDue, LivesOn
    <3> QED
      BY <3>1 DEF RankingInit
  <2> QED
    BY <1>1, <1>2, <2>1, <2>2, <2>3, FS_EmptySet DEF RankingInit, CountType
<1>4. ASSUME NEW a \in Listed, NEW k \in RankingKeys
      PROVE  score[k][a] + Cardinality(Behind(a, k)) = SumOver(metric[a], DaysOf(k))
  <2>1. Behind(a, k) = {} /\ Cardinality({}) = 0
    <3>1. Behind(a, k) \subseteq UnderWay
      <4>1. \A t \in Sets : "idle" \notin ToCount[t]
        BY DEF Sets, ToCount, Pipeline
      <4> QED
        BY <4>1, KeyFacts DEF Behind, UnderWay
    <3> QED
      BY <1>1, <3>1, FS_EmptySet
  <2>2. k[1] \in Sets /\ IsFiniteSet(DaysOf(k)) /\ DaysOf(k) \subseteq 1..Days
    BY KeyFacts
  <2>3. k \in FirstKeys <=> 1 \in DaysOf(k)
    <3>1. ASSUME NEW t \in Sets, k = RankingKey(t, 1) PROVE t = k[1]
      BY <1>2, <3>1, KeyFacts
    <3> QED
      BY <1>2, <2>2, <3>1 DEF FirstKeys, DaysOf, Sets
  <2>4. \A d \in 1..Days : metric[a][d] = IF d = 1 THEN Earlier[a] ELSE 0
    BY DEF RankingInit
  <2>5. score[k][a] = IF k \in FirstKeys THEN Earlier[a] ELSE 0
    BY DEF RankingInit
  <2>6. Earlier[a] \in Nat
    BY <1>2
  <2>7. CASE 1 \in DaysOf(k)
    <3> DEFINE none == [d \in 1..Days |-> 0]
    <3>1. \A d \in DaysOf(k) : none[d] = 0
      BY <2>2
    <3>2. SumOver(none, DaysOf(k)) = 0
      <4> HIDE DEF none
      <4> QED
        BY <2>2, <3>1, SumZero
    <3>3. /\ metric[a][1] = none[1] + Earlier[a]
          /\ \A d \in DaysOf(k) \ {1} : metric[a][d] = none[d]
      BY <1>2, <2>2, <2>4, <2>6
    <3>4. SumOver(metric[a], DaysOf(k)) = SumOver(none, DaysOf(k)) + Earlier[a]
      <4>1. \A d \in DaysOf(k) : none[d] \in Int
        BY <2>2
      <4> HIDE DEF none
      <4> QED
        BY <2>2, <2>6, <2>7, <3>3, <4>1, SumChanges
    <3> QED
      BY <2>1, <2>3, <2>5, <2>6, <2>7, <3>2, <3>4
  <2>8. CASE 1 \notin DaysOf(k)
    <3>1. \A d \in DaysOf(k) : metric[a][d] = 0
      BY <2>2, <2>4, <2>8
    <3>2. SumOver(metric[a], DaysOf(k)) = 0
      BY <2>2, <3>1, SumZero
    <3> QED
      BY <2>1, <2>3, <2>5, <2>8, <3>2
  <2> QED
    BY <2>7, <2>8
<1> QED
  BY <1>3, <1>4 DEF CountInv

\* Every step keeps table and keys together.
LEMMA CountsHold == RankingSpec => [](CountType /\ CountInv)
<1>1. CountType /\ CountInv /\ [RankingNext]_rankingVars => (CountType /\ CountInv)'
  <2> SUFFICES ASSUME CountType, CountInv, [RankingNext]_rankingVars
               PROVE  CountType' /\ CountInv'
    OBVIOUS
  <2>0. today \in 1..Days /\ published \subseteq Listed /\ Days \in Nat
    BY RankingAssumption DEF CountType
  <2>1. CASE Midnight
    <3>1. today' \in 1..Days /\ published' = published
      BY <2>0, <2>1 DEF Midnight
    <3> QED
      BY <2>0, <2>1, <3>1, CountsUntouched DEF Midnight
  <2>7. ASSUME NEW k \in RankingKeys, SetExpires(k) PROVE CountType' /\ CountInv'
    BY <2>7, ExpiryCounts
  <2>2. ASSUME NEW a \in Listed, ChangeStatus(a) PROVE CountType' /\ CountInv'
    <3>1. published' \subseteq Listed /\ today' = today
      BY <2>0, <2>2 DEF ChangeStatus
    <3> QED
      BY <2>0, <2>2, <3>1, CountsUntouched DEF ChangeStatus
  <2>3. ASSUME NEW r \in Downloads, DownloadStep(r) \/ \E a \in Listed : Serve(r, a)
        PROVE  CountType' /\ CountInv'
    BY <2>3, DownloadCounts, ServeCounts
  <2>4. ASSUME NEW v \in Viewers, ViewStep(v) \/ \E t \in Types, n \in Sizes : Ask(v, t, n)
        PROVE  CountType' /\ CountInv'
    <3>1. UNCHANGED <<calendar, counts>>
      BY <2>4 DEF ViewStep, Ask, ReadSet, Join, Keep, ViewFails
    <3> QED
      BY <2>0, <3>1, CountsUntouched DEF calendar
  <2>5. ASSUME NEW t \in Types, NEW n \in Sizes, AnswerExpires(t, n)
        PROVE  CountType' /\ CountInv'
    <3>1. UNCHANGED <<calendar, counts>>
      BY <2>5 DEF AnswerExpires
    <3> QED
      BY <2>0, <3>1, CountsUntouched DEF calendar
  <2>6. CASE UNCHANGED rankingVars
    BY <2>0, <2>6, CountsUntouched DEF rankingVars, calendar
  <2> QED
    BY <2>1, <2>2, <2>3, <2>4, <2>5, <2>6, <2>7 DEF RankingNext
<1> QED
  BY <1>1, CountsBegin, PTL DEF RankingSpec

\* On the first day the sets of that day and its week are due.
LEMMA LifeBegins == RankingInit => LifeInv
<1> SUFFICES ASSUME RankingInit PROVE LifeInv
  OBVIOUS
<1>1. UnderWay = {} /\ expired = {}
  BY DEF RankingInit, Waiting, UnderWay
<1>2. ASSUME NEW k \in RankingKeys, due[k] # 0
      PROVE  k[1] # "total" /\ \A d \in DaysOf(k) : d < due[k]
  <2>1. k \in FirstKeys \ {<<"total", 0>>} /\ due[k] = 1 + Life[k[1]]
    BY <1>2 DEF RankingInit
  <2>2. k[1] \in {"daily", "weekly"} /\ k = RankingKey(k[1], 1)
    BY <2>1, FirstDue
  <2>3. 1 \in 1..Days
    BY RankingAssumption
  <2>4. \A d \in DaysOf(RankingKey(k[1], 1)) : d < 1 + Life[k[1]]
    BY <2>2, <2>3, LastsLonger
  <2> QED
    BY <2>1, <2>2, <2>4
<1> QED
  BY <1>1, <1>2 DEF LifeInv

\* A step that leaves dates and sets alone, and begins no download before today.
LEMMA LifeUntouched ==
  ASSUME CountType, LifeInv, UNCHANGED <<due, expired>>, today' \in {today, today + 1},
         \A r \in UnderWay' : \/ r \in UnderWay /\ download'[r].day = download[r].day
                              \/ download'[r].day = today'
  PROVE  LifeInv'
<1>1. /\ today \in Int /\ \A r \in UnderWay : download[r].day \in Int
      /\ \A k \in expired : \A d \in DaysOf(k) : d \in Int
  BY KeyFacts DEF CountType
<1>2. \A k : DaysOf(k)' = DaysOf(k)
  BY DEF DaysOf
<1> QED
  BY <1>1, <1>2 DEF LifeInv

\* Every step of the rankings keeps the sets alive for their days.
LEMMA LifeStep ==
  ASSUME CountType, LifeInv, [RankingNext]_rankingVars
  PROVE  LifeInv'
<1>0. /\ today \in 1..Days /\ UnderWay \subseteq Downloads
      /\ \A r \in UnderWay : download[r].day \in 1..today
  <2>1. today \in 1..Days /\ UnderWay \subseteq Downloads
    BY DEF CountType, UnderWay
  <2>2. ASSUME NEW r \in UnderWay PROVE download[r].day \in 1..today
    <3>1. download[r].day \in 1..Days /\ download[r].day <= today
      BY DEF CountType, LifeInv
    <3> QED
      BY <2>1, <3>1
  <2> QED
    BY <2>1, <2>2
<1>1. CASE Midnight
  BY <1>1, LifeUntouched DEF Midnight, counts, sets, UnderWay
<1>2. ASSUME NEW k \in RankingKeys, SetExpires(k)
      PROVE  LifeInv'
  <2>1. /\ due[k] \in 1..today /\ UNCHANGED <<today, download>>
        /\ due' = [due EXCEPT ![k] = 0] /\ expired' = expired \cup {k}
    BY <1>2 DEF SetExpires, calendar
  <2>2. k[1] # "total" /\ \A d \in DaysOf(k) : d \in Int /\ d < today
    <3>1. k[1] # "total" /\ \A d \in DaysOf(k) : d \in Int /\ d < due[k]
      BY <1>0, <2>1, KeyFacts DEF LifeInv
    <3> QED
      BY <1>0, <2>1, <3>1
  <2>3. \A j \in RankingKeys : due'[j] = IF j = k THEN 0 ELSE due[j]
    BY <2>1 DEF CountType
  <2>4. UnderWay' = UnderWay /\ \A j : DaysOf(j)' = DaysOf(j)
    BY <2>1 DEF UnderWay, DaysOf
  <2> QED
    BY <2>1, <2>2, <2>3, <2>4 DEF LifeInv
<1>3. ASSUME NEW r \in Downloads, NEW type \in Sets, SetLife(r, type)
      PROVE  LifeInv'
  <2> DEFINE e == download[r].day
             j == RankingKey(type, e)
  <2>1. /\ type \in {"daily", "weekly"} /\ r \in UnderWay
        /\ \E place \in Places \ {"idle"} : Move(r, place)
        /\ due' = [due EXCEPT ![j] = today + Life[type]]
        /\ UNCHANGED <<today, expired>>
    BY <1>3 DEF SetLife, IsAt, UnderWay, DayTaken, calendar, Places, Pipeline
  <2>2. e \in 1..Days /\ e <= today
    BY <1>0, <2>1 DEF CountType
  <2>3. j[1] # "total" /\ \A d \in DaysOf(j) : d < today + Life[type]
    <3>1. j \in RankingKeys /\ j[1] = type
      BY <2>2, KeyFacts
    <3>2. \A d \in DaysOf(j) : d \in Int /\ d < e + Life[type]
      BY <2>1, <2>2, <3>1, LastsLonger, KeyFacts
    <3>3. Life[type] \in Int /\ e \in Int /\ today \in Int
      BY <1>0, <2>1, <2>2, LivesOn
    <3> HIDE DEF e, j
    <3> QED
      BY <2>1, <2>2, <3>1, <3>2, <3>3
  <2>4. \A k \in RankingKeys : due'[k] = IF k = j THEN today + Life[type] ELSE due[k]
    BY <2>1 DEF CountType
  <2>5. UnderWay' = UnderWay /\ \A q \in UnderWay : download'[q].day = download[q].day
    BY <1>0, <2>1, MoveOn
  <2>6. \A k : DaysOf(k)' = DaysOf(k)
    BY DEF DaysOf
  <2> HIDE DEF e, j
  <2> QED
    BY <2>1, <2>3, <2>4, <2>5, <2>6 DEF LifeInv
<1>4. ASSUME NEW r \in Downloads, NEW place \in Places \ {"idle"}, Move(r, place),
             r \in UnderWay, UNCHANGED <<due, expired, today>>
      PROVE  LifeInv'
  BY <1>0, <1>4, MoveOn, LifeUntouched
<1>5. ASSUME NEW r \in Downloads, DownloadStep(r)
      PROVE  LifeInv'
  <2>1. CASE \E type \in Sets : SetLife(r, type)
    BY <1>3, <2>1
  <2>2. CASE \E type \in Sets : CountInSet(r, type)
    <3>1. PICK type \in Sets : CountInSet(r, type)
      BY <2>2
    <3> QED
      BY <1>4, <3>1 DEF CountInSet, IsAt, UnderWay, calendar, Following, Places, Pipeline, Sets
  <2>3. CASE CountInTable(r) \/ TableFails(r) \/ PipelineFails(r) \/ PipelineRepeats(r)
             \/ DeleteAnswers(r)
    BY <1>4, <2>3 DEF CountInTable, TableFails, PipelineFails, PipelineRepeats, DeleteAnswers,
         IsAt, UnderWay, calendar, sets, Places, Pipeline
  <2> QED
    BY <1>5, <2>1, <2>2, <2>3 DEF DownloadStep, Sets
<1>6. ASSUME NEW r \in Downloads, NEW a \in Listed, Serve(r, a)
      PROVE  LifeInv'
  <2>1. /\ download' = [download EXCEPT ![r] = [at |-> "metric", app |-> a, day |-> today]]
        /\ UNCHANGED <<today, due, expired>>
    BY <1>6 DEF Serve, calendar, sets
  <2>2. \A q \in UnderWay' : \/ q \in UnderWay /\ download'[q].day = download[q].day
                             \/ download'[q].day = today'
    BY <2>1 DEF UnderWay, CountType
  <2> QED
    BY <2>1, <2>2, LifeUntouched
<1>7. ASSUME UNCHANGED <<today, counts>>
      PROVE  LifeInv'
  BY <1>7, LifeUntouched DEF counts, sets, UnderWay
<1>8. ASSUME NEW v \in Viewers, ViewStep(v) \/ \E t \in Types, n \in Sizes : Ask(v, t, n)
      PROVE  LifeInv'
  BY <1>7, <1>8 DEF ViewStep, Ask, ReadSet, Join, Keep, ViewFails, calendar
<1>9. CASE \/ \E a \in Listed : ChangeStatus(a)
           \/ \E t \in Types, n \in Sizes : AnswerExpires(t, n)
           \/ UNCHANGED rankingVars
  BY <1>7, <1>9 DEF ChangeStatus, AnswerExpires, calendar, rankingVars
<1> QED
  BY <1>1, <1>2, <1>5, <1>6, <1>8, <1>9 DEF RankingNext

\* The table and the three rankings count the same downloads on the same days, for any
\* number of apps, downloads and days, whatever is recorded around midnight and in
\* whatever order, unless a call for the app failed or the set has expired; and no set
\* expires on a day that it counts.
THEOREM RankingsCountersAgree == RankingSpec => []CountersAgree
<1>1. CountType /\ CountInv /\ LifeInv => CountersAgree
  <2> SUFFICES ASSUME CountType, CountInv, LifeInv
               PROVE  CountersAgree
    OBVIOUS
  <2>5. Lasts("daily", today) /\ Lasts("weekly", WeekOf[today])
    <3>1. today \in 1..Days
      BY DEF CountType
    <3>2. today \in DaysOf(<<"daily", today>>) /\ today \in DaysOf(<<"weekly", WeekOf[today]>>)
      BY <3>1 DEF DaysOf, RankingKey
    <3> QED
      BY <3>1, <3>2 DEF Lasts, LifeInv
  <2> SUFFICES ASSUME NEW a \in Listed \ spoilt, AtRest(a)
               PROVE  /\ \A d \in 1..Days :
                           Lasts("daily", d) => score[<<"daily", d>>][a] = metric[a][d]
                      /\ \A w \in Weeks :
                           Lasts("weekly", w) => score[<<"weekly", w>>][a] = InWeek(a, w)
                      /\ score[<<"total", 0>>][a]
                           = MapThenSumSet(LAMBDA d : metric[a][d], 1..Days)
    BY <2>5 DEF CountersAgree
  <2>1. ASSUME NEW k \in RankingKeys \ expired
        PROVE  score[k][a] = SumOver(metric[a], DaysOf(k))
    <3>1. \A t \in Sets : "done" \notin ToCount[t]
      BY DEF Sets, ToCount, Pipeline
    <3>2. Behind(a, k) = {}
      BY <3>1, KeyFacts DEF Behind, AtRest
    <3>3. score[k][a] \in Nat
      BY DEF CountType
    <3>4. score[k][a] + Cardinality(Behind(a, k)) = SumOver(metric[a], DaysOf(k))
      BY DEF CountInv
    <3> QED
      BY <3>2, <3>3, <3>4, FS_EmptySet
  <2>2. ASSUME NEW d \in 1..Days, Lasts("daily", d)
        PROVE  score[<<"daily", d>>][a] = metric[a][d]
    <3>1. <<"daily", d>> \in RankingKeys \ expired
      BY <2>2 DEF RankingKeys, Lasts
    <3>2. DaysOf(<<"daily", d>>) = {d}
      BY DEF DaysOf, RankingKey
    <3>3. SumOver(metric[a], {d}) = metric[a][d]
      <4>1. metric[a][d] \in Int
        BY TableType
      <4>2. IsFiniteSet({}) /\ {} \cup {d} = {d}
        BY FS_EmptySet
      <4>3. SumOver(metric[a], {} \cup {d}) = metric[a][d] + SumOver(metric[a], {})
        BY <4>1, <4>2, SumAdd
      <4>4. SumOver(metric[a], {}) = 0
        BY SumEmpty
      <4> HIDE DEF SumOver
      <4> QED
        BY <4>1, <4>2, <4>3, <4>4
    <3> QED
      BY <2>1, <3>1, <3>2, <3>3
  <2>3. ASSUME NEW w \in Weeks, Lasts("weekly", w)
        PROVE  score[<<"weekly", w>>][a] = InWeek(a, w)
    <3>1. <<"weekly", w>> \in RankingKeys \ expired
      BY <2>3 DEF RankingKeys, Lasts
    <3>2. DaysOf(<<"weekly", w>>) = {d \in 1..Days : WeekOf[d] = w}
      BY DEF DaysOf, RankingKey
    <3>3. InWeek(a, w) = SumOver(metric[a], {d \in 1..Days : WeekOf[d] = w})
      BY DEF InWeek, SumOver
    <3> QED
      BY <2>1, <3>1, <3>2, <3>3
  <2>4. score[<<"total", 0>>][a] = MapThenSumSet(LAMBDA d : metric[a][d], 1..Days)
    <3>1. <<"total", 0>> \in RankingKeys \ expired
      BY DEF RankingKeys, LifeInv
    <3>2. DaysOf(<<"total", 0>>) = 1..Days
      BY DEF DaysOf, RankingKey
    <3>3. MapThenSumSet(LAMBDA d : metric[a][d], 1..Days) = SumOver(metric[a], 1..Days)
      BY DEF SumOver
    <3> QED
      BY <2>1, <3>1, <3>2, <3>3
  <2> QED
    BY <2>2, <2>3, <2>4
<1>2. RankingSpec => []LifeInv
  BY CountsHold, LifeBegins, LifeStep, PTL DEF RankingSpec
<1> QED
  BY <1>1, <1>2, CountsHold, PTL
=============================================================================

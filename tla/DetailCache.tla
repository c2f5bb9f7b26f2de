----------------------------- MODULE DetailCache -----------------------------
(***************************************************************************)
(* services/market/app/market.go, the cached details of one app: readers   *)
(* look in Redis, and on a miss the readers of one process share one load  *)
(* of the row (singleflight), which stores what it found, the row or a     *)
(* marker that there is none.  Writers change the row in PostgreSQL and    *)
(* then delete the entry.  Nothing ties a load to the deletions that come  *)
(* before it is stored, so an entry may be old; its expiry bounds that.    *)
(***************************************************************************)
EXTENDS Integers, Sequences, FiniteSets

CONSTANTS
  Readers,     \* goroutines that serve GetAppDetail, one request after the other
  Processes,   \* server processes, each with its own singleflight group
  ProcessOf,   \* the process of each reader
  Nobody,      \* no reader
  Nothing,     \* no entry
  MaxWrites    \* bound: writes of the row

ASSUME CacheAssumption ==
  /\ ProcessOf \in [Readers -> Processes] /\ Nobody \notin Readers
  /\ MaxWrites \in Nat
ASSUME NothingAssumption == Nothing \notin [of : Nat, since : Nat]

VARIABLES
  versions,   \* for every version of the row, oldest first: is there a row?
  pending,    \* the versions whose writer has yet to delete the entry,
  missed,     \* and those whose writer will not
  entry,      \* the entry in Redis: its version, and the newest when it was stored
  stage,      \* where each reader is
  loaded,     \* the version it has loaded; 1 when it has none
  flight      \* per process, the reader that loads for all

writes == <<versions, pending, missed>>
reads  == <<stage, loaded, flight>>
cacheVars   == <<writes, entry, reads>>

Newest == Len(versions)
Entries == [of : 1..Newest, since : 1..Newest]

CacheInit ==
  /\ versions = <<FALSE>> /\ pending = {} /\ missed = {}
  /\ entry = Nothing
  /\ stage = [r \in Readers |-> "idle"]
  /\ loaded = [r \in Readers |-> 1]
  /\ flight = [p \in Processes |-> Nobody]

-----------------------------------------------------------------------------
(* PublishApp, UpdateApp, OffShelfApp, DeleteApp *)

\* Fault: the entry is deleted first and the row is written then.
InvalidatedBefore == pending
Committed         == pending \cup {Newest + 1}

\* A published app is new, a changed one is there, a deletion may find nothing.
Write(row) ==
  /\ Newest <= MaxWrites
  /\ row => Newest = 1 \/ versions[Newest]
  /\ versions' = Append(versions, row)
  /\ pending' = Committed
  /\ UNCHANGED <<missed, entry, reads>>

\* invalidateAppDetailCache
Invalidate(v) ==
  /\ v \in pending
  /\ pending' = pending \ {v} /\ entry' = Nothing
  /\ UNCHANGED <<versions, missed, reads>>

\* The DEL fails and is only logged; or it is not sent, because UpdateFields committed
\* and then could not read the row back, an error hid a commit, or the process died.
MissInvalidation(v) ==
  /\ v \in pending
  /\ pending' = pending \ {v} /\ missed' = missed \cup {v}
  /\ UNCHANGED <<versions, entry, reads>>

-----------------------------------------------------------------------------
(* getAppDetailCached *)

Proceed(r, to) == stage' = [stage EXCEPT ![r] = to]

\* GET: a hit is answered; anything else, an error included, leads on to the load.
Get(r) ==
  /\ stage[r] = "idle"
  /\ Proceed(r, "missed")
  /\ UNCHANGED <<writes, entry, loaded, flight>>

IsFree(p) == flight[p] = Nobody

\* singleflight's Do: the first reader of the process loads, the others wait for it.
Lead(r) ==
  /\ stage[r] = "missed" /\ IsFree(ProcessOf[r])
  /\ Proceed(r, "load") /\ flight' = [flight EXCEPT ![ProcessOf[r]] = r]
  /\ UNCHANGED <<writes, entry, loaded>>

Follow(r) ==
  /\ stage[r] = "missed" /\ ~IsFree(ProcessOf[r])
  /\ Proceed(r, "wait")
  /\ UNCHANGED <<writes, entry, loaded, flight>>

Visible == Newest

\* GetByID
Load(r) ==
  /\ stage[r] = "load"
  /\ Proceed(r, "store") /\ loaded' = [loaded EXCEPT ![r] = Visible]
  /\ UNCHANGED <<writes, entry, flight>>

\* An error of the database, or the end of the first reader's own request.
LoadFails(r) ==
  /\ stage[r] = "load"
  /\ Proceed(r, "return")
  /\ UNCHANGED <<writes, entry, loaded, flight>>

\* SET, of the row for five to six minutes, of the marker for thirty seconds; its
\* error is ignored.
Store(r) ==
  /\ stage[r] = "store"
  /\ entry' \in {entry, [of |-> loaded[r], since |-> Newest]}
  /\ Proceed(r, "return")
  /\ UNCHANGED <<writes, loaded, flight>>

\* Fault: the readers that waited are not woken.
Abandoned(r) == {r}
Released(r)  == {q \in Readers : ProcessOf[q] = ProcessOf[r] /\ stage[q] = "wait"} \cup {r}

\* Do returns what the load found, its error too, to everybody who waited.
Return(r) ==
  /\ stage[r] = "return"
  /\ stage' = [q \in Readers |-> IF q \in Released(r) THEN "idle" ELSE stage[q]]
  /\ flight' = [flight EXCEPT ![ProcessOf[r]] = Nobody]
  /\ loaded' = [loaded EXCEPT ![r] = 1]
  /\ UNCHANGED <<writes, entry>>

-----------------------------------------------------------------------------
\* Fault: the marker is stored without an expiry.
RowsOnly(e) == versions[e.of]
Expires(e)  == TRUE

Expire ==
  /\ entry # Nothing /\ Expires(entry)
  /\ entry' = Nothing
  /\ UNCHANGED <<writes, reads>>

\* A process dies, and its readers with it.
Crash(p) ==
  /\ stage' = [r \in Readers |-> IF ProcessOf[r] = p THEN "idle" ELSE stage[r]]
  /\ flight' = [flight EXCEPT ![p] = Nobody]
  /\ loaded' = [r \in Readers |-> IF ProcessOf[r] = p THEN 1 ELSE loaded[r]]
  /\ UNCHANGED <<writes, entry>>

ReadStep(r) ==
  Lead(r) \/ Follow(r) \/ Load(r) \/ LoadFails(r) \/ Store(r) \/ Return(r)

CacheNext ==
  \/ \E row \in BOOLEAN : Write(row)
  \/ \E v \in pending : Invalidate(v) \/ MissInvalidation(v)
  \/ \E r \in Readers : Get(r) \/ ReadStep(r)
  \/ Expire
  \/ \E p \in Processes : Crash(p)

CacheSpec == CacheInit /\ [][CacheNext]_cacheVars

\* Calls to the database and to Redis return, and Redis expires its keys.  That
\* readers come, and that a writer deletes the entry, is not assumed.
CacheFairness == WF_cacheVars(Expire) /\ \A r \in Readers : WF_cacheVars(ReadStep(r))

CacheFairSpec == CacheSpec /\ CacheFairness

-----------------------------------------------------------------------------
(* Properties *)

CacheType ==
  /\ versions \in Seq(BOOLEAN) /\ Newest >= 1
  /\ pending \subseteq 1..Newest /\ missed \subseteq 1..Newest
  /\ entry # Nothing => entry \in Entries
  /\ stage \in [Readers -> {"idle", "missed", "load", "store", "return", "wait"}]
  /\ loaded \in [Readers -> 1..Newest]
  /\ flight \in [Processes -> Readers \cup {Nobody}]

\* An entry that was there before a write is going to be deleted by its writer, unless
\* that deletion was missed: no writer is done and leaves behind what it made old.
OldIsAwaited ==
  entry # Nothing => \A v \in entry.since + 1 .. Newest : v \in pending \cup missed

\* However many readers miss at once, a process has one load under way.
OneLoadPerProcess ==
  \A q, r \in Readers :
    /\ ProcessOf[q] = ProcessOf[r]
    /\ {stage[q], stage[r]} \subseteq {"load", "store", "return"}
    => q = r

\* Nobody waits for a load that has ended.
EveryReadEnds == \A r \in Readers : []<>(stage[r] = "idle")

\* What the documents promise: when the row no longer changes, the entry is in the end
\* absent or the newest version, also after deletions that failed and loads that were
\* stored late.
Converges == <>[](entry = Nothing \/ entry.of = Newest)
=============================================================================

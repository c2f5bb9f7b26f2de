----------------------------- MODULE RateLimits -----------------------------
(***************************************************************************)
(* common/middleware, the limits on the requests of one client address: a  *)
(* token bucket in the memory of the process, dropped when it has not been *)
(* used for a while, or a sliding window in Redis, kept by a Lua script.   *)
(* Time is counted in ticks, tokens as whole numbers.                      *)
(***************************************************************************)
EXTENDS Integers, FiniteSets

CONSTANTS
  Arrivals,         \* requests of the address, numbered as they arrive
  Rate, Capacity,   \* tokens a tick, and at most
  TTL,              \* an idle bucket is kept for this long
  Window, Limit,    \* of the sliding window
  Delay, Skew,      \* what the time a script is given may lag or lead by
  Horizon           \* bound: the clock stops here

ASSUME LimitAssumption ==
  /\ Arrivals \subseteq Nat \ {0}
  /\ Rate \in Nat /\ Capacity \in Nat \ {0} /\ TTL \in Nat
  /\ Window \in Nat /\ Limit \in Nat \ {0} /\ Delay \in Nat /\ Skew \in Nat
  /\ Horizon \in Nat

VARIABLES
  backend,    \* what the configuration selects
  clock,
  desk,       \* where each request is
  entry,      \* the bucket of the address in the map, named by the request that made it
  bucket,     \* tokens and lastActivity
  held,       \* the bucket a request has fetched
  sweeping,   \* the cleanup has found it idle and is about to delete it
  dropped,    \* history: buckets the cleanup has found idle,
  credit,     \* tokens of a bucket that was never deleted,
  zset,       \* the window in Redis: requests with their scores
  expires,    \* when the key expires
  passed      \* history: when the script let each request pass

bucketVars == <<entry, bucket, held, sweeping, dropped, credit>>
windowVars == <<zset, expires, passed>>
limitVars  == <<backend, clock, desk, bucketVars, windowVars>>

NoBucket == 0
Full(t) == [tokens |-> Capacity, last |-> t]
AtMost(a, b) == IF a < b THEN a ELSE b

LimitInit ==
  /\ backend \in {"none", "memory", "redis"}
  /\ clock = 0
  /\ desk = [a \in Arrivals |-> "new"]
  /\ entry = NoBucket /\ bucket = [a \in Arrivals |-> Full(0)]
  /\ held = [a \in Arrivals |-> NoBucket]
  /\ sweeping = FALSE /\ dropped = {} /\ credit = Capacity
  /\ zset = {} /\ expires = 0 /\ passed = {}

Move(a, to) == desk' = [desk EXCEPT ![a] = to]
Arrives(a)  == desk[a] = "new" /\ \A b \in Arrivals : b < a => desk[b] # "new"

\* Features.RateLimit is off.
Unlimited(a) ==
  /\ backend = "none" /\ Arrives(a)
  /\ Move(a, "passed")
  /\ UNCHANGED <<backend, clock, bucketVars, windowVars>>

LimitTick ==
  /\ clock < Horizon /\ clock' = clock + 1
  /\ credit' = AtMost(Capacity, credit + Rate)
  /\ UNCHANGED <<backend, desk, entry, bucket, held, sweeping, dropped, windowVars>>

-----------------------------------------------------------------------------
(* GetLimiter and Allow *)

\* The map is read under the read lock, which the cleanup keeps from it,
FetchBucket(a) ==
  /\ backend = "memory" /\ Arrives(a) /\ ~sweeping
  /\ held' = [held EXCEPT ![a] = entry]
  /\ Move(a, IF entry = NoBucket THEN "create" ELSE "fetched")
  /\ UNCHANGED <<backend, clock, entry, bucket, sweeping, dropped, credit, windowVars>>

\* Fault: the map is not read again.
NoLook(b) == FALSE
InMap(b)  == b # NoBucket

\* and again under the lock, where a missing bucket is made, and full.
CreateBucket(a) ==
  /\ desk[a] = "create" /\ ~sweeping
  /\ entry' = IF InMap(entry) THEN entry ELSE a
  /\ bucket' = IF InMap(entry) THEN bucket ELSE [bucket EXCEPT ![a] = Full(clock)]
  /\ held' = [held EXCEPT ![a] = entry']
  /\ Move(a, "fetched")
  /\ UNCHANGED <<backend, clock, sweeping, dropped, credit, windowVars>>

\* Tokens for the time gone by, and one is taken, under the lock of the bucket only.
AllowToken(a) ==
  LET b == held[a]
      n == AtMost(Capacity, bucket[b].tokens + (clock - bucket[b].last) * Rate) IN
  /\ desk[a] = "fetched"
  /\ bucket' = [bucket EXCEPT ![b] = [tokens |-> IF n >= 1 THEN n - 1 ELSE n,
                                      last |-> clock]]
  /\ Move(a, IF n >= 1 THEN "passed" ELSE "refused")
  /\ credit' = IF n >= 1 /\ b \notin dropped THEN credit - 1 ELSE credit
  /\ UNCHANGED <<backend, clock, entry, held, sweeping, dropped, windowVars>>

\* Fault: the cleanup deletes what is in use.
AnyTime(last) == TRUE
Stale(last)   == clock - last > TTL

\* cleanupStaleBuckets, under the lock of the map: GetLastActivity is compared,
FindIdle ==
  /\ entry # NoBucket /\ ~sweeping /\ Stale(bucket[entry].last)
  /\ sweeping' = TRUE /\ dropped' = dropped \cup {entry}
  /\ UNCHANGED <<backend, clock, desk, entry, bucket, held, credit, windowVars>>

\* and then the bucket is deleted; a request that holds it may have used it since, and
\* may use it still.
Cleanup ==
  /\ sweeping /\ sweeping' = FALSE /\ entry' = NoBucket
  /\ UNCHANGED <<backend, clock, desk, bucket, held, dropped, credit, windowVars>>

-----------------------------------------------------------------------------
(* The Lua script *)

\* Fault: one request too many.
UpTo(n)      == n <= Limit
HasRoom(n)   == n < Limit

\* now was read before the script runs, by the clock of the node.
RunScript(a, now) ==
  LET kept  == IF clock >= expires THEN {}
               ELSE {e \in zset : e.score > now - Window}
      pass  == HasRoom(Cardinality(kept)) IN
  /\ backend = "redis" /\ Arrives(a)
  /\ zset' = IF pass THEN kept \cup {[by |-> a, score |-> now]} ELSE kept
  /\ expires' = IF pass THEN clock + Window ELSE expires
  /\ passed' = IF pass THEN passed \cup {[by |-> a, time |-> clock]} ELSE passed
  /\ Move(a, IF pass THEN "passed" ELSE "refused")
  /\ UNCHANGED <<backend, clock, bucketVars>>

\* Redis is out of reach: the request passes.
RedisFails(a) ==
  /\ backend = "redis" /\ Arrives(a)
  /\ Move(a, "passed")
  /\ UNCHANGED <<backend, clock, bucketVars, windowVars>>

-----------------------------------------------------------------------------
LimitNext ==
  \/ LimitTick \/ FindIdle \/ Cleanup
  \/ \E a \in Arrivals :
       \/ Unlimited(a)
       \/ FetchBucket(a) \/ CreateBucket(a) \/ AllowToken(a)
       \/ RedisFails(a) \/ \E now \in (clock - Delay)..(clock + Skew) : RunScript(a, now)

LimitSpec == LimitInit /\ [][LimitNext]_limitVars

\* The configuration may set a TTL too short for a bucket to fill; nothing checks it.
\* By default a bucket is full after two seconds and kept for ten minutes.
LongEnough == TTL * Rate >= Capacity

\* With a TTL that is long enough, deleting and making buckets gives an address no more
\* than one bucket would that is never deleted, but for requests that held a bucket when
\* the cleanup found it idle.
BurstBounded == LongEnough => credit >= 0

\* Whatever the delays and the order the scripts run in, no more than Limit requests
\* pass in any Window, shortened by what their clocks may be wrong.
WindowBounded ==
  \A e \in passed :
    Cardinality({f \in passed : /\ f.time <= e.time
                                /\ f.time > e.time - (Window - Delay - Skew)}) <= Limit
=============================================================================

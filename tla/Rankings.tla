------------------------------ MODULE Rankings ------------------------------
(***************************************************************************)
(* services/market/app/market.go: downloads are counted in a table by day, *)
(* and in three sorted sets in Redis, of the day, of the week and of all   *)
(* time, by a pipeline that is no transaction; the sets of a day and of a  *)
(* week expire 48 hours, and 15 days, after they were last counted in.     *)
(* Rankings are read from these, joined with the apps that are published,  *)
(* and the answer is kept in Redis for ten seconds by its type and limit.  *)
(***************************************************************************)
EXTENDS Integers, FiniteSets, FiniteSetsExt

CONSTANTS
  Listed,        \* apps, numbered in the order of their ids
  Downloads,     \* calls of DownloadApp
  Viewers,       \* goroutines that serve GetRankings, one request after the other
  Types,         \* the rankings they ask for: "daily", "weekly", "total"
  Sizes,         \* the limits they ask for
  DefaultSize,   \* the limit whose answers a download deletes (20)
  Days,          \* bound: the days of the horizon, from 1
  WeekOf,        \* the week of each day
  Life,          \* the days that a daily (2) and a weekly set (15) live after an EXPIRE
  Earlier,       \* downloads of each app on the first day, before the behaviour begins
  MaxChanges     \* bound: changes of the status of an app

ASSUME RankingAssumption ==
  /\ Listed \subseteq Nat /\ Types \subseteq {"daily", "weekly", "total"}
  /\ Sizes \subseteq Nat \ {0} /\ Days \in Nat \ {0}
  /\ WeekOf \in [1..Days -> 1..Days] /\ Life \in [{"daily", "weekly"} -> Nat \ {0}]
  /\ \A d, e \in 1..Days : WeekOf[d] = WeekOf[e] => e < d + Life["weekly"]
  /\ Earlier \in [Listed -> Nat] /\ MaxChanges \in Nat

VARIABLES
  today,       \* the date
  published,   \* the apps with that status
  changes,     \* how often a status changed
  metric,      \* app_download_metrics: downloads by app and day
  score,       \* the sorted sets: downloads by app and key
  due,         \* the day from which a set may expire, 0 for never
  expired,     \* history: the keys whose set has expired
  download,    \* where each download is, its app and its day
  spoilt,      \* history: the apps of which a count failed, or may have been repeated
  view,        \* where each viewer is, what it asks for and what it has read
  kept         \* the answers in Redis, by type and limit

sets      == <<score, due, expired>>
counts    == <<metric, sets, download, spoilt>>
calendar  == <<today, published, changes>>
rankingVars == <<calendar, counts, view, kept>>

Weeks       == {WeekOf[d] : d \in 1..Days}
RankingKeys == ({"daily"} \X (1..Days)) \cup ({"weekly"} \X Weeks) \cup {<<"total", 0>>}
\* rankingKey
RankingKey(type, d) ==
  <<type, CASE type = "daily" -> d [] type = "weekly" -> WeekOf[d] [] type = "total" -> 0>>

FirstKeys == {RankingKey(t, 1) : t \in {"daily", "weekly", "total"}}

NoAnswer == [day |-> 0, of |-> <<>>]
Waiting  == [at |-> "idle", app |-> 0, day |-> 0]
Looking  == [at |-> "idle", type |-> "total", size |-> DefaultSize, answer |-> NoAnswer]

RankingInit ==
  /\ today = 1 /\ published = Listed /\ changes = 0
  /\ metric = [a \in Listed |-> [d \in 1..Days |-> IF d = 1 THEN Earlier[a] ELSE 0]]
  /\ score = [k \in RankingKeys |-> [a \in Listed |-> IF k \in FirstKeys THEN Earlier[a] ELSE 0]]
  /\ due = [k \in RankingKeys |->
              IF k \in FirstKeys \ {<<"total", 0>>} THEN 1 + Life[k[1]] ELSE 0]
  /\ expired = {}
  /\ download = [r \in Downloads |-> Waiting] /\ spoilt = {}
  /\ view = [v \in Viewers |-> Looking]
  /\ kept = [t \in Types, n \in Sizes |-> NoAnswer]

Midnight ==
  /\ today < Days /\ today' = today + 1
  /\ UNCHANGED <<published, changes, counts, view, kept>>

\* UpdateApp, OffShelfApp, DeleteApp, PublishApp: none deletes an answer that is kept.
ChangeStatus(a) ==
  /\ changes < MaxChanges /\ changes' = changes + 1
  /\ published' = IF a \in published THEN published \ {a} ELSE published \cup {a}
  /\ UNCHANGED <<today, counts, view, kept>>

-----------------------------------------------------------------------------
(* DownloadApp and recordDownloadRank *)

IsAt(r, place) == download[r].at = place
Move(r, place)  == download' = [download EXCEPT ![r].at = place]
Spoil(r)        == spoilt' = spoilt \cup {download[r].app}

\* The app is published; its link is made, and the time is taken.
Serve(r, a) ==
  /\ IsAt(r, "idle") /\ a \in published
  /\ download' = [download EXCEPT ![r] = [at |-> "metric", app |-> a, day |-> today]]
  /\ UNCHANGED <<calendar, metric, sets, spoilt, view, kept>>

\* IncrementDownloadMetric: one statement, which adds to the row that is there.
CountInTable(r) ==
  LET a == download[r].app  d == download[r].day IN
  /\ IsAt(r, "metric") /\ Move(r, "daily")
  /\ metric' = [metric EXCEPT ![a][d] = @ + 1]
  /\ UNCHANGED <<calendar, sets, spoilt, view, kept>>

\* Its error is only logged.
TableFails(r) ==
  /\ IsAt(r, "metric") /\ Move(r, "daily") /\ Spoil(r)
  /\ UNCHANGED <<calendar, metric, sets, view, kept>>

\* Fault: the key is made when it is needed.
DayNow(r)   == today
DayTaken(r) == download[r].day

\* The commands of the pipeline, each at its time.
Pipeline == {"daily", "expireDaily", "weekly", "expireWeekly", "total"}
Following(type) ==
  CASE type = "daily"  -> "expireDaily"
    [] type = "weekly" -> "expireWeekly"
    [] type = "total"  -> "delete"

\* ZINCRBY, which makes a set that is not there.
CountInSet(r, type) ==
  /\ IsAt(r, type) /\ Move(r, Following(type))
  /\ score' = [score EXCEPT ![RankingKey(type, DayTaken(r))][download[r].app] = @ + 1]
  /\ UNCHANGED <<calendar, metric, due, expired, spoilt, view, kept>>

\* EXPIRE of the sets of the day and of the week.
SetLife(r, type) ==
  /\ \/ type = "daily" /\ IsAt(r, "expireDaily") /\ Move(r, "weekly")
     \/ type = "weekly" /\ IsAt(r, "expireWeekly") /\ Move(r, "total")
  /\ due' = [due EXCEPT ![RankingKey(type, DayTaken(r))] = today + Life[type]]
  /\ UNCHANGED <<calendar, metric, score, expired, spoilt, view, kept>>

\* A set goes with all it has counted; one that is counted in later begins anew.
SetExpires(k) ==
  /\ due[k] \in 1..today /\ due' = [due EXCEPT ![k] = 0]
  /\ score' = [score EXCEPT ![k] = [a \in Listed |-> 0]]
  /\ expired' = expired \cup {k}
  /\ UNCHANGED <<calendar, metric, download, spoilt, view, kept>>

\* The pipeline breaks off and is given up, or the process dies.
PipelineFails(r) ==
  /\ \/ download[r].at \in Pipeline /\ Move(r, "delete")
     \/ download[r].at \in Pipeline \cup {"metric", "delete"} /\ Move(r, "done")
  /\ Spoil(r)
  /\ UNCHANGED <<calendar, metric, sets, view, kept>>

\* Or its answer is lost, and the client of Redis sends it again.
PipelineRepeats(r) ==
  /\ download[r].at \in (Pipeline \ {"daily"}) \cup {"delete"}
  /\ download[r].app \notin spoilt
  /\ Move(r, "daily") /\ Spoil(r)
  /\ UNCHANGED <<calendar, metric, sets, view, kept>>

\* DEL of the answers with the default limit; its error is ignored.
DeleteAnswers(r) ==
  /\ IsAt(r, "delete") /\ Move(r, "done")
  /\ \/ kept' = [t \in Types, n \in Sizes |->
                  IF n = DefaultSize THEN NoAnswer ELSE kept[<<t, n>>]]
     \/ UNCHANGED kept
  /\ UNCHANGED <<calendar, metric, sets, spoilt, view>>

-----------------------------------------------------------------------------
(* GetRankings *)

\* ZREVRANGE: by score, then by id; the first n.
Before(k, a, b) == score[k][a] > score[k][b] \/ (score[k][a] = score[k][b] /\ a > b)
Top(k, n) ==
  {a \in Listed : score[k][a] > 0 /\ Cardinality({b \in Listed : Before(k, b, a)}) < n}
Scores(k, S) == [a \in S |-> score[k][a]]

\* GET: an answer that is kept is given; without one, or after an error, the set is read.
Ask(v, type, n) ==
  /\ view[v].at = "idle"
  /\ view' = [view EXCEPT ![v] = [at |-> "range", type |-> type, size |-> n,
                                 answer |-> [day |-> today, of |-> <<>>]]]
  /\ UNCHANGED <<calendar, counts, kept>>

\* The key was made before the answer was looked for.
ReadSet(v) ==
  LET k == RankingKey(view[v].type, view[v].answer.day) IN
  /\ view[v].at = "range"
  /\ view' = [view EXCEPT ![v].at = "join", ![v].answer.of = Scores(k, Top(k, view[v].size))]
  /\ UNCHANGED <<calendar, counts, kept>>

\* GetByIDs
Join(v) ==
  LET found == view[v].answer.of IN
  /\ view[v].at = "join"
  /\ view' = [view EXCEPT ![v].at = "keep",
                         ![v].answer.of = [a \in DOMAIN found \cap published |-> found[a]]]
  /\ UNCHANGED <<calendar, counts, kept>>

\* SET, for ten seconds; its error is only logged.
Keep(v) ==
  /\ view[v].at = "keep"
  /\ kept' \in {kept, [kept EXCEPT ![<<view[v].type, view[v].size>>] = view[v].answer]}
  /\ view' = [view EXCEPT ![v] = Looking]
  /\ UNCHANGED <<calendar, counts>>

\* Redis or the database fails: 500.
ViewFails(v) ==
  /\ view[v].at \in {"range", "join"} /\ view' = [view EXCEPT ![v] = Looking]
  /\ UNCHANGED <<calendar, counts, kept>>

\* Fault: only the answers a download deletes expire.
DefaultOnly(t, n) == n # DefaultSize
Lapses(t, n)      == TRUE

AnswerExpires(t, n) ==
  /\ kept[<<t, n>>] # NoAnswer /\ Lapses(t, n)
  /\ kept' = [kept EXCEPT ![<<t, n>>] = NoAnswer]
  /\ UNCHANGED <<calendar, counts, view>>

-----------------------------------------------------------------------------
DownloadStep(r) ==
  \/ CountInTable(r) \/ TableFails(r) \/ PipelineFails(r) \/ PipelineRepeats(r)
  \/ \E type \in {"daily", "weekly", "total"} : CountInSet(r, type) \/ SetLife(r, type)
  \/ DeleteAnswers(r)
ViewStep(v) == ReadSet(v) \/ Join(v) \/ Keep(v) \/ ViewFails(v)

RankingNext ==
  \/ Midnight \/ \E a \in Listed : ChangeStatus(a)
  \/ \E k \in RankingKeys : SetExpires(k)
  \/ \E r \in Downloads : DownloadStep(r) \/ \E a \in Listed : Serve(r, a)
  \/ \E v \in Viewers : ViewStep(v) \/ \E t \in Types, n \in Sizes : Ask(v, t, n)
  \/ \E t \in Types, n \in Sizes : AnswerExpires(t, n)

\* Calls return, and Redis expires its keys.
RankingFairness ==
  /\ \A r \in Downloads : WF_rankingVars(DownloadStep(r))
  /\ \A v \in Viewers : WF_rankingVars(ViewStep(v))
  /\ \A t \in Types, n \in Sizes : WF_rankingVars(AnswerExpires(t, n))

RankingSpec == RankingInit /\ [][RankingNext]_rankingVars /\ RankingFairness

-----------------------------------------------------------------------------
(* Properties *)

AtRest(a) == \A r \in Downloads : download[r].app = a => download[r].at = "done"
InWeek(a, w) == MapThenSumSet(LAMBDA d : metric[a][d], {d \in 1..Days : WeekOf[d] = w})

Lasts(type, n) == <<type, n>> \notin expired

\* The table and the three rankings count the same downloads, on the same days, also
\* those that are recorded around midnight; unless one of the calls for an app failed,
\* after which nothing brings them together again, or the set has expired.  No set
\* expires on a day whose downloads it counts, so the rankings that are read today are
\* whole, however long ago the first download of the week was.
CountersAgree ==
  /\ \A a \in Listed \ spoilt : AtRest(a) =>
       /\ \A d \in 1..Days : Lasts("daily", d) => score[<<"daily", d>>][a] = metric[a][d]
       /\ \A w \in Weeks : Lasts("weekly", w) => score[<<"weekly", w>>][a] = InWeek(a, w)
       /\ score[<<"total", 0>>][a] = MapThenSumSet(LAMBDA d : metric[a][d], 1..Days)
  /\ Lasts("daily", today) /\ Lasts("weekly", WeekOf[today])

Current(t, n) ==
  LET k == RankingKey(t, today) IN
  [day |-> today, of |-> Scores(k, Top(k, n) \cap published)]
Shows(t, n) == kept[<<t, n>>].day # 0 => kept[<<t, n>>].of = Current(t, n).of

\* When downloads and apps come to rest, so do the answers, for every limit, although
\* the key of an answer has no date, and a viewer may keep what it read before a
\* download deleted the answer: no old score and no app off the shelf stays.
RankingsSettle == \A t \in Types, n \in Sizes : <>[]Shows(t, n)
=============================================================================

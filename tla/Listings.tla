------------------------------ MODULE Listings ------------------------------
(***************************************************************************)
(* The lists that are read by page number: those of the administration     *)
(* (services/admin/app), of one's orders (services/order) and of the apps  *)
(* (services/market).  Each page is two statements, a count and a SELECT   *)
(* with ORDER BY ... DESC LIMIT OFFSET, and no snapshot ties a page to the *)
(* next, while others insert, change and delete rows.  A client reads page *)
(* after page until one is not full.                                       *)
(***************************************************************************)
EXTENDS Integers, FiniteSets

CONSTANTS
  Items,      \* the rows there may be
  Times,      \* the times they may have
  PageSize    \* page_size

ASSUME ListingAssumption == Times \subseteq Nat \ {0} /\ PageSize \in Nat \ {0}

\* What a list is ordered by, whether a row can come to match its filter or cease to,
\* and whether a row can be deleted.
Shape(order, changes, deletes) == [order |-> order, changes |-> changes, deletes |-> deletes]

VirtualOrders      == Shape("updated_at", TRUE, FALSE)
WalletTransactions == Shape("created_at", FALSE, FALSE)
AllOrders          == Shape("created_at", TRUE, FALSE)
ChangeLogs         == Shape("created_at", FALSE, FALSE)
OrdersOfUser       == Shape("created_at", FALSE, FALSE)
AppList            == Shape("created_at", TRUE, TRUE)
\* The gRPC services ask the same of the same tables.
RpcVirtualOrders      == VirtualOrders
RpcWalletTransactions == WalletTransactions
RpcAllOrders          == AllOrders
RpcChangeLogs         == ChangeLogs

Lists == {VirtualOrders, WalletTransactions, AllOrders, ChangeLogs, OrdersOfUser, AppList,
          RpcVirtualOrders, RpcWalletTransactions, RpcAllOrders, RpcChangeLogs}

VARIABLES
  list,      \* the list that is read
  time,      \* of each row: the column it is ordered by; 0 when there is no such row
  matching,  \* the rows that pass the filter
  number,    \* the page the client asks for; 0 before the first and after the last
  seen,      \* the rows the client has been shown
  stayed,    \* history: the rows that matched all the while since it began to read,
             \* and had their time to themselves;
  shaken     \* and whether one that matched has left the list, or moved down, since

listVars == <<list, time, matching, number, seen, stayed, shaken>>

ListInit ==
  /\ list \in Lists /\ time = [e \in Items |-> 0] /\ matching = {}
  /\ number = 0 /\ seen = {} /\ stayed = {} /\ shaken = FALSE

HaveTime(t) == {e \in Items : time[e] = t}
Alone(e)    == HaveTime(time[e]) = {e}

-----------------------------------------------------------------------------
(* Everybody else *)

\* A row appears, not always as the newest: its time was taken before its commit.
InsertRow(e, t) ==
  /\ time[e] = 0 /\ time' = [time EXCEPT ![e] = t]
  /\ matching' \in {matching, matching \cup {e}}
  /\ stayed' = stayed \ HaveTime(t)
  /\ UNCHANGED <<list, number, seen, shaken>>

\* A balance changes, and the trigger sets the time at which the transaction began: most
\* rows move up, but one moves down when a transaction that began later was faster.
Touch(e, t) ==
  /\ list.order = "updated_at" /\ time[e] # 0
  /\ time' = [time EXCEPT ![e] = t] /\ stayed' = stayed \ (HaveTime(t) \cup {e})
  /\ shaken' = (shaken \/ (e \in matching /\ t < time[e]))
  /\ UNCHANGED <<list, matching, number, seen>>

\* The status changes: a row comes into the list,
Enter(e) ==
  /\ list.changes /\ time[e] # 0 /\ e \notin matching
  /\ matching' = matching \cup {e}
  /\ UNCHANGED <<list, time, number, seen, stayed, shaken>>

\* or leaves it; or it is deleted.
Leave(e) ==
  /\ e \in matching /\ matching' = matching \ {e}
  /\ \/ list.changes /\ UNCHANGED time
     \/ list.deletes /\ time' = [time EXCEPT ![e] = 0]
  /\ stayed' = stayed \ {e} /\ shaken' = TRUE
  /\ UNCHANGED <<list, number, seen>>

-----------------------------------------------------------------------------
(* The client and the handlers *)

Open ==
  /\ number = 0 /\ number' = 1
  /\ seen' = {} /\ stayed' = {e \in matching : Alone(e)} /\ shaken' = FALSE
  /\ UNCHANGED <<list, time, matching>>

\* Fault: pages are numbered from 0.
FromZero(n) == n * PageSize
\* pagination
Offset(n)   == (n - 1) * PageSize

\* The first n of S, as ORDER BY ... DESC gives them: rows of one time in any order, and
\* in another one the next time.
Heads(S, n) ==
  {T \in SUBSET S :
     /\ Cardinality(T) = IF Cardinality(S) < n THEN Cardinality(S) ELSE n
     /\ \A a \in T, b \in S \ T : time[a] >= time[b]}

\* LIMIT and OFFSET.  The count that goes with a page is a statement before this one; it
\* tells the client nothing certain about it.
Select ==
  /\ number > 0
  /\ \E skipped \in Heads(matching, Offset(number)) :
       \E shown \in Heads(matching \ skipped, PageSize) :
         /\ seen' = seen \cup shown
         /\ number' = IF Cardinality(shown) < PageSize THEN 0 ELSE number + 1
  /\ UNCHANGED <<list, time, matching, stayed, shaken>>

ListNext ==
  \/ \E e \in Items : Enter(e) \/ Leave(e) \/ \E t \in Times : InsertRow(e, t) \/ Touch(e, t)
  \/ Open \/ Select

ListSpec == ListInit /\ [][ListNext]_listVars

-----------------------------------------------------------------------------
(* Properties *)

\* A client that reads a list to its end has been shown every row that was in it all the
\* while: rows that are inserted before, between and behind the pages, come into the
\* list or move up in it, only make it see some twice.  It may miss a row that moved
\* itself, one that shares its time with another, and any when a row has left the list or
\* moved down in it.
NothingMissed == number = 0 /\ ~shaken => stayed \subseteq seen
=============================================================================

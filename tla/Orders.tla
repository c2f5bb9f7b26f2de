------------------------------- MODULE Orders -------------------------------
(***************************************************************************)
(* services/order: orders, their payment from a wallet, and the outbox     *)
(* through which paid orders get their subscription.  HTTP clients create, *)
(* pay and cancel; a sweeper cancels orders that stay pending; outbox      *)
(* workers, one per server process, claim events and grant subscriptions.  *)
(* A database transaction is a step that locks the order row and reads it  *)
(* (view), and a step that commits what was computed from that copy.       *)
(* The debit inside a payment is a posting of the abstract Ledger, which   *)
(* the Wallet module implements.                                           *)
(***************************************************************************)
EXTENDS Integers, Sequences, FiniteSets, FiniteSetsExt

CONSTANTS
  Clients,      \* goroutines that serve order requests
  Workers,      \* outbox workers, one per server process
  Sweeper,      \* the worker that cancels expired pending orders
  Users,        \* buyers; the number of a user is also the id of the wallet
  Items,        \* what can be ordered: an app with an amount and a currency
  Orders,       \* ids for new orders; bounds how many are created
  Keys,         \* idempotency keys of create requests
  NoKey,        \* the empty idempotency key
  None,         \* NULL
  Price,        \* amount of an order for each item
  Opening,      \* balance of each user's wallet at the start
  BatchLimit,   \* how many events a worker claims at once
  MaxErrors,    \* bound: failed Redis or database calls of workers, claims among them
  MaxCrashes    \* bound: worker deaths and lost failure marks

ASSUME UsersAssumption == Users \subseteq Nat
ASSUME PriceAssumption == Price \in [Items -> Nat \ {0}] /\ Opening \in [Users -> Nat]
ASSUME NullAssumption  == None \notin Clients \cup Workers \cup {Sweeper} \cup Orders
ASSUME ProcAssumption  ==
  /\ Clients \cap Workers = {} /\ Sweeper \notin Clients \cup Workers
  /\ NoKey \notin Keys
ASSUME LimitAssumption == BatchLimit \in Nat /\ MaxErrors \in Nat /\ MaxCrashes \in Nat

Procs == Clients \cup Workers \cup {Sweeper}

VARIABLES
  order,    \* committed orders rows
  outbox,   \* status of each order's entitlement_outbox row
  subs,     \* how many subscriptions rows name the order as their source
  funds,    \* wallet balances
  spent,    \* idempotency keys of committed wallet rows
  held,     \* the order rows each process has locked
  view,     \* its copies of them, read when they were locked
  task,     \* the request each client is serving
  wpc,      \* where each outbox worker is
  queue,    \* events a worker has claimed and not yet handled
  cur,      \* the event it is handling
  redis,    \* holder of the Redis lock entitlement:order:<id>
  errors,   \* errors so far
  crashes   \* crashes so far

tables == <<order, outbox, subs, funds, spent>>
worker == <<wpc, queue, cur, redis>>
vars   == <<order, outbox, subs, funds, spent, held, view, task, wpc, queue, cur, redis,
            errors, crashes>>

-----------------------------------------------------------------------------
(* Rows and requests *)

NoOrder == [status |-> "none", user |-> None, item |-> None, key |-> NoKey,
            tx |-> FALSE, sub |-> FALSE]
NewOrder(u, i, k) == [status |-> "pending", user |-> u, item |-> i, key |-> k,
                      tx |-> FALSE, sub |-> FALSE]
OrderRows == [status : {"none", "pending", "paid", "cancelled"}, user : Users \cup {None},
              item : Items \cup {None}, key : Keys \cup {NoKey},
              tx : BOOLEAN, sub : BOOLEAN]

Idle == [op |-> "idle", user |-> None, item |-> None, key |-> NoKey, order |-> None]
Tasks == [op : {"idle", "create", "pay", "cancel"}, user : Users \cup {None},
          item : Items \cup {None}, key : Keys \cup {NoKey}, order : Orders \cup {None}]
Task(op, u, i, k, o) == [op |-> op, user |-> u, item |-> i, key |-> k, order |-> o]

\* paymentIdempotencyKey: the debit is keyed by the order and the key of the pay
\* request, so two pay requests need not carry the same key.
PayKey(o, k) ==
  IF k = NoKey THEN <<"order", o, "pay">> ELSE <<"order", o, "pay", k>>
PayRequest(o, row, k) ==
  [op |-> "debit", from |-> row.user, to |-> row.user, amount |-> Price[row.item],
   key |-> PayKey(o, k)]

Wallet == INSTANCE Ledger WITH
  Wallets <- Users, KeyParts <- Orders \cup Keys \cup {"order", "pay", "out", "in"},
  Requests <- {PayRequest(o, NewOrder(u, i, NoKey), k) :
                 o \in Orders, u \in Users, i \in Items, k \in Keys \cup {NoKey}}

-----------------------------------------------------------------------------
Init ==
  /\ order   = [o \in Orders |-> NoOrder]
  /\ outbox  = [o \in Orders |-> "none"]
  /\ subs    = [o \in Orders |-> 0]
  /\ funds   = Opening
  /\ spent   = {}
  /\ held    = [p \in Procs |-> {}]
  /\ view    = [p \in Procs |-> [o \in Orders |-> NoOrder]]
  /\ task    = [c \in Clients |-> Idle]
  /\ wpc     = [w \in Workers |-> "idle"]
  /\ queue   = [w \in Workers |-> {}]
  /\ cur     = [w \in Workers |-> None]
  /\ redis   = [o \in Orders |-> None]
  /\ errors  = 0
  /\ crashes = 0

-----------------------------------------------------------------------------
(* Row locks.  The copies go when the transaction ends. *)

\* Fault: a plain SELECT instead of SELECT ... FOR UPDATE.
PlainSelect(o) == TRUE
LockFree(o) == \A p \in Procs : o \notin held[p]

LockOrders(p, S) ==
  /\ \A o \in S : LockFree(o)
  /\ held' = [held EXCEPT ![p] = S]
  /\ view' = [view EXCEPT ![p] = [o \in Orders |-> IF o \in S THEN order[o] ELSE NoOrder]]

EndTransaction(p) ==
  /\ held' = [held EXCEPT ![p] = {}]
  /\ view' = [view EXCEPT ![p] = [o \in Orders |-> NoOrder]]

-----------------------------------------------------------------------------
(* HTTP requests *)

KeyTaken(k) == k # NoKey /\ \E o \in Orders : order[o].status # "none" /\ order[o].key = k

\* Create looks the key up; an order that has it is returned, or refused.
CreateLookup(c, u, i, k) ==
  /\ task[c] = Idle /\ ~KeyTaken(k)
  /\ task' = [task EXCEPT ![c] = Task("create", u, i, k, None)]
  /\ UNCHANGED <<tables, held, view, worker, errors, crashes>>

\* Fault: idempotency_key has no unique index.
NoUniqueIndex(k) == TRUE
KeyFree(k) == ~KeyTaken(k)

\* The INSERT, which the unique index on idempotency_key may refuse.
CreateInsert(c) ==
  /\ task[c].op = "create"
  /\ KeyFree(task[c].key)
  /\ \E o \in Orders :
       /\ order[o].status = "none"
       /\ order' = [order EXCEPT ![o] = NewOrder(task[c].user, task[c].item, task[c].key)]
  /\ task' = [task EXCEPT ![c] = Idle]
  /\ UNCHANGED <<outbox, subs, funds, spent, held, view, worker, errors, crashes>>

\* Pay and Cancel lock the order first.  Purchase is Create followed by Pay.
LockFor(c, op, u, o, k) ==
  /\ task[c] = Idle
  /\ order[o].status # "none"
  /\ LockOrders(c, {o})
  /\ task' = [task EXCEPT ![c] = Task(op, u, None, k, o)]
  /\ UNCHANGED <<tables, worker, errors, crashes>>

\* Fault: no event is written.
NoEvent(o) == UNCHANGED outbox
\* enqueueEntitlement: INSERT ... ON CONFLICT (order_id) DO NOTHING.
EnqueueEntitlement(o) ==
  outbox' = [outbox EXCEPT ![o] = IF @ = "none" THEN "pending" ELSE @]

\* DebitInTx: the key may be spent already, otherwise the wallet is debited.
Debit(o, row, k) ==
  IF PayKey(o, k) \in spent
  THEN UNCHANGED <<funds, spent>>
  ELSE Wallet!Post(PayRequest(o, row, k))

PayPending(o, row, k) ==
  /\ row.status = "pending"
  /\ Debit(o, row, k)
  /\ EnqueueEntitlement(o)
  /\ order' = [order EXCEPT ![o] = [row EXCEPT !.status = "paid", !.tx = TRUE]]

PayPaid(o, row) ==
  /\ row.status = "paid"
  /\ IF row.sub THEN UNCHANGED outbox ELSE EnqueueEntitlement(o)
  /\ UNCHANGED <<order, funds, spent>>

Pay(c) ==
  LET o == task[c].order  row == view[c][o] IN
  /\ task[c].op = "pay" /\ row.user = task[c].user
  /\ PayPending(o, row, task[c].key) \/ PayPaid(o, row)
  /\ EndTransaction(c)
  /\ task' = [task EXCEPT ![c] = Idle]
  /\ UNCHANGED <<subs, worker, errors, crashes>>

Cancellable(row) == row.status = "pending"

Cancel(c) ==
  LET o == task[c].order  row == view[c][o] IN
  /\ task[c].op = "cancel" /\ row.user = task[c].user
  /\ Cancellable(row)
  /\ order' = [order EXCEPT ![o] = [row EXCEPT !.status = "cancelled"]]
  /\ EndTransaction(c)
  /\ task' = [task EXCEPT ![c] = Idle]
  /\ UNCHANGED <<outbox, subs, funds, spent, worker, errors, crashes>>

\* An error (key taken, wrong user or status, too little money, lost connection).
Abandon(c) ==
  /\ task[c] # Idle
  /\ EndTransaction(c)
  /\ task' = [task EXCEPT ![c] = Idle]
  /\ UNCHANGED <<tables, worker, errors, crashes>>

-----------------------------------------------------------------------------
(* cancelExpiredPendingOrders: FOR UPDATE SKIP LOCKED, at any later time. *)

SweepLock(S) ==
  /\ held[Sweeper] = {}
  /\ S # {} /\ \A o \in S : order[o].status = "pending"
  /\ LockOrders(Sweeper, S)
  /\ UNCHANGED <<tables, task, worker, errors, crashes>>

SweepCommit ==
  /\ held[Sweeper] # {}
  /\ order' = [o \in Orders |->
                 IF o \in held[Sweeper] /\ Cancellable(view[Sweeper][o])
                 THEN [view[Sweeper][o] EXCEPT !.status = "cancelled"] ELSE order[o]]
  /\ EndTransaction(Sweeper)
  /\ UNCHANGED <<outbox, subs, funds, spent, task, worker, errors, crashes>>

SweepAbort ==
  /\ held[Sweeper] # {}
  /\ EndTransaction(Sweeper)
  /\ UNCHANGED <<tables, task, worker, errors, crashes>>

-----------------------------------------------------------------------------
(* Outbox workers *)

\* Fault: events that failed once are not picked up again.
PendingOnly == {o \in Orders : outbox[o] = "pending"}
Claimable == {o \in Orders : outbox[o] \in {"pending", "failed"}}

\* Fault: the claim reads the rows and does not mark them.
ReadOnly(S) == UNCHANGED outbox
MarkProcessing(S) ==
  outbox' = [o \in Orders |-> IF o \in S THEN "processing" ELSE outbox[o]]

\* The claim transaction: rows due now, skipping locked ones, become 'processing'.
Claim(w, S) ==
  /\ wpc[w] = "idle"
  /\ S # {} /\ S \subseteq Claimable /\ Cardinality(S) <= BatchLimit
  /\ MarkProcessing(S)
  /\ queue'  = [queue EXCEPT ![w] = S]
  /\ wpc'    = [wpc EXCEPT ![w] = "next"]
  /\ UNCHANGED <<order, subs, funds, spent, held, view, task, cur, redis, errors, crashes>>

\* Its commit took effect but is answered by an error: the worker goes back to its
\* ticker, and the events stay 'processing' with nobody to handle them.
ClaimUnseen(w, S) ==
  /\ wpc[w] = "idle"
  /\ S # {} /\ S \subseteq Claimable /\ Cardinality(S) <= BatchLimit
  /\ MarkProcessing(S)
  /\ errors < MaxErrors /\ errors' = errors + 1
  /\ UNCHANGED <<order, subs, funds, spent, held, view, task, worker, crashes>>

NextEvent(w, o) ==
  /\ wpc[w] = "next" /\ o \in queue[w]
  /\ queue' = [queue EXCEPT ![w] = @ \ {o}]
  /\ cur'   = [cur EXCEPT ![w] = o]

\* SETNX of the event's Redis lock; the event fails if some worker has it.
TakeEvent(w, o) ==
  /\ NextEvent(w, o)
  /\ redis' = [redis EXCEPT ![o] = IF @ = None THEN w ELSE @]
  /\ wpc'   = [wpc EXCEPT ![w] = IF redis[o] = None THEN "lock" ELSE "fail"]
  /\ UNCHANGED <<tables, held, view, task, errors, crashes>>

\* Redis answers with an error, having set the key or not; nobody will unlock it.
TakeError(w, o) ==
  /\ NextEvent(w, o)
  /\ errors < MaxErrors /\ errors' = errors + 1
  /\ redis' \in {redis, [redis EXCEPT ![o] = IF @ = None THEN w ELSE @]}
  /\ wpc'   = [wpc EXCEPT ![w] = "fail"]
  /\ UNCHANGED <<tables, held, view, task, crashes>>

\* The key of the Redis lock lives 30 seconds, whatever its holder does.
RedisExpire(o) ==
  /\ redis[o] # None
  /\ redis' = [redis EXCEPT ![o] = None]
  /\ UNCHANGED <<tables, held, view, task, wpc, queue, cur, errors, crashes>>

LockForGrant(w) ==
  /\ wpc[w] = "lock"
  /\ LockOrders(w, {cur[w]})
  /\ wpc' = [wpc EXCEPT ![w] = "grant"]
  /\ UNCHANGED <<tables, task, queue, cur, redis, errors, crashes>>

\* Unlock deletes the Redis key only if it still holds this worker's token.
RedisUnlock(w) ==
  redis' = [redis EXCEPT ![cur[w]] = IF @ = w THEN None ELSE @]

\* The rest of the batch, or the next tick.
AfterEvent(w) ==
  /\ wpc' = [wpc EXCEPT ![w] = IF queue[w] = {} THEN "idle" ELSE "next"]
  /\ cur' = [cur EXCEPT ![w] = None]

GiveUp(w) ==
  /\ wpc' = [wpc EXCEPT ![w] = "fail"]
  /\ RedisUnlock(w)
  /\ EndTransaction(w)
  /\ UNCHANGED cur

\* Fault: a subscription is created for every event handled.
AlwaysCreate(w) == TRUE
\* grantSubscription: nothing new if the order has, or a row names it as, a source.
NeedsSubscription(w) == ~view[w][cur[w]].sub /\ subs[cur[w]] = 0

\* The grant transaction commits; its worker may still see an error (told = FALSE).
Grant(w, told) ==
  LET o == cur[w]  row == view[w][o] IN
  /\ wpc[w] = "grant" /\ row.status = "paid"
  /\ subs'   = [subs EXCEPT ![o] = IF NeedsSubscription(w) THEN @ + 1 ELSE @]
  /\ order'  = [order EXCEPT ![o] = [row EXCEPT !.sub = TRUE]]
  /\ outbox' = [outbox EXCEPT ![o] = "done"]
  /\ IF told
     THEN AfterEvent(w) /\ RedisUnlock(w) /\ EndTransaction(w) /\ UNCHANGED errors
     ELSE errors < MaxErrors /\ errors' = errors + 1 /\ GiveUp(w)
  /\ UNCHANGED <<funds, spent, task, queue, crashes>>

\* A database error before the grant commits.  (An order with an event is paid, so
\* the check of its status never fails.)
GrantError(w) ==
  /\ wpc[w] \in {"lock", "grant"}
  /\ errors < MaxErrors /\ errors' = errors + 1
  /\ GiveUp(w)
  /\ UNCHANGED <<tables, task, queue, crashes>>

\* markEntitlementEventFailed writes by event id, whatever the row says by now.
MarkFailed(w) ==
  /\ wpc[w] = "fail"
  /\ outbox' = [outbox EXCEPT ![cur[w]] = "failed"]
  /\ AfterEvent(w)
  /\ UNCHANGED <<order, subs, funds, spent, held, view, task, queue, redis, errors, crashes>>

\* That update fails too, and its error is dropped.
MarkLost(w) ==
  /\ wpc[w] = "fail"
  /\ crashes < MaxCrashes /\ crashes' = crashes + 1
  /\ AfterEvent(w)
  /\ UNCHANGED <<tables, held, view, task, queue, redis, errors>>

\* The process dies or is stopped; the database drops its transaction.
Crash(w) ==
  /\ wpc[w] # "idle"
  /\ crashes < MaxCrashes /\ crashes' = crashes + 1
  /\ wpc'   = [wpc EXCEPT ![w] = "idle"]
  /\ queue' = [queue EXCEPT ![w] = {}]
  /\ cur'   = [cur EXCEPT ![w] = None]
  /\ EndTransaction(w)
  /\ UNCHANGED <<tables, task, redis, errors>>

-----------------------------------------------------------------------------
Request(c) ==
  \E u \in Users, k \in Keys \cup {NoKey} :
    \/ \E i \in Items : CreateLookup(c, u, i, k)
    \/ \E o \in Orders : LockFor(c, "pay", u, o, k)
    \/ \E o \in Orders : k = NoKey /\ LockFor(c, "cancel", u, o, k)

Answer(c) == CreateInsert(c) \/ Pay(c) \/ Cancel(c) \/ Abandon(c)

WorkerStep(w) ==
  \/ \E o \in Orders : TakeEvent(w, o)
  \/ LockForGrant(w)
  \/ Grant(w, TRUE)
  \/ MarkFailed(w)

WorkerFault(w) ==
  \/ \E S \in SUBSET Orders : ClaimUnseen(w, S)
  \/ \E o \in Orders : TakeError(w, o)
  \/ Grant(w, FALSE)
  \/ GrantError(w)
  \/ MarkLost(w)
  \/ Crash(w)

Next ==
  \/ \E c \in Clients : Request(c) \/ Answer(c)
  \/ \E S \in SUBSET Orders : SweepLock(S)
  \/ SweepCommit \/ SweepAbort
  \/ \E o \in Orders : RedisExpire(o)
  \/ \E w \in Workers :
       (\E S \in SUBSET Orders : Claim(w, S)) \/ WorkerStep(w) \/ WorkerFault(w)

Spec == Init /\ [][Next]_vars

\* Open transactions end, Redis keys expire, the outbox ticker keeps firing and takes
\* what has been due longest, and who waits for a row lock gets it in its turn.
Fairness ==
  /\ \A c \in Clients : WF_vars(Answer(c))
  /\ WF_vars(SweepCommit)
  /\ \A o \in Orders : WF_vars(RedisExpire(o))
  /\ \A w \in Workers : SF_vars(WorkerStep(w))
  /\ \A w \in Workers, o \in Orders : WF_vars(\E S \in SUBSET Orders : o \in S /\ Claim(w, S))

FairSpec == Spec /\ Fairness

-----------------------------------------------------------------------------
(* Properties *)

TypeOK ==
  /\ order  \in [Orders -> OrderRows]
  /\ outbox \in [Orders -> {"none", "pending", "processing", "done", "failed"}]
  /\ subs   \in [Orders -> Nat]
  /\ funds  \in [Users -> Nat]
  /\ spent  \subseteq {PayKey(o, k) : o \in Orders, k \in Keys \cup {NoKey}}
  /\ held   \in [Procs -> SUBSET Orders]
  /\ view   \in [Procs -> [Orders -> OrderRows]]
  /\ task   \in [Clients -> Tasks]
  /\ wpc    \in [Workers -> {"idle", "next", "lock", "grant", "fail"}]
  /\ queue  \in [Workers -> SUBSET Orders]
  /\ cur    \in [Workers -> Orders \cup {None}]
  /\ redis  \in [Orders -> Workers \cup {None}]
  /\ errors \in 0..MaxErrors /\ crashes \in 0..MaxCrashes

Paid(o)      == order[o].status = "paid"
PaymentsOf(o) == {k \in Keys \cup {NoKey} : PayKey(o, k) \in spent}
PaidBy(u)    == {o \in Orders : Paid(o) /\ order[o].user = u}

\* A paid order has been debited exactly once, with whatever keys it was paid for,
\* and any other order never,
DebitedOnce == \A o \in Orders : Cardinality(PaymentsOf(o)) = IF Paid(o) THEN 1 ELSE 0

\* and so what left a wallet is the price of its paid orders.
PaidIsDebited ==
  /\ DebitedOnce
  /\ \A u \in Users :
       funds[u] + MapThenSumSet(LAMBDA o : Price[order[o].item], PaidBy(u)) = Opening[u]

\* An order has at most one subscription, however often its event is handled; it
\* names one exactly if one names it, and then it is paid; an event is done only
\* after that.
GrantedOnce ==
  \A o \in Orders :
    /\ subs[o] = IF order[o].sub THEN 1 ELSE 0
    /\ order[o].sub => Paid(o)
    /\ outbox[o] = "done" => order[o].sub

\* An event is in the hands of one worker at most, and only while its row says
\* 'processing' or the worker's own grant has just set it to 'done'.
Handles(w, o) == o \in queue[w] \/ cur[w] = o
OneHandler ==
  \A o \in Orders, w \in Workers : Handles(w, o) =>
    /\ outbox[o] = "processing" \/ (outbox[o] = "done" /\ wpc[w] = "fail")
    /\ \A v \in Workers \ {w} : ~Handles(v, o)

\* Create requests that carry the same idempotency key make one order between them.
OneOrderPerKey ==
  \A k \in Keys : Cardinality({o \in Orders : order[o].key = k}) <= 1

\* An order that is paid or cancelled stays so, and keeps its subscription.
FinalStatus ==
  [][\A o \in Orders :
       /\ order[o].status \in {"paid", "cancelled"} => order'[o].status = order[o].status
       /\ order[o].sub => order'[o].sub]_order

\* What the documents promise of the outbox: a debited order without a subscription
\* has an event that a worker has in hand or will find on a later tick.
Owed(o)        == Paid(o) /\ ~order[o].sub
Recoverable(o) == o \in Claimable \/ \E w \in Workers : Handles(w, o)
RecoverableEntitlement == \A o \in Orders : Owed(o) => Recoverable(o)

\* What the code keeps of it: a paid order has an event, and there are three accidents
\* that take it out of every worker's hands for good: the worker dies, its failure mark
\* is lost, or its claim commits and reports an error.
Stranded(o) == outbox[o] = "processing" /\ ~\E w \in Workers : Handles(w, o)
Strands(w, o) ==
  \/ Handles(w, o) /\ (MarkLost(w) \/ Crash(w))
  \/ \E S \in SUBSET Orders : o \in S /\ ClaimUnseen(w, S)
OnlyFaultsStrand ==
  [][\A o \in Orders : Owed(o)' /\ ~Recoverable(o)' =>
       Stranded(o) \/ \E w \in Workers : Strands(w, o)]_vars

\* Every paid order gets its subscription, through transient errors and stale Redis
\* locks, unless one of those accidents strands its event.
PaidIsGranted == \A o \in Orders : Paid(o) ~> (order[o].sub \/ Stranded(o))
=============================================================================

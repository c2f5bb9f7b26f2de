---------------------------- MODULE OrdersProofs ----------------------------
(***************************************************************************)
(* For any number of clients, outbox workers, orders and keys: what the    *)
(* row locks protect, that an event is in one worker's hands at most, and  *)
(* that money, status and subscription of an order agree.                  *)
(***************************************************************************)
EXTENDS Orders, Sums

\* A row is locked by one process at most; until its transaction ends, the copy it
\* read is the row.
LockInv ==
  /\ \A p, q \in Procs : p # q => held[p] \cap held[q] = {}
  /\ \A p \in Procs : \A o \in held[p] :
       view[p][o] = order[o] /\ order[o].status # "none"

\* A client holds the order it pays or cancels, and nothing else at any time.
TaskInv ==
  \A c \in Clients :
    /\ task[c].op \in {"pay", "cancel"} => task[c].order \in Orders /\ held[c] = {task[c].order}
    /\ task[c].op \in {"idle", "create"} => held[c] = {}
    /\ task[c].op = "create" => task[c].user \in Users /\ task[c].item \in Items

\* Status, subscription and event of an order agree.
RowInv ==
  \A o \in Orders :
    /\ order[o].status = "none" => order[o] = NoOrder
    /\ order[o].status # "none" => order[o].user \in Users /\ order[o].item \in Items
    /\ order[o].sub => Paid(o)
    /\ subs[o] = IF order[o].sub THEN 1 ELSE 0
    /\ outbox[o] # "none" => Paid(o)
    /\ outbox[o] = "done" => order[o].sub

\* An order is paid once some debit has its key, and two debits never have.
DebitInv ==
  \A o \in Orders :
    /\ Paid(o) => PaymentsOf(o) # {}
    /\ ~Paid(o) => PaymentsOf(o) = {}
    /\ \A j, k \in PaymentsOf(o) : j = k

\* Two orders never share an idempotency key.
KeyInv == \A o, n \in Orders : order[o].key = order[n].key /\ order[o].key # NoKey => o = n

\* Where a worker is, with what it has in hand.
WorkerInv ==
  \A w \in Workers :
    /\ wpc[w] = "idle" => queue[w] = {}
    /\ wpc[w] \in {"idle", "next"} => cur[w] = None
    /\ wpc[w] \in {"lock", "grant", "fail"} => cur[w] \in Orders
    /\ wpc[w] = "grant" => held[w] = {cur[w]}
    /\ wpc[w] # "grant" => held[w] = {}
    /\ cur[w] \notin queue[w] /\ \A o \in queue[w] : outbox[o] = "processing"

\* The invariant of the orders.
Inv ==
  /\ TypeOK /\ LockInv /\ TaskInv /\ RowInv /\ DebitInv /\ KeyInv /\ WorkerInv
  /\ OneHandler

-----------------------------------------------------------------------------
(* Facts about rows and locks *)

\* No process is of two kinds, and None is nobody and nothing.
LEMMA ProcFacts ==
  /\ \A c \in Clients : c \in Procs /\ c \notin Workers /\ c # Sweeper
  /\ \A w \in Workers : w \in Procs /\ w \notin Clients /\ w # Sweeper
  /\ Sweeper \in Procs
  /\ None \notin Orders
BY ProcAssumption, NullAssumption DEF Procs

\* The rows the code writes are rows.
LEMMA RowTypes ==
  /\ NoOrder \in OrderRows
  /\ \A u \in Users, i \in Items, k \in Keys \cup {NoKey} : NewOrder(u, i, k) \in OrderRows
  /\ \A r \in OrderRows :
       /\ [r EXCEPT !.status = "paid", !.tx = TRUE] \in OrderRows
       /\ [r EXCEPT !.status = "cancelled"] \in OrderRows
       /\ [r EXCEPT !.sub = TRUE] \in OrderRows
BY DEF NoOrder, NewOrder, OrderRows

\* The keys of two debits are different unless order and request key are the same.
LEMMA PayKeysDiffer ==
  ASSUME NEW o \in Orders, NEW n \in Orders, NEW j, NEW k, PayKey(o, j) = PayKey(n, k)
  PROVE  o = n /\ j = k
BY DEF PayKey

\* Locking rows keeps the locks in order, whoever locks them.
LEMMA LockKeeps ==
  ASSUME Inv, NEW p \in Procs, NEW S \in SUBSET Orders, LockOrders(p, S), UNCHANGED order,
         \A o \in S : order[o].status # "none"
  PROVE  /\ LockInv'
         /\ held' \in [Procs -> SUBSET Orders] /\ view' \in [Procs -> [Orders -> OrderRows]]
         /\ held' = [held EXCEPT ![p] = S]
<1>1. /\ held \in [Procs -> SUBSET Orders] /\ view \in [Procs -> [Orders -> OrderRows]]
      /\ order \in [Orders -> OrderRows]
  BY DEF Inv, TypeOK
<1>2. [o \in Orders |-> IF o \in S THEN order[o] ELSE NoOrder] \in [Orders -> OrderRows]
  BY <1>1, RowTypes
<1>3. /\ held' = [held EXCEPT ![p] = S]
      /\ view' = [view EXCEPT ![p] = [o \in Orders |-> IF o \in S THEN order[o] ELSE NoOrder]]
      /\ \A o \in S, q \in Procs : o \notin held[q]
  BY DEF LockOrders, LockFree
<1>4. /\ held' \in [Procs -> SUBSET Orders] /\ view' \in [Procs -> [Orders -> OrderRows]]
      /\ \A q \in Procs : held'[q] = IF q = p THEN S ELSE held[q]
      /\ \A q \in Procs \ {p} : view'[q] = view[q]
      /\ \A o \in S : view'[p][o] = order[o]
  BY <1>1, <1>2, <1>3
<1>5. LockInv'
  <2>1. \A q, r \in Procs : q # r => held'[q] \cap held'[r] = {}
    BY <1>3, <1>4 DEF Inv, LockInv
  <2>2. ASSUME NEW q \in Procs, NEW o \in held'[q]
        PROVE  view'[q][o] = order'[o] /\ order'[o].status # "none"
    BY <1>4 DEF Inv, LockInv
  <2> QED
    BY <2>1, <2>2 DEF LockInv
<1> QED
  BY <1>3, <1>4, <1>5

\* So does the end of a transaction that changed no row but those it had locked, and
\* rows that did not exist.
LEMMA EndKeeps ==
  ASSUME Inv, NEW p \in Procs, EndTransaction(p),
         \A o \in Orders \ held[p] : order[o].status # "none" => order'[o] = order[o]
  PROVE  /\ LockInv'
         /\ held' \in [Procs -> SUBSET Orders] /\ view' \in [Procs -> [Orders -> OrderRows]]
         /\ held' = [held EXCEPT ![p] = {}]
<1>1. /\ held \in [Procs -> SUBSET Orders] /\ view \in [Procs -> [Orders -> OrderRows]]
  BY DEF Inv, TypeOK
<1>2. [o \in Orders |-> NoOrder] \in [Orders -> OrderRows]
  BY RowTypes
<1>3. /\ held' \in [Procs -> SUBSET Orders] /\ view' \in [Procs -> [Orders -> OrderRows]]
      /\ held' = [held EXCEPT ![p] = {}]
      /\ \A q \in Procs : held'[q] = IF q = p THEN {} ELSE held[q]
      /\ \A q \in Procs \ {p} : view'[q] = view[q]
  BY <1>1, <1>2 DEF EndTransaction
<1>4. LockInv'
  <2>1. \A q, r \in Procs : q # r => held'[q] \cap held'[r] = {}
    BY <1>3 DEF Inv, LockInv
  <2>2. ASSUME NEW q \in Procs, NEW o \in held'[q]
        PROVE  view'[q][o] = order'[o] /\ order'[o].status # "none"
    <3>1. q # p /\ o \in held[q] /\ o \in Orders
      BY <1>1, <1>3
    <3>2. o \notin held[p] /\ view[q][o] = order[o] /\ order[o].status # "none"
      BY <3>1 DEF Inv, LockInv
    <3> QED
      BY <1>3, <3>1, <3>2
  <2> QED
    BY <2>1, <2>2 DEF LockInv
<1> QED
  BY <1>3, <1>4

\* A payment spends the key of its order and request, once, and no balance becomes
\* negative.
LEMMA DebitPosts ==
  ASSUME NEW o \in Orders, NEW k \in Keys \cup {NoKey}, NEW row \in OrderRows,
         row.user \in Users, row.item \in Items, funds \in [Users -> Nat], Debit(o, row, k)
  PROVE  /\ funds' \in [Users -> Nat] /\ spent' = spent \cup {PayKey(o, k)}
         /\ PayKey(o, k) \notin spent =>
              funds' = [funds EXCEPT ![row.user] = @ - Price[row.item]]
<1>1. CASE PayKey(o, k) \in spent
  BY <1>1 DEF Debit
<1>2. CASE PayKey(o, k) \notin spent
  <2> DEFINE r   == PayRequest(o, row, k)
             leg == [wallet |-> row.user, type |-> "consume", amount |-> -Price[row.item],
                     key |-> PayKey(o, k)]
  <2>1. /\ r.op = "debit" /\ r.from = row.user /\ r.amount = Price[row.item]
        /\ r.key = PayKey(o, k)
    BY DEF PayRequest
  <2>2. Wallet!Legs(r) = <<leg>>
    <3>1. Wallet!Legs(r) = <<Wallet!Leg(r.from, "consume", -r.amount, r.key)>>
      BY <2>1 DEF Wallet!Legs
    <3> HIDE DEF r
    <3> QED
      BY <2>1, <3>1 DEF Wallet!Leg
  <2>3. Wallet!LegSet(r) = {leg}
    <3> HIDE DEF r, leg
    <3> QED
      BY <2>2 DEF Wallet!LegSet
  <2>4. Wallet!Touched(r) = {row.user} /\ Wallet!LegOn(r, row.user) = leg
    <3>1. leg.wallet = row.user
      OBVIOUS
    <3> HIDE DEF r, leg
    <3> QED
      BY <2>3, <3>1 DEF Wallet!Touched, Wallet!LegOn
  <2>5. PayKey(o, k) # <<>>
    BY DEF PayKey
  <2>6. Wallet!KeysOf(r) = {PayKey(o, k)}
    <3>1. leg.key = PayKey(o, k)
      OBVIOUS
    <3> HIDE DEF r, leg
    <3> QED
      BY <2>3, <2>5, <3>1 DEF Wallet!KeysOf
  <2>7. Wallet!Post(r)
    BY <1>2 DEF Debit
  <2>8. /\ funds[row.user] + leg.amount >= 0
        /\ funds' = [w \in Users |-> IF w = row.user THEN funds[w] + leg.amount ELSE funds[w]]
        /\ spent' = spent \cup {PayKey(o, k)}
    <3> HIDE DEF r, leg
    <3>1. leg \in Wallet!LegSet(r) /\ leg.wallet = row.user
      BY <2>3 DEF leg
    <3> QED
      BY <2>4, <2>6, <2>7, <3>1 DEF Wallet!Post
  <2>9. leg.amount = -Price[row.item] /\ Price[row.item] \in Nat
    BY PriceAssumption
  <2> HIDE DEF leg
  <2>10. funds' = [funds EXCEPT ![row.user] = @ - Price[row.item]]
    <3>1. \A w \in Users :
            funds'[w] = IF w = row.user THEN funds[w] - Price[row.item] ELSE funds[w]
      BY <2>8, <2>9
    <3> QED
      BY <2>8, <3>1
  <2>11. funds' \in [Users -> Nat]
    BY <2>8, <2>9
  <2>12. spent' = spent \cup {PayKey(o, k)}
    BY <2>8
  <2> QED
    BY <2>10, <2>11, <2>12
<1> QED
  BY <1>1, <1>2

\* A queue holds events of orders.
LEMMA Queued == Inv => \A w \in Workers : queue[w] \subseteq Orders
BY DEF Inv, TypeOK

\* What a step that leaves the workers alone keeps of them.
LEMMA WorkersUntouched ==
  ASSUME Inv, UNCHANGED worker, \A w \in Workers : held'[w] = held[w],
         \A o \in Orders : outbox[o] \in {"processing", "done"} => outbox'[o] = outbox[o]
  PROVE  WorkerInv' /\ OneHandler'
<1>1. WorkerInv'
  BY Queued DEF Inv, WorkerInv, worker
<1>2. OneHandler'
  BY DEF Inv, OneHandler, Handles, worker
<1> QED
  BY <1>1, <1>2

\* And one that leaves the clients, or the tables, alone.
LEMMA ClientsUntouched ==
  ASSUME Inv, UNCHANGED task, \A c \in Clients : held'[c] = held[c]
  PROVE  TaskInv'
BY DEF Inv, TaskInv

\* What is said of rows, debits and keys survives a step that changes no table.
LEMMA TablesUntouched ==
  ASSUME Inv, UNCHANGED tables
  PROVE  RowInv' /\ DebitInv' /\ KeyInv'
<1>1. RowInv' /\ KeyInv'
  BY DEF Inv, RowInv, KeyInv, tables, Paid
<1>2. DebitInv'
  BY DEF Inv, DebitInv, PaymentsOf, tables, Paid
<1> QED
  BY <1>1, <1>2

\* A step that sets the order of one process, or starts none, without money.
LEMMA NoMoney ==
  ASSUME Inv, UNCHANGED spent, \A o \in Orders : Paid(o)' <=> Paid(o)
  PROVE  DebitInv'
BY DEF Inv, DebitInv, PaymentsOf

-----------------------------------------------------------------------------
(* The steps of a client *)

\* The look-up of a creation, and its insert.
LEMMA CreateLookupInv ==
  ASSUME Inv, NEW c \in Clients, NEW u \in Users, NEW i \in Items,
         NEW k \in Keys \cup {NoKey}, CreateLookup(c, u, i, k)
  PROVE  Inv'
<1>1. /\ task' = [task EXCEPT ![c] = Task("create", u, i, k, None)]
      /\ UNCHANGED <<tables, held, view, worker, errors, crashes>>
      /\ task[c] = Idle
  BY DEF CreateLookup
<1>2. Task("create", u, i, k, None) \in Tasks
  BY DEF Task, Tasks
<1>3. TypeOK'
  BY <1>1, <1>2 DEF Inv, TypeOK, tables, worker
<1>4. TaskInv'
  BY <1>1 DEF Inv, TaskInv, TypeOK, Idle, Task
<1>5. LockInv'
  BY <1>1 DEF Inv, LockInv, tables
<1> QED
  BY <1>1, <1>3, <1>4, <1>5, WorkersUntouched, TablesUntouched DEF Inv, tables

\* A new order is pending, unpaid, and the only one with its key.
LEMMA CreateInsertInv ==
  ASSUME Inv, NEW c \in Clients, CreateInsert(c)
  PROVE  Inv'
<1>1. PICK o \in Orders :
        /\ order[o].status = "none"
        /\ order' = [order EXCEPT ![o] = NewOrder(task[c].user, task[c].item, task[c].key)]
  BY DEF CreateInsert
<1>2. /\ task[c].op = "create" /\ KeyFree(task[c].key)
      /\ task' = [task EXCEPT ![c] = Idle]
      /\ UNCHANGED <<outbox, subs, funds, spent, held, view, worker, errors, crashes>>
  BY DEF CreateInsert
<1> DEFINE row == NewOrder(task[c].user, task[c].item, task[c].key)
<1>3. /\ row \in OrderRows /\ row.status = "pending" /\ row.sub = FALSE
      /\ row.user \in Users /\ row.item \in Items /\ row.key = task[c].key
  <2>1. task[c].user \in Users /\ task[c].item \in Items /\ task[c].key \in Keys \cup {NoKey}
    BY <1>2 DEF Inv, TaskInv, TypeOK, Tasks
  <2> QED
    BY <2>1, RowTypes DEF NewOrder
<1> HIDE DEF row
<1>4. /\ \A n \in Orders : order'[n] = IF n = o THEN row ELSE order[n]
      /\ order' \in [Orders -> OrderRows]
  BY <1>1, <1>3 DEF Inv, TypeOK, row
<1>5. Idle \in Tasks /\ Idle.op = "idle"
  BY DEF Idle, Tasks
<1>6. TypeOK'
  BY <1>2, <1>4, <1>5 DEF Inv, TypeOK, worker
<1>7. LockInv'
  BY <1>1, <1>2, <1>4 DEF Inv, LockInv
<1>8. TaskInv'
  BY <1>2, <1>5 DEF Inv, TaskInv, TypeOK
<1>9. RowInv'
  <2>1. ~Paid(o) /\ outbox[o] = "none" /\ ~order[o].sub /\ subs[o] = 0
    BY <1>1 DEF Inv, RowInv, Paid
  <2> QED
    BY <1>2, <1>3, <1>4, <2>1 DEF Inv, RowInv, Paid
<1>10. DebitInv'
  BY <1>1, <1>2, <1>3, <1>4, NoMoney DEF Paid
<1>11. KeyInv'
  <2>1. task[c].key = NoKey \/ \A n \in Orders : order[n].status # "none" => order[n].key # task[c].key
    BY <1>2 DEF KeyFree, KeyTaken
  <2>2. \A n \in Orders : order[n].status = "none" => order[n].key = NoKey
    BY DEF Inv, RowInv, NoOrder
  <2> QED
    BY <1>3, <1>4, <2>1, <2>2 DEF Inv, KeyInv
<1> QED
  BY <1>2, <1>6, <1>7, <1>8, <1>9, <1>10, <1>11, WorkersUntouched DEF Inv

\* A payment or a cancellation takes its lock,
LEMMA LockForInv ==
  ASSUME Inv, NEW c \in Clients, NEW op \in {"pay", "cancel"}, NEW u \in Users,
         NEW o \in Orders, NEW k \in Keys \cup {NoKey}, LockFor(c, op, u, o, k)
  PROVE  Inv'
<1>1. /\ order[o].status # "none" /\ LockOrders(c, {o})
      /\ task' = [task EXCEPT ![c] = Task(op, u, None, k, o)]
      /\ UNCHANGED <<tables, worker, errors, crashes>>
  BY DEF LockFor
<1>2. /\ Task(op, u, None, k, o) \in Tasks
      /\ Task(op, u, None, k, o).op = op /\ Task(op, u, None, k, o).order = o
  BY DEF Task, Tasks
<1>3. /\ LockInv'
      /\ held' \in [Procs -> SUBSET Orders] /\ view' \in [Procs -> [Orders -> OrderRows]]
      /\ held' = [held EXCEPT ![c] = {o}]
  BY <1>1, LockKeeps, ProcFacts DEF tables
<1>4. TypeOK'
  BY <1>1, <1>2, <1>3 DEF Inv, TypeOK, tables, worker
<1>5. TaskInv'
  BY <1>1, <1>2, <1>3, ProcFacts DEF Inv, TaskInv, TypeOK
<1>6. \A w \in Workers : held'[w] = held[w]
  BY <1>3, ProcFacts DEF Inv, TypeOK
<1> QED
  BY <1>1, <1>3, <1>4, <1>5, <1>6, WorkersUntouched, TablesUntouched DEF Inv, tables

\* and its answer ends the transaction.
LEMMA AnswerKeeps ==
  ASSUME Inv, NEW c \in Clients, EndTransaction(c), task' = [task EXCEPT ![c] = Idle],
         \A o \in Orders \ held[c] : order[o].status # "none" => order'[o] = order[o]
  PROVE  /\ LockInv' /\ TaskInv' /\ \A w \in Workers : held'[w] = held[w]
         /\ held' \in [Procs -> SUBSET Orders] /\ view' \in [Procs -> [Orders -> OrderRows]]
         /\ task' \in [Clients -> Tasks]
<1>1. /\ LockInv'
      /\ held' \in [Procs -> SUBSET Orders] /\ view' \in [Procs -> [Orders -> OrderRows]]
      /\ held' = [held EXCEPT ![c] = {}]
  BY EndKeeps, ProcFacts
<1>2. Idle \in Tasks /\ Idle.op = "idle"
  BY DEF Idle, Tasks
<1>3. task' \in [Clients -> Tasks] /\ TaskInv'
  BY <1>1, <1>2, ProcFacts DEF Inv, TypeOK, TaskInv
<1>4. \A w \in Workers : held'[w] = held[w]
  BY <1>1, ProcFacts DEF Inv, TypeOK
<1> QED
  BY <1>1, <1>3, <1>4

\* A transaction that is rolled back changes nothing but its locks.
LEMMA AbandonInv ==
  ASSUME Inv, NEW c \in Clients, Abandon(c)
  PROVE  Inv'
<1>1. /\ EndTransaction(c) /\ task' = [task EXCEPT ![c] = Idle]
      /\ UNCHANGED <<tables, worker, errors, crashes>>
  BY DEF Abandon
<1>2. /\ LockInv' /\ TaskInv' /\ \A w \in Workers : held'[w] = held[w]
      /\ held' \in [Procs -> SUBSET Orders] /\ view' \in [Procs -> [Orders -> OrderRows]]
      /\ task' \in [Clients -> Tasks]
  BY <1>1, AnswerKeeps DEF tables
<1>3. TypeOK'
  BY <1>1, <1>2 DEF Inv, TypeOK, tables, worker
<1> QED
  BY <1>1, <1>2, <1>3, WorkersUntouched, TablesUntouched DEF Inv, tables

\* What a client that pays or cancels knows of its order.
LEMMA Locked ==
  ASSUME Inv, NEW c \in Clients, task[c].op \in {"pay", "cancel"}
  PROVE  /\ task[c].order \in Orders /\ held[c] = {task[c].order}
         /\ view[c][task[c].order] = order[task[c].order]
         /\ order[task[c].order] \in OrderRows
         /\ order[task[c].order].status # "none"
         /\ task[c].key \in Keys \cup {NoKey}
<1>1. task[c].order \in Orders /\ held[c] = {task[c].order}
  BY DEF Inv, TaskInv
<1> QED
  BY <1>1, ProcFacts DEF Inv, LockInv, TypeOK, Tasks

\* A cancellation changes a locked, unpaid order.
LEMMA CancelInv ==
  ASSUME Inv, NEW c \in Clients, Cancel(c)
  PROVE  Inv'
<1> DEFINE o == task[c].order
           row == [order[o] EXCEPT !.status = "cancelled"]
<1>1. /\ o \in Orders /\ held[c] = {o} /\ view[c][o] = order[o] /\ order[o] \in OrderRows
  BY Locked DEF Cancel
<1>2. /\ order[o].status = "pending" /\ order' = [order EXCEPT ![o] = row]
      /\ EndTransaction(c) /\ task' = [task EXCEPT ![c] = Idle]
      /\ UNCHANGED <<outbox, subs, funds, spent, worker, errors, crashes>>
  BY <1>1 DEF Cancel, Cancellable
<1>3. /\ row \in OrderRows /\ row.status = "cancelled" /\ row.sub = order[o].sub
      /\ row.user = order[o].user /\ row.item = order[o].item /\ row.key = order[o].key
  BY <1>1, RowTypes DEF OrderRows
<1> HIDE DEF row, o
<1>4. /\ \A n \in Orders : order'[n] = IF n = o THEN row ELSE order[n]
      /\ order' \in [Orders -> OrderRows]
  BY <1>1, <1>2, <1>3 DEF Inv, TypeOK
<1>5. /\ LockInv' /\ TaskInv' /\ \A w \in Workers : held'[w] = held[w]
      /\ held' \in [Procs -> SUBSET Orders] /\ view' \in [Procs -> [Orders -> OrderRows]]
      /\ task' \in [Clients -> Tasks]
  BY <1>1, <1>2, <1>4, AnswerKeeps
<1>6. TypeOK'
  BY <1>2, <1>4, <1>5 DEF Inv, TypeOK, worker
<1>7. RowInv'
  BY <1>2, <1>3, <1>4 DEF Inv, RowInv, Paid
<1>8. DebitInv'
  BY <1>2, <1>3, <1>4, NoMoney DEF Paid
<1>9. KeyInv'
  BY <1>3, <1>4 DEF Inv, KeyInv
<1> QED
  BY <1>2, <1>5, <1>6, <1>7, <1>8, <1>9, WorkersUntouched DEF Inv

\* A payment of a pending order debits, marks it paid and writes its event; one of a
\* paid order may at most write the event, which is there.
LEMMA PayInv ==
  ASSUME Inv, NEW c \in Clients, Pay(c)
  PROVE  Inv'
<1>o. PICK o \in Orders : o = task[c].order
  BY Locked DEF Pay
<1>k. PICK k \in Keys \cup {NoKey} : k = task[c].key
  BY Locked DEF Pay
<1>r. PICK row : row = [order[o] EXCEPT !.status = "paid", !.tx = TRUE]
  OBVIOUS
<1>1. /\ held[c] = {o} /\ view[c][o] = order[o] /\ order[o] \in OrderRows
      /\ order[o].status # "none"
  BY <1>o, Locked DEF Pay
<1>2. /\ PayPending(o, order[o], k) \/ PayPaid(o, order[o])
      /\ EndTransaction(c) /\ task' = [task EXCEPT ![c] = Idle]
      /\ UNCHANGED <<subs, worker, errors, crashes>>
  BY <1>o, <1>k, <1>1 DEF Pay
<1>3. /\ row \in OrderRows /\ row.status = "paid" /\ row.sub = order[o].sub
      /\ row.user = order[o].user /\ row.item = order[o].item /\ row.key = order[o].key
  BY <1>1, <1>r, RowTypes DEF OrderRows
<1>4. order[o].user \in Users /\ order[o].item \in Items
  BY <1>1 DEF Inv, RowInv
<1>5. CASE PayPending(o, order[o], k)
  <2>1. /\ order[o].status = "pending" /\ Debit(o, order[o], k) /\ EnqueueEntitlement(o)
        /\ order' = [order EXCEPT ![o] = row]
    BY <1>5, <1>r DEF PayPending
  <2>2. /\ \A n \in Orders : order'[n] = IF n = o THEN row ELSE order[n]
        /\ order' \in [Orders -> OrderRows]
    BY <1>1, <1>3, <2>1 DEF Inv, TypeOK
  <2>3. /\ outbox' = [outbox EXCEPT ![o] = "pending"] /\ outbox[o] = "none" /\ ~Paid(o)
    <3>1. ~Paid(o)
      BY <2>1 DEF Paid
    <3>2. outbox[o] = "none"
      BY <1>1, <3>1 DEF Inv, RowInv
    <3> QED
      BY <2>1, <3>1, <3>2 DEF EnqueueEntitlement
  <2>4. /\ funds' \in [Users -> Nat] /\ spent' = spent \cup {PayKey(o, k)}
    <3>1. funds \in [Users -> Nat]
      BY DEF Inv, TypeOK
    <3> QED
      BY <1>1, <1>4, <2>1, <3>1, DebitPosts
  <2>5. /\ LockInv' /\ TaskInv' /\ \A w \in Workers : held'[w] = held[w]
        /\ held' \in [Procs -> SUBSET Orders] /\ view' \in [Procs -> [Orders -> OrderRows]]
        /\ task' \in [Clients -> Tasks]
    BY <1>1, <1>2, <2>2, AnswerKeeps
  <2>6. TypeOK'
    <3>1. spent' \subseteq {PayKey(n, j) : n \in Orders, j \in Keys \cup {NoKey}}
      BY <1>1, <2>4 DEF Inv, TypeOK
    <3>2. outbox' \in [Orders -> {"none", "pending", "processing", "done", "failed"}]
      BY <2>3 DEF Inv, TypeOK
    <3> QED
      BY <1>2, <2>2, <2>4, <2>5, <3>1, <3>2 DEF Inv, TypeOK, worker
  <2>7. \A n \in Orders : outbox'[n] = IF n = o THEN "pending" ELSE outbox[n]
    BY <1>1, <2>3 DEF Inv, TypeOK
  <2>8. RowInv'
    BY <1>2, <1>3, <1>4, <2>1, <2>2, <2>7 DEF Inv, RowInv, Paid
  <2>9. DebitInv'
    <3>1. \A n \in Orders \ {o} : PaymentsOf(n)' = PaymentsOf(n) /\ (Paid(n)' <=> Paid(n))
      BY <1>1, <2>2, <2>4, PayKeysDiffer DEF PaymentsOf, Paid
    <3>2. PaymentsOf(o) = {}
      BY <1>1, <2>3 DEF Inv, DebitInv
    <3>3. Paid(o)'
      BY <1>1, <1>3, <2>2 DEF Paid
    <3>4. PaymentsOf(o)' = {k}
      <4>1. ASSUME NEW j \in Keys \cup {NoKey}
            PROVE  PayKey(o, j) \in spent' <=> j = k
        <5>1. PayKey(o, j) \notin spent
          BY <3>2 DEF PaymentsOf
        <5>2. PayKey(o, j) = PayKey(o, k) => j = k
          BY <1>1, PayKeysDiffer
        <5> QED
          BY <2>4, <5>1, <5>2
      <4> QED
        BY <1>1, <4>1 DEF PaymentsOf
    <3>5. ASSUME NEW n \in Orders
          PROVE  /\ Paid(n)' => PaymentsOf(n)' # {}
                 /\ ~Paid(n)' => PaymentsOf(n)' = {}
                 /\ \A i, j \in PaymentsOf(n)' : i = j
      <4>1. CASE n = o
        BY <3>3, <3>4, <4>1
      <4>2. CASE n # o
        BY <3>1, <4>2 DEF Inv, DebitInv
      <4> QED
        BY <4>1, <4>2
    <3> QED
      BY <3>5 DEF DebitInv
  <2>10. KeyInv'
    BY <1>3, <2>2 DEF Inv, KeyInv
  <2>11. WorkerInv' /\ OneHandler'
    <3>1. \A n \in Orders : outbox[n] \in {"processing", "done"} => outbox'[n] = outbox[n]
      BY <2>3, <2>7
    <3> QED
      BY <1>2, <2>5, <3>1, WorkersUntouched
  <2> QED
    BY <2>5, <2>6, <2>8, <2>9, <2>10, <2>11 DEF Inv
<1>6. CASE PayPaid(o, order[o])
  <2>1. /\ order[o].status = "paid" /\ UNCHANGED <<order, funds, spent>>
        /\ UNCHANGED outbox \/ EnqueueEntitlement(o)
    BY <1>6 DEF PayPaid
  <2>2. /\ outbox' \in [Orders -> {"none", "pending", "processing", "done", "failed"}]
        /\ \A n \in Orders : outbox'[n] # outbox[n] =>
             n = o /\ outbox[n] = "none" /\ outbox'[n] = "pending"
    <3>1. outbox \in [Orders -> {"none", "pending", "processing", "done", "failed"}]
      BY DEF Inv, TypeOK
    <3>2. CASE UNCHANGED outbox
      BY <3>1, <3>2
    <3>3. CASE EnqueueEntitlement(o) /\ outbox[o] = "none"
      <4>1. outbox' = [outbox EXCEPT ![o] = "pending"]
        BY <3>3 DEF EnqueueEntitlement
      <4> QED
        BY <1>1, <3>1, <3>3, <4>1
    <3>4. CASE EnqueueEntitlement(o) /\ outbox[o] # "none"
      <4>1. outbox' = [outbox EXCEPT ![o] = outbox[o]]
        BY <3>4 DEF EnqueueEntitlement
      <4> QED
        BY <3>1, <4>1
    <3> QED
      BY <2>1, <3>2, <3>3, <3>4
  <2>3. /\ LockInv' /\ TaskInv' /\ \A w \in Workers : held'[w] = held[w]
        /\ held' \in [Procs -> SUBSET Orders] /\ view' \in [Procs -> [Orders -> OrderRows]]
        /\ task' \in [Clients -> Tasks]
    BY <1>2, <2>1, AnswerKeeps
  <2>4. TypeOK'
    BY <1>2, <2>1, <2>2, <2>3 DEF Inv, TypeOK, worker
  <2>5. RowInv'
    <3>1. \A n \in Orders : Paid(n)' <=> Paid(n)
      BY <2>1 DEF Paid
    <3>2. Paid(o)
      BY <2>1 DEF Paid
    <3> QED
      BY <1>2, <2>1, <2>2, <3>1, <3>2 DEF Inv, RowInv
  <2>6. DebitInv' /\ KeyInv'
    BY <2>1, NoMoney DEF Paid, Inv, KeyInv
  <2> QED
    BY <1>2, <2>2, <2>3, <2>4, <2>5, <2>6, WorkersUntouched DEF Inv
<1> QED
  BY <1>2, <1>5, <1>6

\* A client's step of any kind.
LEMMA ClientInv ==
  ASSUME Inv, NEW c \in Clients, Request(c) \/ Answer(c)
  PROVE  Inv'
<1>1. CASE Request(c)
  BY <1>1, CreateLookupInv, LockForInv DEF Request
<1>2. CASE Answer(c)
  BY <1>2, CreateInsertInv, PayInv, CancelInv, AbandonInv DEF Answer
<1> QED
  BY <1>1, <1>2

-----------------------------------------------------------------------------
(* The sweeper, and the expiry of a Redis lock *)

\* The sweeper locks pending orders that nobody holds.
LEMMA SweepLockInv ==
  ASSUME Inv, NEW S \in SUBSET Orders, SweepLock(S)
  PROVE  Inv'
<1>1. /\ LockOrders(Sweeper, S) /\ \A o \in S : order[o].status = "pending"
      /\ UNCHANGED <<tables, task, worker, errors, crashes>>
  BY DEF SweepLock
<1>2. /\ LockInv'
      /\ held' \in [Procs -> SUBSET Orders] /\ view' \in [Procs -> [Orders -> OrderRows]]
      /\ held' = [held EXCEPT ![Sweeper] = S]
  BY <1>1, LockKeeps, ProcFacts DEF tables
<1>3. /\ \A w \in Workers : held'[w] = held[w]
      /\ \A c \in Clients : held'[c] = held[c]
  BY <1>2, ProcFacts DEF Inv, TypeOK
<1>4. TypeOK'
  BY <1>1, <1>2 DEF Inv, TypeOK, tables, worker
<1> QED
  BY <1>1, <1>2, <1>3, <1>4, WorkersUntouched, ClientsUntouched, TablesUntouched
     DEF Inv, tables

\* The end of the sweeper's transaction leaves clients and workers what they have.
LEMMA SweepEndKeeps ==
  ASSUME Inv, EndTransaction(Sweeper), UNCHANGED <<outbox, task, worker>>,
         \A o \in Orders \ held[Sweeper] : order[o].status # "none" => order'[o] = order[o]
  PROVE  /\ LockInv' /\ TaskInv' /\ WorkerInv' /\ OneHandler'
         /\ held' \in [Procs -> SUBSET Orders] /\ view' \in [Procs -> [Orders -> OrderRows]]
<1>1. /\ LockInv'
      /\ held' \in [Procs -> SUBSET Orders] /\ view' \in [Procs -> [Orders -> OrderRows]]
      /\ held' = [held EXCEPT ![Sweeper] = {}]
  BY EndKeeps, ProcFacts
<1>2. /\ \A w \in Workers : held'[w] = held[w]
      /\ \A c \in Clients : held'[c] = held[c]
  BY <1>1, ProcFacts DEF Inv, TypeOK
<1> QED
  BY <1>1, <1>2, WorkersUntouched, ClientsUntouched

\* The sweeper cancels what it locked, which is as pending as it was.
LEMMA SweepCommitInv ==
  ASSUME Inv, SweepCommit
  PROVE  Inv'
<1>1. /\ order' = [o \in Orders |->
                     IF o \in held[Sweeper] /\ Cancellable(view[Sweeper][o])
                     THEN [view[Sweeper][o] EXCEPT !.status = "cancelled"] ELSE order[o]]
      /\ EndTransaction(Sweeper)
      /\ UNCHANGED <<outbox, subs, funds, spent, task, worker, errors, crashes>>
  BY DEF SweepCommit
<1>2. \A o \in held[Sweeper] : view[Sweeper][o] = order[o]
  BY ProcFacts DEF Inv, LockInv
<1>3. \A o \in Orders :
        order'[o] = IF o \in held[Sweeper] /\ order[o].status = "pending"
                    THEN [order[o] EXCEPT !.status = "cancelled"] ELSE order[o]
  BY <1>1, <1>2 DEF Cancellable
<1>4. ASSUME NEW o \in Orders, order'[o] # order[o]
      PROVE  /\ order[o].status = "pending" /\ order'[o].status = "cancelled"
             /\ order'[o].sub = order[o].sub /\ order'[o].user = order[o].user
             /\ order'[o].item = order[o].item /\ order'[o].key = order[o].key
  <2>1. order[o] \in OrderRows
    BY DEF Inv, TypeOK
  <2> QED
    BY <1>3, <1>4, <2>1 DEF OrderRows
<1>5. order' \in [Orders -> OrderRows]
  <2>1. ASSUME NEW o \in Orders
        PROVE  order'[o] \in OrderRows
    <3>1. order[o] \in OrderRows
      BY DEF Inv, TypeOK
    <3>2. [order[o] EXCEPT !.status = "cancelled"] \in OrderRows
      BY <3>1, RowTypes
    <3>3. order'[o] \in {order[o], [order[o] EXCEPT !.status = "cancelled"]}
      BY <1>3
    <3> QED
      BY <3>1, <3>2, <3>3
  <2> QED
    BY <1>1, <2>1
<1>6. /\ LockInv' /\ TaskInv' /\ WorkerInv' /\ OneHandler'
      /\ held' \in [Procs -> SUBSET Orders] /\ view' \in [Procs -> [Orders -> OrderRows]]
  BY <1>1, <1>3, SweepEndKeeps
<1>7. TypeOK'
  BY <1>1, <1>5, <1>6 DEF Inv, TypeOK, worker
<1>8. \A o \in Orders : Paid(o)' <=> Paid(o)
  BY <1>4 DEF Paid
<1>9. ASSUME NEW o \in Orders
      PROVE  /\ order'[o].status = "none" => order'[o] = NoOrder
             /\ order'[o].status # "none" => order'[o].user \in Users /\ order'[o].item \in Items
             /\ order'[o].sub => Paid(o)'
             /\ subs'[o] = IF order'[o].sub THEN 1 ELSE 0
             /\ outbox'[o] # "none" => Paid(o)'
             /\ outbox'[o] = "done" => order'[o].sub
  <2>1. subs'[o] = subs[o] /\ outbox'[o] = outbox[o]
    BY <1>1
  <2>2. CASE order'[o] = order[o]
    BY <1>8, <2>1, <2>2 DEF Inv, RowInv
  <2>3. CASE order'[o] # order[o]
    BY <1>4, <1>8, <2>1, <2>3 DEF Inv, RowInv
  <2> QED
    BY <2>2, <2>3
<1>10. DebitInv'
  BY <1>1, <1>8, NoMoney
<1>11. KeyInv'
  BY <1>4 DEF Inv, KeyInv
<1> QED
  BY <1>6, <1>7, <1>9, <1>10, <1>11 DEF Inv, RowInv

\* A sweep that is rolled back changes nothing but its locks.
LEMMA SweepAbortInv ==
  ASSUME Inv, SweepAbort
  PROVE  Inv'
<1>1. EndTransaction(Sweeper) /\ UNCHANGED <<tables, task, worker, errors, crashes>>
  BY DEF SweepAbort
<1>2. /\ LockInv' /\ TaskInv' /\ WorkerInv' /\ OneHandler'
      /\ held' \in [Procs -> SUBSET Orders] /\ view' \in [Procs -> [Orders -> OrderRows]]
  BY <1>1, SweepEndKeeps DEF tables
<1>3. TypeOK'
  BY <1>1, <1>2 DEF Inv, TypeOK, tables, worker
<1> QED
  BY <1>1, <1>2, <1>3, TablesUntouched DEF Inv

\* No invariant rests on a Redis lock.
LEMMA RedisExpireInv ==
  ASSUME Inv, NEW o \in Orders, RedisExpire(o)
  PROVE  Inv'
<1>1. /\ redis' = [redis EXCEPT ![o] = None]
      /\ UNCHANGED <<tables, held, view, task, wpc, queue, cur, errors, crashes>>
  BY DEF RedisExpire
<1>2. TypeOK'
  BY <1>1 DEF Inv, TypeOK, tables
<1>3. LockInv' /\ TaskInv' /\ WorkerInv' /\ OneHandler'
  BY <1>1 DEF Inv, LockInv, TaskInv, WorkerInv, OneHandler, Handles, tables
<1> QED
  BY <1>1, <1>2, <1>3, TablesUntouched DEF Inv

-----------------------------------------------------------------------------
(* The steps of an outbox worker *)

\* A claim takes events that nobody has in hand.
LEMMA ClaimInv ==
  ASSUME Inv, NEW w \in Workers, NEW S \in SUBSET Orders, Claim(w, S)
  PROVE  Inv'
<1>1. /\ wpc[w] = "idle" /\ S \subseteq Claimable
      /\ outbox' = [o \in Orders |-> IF o \in S THEN "processing" ELSE outbox[o]]
      /\ queue' = [queue EXCEPT ![w] = S] /\ wpc' = [wpc EXCEPT ![w] = "next"]
      /\ UNCHANGED <<order, subs, funds, spent, held, view, task, cur, redis, errors, crashes>>
  BY DEF Claim, MarkProcessing
<1>2. /\ \A v \in Workers : queue'[v] = IF v = w THEN S ELSE queue[v]
      /\ \A v \in Workers : wpc'[v] = IF v = w THEN "next" ELSE wpc[v]
      /\ \A o \in S : outbox[o] \in {"pending", "failed"}
  BY <1>1 DEF Inv, TypeOK, Claimable
<1>3. cur[w] = None
  BY <1>1 DEF Inv, WorkerInv
<1>4. TypeOK'
  <2>1. outbox' \in [Orders -> {"none", "pending", "processing", "done", "failed"}]
    BY <1>1 DEF Inv, TypeOK
  <2> QED
    BY <1>1, <2>1 DEF Inv, TypeOK
<1>5. LockInv' /\ TaskInv' /\ KeyInv'
  BY <1>1 DEF Inv, LockInv, TaskInv, KeyInv
<1>6. RowInv'
  <2>1. \A o \in Orders : /\ outbox'[o] # "none" => outbox[o] # "none"
                          /\ outbox'[o] = "done" => outbox[o] = "done"
                          /\ Paid(o)' <=> Paid(o)
    BY <1>1, <1>2 DEF Paid
  <2> QED
    BY <1>1, <2>1 DEF Inv, RowInv
<1>7. DebitInv'
  BY <1>1, NoMoney DEF Paid
<1>8. WorkerInv'
  <2>1. \A o \in Orders : outbox'[o] = IF o \in S THEN "processing" ELSE outbox[o]
    BY <1>1
  <2> QED
    BY <1>1, <1>2, <1>3, <2>1, Queued, ProcFacts DEF Inv, WorkerInv
<1>9. OneHandler'
  <2>1. \A o \in S, v \in Workers : ~Handles(v, o)
    BY <1>2 DEF Inv, OneHandler
  <2>2. \A o \in Orders, v \in Workers : Handles(v, o)' <=> IF v = w THEN o \in S ELSE Handles(v, o)
    BY <1>1, <1>2, <1>3, ProcFacts DEF Handles
  <2>3. \A o \in Orders : outbox'[o] = IF o \in S THEN "processing" ELSE outbox[o]
    BY <1>1
  <2> QED
    BY <1>2, <2>1, <2>2, <2>3 DEF Inv, OneHandler
<1> QED
  BY <1>4, <1>5, <1>6, <1>7, <1>8, <1>9 DEF Inv

\* A claim whose answer is lost marks events that nobody has in hand.
LEMMA ClaimUnseenInv ==
  ASSUME Inv, NEW w \in Workers, NEW S \in SUBSET Orders, ClaimUnseen(w, S)
  PROVE  Inv'
<1>1. /\ S \subseteq Claimable
      /\ outbox' = [o \in Orders |-> IF o \in S THEN "processing" ELSE outbox[o]]
      /\ errors < MaxErrors /\ errors' = errors + 1
      /\ UNCHANGED <<order, subs, funds, spent, held, view, task, worker, crashes>>
  BY DEF ClaimUnseen, MarkProcessing
<1>2. /\ \A o \in S : outbox[o] \in {"pending", "failed"}
      /\ \A o \in Orders : outbox'[o] = IF o \in S THEN "processing" ELSE outbox[o]
  BY <1>1 DEF Claimable
<1>3. \A o \in S, v \in Workers : ~Handles(v, o)
  BY <1>2 DEF Inv, OneHandler
<1>4. TypeOK'
  BY <1>1, LimitAssumption DEF Inv, TypeOK, worker
<1>5. LockInv' /\ TaskInv' /\ KeyInv'
  BY <1>1 DEF Inv, LockInv, TaskInv, KeyInv
<1>6. RowInv'
  BY <1>1, <1>2 DEF Inv, RowInv, Paid
<1>7. DebitInv'
  BY <1>1, NoMoney DEF Paid
<1>8. WorkerInv'
  BY <1>1, <1>2, <1>3, Queued DEF Inv, WorkerInv, Handles, worker
<1>9. OneHandler'
  BY <1>1, <1>2, <1>3 DEF Inv, OneHandler, Handles, worker
<1> QED
  BY <1>4, <1>5, <1>6, <1>7, <1>8, <1>9 DEF Inv

\* A worker takes the next event of its queue.
LEMMA TakeInv ==
  ASSUME Inv, NEW w \in Workers, NEW o \in Orders, TakeEvent(w, o) \/ TakeError(w, o)
  PROVE  Inv'
<1>1. /\ wpc[w] = "next" /\ o \in queue[w]
      /\ queue' = [queue EXCEPT ![w] = @ \ {o}] /\ cur' = [cur EXCEPT ![w] = o]
      /\ UNCHANGED <<tables, held, view, task, crashes>>
  BY DEF TakeEvent, TakeError, NextEvent
<1>2. PICK to \in {"lock", "fail"} : wpc' = [wpc EXCEPT ![w] = to]
  BY DEF TakeEvent, TakeError
<1>3. redis' \in [Orders -> Workers \cup {None}] /\ errors' \in 0..MaxErrors
  <2>1. redis' = redis \/ redis' = [redis EXCEPT ![o] = IF redis[o] = None THEN w ELSE redis[o]]
    BY DEF TakeEvent, TakeError
  <2>2. errors' = errors \/ (errors < MaxErrors /\ errors' = errors + 1)
    BY DEF TakeEvent, TakeError
  <2>3. redis' \in [Orders -> Workers \cup {None}]
    BY <2>1 DEF Inv, TypeOK
  <2> QED
    BY <2>2, <2>3, LimitAssumption DEF Inv, TypeOK
<1>4. /\ \A v \in Workers : queue'[v] = IF v = w THEN queue[w] \ {o} ELSE queue[v]
      /\ \A v \in Workers : wpc'[v] = IF v = w THEN to ELSE wpc[v]
      /\ \A v \in Workers : cur'[v] = IF v = w THEN o ELSE cur[v]
  BY <1>1, <1>2 DEF Inv, TypeOK
<1>5. TypeOK'
  <2>1. wpc' \in [Workers -> {"idle", "next", "lock", "grant", "fail"}]
    BY <1>2 DEF Inv, TypeOK
  <2>2. queue' \in [Workers -> SUBSET Orders] /\ cur' \in [Workers -> Orders \cup {None}]
    BY <1>1 DEF Inv, TypeOK
  <2> QED
    BY <1>1, <1>3, <2>1, <2>2 DEF Inv, TypeOK, tables
<1>6. LockInv' /\ TaskInv'
  BY <1>1 DEF Inv, LockInv, TaskInv, tables
<1>7. WorkerInv'
  BY <1>1, <1>4, Queued DEF Inv, WorkerInv, tables
<1>8. OneHandler'
  <2>1. cur[w] = None /\ outbox[o] = "processing"
    BY <1>1 DEF Inv, WorkerInv, OneHandler, Handles
  <2>2. \A n \in Orders, v \in Workers : Handles(v, n)' <=> Handles(v, n)
    BY <1>1, <1>4, <2>1, ProcFacts DEF Handles
  <2>3. \A v \in Workers : wpc[v] = "fail" => wpc'[v] = "fail"
    BY <1>1, <1>4
  <2> QED
    BY <1>1, <2>2, <2>3 DEF Inv, OneHandler, tables
<1> QED
  BY <1>1, <1>5, <1>6, <1>7, <1>8, TablesUntouched DEF Inv

\* It locks the order of its event, which is there and paid.
LEMMA LockForGrantInv ==
  ASSUME Inv, NEW w \in Workers, LockForGrant(w)
  PROVE  Inv'
<1>o. PICK o \in Orders : o = cur[w]
  BY DEF Inv, WorkerInv, LockForGrant
<1>1. /\ wpc[w] = "lock" /\ LockOrders(w, {o}) /\ wpc' = [wpc EXCEPT ![w] = "grant"]
      /\ UNCHANGED <<tables, task, queue, cur, redis, errors, crashes>>
  BY <1>o DEF LockForGrant
<1>2. order[o].status # "none"
  <2>1. outbox[o] = "processing"
    BY <1>o, <1>1 DEF Inv, OneHandler, Handles
  <2> QED
    BY <2>1 DEF Inv, RowInv, Paid
<1>3. /\ LockInv'
      /\ held' \in [Procs -> SUBSET Orders] /\ view' \in [Procs -> [Orders -> OrderRows]]
      /\ held' = [held EXCEPT ![w] = {o}]
  BY <1>1, <1>2, LockKeeps, ProcFacts DEF tables
<1>4. /\ \A c \in Clients : held'[c] = held[c]
      /\ \A v \in Workers : held'[v] = IF v = w THEN {o} ELSE held[v]
      /\ \A v \in Workers : wpc'[v] = IF v = w THEN "grant" ELSE wpc[v]
  BY <1>1, <1>3, ProcFacts DEF Inv, TypeOK
<1>5. TypeOK'
  BY <1>1, <1>3 DEF Inv, TypeOK, tables
<1>6. WorkerInv'
  BY <1>o, <1>1, <1>4 DEF Inv, WorkerInv, tables
<1>7. OneHandler'
  BY <1>1, <1>4 DEF Inv, OneHandler, Handles, tables
<1> QED
  BY <1>1, <1>3, <1>4, <1>5, <1>6, <1>7, ClientsUntouched, TablesUntouched DEF Inv

\* The end of a worker's transaction.
LEMMA WorkerEndKeeps ==
  ASSUME Inv, NEW w \in Workers, EndTransaction(w),
         \A o \in Orders \ held[w] : order[o].status # "none" => order'[o] = order[o]
  PROVE  /\ LockInv'
         /\ held' \in [Procs -> SUBSET Orders] /\ view' \in [Procs -> [Orders -> OrderRows]]
         /\ \A c \in Clients : held'[c] = held[c]
         /\ \A v \in Workers : held'[v] = IF v = w THEN {} ELSE held[v]
<1>1. /\ LockInv'
      /\ held' \in [Procs -> SUBSET Orders] /\ view' \in [Procs -> [Orders -> OrderRows]]
      /\ held' = [held EXCEPT ![w] = {}]
  BY EndKeeps, ProcFacts
<1> QED
  BY <1>1, ProcFacts DEF Inv, TypeOK

\* Events only leave a worker's hands, and those that stay are in order.
LEMMA HandsOver ==
  ASSUME Inv,
         \A v \in Workers, o \in Orders : Handles(v, o)' =>
           /\ Handles(v, o)
           /\ outbox'[o] = "processing" \/ (outbox'[o] = "done" /\ wpc'[v] = "fail")
  PROVE  OneHandler'
BY DEF Inv, OneHandler

\* The variables of a worker that has finished with an event, and of one that failed.
LEMMA AfterEventKeeps ==
  ASSUME Inv, NEW w \in Workers, AfterEvent(w), UNCHANGED queue,
         \A v \in Workers : \A o \in queue[v] : outbox'[o] = outbox[o],
         \A v \in Workers : held'[v] = IF v = w THEN {} ELSE held[v]
  PROVE  /\ WorkerInv'
         /\ wpc' \in [Workers -> {"idle", "next", "lock", "grant", "fail"}]
         /\ cur' \in [Workers -> Orders \cup {None}]
         /\ \A v \in Workers \ {w} : wpc'[v] = wpc[v]
         /\ \A v \in Workers : cur'[v] = IF v = w THEN None ELSE cur[v]
<1>1. /\ \A v \in Workers : cur'[v] = IF v = w THEN None ELSE cur[v]
      /\ cur' \in [Workers -> Orders \cup {None}]
  BY DEF AfterEvent, Inv, TypeOK
<1>2. /\ \A v \in Workers \ {w} : wpc'[v] = wpc[v]
      /\ wpc'[w] = "next" \/ (wpc'[w] = "idle" /\ queue[w] = {})
  BY DEF AfterEvent, Inv, TypeOK
<1>3. wpc' \in [Workers -> {"idle", "next", "lock", "grant", "fail"}]
  BY DEF AfterEvent, Inv, TypeOK
<1>4. None \notin queue[w]
  BY ProcFacts DEF Inv, TypeOK
<1>5. WorkerInv'
  BY <1>1, <1>2, <1>4 DEF Inv, WorkerInv
<1> QED
  BY <1>1, <1>2, <1>3, <1>5

\* A worker that gives an event up, whose row it may have marked, has it in hand no more.
LEMMA GiveUpKeeps ==
  ASSUME Inv, NEW w \in Workers, GiveUp(w), UNCHANGED queue, cur[w] \in Orders,
         \A v \in Workers : \A o \in queue[v] : outbox'[o] = outbox[o],
         \A v \in Workers : held'[v] = IF v = w THEN {} ELSE held[v]
  PROVE  /\ WorkerInv' /\ UNCHANGED cur
         /\ wpc' \in [Workers -> {"idle", "next", "lock", "grant", "fail"}]
         /\ \A v \in Workers : wpc'[v] = IF v = w THEN "fail" ELSE wpc[v]
<1>1. /\ wpc' \in [Workers -> {"idle", "next", "lock", "grant", "fail"}]
      /\ \A v \in Workers : wpc'[v] = IF v = w THEN "fail" ELSE wpc[v]
  BY DEF GiveUp, Inv, TypeOK
<1>2. UNCHANGED cur
  BY DEF GiveUp
<1>3. WorkerInv'
  BY <1>1, <1>2 DEF Inv, WorkerInv
<1> QED
  BY <1>1, <1>2, <1>3

\* Unlocking leaves a key to a worker or to nobody.
LEMMA UnlockType ==
  ASSUME Inv, NEW w \in Workers, RedisUnlock(w), cur[w] \in Orders
  PROVE  redis' \in [Orders -> Workers \cup {None}]
<1>1. redis' = [redis EXCEPT ![cur[w]] = IF redis[cur[w]] = w THEN None ELSE redis[cur[w]]]
  BY DEF RedisUnlock
<1>2. (IF redis[cur[w]] = w THEN None ELSE redis[cur[w]]) \in Workers \cup {None}
  BY DEF Inv, TypeOK
<1> QED
  BY <1>1, <1>2 DEF Inv, TypeOK

\* The grant: the order names a subscription, which is created if there is none.
LEMMA GrantInv ==
  ASSUME Inv, NEW w \in Workers, NEW told \in BOOLEAN, Grant(w, told)
  PROVE  Inv'
<1>o. PICK o \in Orders : o = cur[w]
  BY DEF Inv, WorkerInv, Grant
<1>r. PICK row : row = [order[o] EXCEPT !.sub = TRUE]
  OBVIOUS
<1>1. wpc[w] = "grant" /\ held[w] = {o} /\ view[w][o] = order[o] /\ order[o] \in OrderRows
  <2>1. wpc[w] = "grant" /\ held[w] = {o}
    BY <1>o DEF Grant, Inv, WorkerInv
  <2> QED
    BY <2>1, ProcFacts DEF Inv, LockInv, TypeOK
<1>2. /\ order[o].status = "paid"
      /\ subs' = [subs EXCEPT ![o] = IF ~order[o].sub /\ subs[o] = 0 THEN subs[o] + 1 ELSE subs[o]]
      /\ order' = [order EXCEPT ![o] = row]
      /\ outbox' = [outbox EXCEPT ![o] = "done"]
      /\ RedisUnlock(w) /\ EndTransaction(w)
      /\ UNCHANGED <<funds, spent, task, queue, crashes>>
  BY <1>o, <1>r, <1>1 DEF Grant, NeedsSubscription, GiveUp
<1>3. /\ row \in OrderRows /\ row.sub = TRUE /\ row.status = "paid"
      /\ row.user = order[o].user /\ row.item = order[o].item /\ row.key = order[o].key
  BY <1>r, <1>1, <1>2, RowTypes DEF OrderRows
<1>4. /\ \A n \in Orders : order'[n] = IF n = o THEN row ELSE order[n]
      /\ order' \in [Orders -> OrderRows]
  BY <1>2, <1>3 DEF Inv, TypeOK
<1>5. /\ \A n \in Orders : outbox'[n] = IF n = o THEN "done" ELSE outbox[n]
      /\ outbox' \in [Orders -> {"none", "pending", "processing", "done", "failed"}]
  BY <1>2 DEF Inv, TypeOK
<1>6. /\ \A n \in Orders \ {o} : subs'[n] = subs[n]
      /\ subs'[o] = 1 /\ subs' \in [Orders -> Nat]
  <2>1. subs[o] = IF order[o].sub THEN 1 ELSE 0
    BY DEF Inv, RowInv
  <2> QED
    BY <1>2, <2>1 DEF Inv, TypeOK
<1>7. /\ LockInv'
      /\ held' \in [Procs -> SUBSET Orders] /\ view' \in [Procs -> [Orders -> OrderRows]]
      /\ \A c \in Clients : held'[c] = held[c]
      /\ \A v \in Workers : held'[v] = IF v = w THEN {} ELSE held[v]
  BY <1>1, <1>2, <1>4, WorkerEndKeeps
<1>8. TaskInv' /\ redis' \in [Orders -> Workers \cup {None}]
  BY <1>o, <1>2, <1>7, ClientsUntouched, UnlockType
<1>9. RowInv'
  BY <1>2, <1>3, <1>4, <1>5, <1>6 DEF Inv, RowInv, Paid
<1>10. DebitInv'
  BY <1>2, <1>3, <1>4, NoMoney DEF Paid
<1>11. KeyInv'
  BY <1>3, <1>4 DEF Inv, KeyInv
<1>12. /\ \A v \in Workers, n \in Orders : Handles(v, n) => v = w \/ n # o
       /\ \A v \in Workers : \A n \in queue[v] : outbox'[n] = outbox[n]
  <2>1. \A v \in Workers, n \in Orders : Handles(v, n) => v = w \/ n # o
    BY <1>o DEF Inv, OneHandler, Handles
  <2>2. \A v \in Workers : o \notin queue[v] /\ queue[v] \subseteq Orders
    BY <1>o, <2>1 DEF Inv, TypeOK, WorkerInv, Handles
  <2> QED
    BY <1>5, <2>1, <2>2
<1>13. CASE told
  <2>1. AfterEvent(w) /\ UNCHANGED errors
    BY <1>13 DEF Grant
  <2>2. /\ WorkerInv'
        /\ wpc' \in [Workers -> {"idle", "next", "lock", "grant", "fail"}]
        /\ cur' \in [Workers -> Orders \cup {None}]
        /\ \A v \in Workers \ {w} : wpc'[v] = wpc[v]
        /\ \A v \in Workers : cur'[v] = IF v = w THEN None ELSE cur[v]
    BY <1>2, <1>7, <1>12, <2>1, AfterEventKeeps
  <2>3. ASSUME NEW v \in Workers, NEW n \in Orders, Handles(v, n)'
        PROVE  /\ Handles(v, n) /\ n # o
               /\ outbox'[n] = "processing" \/ (outbox'[n] = "done" /\ wpc'[v] = "fail")
    <3>1. Handles(v, n) /\ (v = w => n \in queue[w])
      BY <1>2, <2>2, <2>3, ProcFacts DEF Handles
    <3>2. n # o
      BY <1>o, <1>12, <3>1 DEF Inv, WorkerInv
    <3>3. v = w => wpc[v] # "fail"
      BY <1>1
    <3> QED
      BY <1>5, <2>2, <3>1, <3>2, <3>3 DEF Inv, OneHandler
  <2>4. OneHandler'
    BY <2>3, HandsOver
  <2>5. TypeOK'
    BY <1>2, <1>4, <1>5, <1>6, <1>7, <1>8, <2>1, <2>2 DEF Inv, TypeOK
  <2> QED
    BY <1>7, <1>8, <1>9, <1>10, <1>11, <2>2, <2>4, <2>5 DEF Inv
<1>14. CASE ~told
  <2>1. GiveUp(w) /\ errors < MaxErrors /\ errors' = errors + 1
    BY <1>14 DEF Grant
  <2>2. /\ WorkerInv' /\ UNCHANGED cur
        /\ wpc' \in [Workers -> {"idle", "next", "lock", "grant", "fail"}]
        /\ \A v \in Workers : wpc'[v] = IF v = w THEN "fail" ELSE wpc[v]
    BY <1>o, <1>2, <1>7, <1>12, <2>1, GiveUpKeeps
  <2>3. ASSUME NEW v \in Workers, NEW n \in Orders, Handles(v, n)'
        PROVE  /\ Handles(v, n)
               /\ outbox'[n] = "processing" \/ (outbox'[n] = "done" /\ wpc'[v] = "fail")
    <3>1. Handles(v, n)
      BY <1>2, <2>2, <2>3 DEF Handles
    <3>2. n = o => v = w
      BY <1>12, <3>1
    <3>3. wpc[v] = "fail" => wpc'[v] = "fail"
      BY <2>2
    <3> QED
      BY <1>5, <2>2, <3>1, <3>2, <3>3 DEF Inv, OneHandler
  <2>4. OneHandler'
    BY <2>3, HandsOver
  <2>5. errors' \in 0..MaxErrors
    BY <2>1, LimitAssumption DEF Inv, TypeOK
  <2>6. TypeOK'
    BY <1>2, <1>4, <1>5, <1>6, <1>7, <1>8, <2>2, <2>5 DEF Inv, TypeOK
  <2> QED
    BY <1>7, <1>8, <1>9, <1>10, <1>11, <2>2, <2>4, <2>6 DEF Inv
<1> QED
  BY <1>13, <1>14

\* A grant that fails leaves its event where it was.
LEMMA GrantErrorInv ==
  ASSUME Inv, NEW w \in Workers, GrantError(w)
  PROVE  Inv'
<1>1. /\ wpc[w] \in {"lock", "grant"} /\ GiveUp(w)
      /\ errors < MaxErrors /\ errors' = errors + 1
      /\ EndTransaction(w) /\ RedisUnlock(w)
      /\ UNCHANGED <<tables, task, queue, crashes>>
  BY DEF GrantError, GiveUp
<1>2. cur[w] \in Orders
  BY <1>1 DEF Inv, WorkerInv
<1>3. /\ LockInv'
      /\ held' \in [Procs -> SUBSET Orders] /\ view' \in [Procs -> [Orders -> OrderRows]]
      /\ \A c \in Clients : held'[c] = held[c]
      /\ \A v \in Workers : held'[v] = IF v = w THEN {} ELSE held[v]
  BY <1>1, WorkerEndKeeps DEF tables
<1>4. /\ WorkerInv' /\ UNCHANGED cur
      /\ wpc' \in [Workers -> {"idle", "next", "lock", "grant", "fail"}]
      /\ \A v \in Workers : wpc'[v] = IF v = w THEN "fail" ELSE wpc[v]
  BY <1>1, <1>2, <1>3, GiveUpKeeps DEF tables
<1>5. OneHandler'
  BY <1>1, <1>4 DEF Inv, OneHandler, Handles, tables
<1>6. errors' \in 0..MaxErrors /\ redis' \in [Orders -> Workers \cup {None}]
  BY <1>1, <1>2, UnlockType, LimitAssumption DEF Inv, TypeOK
<1>7. TypeOK'
  BY <1>1, <1>3, <1>4, <1>6 DEF Inv, TypeOK, tables
<1> QED
  BY <1>1, <1>3, <1>4, <1>5, <1>7, ClientsUntouched, TablesUntouched DEF Inv

\* An event is marked failed, or the mark is lost.
LEMMA MarkInv ==
  ASSUME Inv, NEW w \in Workers, MarkFailed(w) \/ MarkLost(w)
  PROVE  Inv'
<1>1. /\ wpc[w] = "fail" /\ AfterEvent(w)
      /\ UNCHANGED <<order, subs, funds, spent, held, view, task, queue, redis, errors>>
  BY DEF MarkFailed, MarkLost, tables
<1>2. PICK o \in Orders : o = cur[w]
  BY <1>1 DEF Inv, WorkerInv
<1>3. /\ outbox' = outbox \/ outbox' = [outbox EXCEPT ![o] = "failed"]
      /\ crashes' \in 0..MaxCrashes
  BY <1>2, LimitAssumption DEF MarkFailed, MarkLost, tables, Inv, TypeOK
<1>4. /\ outbox' \in [Orders -> {"none", "pending", "processing", "done", "failed"}]
      /\ \A n \in Orders \ {o} : outbox'[n] = outbox[n]
      /\ outbox'[o] \in {outbox[o], "failed"}
  BY <1>3 DEF Inv, TypeOK
<1>5. \A v \in Workers : held'[v] = IF v = w THEN {} ELSE held[v]
  BY <1>1 DEF Inv, WorkerInv
<1>7. /\ \A v \in Workers, n \in Orders : Handles(v, n) => v = w \/ n # o
      /\ \A v \in Workers : \A n \in queue[v] : outbox'[n] = outbox[n]
  <2>1. \A v \in Workers, n \in Orders : Handles(v, n) => v = w \/ n # o
    BY <1>2 DEF Inv, OneHandler, Handles
  <2>2. \A v \in Workers : o \notin queue[v] /\ queue[v] \subseteq Orders
    BY <1>2, <2>1 DEF Inv, TypeOK, WorkerInv, Handles
  <2> QED
    BY <1>4, <2>1, <2>2
<1>6. /\ WorkerInv'
      /\ wpc' \in [Workers -> {"idle", "next", "lock", "grant", "fail"}]
      /\ cur' \in [Workers -> Orders \cup {None}]
      /\ \A v \in Workers \ {w} : wpc'[v] = wpc[v]
      /\ \A v \in Workers : cur'[v] = IF v = w THEN None ELSE cur[v]
  BY <1>1, <1>5, <1>7, AfterEventKeeps
<1>8. ASSUME NEW v \in Workers, NEW n \in Orders, Handles(v, n)'
      PROVE  /\ Handles(v, n)
             /\ outbox'[n] = "processing" \/ (outbox'[n] = "done" /\ wpc'[v] = "fail")
  <2>1. Handles(v, n) /\ (v = w => n \in queue[w])
    BY <1>1, <1>6, <1>8, ProcFacts DEF Handles
  <2>2. n # o
    BY <1>2, <1>7, <2>1 DEF Inv, WorkerInv
  <2>3. CASE v = w
    BY <1>4, <2>1, <2>2, <2>3 DEF Inv, WorkerInv
  <2>4. CASE v # w
    BY <1>4, <1>6, <2>1, <2>2, <2>4 DEF Inv, OneHandler
  <2> QED
    BY <2>3, <2>4
<1>9. OneHandler'
  BY <1>8, HandsOver
<1>10. RowInv'
  <2>1. Paid(o)
    BY <1>1, <1>2 DEF Inv, OneHandler, Handles, RowInv
  <2>2. \A n \in Orders : /\ outbox'[n] # "none" => Paid(n)
                          /\ outbox'[n] = "done" => order[n].sub
                          /\ Paid(n)' <=> Paid(n)
    BY <1>1, <1>4, <2>1 DEF Inv, RowInv, Paid
  <2> QED
    BY <1>1, <2>2 DEF Inv, RowInv
<1>11. DebitInv'
  BY <1>1, NoMoney DEF Paid
<1>12. KeyInv' /\ LockInv' /\ TaskInv'
  BY <1>1 DEF Inv, KeyInv, LockInv, TaskInv
<1>13. TypeOK'
  BY <1>1, <1>3, <1>4, <1>6 DEF Inv, TypeOK
<1> QED
  BY <1>6, <1>9, <1>10, <1>11, <1>12, <1>13 DEF Inv

\* A process dies: its worker has nothing in hand any more.
LEMMA CrashInv ==
  ASSUME Inv, NEW w \in Workers, Crash(w)
  PROVE  Inv'
<1>1. /\ wpc' = [wpc EXCEPT ![w] = "idle"] /\ queue' = [queue EXCEPT ![w] = {}]
      /\ cur' = [cur EXCEPT ![w] = None] /\ EndTransaction(w)
      /\ crashes < MaxCrashes /\ crashes' = crashes + 1
      /\ UNCHANGED <<tables, task, redis, errors>>
  BY DEF Crash
<1>2. /\ LockInv'
      /\ held' \in [Procs -> SUBSET Orders] /\ view' \in [Procs -> [Orders -> OrderRows]]
      /\ \A c \in Clients : held'[c] = held[c]
      /\ \A v \in Workers : held'[v] = IF v = w THEN {} ELSE held[v]
  BY <1>1, WorkerEndKeeps DEF tables
<1>3. /\ \A v \in Workers : queue'[v] = IF v = w THEN {} ELSE queue[v]
      /\ \A v \in Workers : cur'[v] = IF v = w THEN None ELSE cur[v]
      /\ \A v \in Workers : wpc'[v] = IF v = w THEN "idle" ELSE wpc[v]
  BY <1>1 DEF Inv, TypeOK
<1>4. WorkerInv'
  BY <1>1, <1>2, <1>3 DEF Inv, WorkerInv, tables
<1>5. OneHandler'
  <2>1. \A v \in Workers, o \in Orders : Handles(v, o)' => Handles(v, o) /\ v # w
    BY <1>3, ProcFacts DEF Handles
  <2> QED
    BY <1>1, <1>3, <2>1 DEF Inv, OneHandler, tables
<1>6. crashes' \in 0..MaxCrashes
  BY <1>1, LimitAssumption DEF Inv, TypeOK
<1>7. TypeOK'
  BY <1>1, <1>2, <1>6 DEF Inv, TypeOK, tables
<1> QED
  BY <1>1, <1>2, <1>4, <1>5, <1>7, ClientsUntouched, TablesUntouched DEF Inv

-----------------------------------------------------------------------------
(* The theorems *)

\* The invariant holds before the first order.
LEMMA InitInv == Init => Inv
<1> SUFFICES ASSUME Init
             PROVE  Inv
  OBVIOUS
<1>1. NoOrder \in OrderRows /\ NoOrder.status = "none" /\ ~NoOrder.sub /\ NoOrder.key = NoKey
  BY RowTypes DEF NoOrder
<1>2. Idle \in Tasks /\ Idle.op = "idle"
  BY DEF Idle, Tasks
<1>3. TypeOK
  BY <1>1, <1>2, PriceAssumption, LimitAssumption DEF Init, TypeOK
<1>4. LockInv /\ TaskInv /\ KeyInv
  BY <1>1, <1>2, ProcFacts DEF Init, LockInv, TaskInv, KeyInv
<1>5. RowInv
  BY <1>1 DEF Init, RowInv, Paid
<1>6. DebitInv
  BY <1>1 DEF Init, DebitInv, PaymentsOf, Paid
<1>7. WorkerInv /\ OneHandler
  BY ProcFacts DEF Init, WorkerInv, OneHandler, Handles
<1> QED
  BY <1>3, <1>4, <1>5, <1>6, <1>7 DEF Inv

\* Every step keeps the invariant.
LEMMA StepInv == Inv /\ [Next]_vars => Inv'
<1> SUFFICES ASSUME Inv, [Next]_vars
             PROVE  Inv'
  OBVIOUS
<1>1. CASE \E c \in Clients : Request(c) \/ Answer(c)
  BY <1>1, ClientInv
<1>2. CASE (\E S \in SUBSET Orders : SweepLock(S)) \/ SweepCommit \/ SweepAbort
  BY <1>2, SweepLockInv, SweepCommitInv, SweepAbortInv
<1>3. CASE \E o \in Orders : RedisExpire(o)
  BY <1>3, RedisExpireInv
<1>4. CASE \E w \in Workers : \E S \in SUBSET Orders : Claim(w, S)
  BY <1>4, ClaimInv
<1>5. CASE \E w \in Workers : WorkerStep(w)
  BY <1>5, TakeInv, LockForGrantInv, GrantInv, MarkInv DEF WorkerStep
<1>6. CASE \E w \in Workers : WorkerFault(w)
  BY <1>6, ClaimUnseenInv, TakeInv, GrantInv, GrantErrorInv, MarkInv, CrashInv DEF WorkerFault
<1>7. CASE UNCHANGED vars
  BY <1>7 DEF vars, Inv, TypeOK, LockInv, TaskInv, RowInv, DebitInv, KeyInv, WorkerInv,
              OneHandler, Handles, Paid, PaymentsOf
<1> QED
  BY <1>1, <1>2, <1>3, <1>4, <1>5, <1>6, <1>7 DEF Next

\* The invariant holds in every state.
LEMMA AlwaysInv == Spec => []Inv
BY InitInv, StepInv, PTL DEF Spec

\* A set whose members are all equal has one element, or none.
LEMMA AtMostOne ==
  ASSUME NEW S, \A x, y \in S : x = y
  PROVE  /\ Cardinality(S) = IF S = {} THEN 0 ELSE 1
         /\ Cardinality(S) <= 1
<1>1. CASE S = {}
  BY <1>1, FS_EmptySet
<1>2. CASE S # {}
  <2>1. PICK x : x \in S
    BY <1>2
  <2>2. S = {x}
    BY <2>1
  <2>3. Cardinality({x}) = 1
    BY FS_Singleton
  <2> QED
    BY <1>2, <2>2, <2>3
<1> QED
  BY <1>1, <1>2

\* Every variable keeps its type: no wallet is overdrawn by a payment.
THEOREM OrdersTypeCorrect == Spec => []TypeOK
<1>1. Inv => TypeOK
  BY DEF Inv
<1> QED
  BY <1>1, AlwaysInv, PTL

\* An order is debited once if it is paid and never otherwise, whatever requests pay,
\* cancel and sweep it at the same time.
THEOREM OrdersDebitedOnce == Spec => []DebitedOnce
<1>1. Inv => DebitedOnce
  <2> SUFFICES ASSUME Inv, NEW o \in Orders
               PROVE  Cardinality(PaymentsOf(o)) = IF Paid(o) THEN 1 ELSE 0
    BY DEF DebitedOnce
  <2>1. Cardinality(PaymentsOf(o)) = IF PaymentsOf(o) = {} THEN 0 ELSE 1
    BY AtMostOne DEF Inv, DebitInv
  <2> QED
    BY <2>1 DEF Inv, DebitInv
<1> QED
  BY <1>1, AlwaysInv, PTL

\* An order gets one subscription at most, however often its event is handled, and an
\* event is done only if it did.
THEOREM OrdersGrantedOnce == Spec => []GrantedOnce
<1>1. Inv => GrantedOnce
  BY DEF Inv, RowInv, GrantedOnce
<1> QED
  BY <1>1, AlwaysInv, PTL

\* However many processes scan the outbox, an event is in one worker's hands at most.
THEOREM OrdersOneHandler == Spec => []OneHandler
<1>1. Inv => OneHandler
  BY DEF Inv
<1> QED
  BY <1>1, AlwaysInv, PTL

\* Create requests with one idempotency key make one order between them.
THEOREM OrdersOneOrderPerKey == Spec => []OneOrderPerKey
<1>1. Inv => OneOrderPerKey
  <2> SUFFICES ASSUME Inv, NEW k \in Keys
               PROVE  Cardinality({o \in Orders : order[o].key = k}) <= 1
    BY DEF OneOrderPerKey
  <2>1. k # NoKey
    BY ProcAssumption
  <2>2. \A o, n \in {m \in Orders : order[m].key = k} : o = n
    BY <2>1 DEF Inv, KeyInv
  <2> QED
    BY <2>2, AtMostOne
<1> QED
  BY <1>1, AlwaysInv, PTL

\* An order that is paid or cancelled stays so, and keeps its subscription.
THEOREM OrdersFinalStatus == Spec => FinalStatus
<1> DEFINE Kept == \A o \in Orders :
                     /\ order[o].status \in {"paid", "cancelled"} => order'[o].status = order[o].status
                     /\ order[o].sub => order'[o].sub
<1>1. Inv /\ [Next]_vars => Kept \/ UNCHANGED order
  <2> SUFFICES ASSUME Inv, Next
               PROVE  Kept \/ UNCHANGED order
    BY DEF vars
  <2> USE DEF tables
  <2>1. ASSUME NEW c \in Clients, Request(c)
        PROVE  UNCHANGED order
    BY <2>1 DEF Request, CreateLookup, LockFor
  <2>2. ASSUME NEW c \in Clients, CreateInsert(c)
        PROVE  Kept
    BY <2>2 DEF CreateInsert, Inv, TypeOK, RowInv, Paid
  <2>3. ASSUME NEW c \in Clients, Pay(c) \/ Cancel(c)
        PROVE  Kept
    <3>1. PICK o \in Orders : o = task[c].order
      BY <2>3, Locked DEF Pay, Cancel
    <3>2. view[c][o] = order[o] /\ order[o] \in OrderRows
      BY <2>3, <3>1, Locked DEF Pay, Cancel
    <3>3. CASE PayPaid(o, order[o])
      BY <3>3 DEF PayPaid
    <3>4. ASSUME order[o].status = "pending", NEW r, r.sub = order[o].sub,
                 order' = [order EXCEPT ![o] = r]
          PROVE  Kept
      BY <3>4 DEF Inv, TypeOK
    <3>5. CASE PayPending(o, order[o], task[c].key)
      <4>1. [order[o] EXCEPT !.status = "paid", !.tx = TRUE].sub = order[o].sub
        BY <3>2 DEF OrderRows
      <4> QED
        BY <3>4, <3>5, <4>1 DEF PayPending
    <3>6. CASE Cancel(c)
      <4>1. [order[o] EXCEPT !.status = "cancelled"].sub = order[o].sub
        BY <3>2 DEF OrderRows
      <4>2. /\ order[o].status = "pending"
            /\ order' = [order EXCEPT ![o] = [order[o] EXCEPT !.status = "cancelled"]]
        BY <3>1, <3>2, <3>6 DEF Cancel, Cancellable
      <4> QED
        BY <3>4, <4>1, <4>2
    <3> HIDE DEF Kept
    <3> QED
      BY <2>3, <3>1, <3>2, <3>3, <3>5, <3>6 DEF Pay
  <2>4. ASSUME NEW c \in Clients, Abandon(c)
        PROVE  UNCHANGED order
    BY <2>4 DEF Abandon
  <2>5. ASSUME NEW S \in SUBSET Orders, SweepLock(S)
        PROVE  UNCHANGED order
    BY <2>5 DEF SweepLock
  <2>6. CASE SweepCommit
    <3>1. \A o \in held[Sweeper] : view[Sweeper][o] = order[o]
      BY ProcFacts DEF Inv, LockInv
    <3>2. \A o \in Orders : order[o] \in OrderRows
      BY DEF Inv, TypeOK
    <3>3. \A o \in Orders :
            order'[o] = IF o \in held[Sweeper] /\ order[o].status = "pending"
                        THEN [order[o] EXCEPT !.status = "cancelled"] ELSE order[o]
      BY <2>6, <3>1 DEF SweepCommit, Cancellable
    <3> QED
      BY <3>2, <3>3 DEF OrderRows
  <2>7. CASE SweepAbort
    BY <2>7 DEF SweepAbort
  <2>8. ASSUME NEW o \in Orders, RedisExpire(o)
        PROVE  UNCHANGED order
    BY <2>8 DEF RedisExpire
  <2>9. ASSUME NEW w \in Workers, NEW S \in SUBSET Orders, Claim(w, S) \/ ClaimUnseen(w, S)
        PROVE  UNCHANGED order
    BY <2>9 DEF Claim, ClaimUnseen
  <2>10. ASSUME NEW w \in Workers, NEW told \in BOOLEAN, Grant(w, told)
         PROVE  Kept
    <3>1. PICK o \in Orders : o = cur[w]
      BY <2>10 DEF Inv, WorkerInv, Grant
    <3>2. held[w] = {o}
      BY <2>10, <3>1 DEF Inv, WorkerInv, Grant
    <3>3. view[w][o] = order[o] /\ order[o] \in OrderRows
      BY <3>2, ProcFacts DEF Inv, LockInv, TypeOK
    <3>4. order' = [order EXCEPT ![o] = [order[o] EXCEPT !.sub = TRUE]]
      BY <2>10, <3>1, <3>3 DEF Grant
    <3> QED
      BY <3>3, <3>4 DEF Inv, TypeOK, OrderRows
  <2>11. ASSUME NEW w \in Workers, NEW o \in Orders, TakeEvent(w, o) \/ TakeError(w, o)
         PROVE  UNCHANGED order
    BY <2>11 DEF TakeEvent, TakeError
  <2>12. ASSUME NEW w \in Workers,
                LockForGrant(w) \/ GrantError(w) \/ MarkFailed(w) \/ MarkLost(w) \/ Crash(w)
         PROVE  UNCHANGED order
    BY <2>12 DEF LockForGrant, GrantError, MarkFailed, MarkLost, Crash
  <2> HIDE DEF Kept
  <2> QED
    BY <2>1, <2>2, <2>3, <2>4, <2>5, <2>6, <2>7, <2>8, <2>9, <2>10, <2>11, <2>12
       DEF Next, Answer, WorkerStep, WorkerFault
<1>2. Inv /\ [Next]_vars => [Kept]_order
  BY <1>1
<1> QED
  BY <1>2, AlwaysInv, PTL DEF Spec, FinalStatus

-----------------------------------------------------------------------------
(* What left a wallet is the price of the paid orders                              *)

\* What each order costs, as far as its row says.
Costs(rows) == [o \in Orders |-> Price[rows[o].item]]

\* The sum of the property is the sum of these costs.
LEMMA CostsAddUp ==
  ASSUME NEW rows, NEW S \in SUBSET Orders
  PROVE  MapThenSumSet(LAMBDA o : Price[rows[o].item], S) = SumOver(Costs(rows), S)
<1> DEFINE F(g) == [s \in SUBSET S |-> IF s = {} THEN 0
                                      ELSE Price[rows[Some(s)].item] + g[s \ {Some(s)}]]
           G(g) == [s \in SUBSET S |-> IF s = {} THEN 0
                                      ELSE Costs(rows)[Some(s)] + g[s \ {Some(s)}]]
<1>1. ASSUME NEW g PROVE F(g) = G(g)
  <2>1. ASSUME NEW s \in SUBSET S, s # {}
        PROVE  Costs(rows)[Some(s)] = Price[rows[Some(s)].item]
    <3>1. Some(s) \in s
      BY <2>1 DEF Some
    <3>2. Some(s) \in Orders
      BY <3>1
    <3> QED
      BY <3>2 DEF Costs
  <2> QED
    BY <2>1
<1>2. MapThenSumSet(LAMBDA o : Price[rows[o].item], S) = (CHOOSE g : g = F(g))[S]
  BY DEF MapThenSumSet, MapThenFoldSet, Some
<1>3. SumOver(Costs(rows), S) = (CHOOSE g : g = G(g))[S]
  BY SumIsChosen DEF TheSums, Sums
<1> HIDE DEF F, G
<1>4. (CHOOSE g : g = F(g)) = (CHOOSE g : g = G(g))
  BY <1>1
<1> QED
  BY <1>2, <1>3, <1>4

\* A user has finitely many paid orders, and what they cost has left the wallet.
MoneyInv ==
  \A u \in Users :
    /\ IsFiniteSet(PaidBy(u))
    /\ funds[u] + SumOver(Costs(order), PaidBy(u)) = Opening[u]

\* A paid order has a price.
LEMMA PaidHasPrice ==
  ASSUME Inv, NEW u \in Users, NEW o \in PaidBy(u)
  PROVE  o \in Orders /\ order[o].item \in Items /\ Costs(order)[o] \in Int
<1>1. o \in Orders /\ order[o].item \in Items
  BY DEF Inv, RowInv, PaidBy, Paid
<1> QED
  BY <1>1, PriceAssumption DEF Costs

\* A step that leaves the paid orders and the wallets as they are.
Settled ==
  /\ UNCHANGED funds
  /\ \A o \in Orders : /\ Paid(o)' <=> Paid(o)
                       /\ Paid(o) => order'[o].item = order[o].item /\ order'[o].user = order[o].user

\* A step that touches no balance and no paid order keeps the sums.
LEMMA SettledKeeps ==
  ASSUME Inv, MoneyInv, Settled
  PROVE  MoneyInv'
<1> SUFFICES ASSUME NEW u \in Users
             PROVE  /\ IsFiniteSet(PaidBy(u)')
                    /\ funds'[u] + SumOver(Costs(order'), PaidBy(u)') = Opening[u]
  BY DEF MoneyInv, PaidBy, Costs
<1>1. PaidBy(u)' = PaidBy(u)
  BY DEF Settled, PaidBy
<1>2. \A o \in PaidBy(u) : Costs(order')[o] = Costs(order)[o]
  BY DEF Settled, PaidBy, Costs
<1>3. IsFiniteSet(PaidBy(u)) /\ funds[u] + SumOver(Costs(order), PaidBy(u)) = Opening[u]
  BY DEF MoneyInv
<1>4. SumOver(Costs(order'), PaidBy(u)) = SumOver(Costs(order), PaidBy(u))
  BY <1>2, <1>3, SumSame
<1> QED
  BY <1>1, <1>3, <1>4 DEF Settled

\* A payment adds one order to those that are paid, and takes its price.
LEMMA PaymentAddsUp ==
  ASSUME Inv, MoneyInv, NEW o \in Orders, ~Paid(o), NEW row, row.status = "paid",
         row.user = order[o].user, row.item = order[o].item,
         order[o].user \in Users, order[o].item \in Items,
         order' = [order EXCEPT ![o] = row],
         funds' = [funds EXCEPT ![order[o].user] = @ - Price[order[o].item]]
  PROVE  MoneyInv'
<1> SUFFICES ASSUME NEW u \in Users
             PROVE  /\ IsFiniteSet(PaidBy(u)')
                    /\ funds'[u] + SumOver(Costs(order'), PaidBy(u)') = Opening[u]
  BY DEF MoneyInv, PaidBy, Costs
<1>1. \A n \in Orders : order'[n] = IF n = o THEN row ELSE order[n]
  BY DEF Inv, TypeOK
<1>2. \A n \in Orders : order'[n].item = order[n].item /\ order'[n].user = order[n].user
  BY <1>1
<1>3. Costs(order') = Costs(order)
  BY <1>2 DEF Costs
<1>4. PaidBy(u)' = IF u = order[o].user THEN PaidBy(u) \cup {o} ELSE PaidBy(u)
  BY <1>1, <1>2 DEF PaidBy, Paid
<1>5. o \notin PaidBy(u)
  BY DEF PaidBy
<1>6. IsFiniteSet(PaidBy(u)) /\ funds[u] + SumOver(Costs(order), PaidBy(u)) = Opening[u]
  BY DEF MoneyInv
<1>7. \A n \in PaidBy(u) : Costs(order)[n] \in Int
  BY PaidHasPrice
<1>8. Costs(order)[o] = Price[order[o].item] /\ Price[order[o].item] \in Int
  BY PriceAssumption DEF Costs
<1>9. funds \in [Users -> Nat]
  BY DEF Inv, TypeOK
<1>10. SumOver(Costs(order), PaidBy(u)) \in Int
  BY <1>6, <1>7, SumType
<1>11. CASE u = order[o].user
  <2>1. \A n \in PaidBy(u) \cup {o} : Costs(order)[n] \in Int
    BY <1>7, <1>8
  <2>2. SumOver(Costs(order), PaidBy(u) \cup {o})
          = Price[order[o].item] + SumOver(Costs(order), PaidBy(u))
    BY <1>5, <1>6, <1>8, <2>1, SumAdd
  <2>3. funds'[u] = funds[u] - Price[order[o].item]
    BY <1>9, <1>11
  <2>4. IsFiniteSet(PaidBy(u) \cup {o})
    BY <1>6, FS_AddElement
  <2>5. funds[u] \in Int
    BY <1>9
  <2>6. funds'[u] + SumOver(Costs(order), PaidBy(u) \cup {o}) = Opening[u]
    BY <1>6, <1>8, <1>10, <2>2, <2>3, <2>5
  <2> QED
    BY <1>3, <1>4, <1>11, <2>4, <2>6
<1>12. CASE u # order[o].user
  <2>1. funds'[u] = funds[u]
    BY <1>9, <1>12
  <2> QED
    BY <1>3, <1>4, <1>6, <1>12, <2>1
<1> QED
  BY <1>11, <1>12

\* A step of a client either pays an order, or settles nothing.
LEMMA ClientMoney ==
  ASSUME Inv, MoneyInv, NEW c \in Clients, Request(c) \/ Answer(c)
  PROVE  MoneyInv'
<1>1. CASE Request(c) \/ Abandon(c)
  <2>1. UNCHANGED <<order, funds>>
    BY <1>1 DEF Request, CreateLookup, LockFor, Abandon, tables
  <2> QED
    BY <2>1, SettledKeeps DEF Settled, Paid
<1>2. CASE CreateInsert(c)
  <2>1. PICK o \in Orders :
          /\ order[o].status = "none"
          /\ order' = [order EXCEPT ![o] = NewOrder(task[c].user, task[c].item, task[c].key)]
    BY <1>2 DEF CreateInsert
  <2>2. \A n \in Orders : n # o => order'[n] = order[n]
    BY <2>1 DEF Inv, TypeOK
  <2>3. order'[o].status = "pending"
    BY <2>1 DEF Inv, TypeOK, NewOrder
  <2>4. Settled
    BY <1>2, <2>1, <2>2, <2>3 DEF Settled, Paid, CreateInsert
  <2> QED
    BY <2>4, SettledKeeps
<1>3. CASE Pay(c)
  <2>o. PICK o \in Orders : o = task[c].order
    BY <1>3, Locked DEF Pay
  <2>k. PICK k \in Keys \cup {NoKey} : k = task[c].key
    BY <1>3, Locked DEF Pay
  <2>1. view[c][o] = order[o] /\ order[o] \in OrderRows /\ order[o].status # "none"
    BY <1>3, <2>o, Locked DEF Pay
  <2>2. PayPending(o, order[o], k) \/ PayPaid(o, order[o])
    BY <1>3, <2>o, <2>k, <2>1 DEF Pay
  <2>3. order[o].user \in Users /\ order[o].item \in Items
    BY <2>1 DEF Inv, RowInv
  <2>4. CASE PayPending(o, order[o], k)
    <3>r. PICK row : row = [order[o] EXCEPT !.status = "paid", !.tx = TRUE]
      OBVIOUS
    <3>1. row.status = "paid" /\ row.user = order[o].user /\ row.item = order[o].item
      BY <2>1, <3>r DEF OrderRows
    <3>2. ~Paid(o) /\ order' = [order EXCEPT ![o] = row] /\ Debit(o, order[o], k)
      BY <2>4, <3>r DEF PayPending, Paid
    <3>3. PayKey(o, k) \notin spent
      <4>1. PaymentsOf(o) = {}
        BY <3>2 DEF Inv, DebitInv
      <4> QED
        BY <4>1 DEF PaymentsOf
    <3>4. funds' = [funds EXCEPT ![order[o].user] = @ - Price[order[o].item]]
      <4>1. funds \in [Users -> Nat]
        BY DEF Inv, TypeOK
      <4> QED
        BY <2>1, <2>3, <3>2, <3>3, <4>1, DebitPosts
    <3> QED
      BY <2>3, <3>1, <3>2, <3>4, PaymentAddsUp
  <2>5. CASE PayPaid(o, order[o])
    <3>1. UNCHANGED <<order, funds>>
      BY <2>5 DEF PayPaid
    <3> QED
      BY <3>1, SettledKeeps DEF Settled, Paid
  <2> QED
    BY <2>2, <2>4, <2>5
<1>4. CASE Cancel(c)
  <2>o. PICK o \in Orders : o = task[c].order
    BY <1>4, Locked DEF Cancel
  <2>1. view[c][o] = order[o] /\ order[o] \in OrderRows
    BY <1>4, <2>o, Locked DEF Cancel
  <2>2. /\ order[o].status = "pending" /\ UNCHANGED funds
        /\ order' = [order EXCEPT ![o] = [order[o] EXCEPT !.status = "cancelled"]]
    BY <1>4, <2>o, <2>1 DEF Cancel, Cancellable
  <2>3. [order[o] EXCEPT !.status = "cancelled"].status = "cancelled"
    BY <2>1 DEF OrderRows
  <2>4. \A n \in Orders : n # o => order'[n] = order[n]
    BY <2>2 DEF Inv, TypeOK
  <2>5. order'[o].status = "cancelled"
    BY <2>2, <2>3 DEF Inv, TypeOK
  <2>6. Settled
    BY <2>2, <2>4, <2>5 DEF Settled, Paid
  <2> QED
    BY <2>6, SettledKeeps
<1> QED
  BY <1>1, <1>2, <1>3, <1>4 DEF Answer

\* The sweeper cancels what is pending, and a worker changes neither money nor status.
LEMMA SweepMoney ==
  ASSUME Inv, MoneyInv, SweepCommit
  PROVE  MoneyInv'
<1>1. \A o \in held[Sweeper] : view[Sweeper][o] = order[o]
  BY ProcFacts DEF Inv, LockInv
<1>2. \A o \in Orders : order[o] \in OrderRows
  BY DEF Inv, TypeOK
<1>3. \A o \in Orders :
        order'[o] = IF o \in held[Sweeper] /\ order[o].status = "pending"
                    THEN [order[o] EXCEPT !.status = "cancelled"] ELSE order[o]
  BY <1>1 DEF SweepCommit, Cancellable
<1>4. \A o \in Orders : order[o].status = "pending" =>
        order'[o].status \in {"pending", "cancelled"}
  BY <1>2, <1>3 DEF OrderRows
<1>5. \A o \in Orders : order[o].status # "pending" => order'[o] = order[o]
  BY <1>3
<1>6. Settled
  BY <1>4, <1>5 DEF Settled, Paid, SweepCommit
<1> QED
  BY <1>6, SettledKeeps

\* A grant touches no balance and no price.
LEMMA GrantMoney ==
  ASSUME Inv, MoneyInv, NEW w \in Workers, NEW told \in BOOLEAN, Grant(w, told)
  PROVE  MoneyInv'
<1>1. PICK o \in Orders : o = cur[w]
  BY DEF Inv, WorkerInv, Grant
<1>2. held[w] = {o}
  BY <1>1 DEF Inv, WorkerInv, Grant
<1>3. view[w][o] = order[o] /\ order[o] \in OrderRows
  BY <1>2, ProcFacts DEF Inv, LockInv, TypeOK
<1>4. order' = [order EXCEPT ![o] = [order[o] EXCEPT !.sub = TRUE]] /\ UNCHANGED funds
  BY <1>1, <1>3 DEF Grant
<1>5. \A n \in Orders : /\ order'[n].status = order[n].status
                       /\ order'[n].item = order[n].item /\ order'[n].user = order[n].user
  BY <1>3, <1>4 DEF Inv, TypeOK, OrderRows
<1>6. Settled
  BY <1>4, <1>5 DEF Settled, Paid
<1> QED
  BY <1>6, SettledKeeps

\* No other step of a sweeper or a worker touches an order or a wallet.
LEMMA MoneyUntouched ==
  ASSUME Inv, MoneyInv, UNCHANGED <<order, funds>>
  PROVE  MoneyInv'
BY SettledKeeps DEF Settled, Paid

\* Money and paid orders agree from the start, and after every step.
LEMMA MoneyHolds == Spec => []MoneyInv
<1>1. Init => MoneyInv
  <2> SUFFICES ASSUME Init, NEW u \in Users
               PROVE  /\ IsFiniteSet(PaidBy(u))
                      /\ funds[u] + SumOver(Costs(order), PaidBy(u)) = Opening[u]
    BY DEF MoneyInv
  <2>1. PaidBy(u) = {}
    BY DEF Init, PaidBy, Paid, NoOrder
  <2>2. funds[u] = Opening[u] /\ Opening[u] \in Int
    BY PriceAssumption DEF Init
  <2>3. SumOver(Costs(order), {}) = 0
    BY SumEmpty
  <2> QED
    BY <2>1, <2>2, <2>3, FS_EmptySet
<1>2. Inv /\ MoneyInv /\ [Next]_vars => MoneyInv'
  <2> SUFFICES ASSUME Inv, MoneyInv, [Next]_vars
               PROVE  MoneyInv'
    OBVIOUS
  <2> USE DEF tables
  <2>1. CASE \E c \in Clients : Request(c) \/ Answer(c)
    BY <2>1, ClientMoney
  <2>2. CASE (\E S \in SUBSET Orders : SweepLock(S)) \/ SweepAbort
    BY <2>2, MoneyUntouched DEF SweepLock, SweepAbort
  <2>3. CASE SweepCommit
    BY <2>3, SweepMoney
  <2>4. CASE \E o \in Orders : RedisExpire(o)
    BY <2>4, MoneyUntouched DEF RedisExpire
  <2>5. ASSUME NEW w \in Workers, \E S \in SUBSET Orders : Claim(w, S) \/ ClaimUnseen(w, S)
        PROVE  MoneyInv'
    BY <2>5, MoneyUntouched DEF Claim, ClaimUnseen
  <2>6. ASSUME NEW w \in Workers, NEW o \in Orders, TakeEvent(w, o) \/ TakeError(w, o)
        PROVE  MoneyInv'
    BY <2>6, MoneyUntouched DEF TakeEvent, TakeError
  <2>7. ASSUME NEW w \in Workers,
               LockForGrant(w) \/ GrantError(w) \/ MarkFailed(w) \/ MarkLost(w) \/ Crash(w)
        PROVE  MoneyInv'
    BY <2>7, MoneyUntouched DEF LockForGrant, GrantError, MarkFailed, MarkLost, Crash
  <2>8. ASSUME NEW w \in Workers, WorkerStep(w) \/ WorkerFault(w)
        PROVE  MoneyInv'
    BY <2>5, <2>6, <2>7, <2>8, GrantMoney DEF WorkerStep, WorkerFault
  <2>9. CASE UNCHANGED vars
    BY <2>9, MoneyUntouched DEF vars
  <2> QED
    BY <2>1, <2>2, <2>3, <2>4, <2>5, <2>8, <2>9 DEF Next
<1> QED
  BY <1>1, <1>2, AlwaysInv, PTL DEF Spec

\* What left a wallet is the price of its paid orders, each debited once, for any number
\* of orders, buyers and prices, whatever pays, cancels and sweeps at the same time.
THEOREM OrdersPaidIsDebited == Spec => []PaidIsDebited
<1>1. DebitedOnce /\ MoneyInv => PaidIsDebited
  <2> SUFFICES ASSUME MoneyInv, NEW u \in Users
               PROVE  funds[u] + MapThenSumSet(LAMBDA o : Price[order[o].item], PaidBy(u))
                        = Opening[u]
    BY DEF PaidIsDebited
  <2>1. PaidBy(u) \in SUBSET Orders
    BY DEF PaidBy
  <2>2. MapThenSumSet(LAMBDA o : Price[order[o].item], PaidBy(u))
          = SumOver(Costs(order), PaidBy(u))
    BY <2>1, CostsAddUp
  <2> QED
    BY <2>2 DEF MoneyInv
<1> QED
  BY <1>1, OrdersDebitedOnce, MoneyHolds, PTL

-----------------------------------------------------------------------------
(* What the code keeps of the outbox's promise, whatever fails                     *)

\* A paid order has an event.
EventInv == \A o \in Orders : Paid(o) => outbox[o] # "none"

\* What a step keeps: an event in 'processing' is in some worker's hands, or was stranded
\* before, or the step is an accident that strands it.
Keeps ==
  /\ EventInv'
  /\ \A o \in Orders : outbox'[o] = "processing" =>
       \/ Stranded(o)
       \/ \E w \in Workers : Handles(w, o)'
       \/ \E w \in Workers : Strands(w, o)

\* A step that neither pays an order, nor changes an event, nor takes one from its worker.
LEMMA RecoverUntouched ==
  ASSUME Inv, EventInv, \A o \in Orders : Paid(o)' => Paid(o),
         \A o \in Orders : outbox'[o] = outbox[o],
         \A w \in Workers, o \in Orders : Handles(w, o) => Handles(w, o)'
  PROVE  Keeps
BY DEF EventInv, Keeps, Stranded

\* What clients do loses no event.
LEMMA RecoverClient ==
  ASSUME Inv, EventInv, NEW c \in Clients, Request(c) \/ Answer(c)
  PROVE  Keeps
<1> USE DEF Paid, Handles, tables, worker
<1>1. CASE Request(c) \/ Abandon(c)
  BY <1>1, RecoverUntouched DEF Request, CreateLookup, LockFor, Abandon
<1>2. CASE CreateInsert(c)
  <2>1. UNCHANGED <<outbox, worker>>
    BY <1>2 DEF CreateInsert
  <2>2. PICK o \in Orders :
          order' = [order EXCEPT ![o] = NewOrder(task[c].user, task[c].item, task[c].key)]
    BY <1>2 DEF CreateInsert
  <2>3. \A n \in Orders : Paid(n)' => Paid(n)
    BY <2>2 DEF Inv, TypeOK, NewOrder
  <2> QED
    BY <2>1, <2>3, RecoverUntouched
<1>3. CASE Pay(c)
  <2>o. PICK o \in Orders : o = task[c].order
    BY <1>3, Locked DEF Pay
  <2>1. view[c][o] = order[o] /\ order[o] \in OrderRows
    BY <1>3, <2>o, Locked DEF Pay
  <2>2. PayPending(o, order[o], task[c].key) \/ PayPaid(o, order[o])
    BY <1>3, <2>o, <2>1 DEF Pay
  <2>3. UNCHANGED worker
    BY <1>3 DEF Pay
  <2>4. CASE PayPending(o, order[o], task[c].key)
    <3>1. /\ order[o].status = "pending" /\ EnqueueEntitlement(o)
          /\ \E r : order' = [order EXCEPT ![o] = r]
      BY <2>4 DEF PayPending
    <3>2. outbox[o] = "none"
      BY <3>1 DEF Inv, RowInv
    <3>3. \A n \in Orders : outbox'[n] = IF n = o THEN "pending" ELSE outbox[n]
      BY <3>1, <3>2 DEF EnqueueEntitlement, Inv, TypeOK
    <3>4. \A n \in Orders \ {o} : order'[n] = order[n]
      BY <3>1 DEF Inv, TypeOK
    <3> QED
      BY <2>3, <3>3, <3>4 DEF EventInv, Keeps, Stranded
  <2>5. CASE PayPaid(o, order[o])
    <3>1. order[o].status = "paid" /\ UNCHANGED order
      BY <2>5 DEF PayPaid
    <3>2. outbox[o] # "none"
      BY <3>1 DEF EventInv, Keeps, Stranded
    <3>3. \A n \in Orders : outbox'[n] = outbox[n]
      BY <2>5, <3>2 DEF PayPaid, EnqueueEntitlement, Inv, TypeOK
    <3> QED
      BY <2>3, <3>1, <3>3, RecoverUntouched
  <2> QED
    BY <2>2, <2>4, <2>5
<1>4. CASE Cancel(c)
  <2>1. /\ UNCHANGED <<outbox, worker>>
        /\ \E r : r.status = "cancelled" /\ order' = [order EXCEPT ![task[c].order] = r]
    <3>1. view[c][task[c].order] \in OrderRows
      BY <1>4, Locked DEF Cancel
    <3>2. [view[c][task[c].order] EXCEPT !.status = "cancelled"].status = "cancelled"
      BY <3>1 DEF OrderRows
    <3> QED
      BY <1>4, <3>2 DEF Cancel
  <2>2. \A n \in Orders : Paid(n)' => Paid(n)
    BY <2>1 DEF Inv, TypeOK
  <2> QED
    BY <2>1, <2>2, RecoverUntouched
<1> QED
  BY <1>1, <1>2, <1>3, <1>4 DEF Answer

\* What the sweeper and time do loses no event.
LEMMA RecoverSweeper ==
  ASSUME Inv, EventInv,
         (\E S \in SUBSET Orders : SweepLock(S)) \/ SweepCommit \/ SweepAbort
         \/ \E o \in Orders : RedisExpire(o)
  PROVE  Keeps
<1> USE DEF Paid, Handles, tables, worker
<1>1. CASE SweepCommit
  <2>1. \A o \in held[Sweeper] : view[Sweeper][o] = order[o]
    BY ProcFacts DEF Inv, LockInv
  <2>2. \A o \in Orders : order[o] \in OrderRows
    BY DEF Inv, TypeOK
  <2>3. \A o \in Orders :
          order'[o] = IF o \in held[Sweeper] /\ order[o].status = "pending"
                      THEN [order[o] EXCEPT !.status = "cancelled"] ELSE order[o]
    BY <1>1, <2>1 DEF SweepCommit, Cancellable
  <2>4. \A o \in Orders : Paid(o)' => Paid(o)
    BY <2>2, <2>3 DEF OrderRows
  <2> QED
    BY <1>1, <2>4, RecoverUntouched DEF SweepCommit
<1>2. CASE ~SweepCommit
  BY <1>2, RecoverUntouched DEF SweepLock, SweepAbort, RedisExpire
<1> QED
  BY <1>1, <1>2

\* A worker strands no event but by the three accidents.
LEMMA RecoverWorker ==
  ASSUME Inv, EventInv, NEW w \in Workers,
         (\E S \in SUBSET Orders : Claim(w, S)) \/ WorkerStep(w) \/ WorkerFault(w)
  PROVE  Keeps
<1> USE DEF Paid, Handles, tables
<1>1. ASSUME NEW S \in SUBSET Orders, Claim(w, S)
      PROVE  Keeps
  <2>1. /\ UNCHANGED <<order, cur>>
        /\ \A o \in Orders : outbox'[o] = IF o \in S THEN "processing" ELSE outbox[o]
        /\ \A v \in Workers : queue'[v] = IF v = w THEN S ELSE queue[v]
    BY <1>1 DEF Claim, MarkProcessing, Inv, TypeOK
  <2>2. queue[w] = {} /\ cur[w] = None
    BY <1>1 DEF Claim, Inv, WorkerInv
  <2> QED
    BY <2>1, <2>2, ProcFacts DEF EventInv, Keeps, Stranded
<1>2. ASSUME NEW o \in Orders, TakeEvent(w, o) \/ TakeError(w, o)
      PROVE  Keeps
  <2>1. /\ UNCHANGED tables /\ wpc[w] = "next"
        /\ \A v \in Workers : queue'[v] = IF v = w THEN queue[w] \ {o} ELSE queue[v]
        /\ \A v \in Workers : cur'[v] = IF v = w THEN o ELSE cur[v]
    <3>1. /\ UNCHANGED tables /\ wpc[w] = "next"
          /\ queue' = [queue EXCEPT ![w] = @ \ {o}] /\ cur' = [cur EXCEPT ![w] = o]
      BY <1>2 DEF TakeEvent, TakeError, NextEvent
    <3> QED
      BY <3>1 DEF Inv, TypeOK
  <2>2. cur[w] = None
    BY <2>1 DEF Inv, WorkerInv
  <2>3. \A v \in Workers, n \in Orders : Handles(v, n) => Handles(v, n)'
    BY <2>1, <2>2, ProcFacts
  <2> QED
    BY <2>1, <2>3, RecoverUntouched
<1>3. CASE LockForGrant(w) \/ GrantError(w)
  BY <1>3, RecoverUntouched DEF LockForGrant, GrantError, GiveUp
<1>4. ASSUME NEW told \in BOOLEAN, Grant(w, told)
      PROVE  Keeps
  <2>o. PICK o \in Orders : o = cur[w]
    BY <1>4 DEF Inv, WorkerInv, Grant
  <2>1. /\ \A n \in Orders : outbox'[n] = IF n = o THEN "done" ELSE outbox[n]
        /\ \A n \in Orders \ {o} : order'[n] = order[n]
        /\ UNCHANGED queue
    BY <1>4, <2>o DEF Grant, Inv, TypeOK
  <2>2. \A v \in Workers, n \in Orders \ {o} : Handles(v, n) => Handles(v, n)'
    BY <1>4, <2>o, <2>1 DEF Grant, AfterEvent, GiveUp, Inv, TypeOK
  <2> QED
    BY <2>1, <2>2 DEF EventInv, Keeps, Stranded
<1>5. CASE MarkFailed(w)
  <2>o. PICK o \in Orders : o = cur[w]
    BY <1>5 DEF Inv, WorkerInv, MarkFailed
  <2>1. /\ \A n \in Orders : outbox'[n] = IF n = o THEN "failed" ELSE outbox[n]
        /\ UNCHANGED <<order, queue>>
    BY <1>5, <2>o DEF MarkFailed, Inv, TypeOK
  <2>2. \A v \in Workers, n \in Orders \ {o} : Handles(v, n) => Handles(v, n)'
    BY <1>5, <2>o, <2>1 DEF MarkFailed, AfterEvent, Inv, TypeOK
  <2> QED
    BY <2>1, <2>2 DEF EventInv, Keeps, Stranded
<1>6. ASSUME NEW S \in SUBSET Orders, ClaimUnseen(w, S)
      PROVE  Keeps
  <2>1. /\ UNCHANGED <<order, queue, cur>>
        /\ \A o \in Orders : outbox'[o] = IF o \in S THEN "processing" ELSE outbox[o]
    BY <1>6 DEF ClaimUnseen, MarkProcessing, worker
  <2>2. \A o \in S : Strands(w, o)
    BY <1>6 DEF Strands
  <2> QED
    BY <2>1, <2>2 DEF EventInv, Keeps, Stranded
<1>7. CASE MarkLost(w) \/ Crash(w)
  <2>1. /\ UNCHANGED <<order, outbox>>
        /\ \A v \in Workers \ {w} : queue'[v] = queue[v] /\ cur'[v] = cur[v]
    BY <1>7 DEF MarkLost, Crash, AfterEvent, Inv, TypeOK
  <2>2. \A o \in Orders : Handles(w, o) => Strands(w, o)
    BY <1>7 DEF Strands
  <2>3. \A v \in Workers \ {w}, o \in Orders : Handles(v, o) => Handles(v, o)'
    BY <2>1
  <2> QED
    BY <2>1, <2>2, <2>3 DEF EventInv, Keeps, Stranded
<1> QED
  BY <1>1, <1>2, <1>3, <1>4, <1>5, <1>6, <1>7 DEF WorkerStep, WorkerFault

\* Every step keeps the events, and what it strands it strands by an accident.
LEMMA StepKeeps == Inv /\ EventInv /\ [Next]_vars => Keeps
<1> SUFFICES ASSUME Inv, EventInv, [Next]_vars
             PROVE  Keeps
  OBVIOUS
<1>1. CASE UNCHANGED vars
  BY <1>1 DEF vars, EventInv, Keeps, Stranded, Paid, Handles
<1>2. CASE Next
  BY <1>2, RecoverClient, RecoverSweeper, RecoverWorker DEF Next
<1> QED
  BY <1>1, <1>2

\* Whatever pays, cancels, claims and fails, a paid order without a subscription has an
\* event that a worker has in hand or will find again, unless a worker's death, a lost
\* failure mark or a claim whose commit was reported as failed has stranded it.
THEOREM OrdersOnlyFaultsStrand == Spec => OnlyFaultsStrand
<1>1. Init => EventInv
  BY DEF Init, EventInv, Paid, NoOrder
<1>2. Inv /\ EventInv /\ [Next]_vars => EventInv'
  BY StepKeeps DEF Keeps
<1>3. ASSUME Inv, Inv', EventInv, [Next]_vars, NEW o \in Orders, Owed(o)', ~Recoverable(o)'
      PROVE  Stranded(o) \/ \E w \in Workers : Strands(w, o)
  <2>1. Keeps
    BY <1>3, StepKeeps
  <2>2. outbox'[o] = "processing"
    <3>1. Paid(o)' /\ ~order'[o].sub /\ outbox'[o] \notin {"pending", "failed"}
      BY <1>3 DEF Owed, Recoverable, Claimable
    <3>2. outbox'[o] # "none"
      BY <2>1, <3>1 DEF Keeps, EventInv
    <3>3. outbox'[o] # "done"
      BY <1>3, <3>1 DEF Inv, RowInv
    <3> QED
      BY <1>3, <3>1, <3>2, <3>3 DEF Inv, TypeOK
  <2> QED
    BY <1>3, <2>1, <2>2 DEF Keeps, Recoverable
<1>4. Inv /\ Inv' /\ EventInv /\ [Next]_vars =>
        [\A o \in Orders : Owed(o)' /\ ~Recoverable(o)' =>
           Stranded(o) \/ \E w \in Workers : Strands(w, o)]_vars
  BY <1>3
<1> QED
  BY <1>1, <1>2, <1>4, AlwaysInv, PTL DEF Spec, OnlyFaultsStrand
=============================================================================

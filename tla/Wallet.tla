------------------------------- MODULE Wallet -------------------------------
(***************************************************************************)
(* services/wallet: virtual wallets and their transaction rows, kept in    *)
(* PostgreSQL.  A client is a goroutine that serves one credit, debit or   *)
(* transfer at a time inside one READ COMMITTED transaction: it looks the  *)
(* idempotency key up, locks the wallet rows (SELECT ... FOR UPDATE), looks *)
(* the key up again, computes the new balances in memory, inserts the rows *)
(* and commits.  Nothing of a transaction is visible to others before its  *)
(* commit except its row locks and its entries in the unique index on      *)
(* idempotency_key.                                                        *)
(***************************************************************************)
EXTENDS WalletLegs, SequencesExt

CONSTANTS
  Clients,      \* request goroutines, each with its own database connection
  Unit,         \* smallest amount a DECIMAL(18,4) column stores
  MaxBalance,   \* largest value a DECIMAL(18,4) column stores
  MaxTries,     \* bound: how often each request is sent
  Freezable,    \* bound: the wallets whose status an operator changes
  None          \* no request

ASSUME UnitAssumption   == Unit \in Nat \ {0}
ASSUME BoundsAssumption == MaxBalance \in Nat /\ MaxTries \in [Requests -> Nat]
ASSUME NoneAssumption   == None \notin Requests

VARIABLES
  wallet,   \* committed wallets rows: status and balance
  ledger,   \* committed wallet_transactions rows of each wallet, oldest first
  pc,       \* where each client is in its database transaction
  req,      \* the request it serves
  held,     \* the wallet rows it has locked
  seen,     \* domain.Wallet in memory: rows as locked, then as changed
  rows,     \* how many of its transaction rows it has inserted
  sent,     \* how often each request was sent
  acked     \* requests answered with success at least once

store == <<wallet, ledger>>
txn   == <<pc, req, held, seen, rows>>
vars  == <<wallet, ledger, pc, req, held, seen, rows, sent, acked>>

-----------------------------------------------------------------------------
(* Columns and keys *)

\* Storing x in a DECIMAL(18,4) column rounds it half away from zero.
RoundUp(x) == LET d == x % Unit IN IF 2 * d < Unit THEN x - d ELSE (x - d) + Unit
Stored(x)  == IF x >= 0 THEN RoundUp(x) ELSE -RoundUp(-x)

\* The unique index on idempotency_key: committed entries, and a client's own.
Used(k)    == \E w \in Wallets : \E i \in DOMAIN ledger[w] : ledger[w][i].key = k
Pending(c) == {Legs(req[c])[i].key : i \in 1..rows[c]} \ {<<>>}

\* Fault: any row with the key is taken for the same transaction.
SameKeyOnly(l) == Used(l.key)
SameTransaction(l) ==
  \E i \in DOMAIN ledger[l.wallet] :
    /\ ledger[l.wallet][i].key = l.key
    /\ ledger[l.wallet][i].type = l.type
    /\ ledger[l.wallet][i].amount = l.amount

Existing(r) == r.key # <<>> /\ \A l \in LegSet(r) : Used(l.key)
Replayed(r) == Existing(r) /\ \A l \in LegSet(r) : SameTransaction(l)

NoRow == [status |-> "absent", balance |-> 0]
Statuses == {"absent", "active", "frozen"}
Rows  == [status : Statuses, balance : 0..MaxBalance]
TransactionRows ==
  [type : {"recharge", "consume", "transfer_out", "transfer_in"},
   amount : Int, after : 0..MaxBalance, key : Seq(KeyParts)]

-----------------------------------------------------------------------------
Init ==
  /\ wallet = [w \in Wallets |-> NoRow]
  /\ ledger = [w \in Wallets |-> <<>>]
  /\ pc     = [c \in Clients |-> "idle"]
  /\ req    = [c \in Clients |-> None]
  /\ held   = [c \in Clients |-> {}]
  /\ seen   = [c \in Clients |-> [w \in Wallets |-> NoRow]]
  /\ rows   = [c \in Clients |-> 0]
  /\ sent   = [r \in Requests |-> 0]
  /\ acked  = {}

\* GetOrCreateByOwner: INSERT ... ON CONFLICT DO NOTHING, then read the row.
GetOrCreateByOwner(w) ==
  /\ wallet[w].status = "absent"
  /\ wallet' = [wallet EXCEPT ![w].status = "active"]
  /\ UNCHANGED <<ledger, pc, req, held, seen, rows, sent, acked>>

\* An operator's UPDATE of the status column; it waits for the row lock.
SetStatus(w) ==
  /\ w \in Freezable /\ wallet[w].status # "absent"
  /\ \A c \in Clients : w \notin held[c]
  /\ wallet' = [wallet EXCEPT ![w].status = IF @ = "active" THEN "frozen" ELSE "active"]
  /\ UNCHANGED <<ledger, pc, req, held, seen, rows, sent, acked>>

Send(r) == sent[r] < MaxTries[r] /\ sent' = [sent EXCEPT ![r] = @ + 1]

\* The first look-up finds the rows of an earlier try: answer with them.  (A
\* conflicting key, and a transfer to itself, are answered with an error here.)
ReplayUnlocked(c, r) ==
  /\ pc[c] = "idle" /\ Valid(r) /\ Replayed(r) /\ Send(r)
  /\ acked' = acked \cup {r}
  /\ UNCHANGED <<wallet, ledger, pc, req, held, seen, rows>>

Begin(c, r) ==
  /\ pc[c] = "idle" /\ Valid(r) /\ ~Existing(r) /\ Send(r)
  /\ pc'  = [pc EXCEPT ![c] = "lock"]
  /\ req' = [req EXCEPT ![c] = r]
  /\ UNCHANGED <<wallet, ledger, held, seen, rows, acked>>

\* Transfer locks its two wallets in the order of their ids.
Unlocked(c) == Touched(req[c]) \ held[c]
\* Fault: the wallet the money comes from is locked first.
FromFirst(c)  == IF req[c].from \in Unlocked(c) THEN req[c].from ELSE req[c].to
NextToLock(c) == CHOOSE w \in Unlocked(c) : \A v \in Unlocked(c) : w <= v
\* Fault: a plain SELECT instead of SELECT ... FOR UPDATE.
PlainSelect(w) == TRUE
LockFree(w) == \A c \in Clients : w \notin held[c]

LockWallet(c) ==
  LET w == NextToLock(c) IN
  /\ pc[c] = "lock"
  /\ wallet[w].status # "absent"
  /\ LockFree(w)
  /\ held' = [held EXCEPT ![c] = @ \cup {w}]
  /\ seen' = [seen EXCEPT ![c][w] = wallet[w]]
  /\ pc'   = [pc EXCEPT ![c] = IF Unlocked(c) = {w} THEN "apply" ELSE "lock"]
  /\ UNCHANGED <<wallet, ledger, req, rows, sent, acked>>

\* COMMIT or ROLLBACK: the locks and the uncommitted index entries go.
EndTransaction(c) ==
  /\ pc'   = [pc EXCEPT ![c] = "idle"]
  /\ req'  = [req EXCEPT ![c] = None]
  /\ held' = [held EXCEPT ![c] = {}]
  /\ seen' = [seen EXCEPT ![c] = [w \in Wallets |-> NoRow]]
  /\ rows' = [rows EXCEPT ![c] = 0]

ReplayLocked(c) ==
  /\ pc[c] = "apply" /\ Replayed(req[c])
  /\ acked' = acked \cup {req[c]}
  /\ EndTransaction(c)
  /\ UNCHANGED <<wallet, ledger, sent>>

\* Deduct and Deposit, and the range of the balance column.
CanApply(c, l) ==
  LET b == seen[c][l.wallet].balance + l.amount IN
  /\ seen[c][l.wallet].status = "active"
  /\ b >= 0
  /\ Stored(b) <= MaxBalance

\* Deduct, Deposit and the updates of the wallets rows.
Changed(c) ==
  [w \in Wallets |->
     IF w \in Touched(req[c])
     THEN [status  |-> seen[c][w].status,
           balance |-> seen[c][w].balance + LegOn(req[c], w).amount]
     ELSE seen[c][w]]

Apply(c) ==
  /\ pc[c] = "apply" /\ ~Existing(req[c])
  /\ \A l \in LegSet(req[c]) : CanApply(c, l)
  /\ seen' = [seen EXCEPT ![c] = Changed(c)]
  /\ pc'   = [pc EXCEPT ![c] = "insert"]
  /\ UNCHANGED <<wallet, ledger, req, held, rows, sent, acked>>

\* The unique index makes an insert wait for another transaction's uncommitted
\* entry with the same key, and fail once that entry is committed.
InsertsLeft(c) == rows[c] < Len(Legs(req[c]))
NextKey(c)     == Legs(req[c])[rows[c] + 1].key
KeyHeldBy(c)   == {d \in Clients \ {c} : NextKey(c) \in Pending(d)}

\* Fault: idempotency_key has no unique index.
NoUniqueIndex(c) == TRUE
KeyFree(c) == NextKey(c) # <<>> => ~Used(NextKey(c)) /\ KeyHeldBy(c) = {}

InsertRow(c) ==
  /\ pc[c] = "insert" /\ InsertsLeft(c)
  /\ KeyFree(c)
  /\ rows' = [rows EXCEPT ![c] = @ + 1]
  /\ UNCHANGED <<wallet, ledger, pc, req, held, seen, sent, acked>>

Inserted(c) == {Legs(req[c])[i].wallet : i \in 1..rows[c]}
NewRow(c, w) ==
  LET l == LegOn(req[c], w) IN
  [type |-> l.type, amount |-> Stored(l.amount),
   after |-> Stored(seen[c][w].balance), key |-> l.key]

\* The answer may be lost after a successful COMMIT (told = FALSE).
Commit(c, told) ==
  /\ pc[c] = "insert" /\ ~InsertsLeft(c)
  /\ wallet' = [w \in Wallets |->
                  IF w \in held[c]
                  THEN [status  |-> wallet[w].status,
                        balance |-> Stored(seen[c][w].balance)]
                  ELSE wallet[w]]
  /\ ledger' = [w \in Wallets |->
                  IF w \in Inserted(c) THEN Append(ledger[w], NewRow(c, w)) ELSE ledger[w]]
  /\ acked' = IF told THEN acked \cup {req[c]} ELSE acked
  /\ EndTransaction(c)
  /\ UNCHANGED sent

\* Fault: an insufficient balance is answered without ending the transaction.
Forgets(c) ==
  \/ pc[c] = "lock" /\ wallet[NextToLock(c)].status = "absent"
  \/ pc[c] = "apply" /\ Existing(req[c]) /\ ~Replayed(req[c])
  \/ /\ pc[c] = "insert" /\ InsertsLeft(c)
     /\ NextKey(c) # <<>> /\ Used(NextKey(c))

\* The statement a client is at returns an error, which rolls back.
Fails(c) ==
  \/ pc[c] = "lock" /\ wallet[NextToLock(c)].status = "absent"
  \/ pc[c] = "apply" /\ Existing(req[c]) /\ ~Replayed(req[c])
  \/ pc[c] = "apply" /\ \E l \in LegSet(req[c]) : ~CanApply(c, l)
  \/ /\ pc[c] = "insert" /\ InsertsLeft(c)
     /\ NextKey(c) # <<>> /\ Used(NextKey(c))

Rollback(c) ==
  /\ Fails(c) /\ ~(pc[c] = "apply" /\ Replayed(req[c]))
  /\ EndTransaction(c)
  /\ UNCHANGED <<wallet, ledger, sent, acked>>

\* The process dies, the connection breaks or the request context is cancelled.
Disconnect(c) ==
  /\ pc[c] # "idle"
  /\ EndTransaction(c)
  /\ UNCHANGED <<wallet, ledger, sent, acked>>

Step(c) ==
  \/ LockWallet(c)
  \/ ReplayLocked(c)
  \/ Apply(c)
  \/ InsertRow(c)
  \/ \E told \in BOOLEAN : Commit(c, told)
  \/ Rollback(c)

Next ==
  \/ \E w \in Wallets : GetOrCreateByOwner(w) \/ SetStatus(w)
  \/ \E c \in Clients, r \in Requests : Begin(c, r) \/ ReplayUnlocked(c, r)
  \/ \E c \in Clients : Step(c) \/ Disconnect(c)

Spec == Init /\ [][Next]_vars

\* The database queues waiting statements, so a lock that keeps being released is
\* eventually granted: strong fairness for each client's next statement.
FairSpec == Spec /\ \A c \in Clients : SF_vars(Step(c))

-----------------------------------------------------------------------------
(* Properties *)

TypeOK ==
  /\ wallet \in [Wallets -> Rows]
  /\ ledger \in [Wallets -> Seq(TransactionRows)]
  /\ pc     \in [Clients -> {"idle", "lock", "apply", "insert"}]
  /\ req    \in [Clients -> Requests \cup {None}]
  /\ held   \in [Clients -> SUBSET Wallets]
  /\ seen   \in [Clients -> [Wallets -> [status : Statuses, balance : Nat]]]
  /\ rows   \in [Clients -> 0..2]
  /\ sent   \in [Requests -> Nat] /\ \A r \in Requests : sent[r] <= MaxTries[r]
  /\ acked  \subseteq Requests

LastAfter(w) == IF ledger[w] = <<>> THEN 0 ELSE ledger[w][Len(ledger[w])].after

\* balance_after is there for reconciliation: the newest row's snapshot is the
\* wallet's balance and every snapshot is the one before it plus the row's amount,
\* so the rows of a wallet add up to its balance whatever ran concurrently.
Reconciles ==
  \A w \in Wallets :
    /\ wallet[w].balance = LastAfter(w)
    /\ \A i \in DOMAIN ledger[w] :
         ledger[w][i].after =
           (IF i = 1 THEN 0 ELSE ledger[w][i - 1].after) + ledger[w][i].amount

\* An idempotency key is spent at most once in the whole table, however often and
\* by however many clients the requests that carry it are sent.
KeySpentOnce ==
  \A w, v \in Wallets : \A i \in DOMAIN ledger[w], j \in DOMAIN ledger[v] :
    ledger[w][i].key # <<>> /\ ledger[w][i].key = ledger[v][j].key => w = v /\ i = j

\* A request that was answered with success and carries a key has its rows in the
\* table: the answer is not given before the commit, and no later step undoes it.
AckedIsDurable ==
  \A r \in acked : r.key # <<>> => \A l \in LegSet(r) :
    \E i \in DOMAIN ledger[l.wallet] :
      /\ ledger[l.wallet][i].key = l.key
      /\ ledger[l.wallet][i].type = l.type
      /\ ledger[l.wallet][i].amount = Stored(l.amount)

\* Transactions never wait for each other in a circle: of any set of clients at
\* least one waits neither for a row lock nor for an index entry of another in it.
Waits(c) ==
  CASE pc[c] = "lock" -> {d \in Clients : NextToLock(c) \in held[d]}
    [] pc[c] = "insert" /\ InsertsLeft(c) -> KeyHeldBy(c)
    [] OTHER -> {}
NoCircularWait ==
  \A S \in SUBSET Clients : S # {} => \E c \in S : Waits(c) \cap S = {}

\* A client is always free again in the end: a request that started its transaction
\* ends it, by an answer or an error, whoever else keeps taking the locks it needs.
EveryTransactionEnds == \A c \in Clients : []<>(pc[c] = "idle")

\* The wallet tables implement the ledger the service promises: under row locks,
\* retries, lost answers and crashes every request is posted in one step, at its
\* commit, and a keyed one at most once.
Funds     == [w \in Wallets |-> wallet[w].balance]
SpentKeys == {k \in UNION {KeysOf(r) : r \in Requests} : Used(k)}
AbstractLedger == INSTANCE Ledger WITH funds <- Funds, spent <- SpentKeys
ImplementsLedger == AbstractLedger!Spec
=============================================================================

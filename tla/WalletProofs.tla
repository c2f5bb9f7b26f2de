---------------------------- MODULE WalletProofs ----------------------------
(* Theorems about Wallet for any clients, wallets, requests and bounds. *)
EXTENDS Wallet, FiniteSetTheorems, WellFoundedInduction, TLAPS

\* Storing an integer amount gives an integer, keeps it non-negative, and changes
\* nothing when amounts are whole multiples of the column's unit.
LEMMA StoredType ==
  ASSUME NEW x \in Int
  PROVE  /\ Stored(x) \in Int
         /\ x \in Nat => Stored(x) \in Nat
         /\ Unit = 1 => Stored(x) = x
<1>1. ASSUME NEW y \in Nat
      PROVE  /\ RoundUp(y) \in Nat
             /\ Unit = 1 => RoundUp(y) = y
  <2>1. y % Unit \in 0..(Unit - 1)
    BY UnitAssumption
  <2>2. y % Unit <= y
    BY UnitAssumption
  <2>. QED  BY <2>1, <2>2, UnitAssumption DEF RoundUp
<1>. QED  BY <1>1 DEF Stored

\* What a leg looks like.
LegType == [wallet : Wallets,
            type : {"recharge", "consume", "transfer_out", "transfer_in"},
            amount : Int, key : Seq(KeyParts)]

\* A request has one leg, or two that a transfer puts in a fixed order.
LEMMA LegsShape ==
  ASSUME NEW r \in Requests
  PROVE  \/ \E a \in LegType : Legs(r) = <<a>>
         \/ \E a, b \in LegType :
              /\ Legs(r) = <<a, b>>
              /\ a.wallet = r.from /\ b.wallet = r.to
              /\ r.op = "transfer"
<1>1. /\ r.op \in Operations /\ r.from \in Wallets /\ r.to \in Wallets
      /\ r.amount \in Nat /\ r.key \in Seq(KeyParts)
  BY RequestsAssumption
<1>2. TransferKey(r.key, "out") \in Seq(KeyParts) /\ TransferKey(r.key, "in") \in Seq(KeyParts)
  <2>1. ASSUME NEW k \in Seq(KeyParts), NEW side \in KeyParts
        PROVE  TransferKey(k, side) \in Seq(KeyParts)
    <3>1. Append(k, side) \in Seq(KeyParts)
      OBVIOUS
    <3>. QED  BY <2>1, <3>1 DEF TransferKey
  <2>2. "out" \in KeyParts /\ "in" \in KeyParts
    BY KeyPartsAssumption
  <2>. QED  BY <1>1, <2>1, <2>2, Zenon
<1>3. CASE r.op = "credit"
  <2>1. Legs(r) = <<Leg(r.to, "recharge", r.amount, r.key)>>
    BY <1>3 DEF Legs
  <2>2. Leg(r.to, "recharge", r.amount, r.key) \in LegType
    BY <1>1 DEF Leg, LegType
  <2>. QED  BY <2>1, <2>2
<1>4. CASE r.op = "debit"
  <2>1. Legs(r) = <<Leg(r.from, "consume", -r.amount, r.key)>>
    BY <1>4 DEF Legs
  <2>2. Leg(r.from, "consume", -r.amount, r.key) \in LegType
    BY <1>1 DEF Leg, LegType
  <2>. QED  BY <2>1, <2>2
<1>5. CASE r.op = "transfer"
  <2>. DEFINE a == Leg(r.from, "transfer_out", -r.amount, TransferKey(r.key, "out"))
              b == Leg(r.to, "transfer_in", r.amount, TransferKey(r.key, "in"))
  <2>1. Legs(r) = <<a, b>>
    BY <1>5 DEF Legs
  <2>2. a \in LegType /\ b \in LegType
    BY <1>1, <1>2 DEF Leg, LegType
  <2>3. a.wallet = r.from /\ b.wallet = r.to
    BY DEF Leg
  <2>. HIDE DEF a, b
  <2>. QED  BY <2>1, <2>2, <2>3, <1>5
<1>. QED  BY <1>1, <1>3, <1>4, <1>5 DEF Operations

\* A request has one or two well-typed legs on existing wallets, and the leg on a
\* wallet it touches is one of them.
LEMMA LegsType ==
  ASSUME NEW r \in Requests
  PROVE  /\ Len(Legs(r)) \in 1..2
         /\ DOMAIN Legs(r) = 1..Len(Legs(r))
         /\ \A i \in DOMAIN Legs(r) : Legs(r)[i] \in LegType
         /\ LegSet(r) \subseteq LegType
         /\ Touched(r) \subseteq Wallets
         /\ \A w \in Touched(r) : LegOn(r, w) \in LegSet(r) /\ LegOn(r, w).wallet = w
<1>1. /\ Len(Legs(r)) \in 1..2
      /\ DOMAIN Legs(r) = 1..Len(Legs(r))
      /\ \A i \in DOMAIN Legs(r) : Legs(r)[i] \in LegType
  <2>1. ASSUME NEW a \in LegType, Legs(r) = <<a>>
        PROVE  <1>1!1
    BY <2>1
  <2>2. ASSUME NEW a \in LegType, NEW b \in LegType, Legs(r) = <<a, b>>
        PROVE  <1>1!1
    BY <2>2
  <2>. QED  BY <2>1, <2>2, LegsShape
<1>2. LegSet(r) \subseteq LegType
  BY <1>1 DEF LegSet
<1>3. Touched(r) \subseteq Wallets
  BY <1>2 DEF Touched, LegType
<1>4. ASSUME NEW w \in Touched(r)
      PROVE  LegOn(r, w) \in LegSet(r) /\ LegOn(r, w).wallet = w
  BY DEF Touched, LegOn
<1>. QED  BY <1>1, <1>2, <1>3, <1>4

\* NextToLock picks the least of the one or two wallets a client has not locked yet.
LEMMA UnlockedMinimum ==
  ASSUME NEW c \in Clients, req[c] \in Requests, Unlocked(c) # {}
  PROVE  NextToLock(c) \in Unlocked(c) /\ \A v \in Unlocked(c) : NextToLock(c) <= v
<1>1. \E a, b \in Wallets : Touched(req[c]) \subseteq {a, b}
  <2>1. ASSUME NEW a \in LegType, Legs(req[c]) = <<a>>
        PROVE  Touched(req[c]) \subseteq {a.wallet} /\ a.wallet \in Wallets
    BY <2>1 DEF Touched, LegSet, LegType
  <2>2. ASSUME NEW a \in LegType, NEW b \in LegType, Legs(req[c]) = <<a, b>>
        PROVE  /\ Touched(req[c]) \subseteq {a.wallet, b.wallet}
               /\ a.wallet \in Wallets /\ b.wallet \in Wallets
    BY <2>2 DEF Touched, LegSet, LegType
  <2>. QED  BY <2>1, <2>2, LegsShape
<1>2. \E w \in Unlocked(c) : \A v \in Unlocked(c) : w <= v
  <2>1. PICK a \in Wallets, b \in Wallets : Unlocked(c) \subseteq {a, b}
    BY <1>1 DEF Unlocked
  <2>. QED  BY <2>1, WalletsAssumption
<1>. QED  BY <1>2 DEF NextToLock

-----------------------------------------------------------------------------
(* Typing.  A transaction's own state has to be tied to the request it     *)
(* serves before the rows it commits can be shown to be well typed.        *)

\* A balance that the column of a wallets row can hold.
Fits(b) == b \in Nat /\ Stored(b) \in 0..MaxBalance

TransactionOK(c) ==
  /\ pc[c] = "idle" => held[c] = {} /\ rows[c] = 0
  /\ pc[c] # "idle" =>
       /\ req[c] \in Requests /\ Valid(req[c])
       /\ held[c] \subseteq Touched(req[c])
       /\ pc[c] = "lock" => held[c] # Touched(req[c]) /\ rows[c] = 0
       /\ pc[c] = "apply" => held[c] = Touched(req[c]) /\ rows[c] = 0
       /\ pc[c] = "insert" =>
            /\ held[c] = Touched(req[c])
            /\ rows[c] <= Len(Legs(req[c]))
            /\ \A w \in held[c] : Fits(seen[c][w].balance)

TypeInv == TypeOK /\ \A c \in Clients : TransactionOK(c)

\* The end of a transaction leaves the client's own variables well typed.
LEMMA EndKeepsType ==
  ASSUME TypeInv, NEW c \in Clients, EndTransaction(c)
  PROVE  /\ pc'   \in [Clients -> {"idle", "lock", "apply", "insert"}]
         /\ req'  \in [Clients -> Requests \cup {None}]
         /\ held' \in [Clients -> SUBSET Wallets]
         /\ seen' \in [Clients -> [Wallets -> [status : Statuses, balance : Nat]]]
         /\ rows' \in [Clients -> 0..2]
         /\ \A d \in Clients : TransactionOK(d)'
<1>1. NoRow \in [status : Statuses, balance : Nat]
  BY DEF NoRow, Statuses
<1>2. ASSUME NEW d \in Clients
      PROVE  TransactionOK(d)'
  BY DEF TypeInv, TypeOK, TransactionOK, EndTransaction, Fits, Valid
<1>. QED  BY <1>1, <1>2 DEF TypeInv, TypeOK, EndTransaction

\* What a commit writes fits the columns: balances in range, rows of the right shape.
LEMMA CommitType ==
  ASSUME TypeInv, NEW c \in Clients, NEW told \in BOOLEAN, Commit(c, told)
  PROVE  wallet' \in [Wallets -> Rows] /\ ledger' \in [Wallets -> Seq(TransactionRows)]
<1>1. /\ req[c] \in Requests /\ held[c] = Touched(req[c])
      /\ \A w \in held[c] : Fits(seen[c][w].balance)
      /\ rows[c] <= Len(Legs(req[c])) /\ rows[c] \in Nat
  BY DEF Commit, TypeInv, TypeOK, TransactionOK
<1>2. ASSUME NEW w \in held[c]
      PROVE  [status |-> wallet[w].status, balance |-> Stored(seen[c][w].balance)] \in Rows
  <2>1. w \in Wallets
    BY DEF TypeInv, TypeOK
  <2>. QED  BY <1>1, <2>1 DEF TypeInv, TypeOK, Rows, Fits
<1>3. ASSUME NEW w \in Inserted(c)
      PROVE  NewRow(c, w) \in TransactionRows
  <2>1. w \in Touched(req[c])
    BY <1>1, LegsType DEF Inserted, Touched, LegSet
  <2>2. LegOn(req[c], w) \in LegType
    BY <1>1, <2>1, LegsType
  <2>3. Stored(LegOn(req[c], w).amount) \in Int
    BY <2>2, StoredType DEF LegType
  <2>. QED  BY <1>1, <2>1, <2>2, <2>3 DEF NewRow, TransactionRows, LegType, Fits
<1>4. \A w \in Wallets : w \in Inserted(c) =>
        Append(ledger[w], NewRow(c, w)) \in Seq(TransactionRows)
  BY <1>3 DEF TypeInv, TypeOK
<1>. QED  BY <1>2, <1>4 DEF Commit, TypeInv, TypeOK

\* Sending a request once more stays within its bound.
LEMMA SendType ==
  ASSUME TypeOK, NEW r \in Requests, Send(r)
  PROVE  /\ sent' \in [Requests -> Nat]
         /\ \A q \in Requests : sent'[q] <= MaxTries[q]
<1>1. sent \in [Requests -> Nat] /\ MaxTries \in [Requests -> Nat]
  BY BoundsAssumption DEF TypeOK
<1>2. sent[r] < MaxTries[r] /\ sent' = [sent EXCEPT ![r] = sent[r] + 1]
  BY DEF Send
<1>3. sent' \in [Requests -> Nat]
  BY <1>1, <1>2
<1>4. ASSUME NEW q \in Requests
      PROVE  sent'[q] <= MaxTries[q]
  <2>1. CASE q = r
    BY <2>1, <1>1, <1>2
  <2>2. CASE q # r
    BY <2>2, <1>1, <1>2 DEF TypeOK
  <2>. QED  BY <2>1, <2>2
<1>. QED  BY <1>3, <1>4

\* Every step of the service keeps TypeInv.
LEMMA TypeStep == TypeInv /\ [Next]_vars => TypeInv'
<1>. SUFFICES ASSUME TypeInv, [Next]_vars PROVE TypeInv'
  OBVIOUS
<1>0. ASSUME NEW w \in Wallets, NEW s \in Statuses, wallet' = [wallet EXCEPT ![w].status = s],
             UNCHANGED <<ledger, pc, req, held, seen, rows, sent, acked>>
      PROVE  TypeInv'
  <2>1. \A row \in Rows : [row EXCEPT !.status = s] \in Rows
    BY DEF Rows
  <2>2. /\ wallet \in [Wallets -> Rows]
        /\ wallet' = [wallet EXCEPT ![w] = [wallet[w] EXCEPT !.status = s]]
    BY <1>0 DEF TypeInv, TypeOK
  <2>3. wallet' \in [Wallets -> Rows]
    BY <2>1, <2>2
  <2>4. TypeOK'
    BY <1>0, <2>3 DEF TypeInv, TypeOK
  <2>5. ASSUME NEW c \in Clients PROVE TransactionOK(c)'
    BY <1>0 DEF TypeInv, TransactionOK, Fits
  <2>. QED  BY <2>4, <2>5 DEF TypeInv
<1>1. ASSUME NEW w \in Wallets, GetOrCreateByOwner(w)
      PROVE  TypeInv'
  BY <1>1, <1>0 DEF GetOrCreateByOwner, Statuses
<1>2. ASSUME NEW w \in Wallets, SetStatus(w)
      PROVE  TypeInv'
  <2>1. PICK s \in Statuses : s = IF wallet[w].status = "active" THEN "frozen" ELSE "active"
    BY DEF Statuses
  <2>. QED  BY <1>2, <1>0, <2>1 DEF SetStatus
<1>3. ASSUME NEW c \in Clients, NEW r \in Requests, Begin(c, r)
      PROVE  TypeInv'
  <2>0. /\ sent' \in [Requests -> Nat]
        /\ \A q \in Requests : sent'[q] <= MaxTries[q]
    BY <1>3, SendType DEF Begin, TypeInv
  <2>1. TypeOK'
    BY <1>3, <2>0 DEF Begin, TypeInv, TypeOK
  <2>2. Touched(r) # {}
    <3>1. 1 \in DOMAIN Legs(r)
      BY LegsType
    <3>2. Legs(r)[1].wallet \in Touched(r)
      BY <3>1 DEF Touched, LegSet
    <3>. QED  BY <3>2
  <2>3. ASSUME NEW d \in Clients
        PROVE  TransactionOK(d)'
    BY <1>3, <2>2 DEF Begin, TypeInv, TypeOK, TransactionOK, Fits, Valid
  <2>. QED  BY <2>1, <2>3 DEF TypeInv
<1>4. ASSUME NEW c \in Clients, NEW r \in Requests, ReplayUnlocked(c, r)
      PROVE  TypeInv'
  <2>1. /\ sent' \in [Requests -> Nat]
        /\ \A q \in Requests : sent'[q] <= MaxTries[q]
    BY <1>4, SendType DEF ReplayUnlocked, TypeInv
  <2>. QED
    BY <1>4, <2>1 DEF ReplayUnlocked, TypeInv, TypeOK, TransactionOK, Fits
<1>5. ASSUME NEW c \in Clients, LockWallet(c)
      PROVE  TypeInv'
  <2>. DEFINE w == NextToLock(c)
  <2>1. /\ req[c] \in Requests /\ Unlocked(c) # {} /\ held[c] \subseteq Touched(req[c])
        /\ rows[c] = 0 /\ Valid(req[c])
    BY <1>5 DEF LockWallet, TypeInv, TransactionOK, Unlocked
  <2>2. w \in Unlocked(c) /\ w \in Wallets /\ w \in Touched(req[c])
    BY <2>1, UnlockedMinimum, LegsType DEF Unlocked
  <2>3. wallet[w] \in [status : Statuses, balance : Nat]
    BY <2>2, BoundsAssumption DEF TypeInv, TypeOK, Rows
  <2>. HIDE DEF w
  <2>4. TypeOK'
    BY <1>5, <2>2, <2>3 DEF w, LockWallet, TypeInv, TypeOK
  <2>5. ASSUME NEW d \in Clients
        PROVE  TransactionOK(d)'
    <3>1. CASE d = c
      <4>1. held'[c] = held[c] \cup {w} /\ req'[c] = req[c] /\ rows'[c] = 0
        BY <1>5, <2>1 DEF w, LockWallet, TypeInv, TypeOK
      <4>2. pc'[c] = IF Unlocked(c) = {w} THEN "apply" ELSE "lock"
        BY <1>5 DEF w, LockWallet, TypeInv, TypeOK
      <4>. QED  BY <3>1, <4>1, <4>2, <2>1, <2>2 DEF TransactionOK, Unlocked
    <3>2. CASE d # c
      BY <1>5, <3>2 DEF LockWallet, TypeInv, TypeOK, TransactionOK, Fits
    <3>. QED  BY <3>1, <3>2
  <2>. QED  BY <2>4, <2>5 DEF TypeInv
<1>6. ASSUME NEW c \in Clients, ReplayLocked(c)
      PROVE  TypeInv'
  <2>1. req[c] \in Requests
    BY <1>6 DEF ReplayLocked, TypeInv, TransactionOK
  <2>. QED  BY <1>6, <2>1, EndKeepsType DEF ReplayLocked, TypeInv, TypeOK
<1>7. ASSUME NEW c \in Clients, Apply(c)
      PROVE  TypeInv'
  <2>1. req[c] \in Requests /\ held[c] = Touched(req[c]) /\ rows[c] = 0 /\ Valid(req[c])
    BY <1>7 DEF Apply, TypeInv, TransactionOK
  <2>2. ASSUME NEW w \in Touched(req[c])
        PROVE  /\ Fits(seen[c][w].balance + LegOn(req[c], w).amount)
               /\ w \in Wallets
    <3>1. LegOn(req[c], w) \in LegSet(req[c]) /\ LegOn(req[c], w).wallet = w
      BY <2>1, LegsType
    <3>2. LegOn(req[c], w).amount \in Int /\ w \in Wallets
      BY <2>1, <3>1, LegsType DEF LegType
    <3>3. CanApply(c, LegOn(req[c], w))
      BY <1>7, <3>1 DEF Apply
    <3>4. seen[c][w].balance \in Nat
      BY <3>2 DEF TypeInv, TypeOK
    <3>5. seen[c][w].balance + LegOn(req[c], w).amount \in Nat
      BY <3>1, <3>2, <3>3, <3>4 DEF CanApply
    <3>. QED  BY <3>1, <3>2, <3>3, <3>5, StoredType, BoundsAssumption DEF CanApply, Fits
  <2>3. seen'[c] = Changed(c)
    BY <1>7 DEF Apply, TypeInv, TypeOK
  <2>4. Changed(c) \in [Wallets -> [status : Statuses, balance : Nat]]
    BY <2>2 DEF Changed, TypeInv, TypeOK, Fits
  <2>5. \A d \in Clients \ {c} : seen'[d] = seen[d]
    BY <1>7 DEF Apply, TypeInv, TypeOK
  <2>6. seen' \in [Clients -> [Wallets -> [status : Statuses, balance : Nat]]]
    BY <1>7, <2>3, <2>4, <2>5 DEF Apply, TypeInv, TypeOK
  <2>7. TypeOK'
    BY <1>7, <2>6 DEF Apply, TypeInv, TypeOK
  <2>8. ASSUME NEW d \in Clients
        PROVE  TransactionOK(d)'
    <3>1. CASE d = c
      <4>1. \A w \in Touched(req[c]) : Fits(seen'[c][w].balance)
        BY <2>2, <2>3 DEF Changed
      <4>2. held'[c] = Touched(req[c]) /\ req'[c] = req[c] /\ rows'[c] = 0 /\ pc'[c] = "insert"
        BY <1>7, <2>1 DEF Apply, TypeInv, TypeOK
      <4>3. 0 <= Len(Legs(req[c]))
        BY <2>1, LegsType
      <4>. QED  BY <3>1, <4>1, <4>2, <4>3, <2>1 DEF TransactionOK, Fits
    <3>2. CASE d # c
      BY <1>7, <2>5, <3>2 DEF Apply, TypeInv, TypeOK, TransactionOK, Fits
    <3>. QED  BY <3>1, <3>2
  <2>. QED  BY <2>7, <2>8 DEF TypeInv
<1>8. ASSUME NEW c \in Clients, InsertRow(c)
      PROVE  TypeInv'
  <2>1. req[c] \in Requests /\ rows[c] < Len(Legs(req[c])) /\ Len(Legs(req[c])) \in 1..2
    BY <1>8, LegsType DEF InsertRow, InsertsLeft, TypeInv, TransactionOK
  <2>2. rows' = [rows EXCEPT ![c] = rows[c] + 1] /\ rows[c] \in Nat /\ rows[c] + 1 \in 0..2
    <3>1. rows' = [rows EXCEPT ![c] = rows[c] + 1]
      BY <1>8 DEF InsertRow
    <3>2. rows[c] \in 0..2
      BY DEF TypeInv, TypeOK
    <3>3. rows[c] \in Nat /\ rows[c] + 1 \in 0..2
      <4>. DEFINE n == Len(Legs(req[c]))  m == rows[c]
      <4>1. m < n /\ n \in 1..2 /\ m \in 0..2
        BY <2>1, <3>2
      <4>. HIDE DEF n, m
      <4>2. m \in Nat /\ m + 1 \in 0..2
        BY <4>1
      <4>. QED  BY <4>2 DEF m
    <3>. QED  BY <3>1, <3>3
  <2>3. TypeOK'
    BY <1>8, <2>2 DEF InsertRow, TypeInv, TypeOK
  <2>4. ASSUME NEW d \in Clients
        PROVE  TransactionOK(d)'
    <3>1. pc'[d] = pc[d] /\ req'[d] = req[d] /\ held'[d] = held[d] /\ seen'[d] = seen[d]
      BY <1>8 DEF InsertRow
    <3>2. CASE d = c
      BY <1>8, <2>1, <2>2, <3>1, <3>2 DEF InsertRow, TypeInv, TypeOK, TransactionOK, Fits
    <3>3. CASE d # c
      BY <2>2, <3>1, <3>3 DEF TypeInv, TypeOK, TransactionOK, Fits
    <3>. QED  BY <3>2, <3>3
  <2>. QED  BY <2>3, <2>4 DEF TypeInv
<1>9. ASSUME NEW c \in Clients, NEW told \in BOOLEAN, Commit(c, told)
      PROVE  TypeInv'
  <2>1. req[c] \in Requests
    BY <1>9 DEF Commit, TypeInv, TransactionOK
  <2>2. EndTransaction(c) /\ sent' = sent /\ acked' \subseteq acked \cup {req[c]}
    BY <1>9 DEF Commit
  <2>. QED  BY <1>9, <2>1, <2>2, EndKeepsType, CommitType DEF TypeInv, TypeOK
<1>10. ASSUME NEW c \in Clients, Rollback(c) \/ Disconnect(c)
       PROVE  TypeInv'
  BY <1>10, EndKeepsType DEF Rollback, Disconnect, TypeInv, TypeOK
<1>11. CASE UNCHANGED vars
  BY <1>11 DEF vars, TypeInv, TypeOK, TransactionOK, Fits
<1>. QED
  BY <1>1, <1>2, <1>3, <1>4, <1>5, <1>6, <1>7, <1>8, <1>9, <1>10, <1>11 DEF Next, Step

\* Every column and every transaction's local state stays in its type: no balance
\* is ever negative or beyond what its column holds, for any amounts requested.
THEOREM TypeCorrect == Spec => []TypeOK
<1>1. Init => TypeInv
  BY BoundsAssumption
     DEF Init, TypeInv, TypeOK, TransactionOK, NoRow, Rows, Statuses, TransactionRows
<1>2. TypeInv => TypeOK
  BY DEF TypeInv
<1>. QED  BY <1>1, <1>2, TypeStep, PTL DEF Spec

-----------------------------------------------------------------------------
(* Idempotency keys.  The rows a transaction has inserted own their keys   *)
(* before it commits: no committed row and no other transaction has them.  *)

KeyInv ==
  /\ KeySpentOnce
  /\ \A c \in Clients : \A k \in Pending(c) :
       ~Used(k) /\ \A d \in Clients \ {c} : k \notin Pending(d)

\* The two rows of a transfer carry different keys.
LEMMA LegKeysDiffer ==
  ASSUME NEW r \in Requests, NEW i \in DOMAIN Legs(r), NEW j \in DOMAIN Legs(r),
         i # j, Legs(r)[i].key # <<>>
  PROVE  Legs(r)[i].key # Legs(r)[j].key
<1>1. r.op = "transfer"
  <2>1. Len(Legs(r)) # 1
    BY LegsType
  <2>. QED  BY <2>1, LegsShape
<1>2. Legs(r) = <<Leg(r.from, "transfer_out", -r.amount, TransferKey(r.key, "out")),
                  Leg(r.to, "transfer_in", r.amount, TransferKey(r.key, "in"))>>
  BY <1>1 DEF Legs
<1>3. ASSUME r.key # <<>>
      PROVE  TransferKey(r.key, "out") # TransferKey(r.key, "in")
  <2>1. r.key \in Seq(KeyParts)
    BY RequestsAssumption
  <2>2. /\ Append(r.key, "out")[Len(r.key) + 1] = "out"
        /\ Append(r.key, "in")[Len(r.key) + 1] = "in"
    BY <2>1, KeyPartsAssumption
  <2>. QED  BY <1>3, <2>2 DEF TransferKey
<1>4. r.key = <<>> => TransferKey(r.key, "out") = <<>> /\ TransferKey(r.key, "in") = <<>>
  BY DEF TransferKey
<1>5. DOMAIN Legs(r) = 1..2
  BY <1>2
<1>. QED  BY <1>2, <1>3, <1>4, <1>5 DEF Leg

\* The number of inserted rows is a number.
LEMMA RowsCount == TypeInv => \A c \in Clients : rows[c] \in Nat
<1>1. \A n : n \in 0..2 => n \in Nat
  OBVIOUS
<1>. QED  BY <1>1 DEF TypeInv, TypeOK

\* The rows a commit writes are legs of its request; their keys are the client's own
\* uncommitted entries and differ from each other.
LEMMA CommitKeys ==
  ASSUME TypeInv, NEW c \in Clients, NEW told \in BOOLEAN, Commit(c, told)
  PROVE  /\ req[c] \in Requests
         /\ \A w \in Inserted(c) : /\ w \in Touched(req[c])
                                  /\ NewRow(c, w).key \in Pending(c) \cup {<<>>}
         /\ \A w, v \in Inserted(c) :
              w # v /\ NewRow(c, w).key # <<>> => NewRow(c, w).key # NewRow(c, v).key
<1>1. /\ req[c] \in Requests /\ rows[c] \in Nat /\ rows[c] <= Len(Legs(req[c]))
      /\ ~(rows[c] < Len(Legs(req[c]))) /\ Len(Legs(req[c])) \in 1..2
  <2>1. pc[c] = "insert" /\ ~(rows[c] < Len(Legs(req[c])))
    BY DEF Commit, InsertsLeft
  <2>2. req[c] \in Requests /\ rows[c] <= Len(Legs(req[c]))
    BY <2>1 DEF TypeInv, TransactionOK
  <2>. QED  BY <2>1, <2>2, LegsType, RowsCount
<1>2. 1..rows[c] = DOMAIN Legs(req[c])
  BY <1>1, LegsType
<1>3. ASSUME NEW w \in Inserted(c)
      PROVE  /\ w \in Touched(req[c])
             /\ \E i \in DOMAIN Legs(req[c]) : /\ Legs(req[c])[i].wallet = w
                                              /\ NewRow(c, w).key = Legs(req[c])[i].key
  <2>1. w \in Touched(req[c])
    BY <1>2 DEF Inserted, Touched, LegSet
  <2>2. LegOn(req[c], w) \in LegSet(req[c]) /\ LegOn(req[c], w).wallet = w
    BY <1>1, <2>1, LegsType
  <2>. QED  BY <2>1, <2>2 DEF LegSet, NewRow
<1>4. \A w \in Inserted(c) : NewRow(c, w).key \in Pending(c) \cup {<<>>}
  BY <1>2, <1>3 DEF Pending
<1>5. ASSUME NEW w \in Inserted(c), NEW v \in Inserted(c), w # v, NewRow(c, w).key # <<>>
      PROVE  NewRow(c, w).key # NewRow(c, v).key
  BY <1>1, <1>3, <1>5, LegKeysDiffer
<1>. QED  BY <1>1, <1>3, <1>4, <1>5

\* A client that is in no transaction has no uncommitted index entries.
LEMMA EndedPending ==
  ASSUME TypeInv, NEW c \in Clients, EndTransaction(c)
  PROVE  Pending(c)' = {} /\ \A d \in Clients \ {c} : Pending(d)' = Pending(d)
<1>1. rows'[c] = 0 /\ \A d \in Clients \ {c} : rows'[d] = rows[d] /\ req'[d] = req[d]
  BY DEF EndTransaction, TypeInv, TypeOK
<1>. QED  BY <1>1 DEF Pending

\* Every step of the service keeps KeyInv.
LEMMA KeyStep == TypeInv /\ KeyInv /\ [Next]_vars => KeyInv'
<1>. SUFFICES ASSUME TypeInv, KeyInv, [Next]_vars PROVE KeyInv'
  OBVIOUS
<1>1. ASSUME ledger' = ledger, rows' = rows, req' = req
      PROVE  KeyInv'
  BY <1>1 DEF KeyInv, KeySpentOnce, Pending, Used
<1>2. ASSUME NEW c \in Clients, NEW r \in Requests, Begin(c, r)
      PROVE  KeyInv'
  <2>1. \A d \in Clients : Pending(d)' = Pending(d)
    <3>1. rows[c] = 0 /\ rows' = rows /\ \A d \in Clients \ {c} : req'[d] = req[d]
      BY <1>2 DEF Begin, TypeInv, TypeOK, TransactionOK
    <3>. QED  BY <3>1 DEF Pending
  <2>. QED  BY <1>2, <2>1 DEF Begin, KeyInv, KeySpentOnce, Used
<1>3. ASSUME NEW c \in Clients, EndTransaction(c), ledger' = ledger
      PROVE  KeyInv'
  BY <1>3, EndedPending DEF KeyInv, KeySpentOnce, Used
<1>4. ASSUME NEW c \in Clients, InsertRow(c)
      PROVE  KeyInv'
  <2>1. /\ rows' = [rows EXCEPT ![c] = rows[c] + 1] /\ rows[c] \in Nat
        /\ req' = req /\ ledger' = ledger
    BY <1>4, RowsCount DEF InsertRow
  <2>2. Pending(c)' \subseteq Pending(c) \cup ({NextKey(c)} \ {<<>>})
    <3>1. rows'[c] = rows[c] + 1 /\ 1..(rows[c] + 1) = 1..rows[c] \cup {rows[c] + 1}
      BY <2>1 DEF TypeInv, TypeOK
    <3>. QED  BY <2>1, <3>1 DEF Pending, NextKey
  <2>3. \A d \in Clients \ {c} : Pending(d)' = Pending(d)
    BY <2>1 DEF Pending, TypeInv, TypeOK
  <2>4. NextKey(c) # <<>> =>
          ~Used(NextKey(c)) /\ \A d \in Clients \ {c} : NextKey(c) \notin Pending(d)
    BY <1>4 DEF InsertRow, KeyFree, KeyHeldBy
  <2>. QED  BY <2>1, <2>2, <2>3, <2>4 DEF KeyInv, KeySpentOnce, Used
<1>5. ASSUME NEW c \in Clients, NEW told \in BOOLEAN, Commit(c, told)
      PROVE  KeyInv'
  <2>1. /\ EndTransaction(c)
        /\ ledger' = [w \in Wallets |-> IF w \in Inserted(c)
                                       THEN Append(ledger[w], NewRow(c, w)) ELSE ledger[w]]
    BY <1>5 DEF Commit
  <2>2. \A w \in Wallets : ledger[w] \in Seq(TransactionRows)
    BY DEF TypeInv, TypeOK
  <2>3. ASSUME NEW w \in Wallets, NEW i \in DOMAIN ledger'[w]
        PROVE  \/ i \in DOMAIN ledger[w] /\ ledger'[w][i] = ledger[w][i]
               \/ w \in Inserted(c) /\ i = Len(ledger[w]) + 1 /\ ledger'[w][i] = NewRow(c, w)
    BY <2>1, <2>2
  <2>4. \A w \in Inserted(c) : NewRow(c, w).key # <<>> => ~Used(NewRow(c, w).key)
    BY <1>5, CommitKeys DEF KeyInv
  <2>5. KeySpentOnce'
    <3>1. SUFFICES ASSUME NEW w \in Wallets, NEW v \in Wallets,
                          NEW i \in DOMAIN ledger'[w], NEW j \in DOMAIN ledger'[v],
                          ledger'[w][i].key # <<>>, ledger'[w][i].key = ledger'[v][j].key
                   PROVE  w = v /\ i = j
      BY DEF KeySpentOnce
    <3>2. CASE /\ i \in DOMAIN ledger[w] /\ ledger'[w][i] = ledger[w][i]
               /\ j \in DOMAIN ledger[v] /\ ledger'[v][j] = ledger[v][j]
      BY <3>1, <3>2 DEF KeyInv, KeySpentOnce
    <3>3. CASE /\ i \in DOMAIN ledger[w] /\ ledger'[w][i] = ledger[w][i]
               /\ v \in Inserted(c) /\ ledger'[v][j] = NewRow(c, v)
      BY <2>4, <3>1, <3>3 DEF Used
    <3>4. CASE /\ w \in Inserted(c) /\ ledger'[w][i] = NewRow(c, w)
               /\ j \in DOMAIN ledger[v] /\ ledger'[v][j] = ledger[v][j]
      BY <2>4, <3>1, <3>4 DEF Used
    <3>5. CASE /\ w \in Inserted(c) /\ i = Len(ledger[w]) + 1 /\ ledger'[w][i] = NewRow(c, w)
               /\ v \in Inserted(c) /\ j = Len(ledger[v]) + 1 /\ ledger'[v][j] = NewRow(c, v)
      BY <1>5, <3>1, <3>5, CommitKeys
    <3>. QED  BY <2>3, <3>2, <3>3, <3>4, <3>5
  <2>6. ASSUME NEW k, k # <<>>, ~Used(k), k \notin Pending(c)
        PROVE  ~Used(k)'
    <3>1. \A w \in Inserted(c) : NewRow(c, w).key # k
      BY <1>5, <2>6, CommitKeys
    <3>. QED  BY <2>3, <2>6, <3>1 DEF Used
  <2>7. \A d \in Clients : <<>> \notin Pending(d)
    BY DEF Pending
  <2>8. \A d \in Clients : \A k \in Pending(d)' :
          ~Used(k)' /\ \A e \in Clients \ {d} : k \notin Pending(e)'
    BY <2>1, <2>6, <2>7, EndedPending DEF KeyInv
  <2>. QED  BY <2>5, <2>8 DEF KeyInv
<1>6. CASE UNCHANGED vars
  BY <1>1, <1>6 DEF vars
<1>. QED
  BY <1>1, <1>2, <1>3, <1>4, <1>5, <1>6
     DEF Next, Step, GetOrCreateByOwner, SetStatus, ReplayUnlocked, LockWallet, ReplayLocked,
         Apply, Rollback, Disconnect

\* No idempotency key is spent twice, for any requests, retries and interleaving.
THEOREM KeysSpentOnce == Spec => []KeySpentOnce
<1>1. Init => TypeInv /\ KeyInv
  <2>1. Init => TypeInv
    BY BoundsAssumption
       DEF Init, TypeInv, TypeOK, TransactionOK, NoRow, Rows, Statuses, TransactionRows
  <2>2. Init => KeyInv
    BY DEF Init, KeyInv, KeySpentOnce, Pending
  <2>. QED  BY <2>1, <2>2
<1>2. TypeInv /\ KeyInv => KeySpentOnce
  BY DEF KeyInv
<1>. QED  BY <1>1, <1>2, TypeStep, KeyStep, PTL DEF Spec

-----------------------------------------------------------------------------
(* Balances.  While a transaction holds a row lock nobody else changes the *)
(* balance of that row, so what it computed from the locked row is still   *)
(* right when it commits.                                                  *)

BalanceOK(c) ==
  /\ pc[c] \in {"lock", "apply"} =>
       \A w \in held[c] : seen[c][w].balance = wallet[w].balance
  /\ pc[c] = "insert" =>
       \A w \in held[c] :
         seen[c][w].balance = wallet[w].balance + LegOn(req[c], w).amount

BalanceInv ==
  /\ \A c, d \in Clients : c # d => held[c] \cap held[d] = {}
  /\ \A c \in Clients : BalanceOK(c)

\* Creating or freezing a wallet no client has locked changes no balance.
LEMMA StatusKeepsBalances ==
  ASSUME TypeInv, NEW w \in Wallets, GetOrCreateByOwner(w) \/ SetStatus(w)
  PROVE  \A v \in Wallets : wallet'[v].balance = wallet[v].balance
<1>1. \A v \in Wallets : wallet[v] \in [status : Statuses, balance : 0..MaxBalance]
  BY DEF TypeInv, TypeOK, Rows
<1>2. ASSUME NEW s, wallet' = [wallet EXCEPT ![w].status = s]
      PROVE  \A v \in Wallets : wallet'[v].balance = wallet[v].balance
  <2>1. wallet'[w] = [wallet[w] EXCEPT !.status = s]
    BY <1>2 DEF TypeInv, TypeOK
  <2>2. wallet'[w].balance = wallet[w].balance
    BY <1>1, <2>1
  <2>3. \A v \in Wallets : v # w => wallet'[v] = wallet[v]
    BY <1>2 DEF TypeInv, TypeOK
  <2>. QED  BY <2>2, <2>3
<1>. QED  BY <1>2 DEF GetOrCreateByOwner, SetStatus

\* A step that leaves locks and requests alone and changes no balance.
LEMMA EndKeepsBalances ==
  ASSUME TypeInv, BalanceInv, NEW c \in Clients, EndTransaction(c),
         \A w \in Wallets : w \notin held[c] => wallet'[w].balance = wallet[w].balance
  PROVE  BalanceInv'
<1>1. /\ held'[c] = {} /\ pc'[c] = "idle"
      /\ \A d \in Clients \ {c} : /\ held'[d] = held[d] /\ pc'[d] = pc[d]
                                 /\ seen'[d] = seen[d] /\ req'[d] = req[d]
  BY DEF EndTransaction, TypeInv, TypeOK
<1>2. \A d \in Clients \ {c} : \A w \in held[d] : w \in Wallets /\ w \notin held[c]
  BY DEF BalanceInv, TypeInv, TypeOK
<1>3. \A d \in Clients : BalanceOK(d)'
  BY <1>1, <1>2 DEF BalanceInv, BalanceOK
<1>. QED  BY <1>1, <1>3 DEF BalanceInv

\* Every step of the service keeps BalanceInv.
LEMMA BalanceStep == TypeInv /\ BalanceInv /\ [Next]_vars => BalanceInv'
<1>. SUFFICES ASSUME TypeInv, BalanceInv, [Next]_vars PROVE BalanceInv'
  OBVIOUS
<1>1. ASSUME NEW w \in Wallets, GetOrCreateByOwner(w) \/ SetStatus(w)
      PROVE  BalanceInv'
  <2>1. \A v \in Wallets : wallet'[v].balance = wallet[v].balance
    BY <1>1, StatusKeepsBalances
  <2>2. \A d \in Clients : held[d] \subseteq Wallets
    BY DEF TypeInv, TypeOK
  <2>. QED  BY <1>1, <2>1, <2>2 DEF GetOrCreateByOwner, SetStatus, BalanceInv, BalanceOK
<1>2. ASSUME NEW c \in Clients, NEW r \in Requests, Begin(c, r)
      PROVE  BalanceInv'
  BY <1>2 DEF Begin, BalanceInv, BalanceOK, TypeInv, TypeOK, TransactionOK
<1>3. ASSUME NEW c \in Clients, NEW r \in Requests, ReplayUnlocked(c, r)
      PROVE  BalanceInv'
  BY <1>3 DEF ReplayUnlocked, BalanceInv, BalanceOK
<1>4. ASSUME NEW c \in Clients, LockWallet(c)
      PROVE  BalanceInv'
  <2>1. PICK w \in Wallets :
          /\ held' = [held EXCEPT ![c] = @ \cup {w}]
          /\ seen' = [seen EXCEPT ![c][w] = wallet[w]]
          /\ \A d \in Clients : w \notin held[d]
          /\ pc[c] = "lock" /\ pc'[c] \in {"lock", "apply"}
          /\ \A d \in Clients \ {c} : pc'[d] = pc[d]
    <3>1. req[c] \in Requests /\ Unlocked(c) # {}
      BY <1>4 DEF LockWallet, TypeInv, TransactionOK, Unlocked
    <3>2. NextToLock(c) \in Wallets
      BY <3>1, UnlockedMinimum, LegsType DEF Unlocked
    <3>. QED  BY <1>4, <3>2 DEF LockWallet, LockFree, TypeInv, TypeOK
  <2>2. /\ held'[c] = held[c] \cup {w}
        /\ seen'[c][w] = wallet[w]
        /\ \A v \in Wallets \ {w} : seen'[c][v] = seen[c][v]
        /\ \A d \in Clients \ {c} : held'[d] = held[d] /\ seen'[d] = seen[d]
    BY <2>1 DEF TypeInv, TypeOK
  <2>3. \A d \in Clients : held[d] \subseteq Wallets
    BY DEF TypeInv, TypeOK
  <2>4. wallet' = wallet /\ req' = req
    BY <1>4 DEF LockWallet
  <2>5. \A d \in Clients : BalanceOK(d)'
    BY <2>1, <2>2, <2>3, <2>4 DEF BalanceInv, BalanceOK
  <2>. QED  BY <2>1, <2>2, <2>5 DEF BalanceInv
<1>5. ASSUME NEW c \in Clients, Apply(c)
      PROVE  BalanceInv'
  <2>1. /\ seen'[c] = Changed(c) /\ pc[c] = "apply" /\ pc'[c] = "insert"
        /\ \A d \in Clients \ {c} : seen'[d] = seen[d] /\ pc'[d] = pc[d]
        /\ wallet' = wallet /\ held' = held /\ req' = req
    BY <1>5 DEF Apply, TypeInv, TypeOK
  <2>2. held[c] = Touched(req[c]) /\ held[c] \subseteq Wallets
    BY <2>1 DEF TypeInv, TypeOK, TransactionOK
  <2>3. \A d \in Clients : BalanceOK(d)'
    BY <2>1, <2>2 DEF BalanceInv, BalanceOK, Changed
  <2>. QED  BY <2>1, <2>3 DEF BalanceInv
<1>6. ASSUME NEW c \in Clients, InsertRow(c)
      PROVE  BalanceInv'
  BY <1>6 DEF InsertRow, BalanceInv, BalanceOK
<1>7. ASSUME NEW c \in Clients, NEW told \in BOOLEAN, Commit(c, told)
      PROVE  BalanceInv'
  BY <1>7, EndKeepsBalances DEF Commit
<1>8. ASSUME NEW c \in Clients, ReplayLocked(c) \/ Rollback(c) \/ Disconnect(c)
      PROVE  BalanceInv'
  BY <1>8, EndKeepsBalances DEF ReplayLocked, Rollback, Disconnect
<1>9. CASE UNCHANGED vars
  BY <1>9 DEF vars, BalanceInv, BalanceOK
<1>. QED
  BY <1>1, <1>2, <1>3, <1>4, <1>5, <1>6, <1>7, <1>8, <1>9 DEF Next, Step

\* When a transaction commits it has inserted a row for each wallet it holds, and
\* each balance it writes is the committed one plus the amount of the new row.
LEMMA CommitEffect ==
  ASSUME Unit = 1, TypeInv, BalanceInv, NEW c \in Clients, NEW told \in BOOLEAN,
         Commit(c, told)
  PROVE  /\ req[c] \in Requests /\ Inserted(c) = Touched(req[c]) /\ held[c] = Touched(req[c])
         /\ \A w \in Touched(req[c]) :
              /\ w \in Wallets
              /\ wallet'[w].balance = wallet[w].balance + LegOn(req[c], w).amount
              /\ NewRow(c, w).amount = LegOn(req[c], w).amount
              /\ NewRow(c, w).after = wallet'[w].balance
<1>1. /\ pc[c] = "insert" /\ req[c] \in Requests /\ held[c] = Touched(req[c])
      /\ rows[c] <= Len(Legs(req[c])) /\ ~(rows[c] < Len(Legs(req[c])))
  BY DEF Commit, InsertsLeft, TypeInv, TransactionOK
<1>2. Inserted(c) = Touched(req[c])
  <2>1. rows[c] = Len(Legs(req[c]))
    BY <1>1, LegsType, RowsCount
  <2>. QED  BY <1>1, <2>1, LegsType DEF Inserted, Touched, LegSet
<1>3. ASSUME NEW w \in Touched(req[c])
      PROVE  /\ w \in Wallets
             /\ wallet'[w].balance = wallet[w].balance + LegOn(req[c], w).amount
             /\ NewRow(c, w).amount = LegOn(req[c], w).amount
             /\ NewRow(c, w).after = wallet'[w].balance
  <2>1. w \in Wallets /\ LegOn(req[c], w).amount \in Int
    BY <1>1, LegsType DEF LegType
  <2>2. seen[c][w].balance \in Int
    BY <2>1 DEF TypeInv, TypeOK
  <2>3. seen[c][w].balance = wallet[w].balance + LegOn(req[c], w).amount
    BY <1>1 DEF BalanceInv, BalanceOK
  <2>4. wallet'[w].balance = Stored(seen[c][w].balance)
    BY <1>1, <2>1 DEF Commit
  <2>. QED  BY <2>1, <2>2, <2>3, <2>4, StoredType DEF NewRow
<1>. QED  BY <1>1, <1>2, <1>3

\* Every step of the service keeps the rows and the balances reconciled.
LEMMA ReconcileStep ==
  Unit = 1 /\ TypeInv /\ BalanceInv /\ Reconciles /\ [Next]_vars => Reconciles'
<1>. SUFFICES ASSUME Unit = 1, TypeInv, BalanceInv, Reconciles, [Next]_vars PROVE Reconciles'
  OBVIOUS
<1>1. ASSUME ledger' = ledger, \A w \in Wallets : wallet'[w].balance = wallet[w].balance
      PROVE  Reconciles'
  BY <1>1 DEF Reconciles, LastAfter
<1>2. ASSUME NEW w \in Wallets, GetOrCreateByOwner(w) \/ SetStatus(w)
      PROVE  Reconciles'
  <2>1. ledger' = ledger /\ \A v \in Wallets : wallet'[v].balance = wallet[v].balance
    BY <1>2, StatusKeepsBalances DEF GetOrCreateByOwner, SetStatus
  <2>. QED  BY <1>1, <2>1
<1>3. ASSUME NEW c \in Clients, NEW told \in BOOLEAN, Commit(c, told)
      PROVE  Reconciles'
  <2>. SUFFICES ASSUME NEW w \in Wallets
                PROVE  /\ wallet'[w].balance = LastAfter(w)'
                       /\ \A i \in DOMAIN ledger'[w] :
                            ledger'[w][i].after =
                              (IF i = 1 THEN 0 ELSE ledger'[w][i - 1].after)
                                + ledger'[w][i].amount
    BY DEF Reconciles
  <2>1. /\ ledger[w] \in Seq(TransactionRows)
        /\ wallet[w].balance = LastAfter(w)
        /\ \A i \in DOMAIN ledger[w] :
             ledger[w][i].after =
               (IF i = 1 THEN 0 ELSE ledger[w][i - 1].after) + ledger[w][i].amount
    BY DEF Reconciles, TypeInv, TypeOK
  <2>2. CASE w \in Touched(req[c])
    <3>1. /\ ledger'[w] = Append(ledger[w], NewRow(c, w))
          /\ wallet'[w].balance = wallet[w].balance + NewRow(c, w).amount
          /\ NewRow(c, w).after = wallet'[w].balance
      BY <1>3, <2>2, CommitEffect DEF Commit
    <3>2. LastAfter(w)' = NewRow(c, w).after
      BY <2>1, <3>1 DEF LastAfter
    <3>3. ASSUME NEW i \in DOMAIN ledger'[w]
          PROVE  ledger'[w][i].after =
                   (IF i = 1 THEN 0 ELSE ledger'[w][i - 1].after) + ledger'[w][i].amount
      <4>1. CASE i \in DOMAIN ledger[w]
        BY <2>1, <3>1, <4>1
      <4>2. CASE i = Len(ledger[w]) + 1
        <5>1. ledger'[w][i] = NewRow(c, w)
          BY <2>1, <3>1, <4>2
        <5>2. LastAfter(w) = IF i = 1 THEN 0 ELSE ledger'[w][i - 1].after
          BY <2>1, <3>1, <4>2 DEF LastAfter
        <5>. QED  BY <2>1, <3>1, <5>1, <5>2
      <4>. QED  BY <2>1, <3>1, <4>1, <4>2
    <3>. QED  BY <3>1, <3>2, <3>3
  <2>3. CASE w \notin Touched(req[c])
    <3>1. ledger'[w] = ledger[w] /\ wallet'[w] = wallet[w]
      BY <1>3, <2>3, CommitEffect DEF Commit
    <3>. QED  BY <2>1, <3>1 DEF LastAfter
  <2>. QED  BY <2>2, <2>3
<1>. QED
  BY <1>1, <1>2, <1>3
     DEF Next, vars, Step, Begin, ReplayUnlocked, LockWallet, ReplayLocked, Apply, InsertRow,
         Rollback, Disconnect

\* If amounts carry no more decimals than the columns keep (they are counted in
\* that unit), the rows of every wallet add up to its balance, in every state.
THEOREM LedgerReconciles == Unit = 1 => (Spec => []Reconciles)
<1>. SUFFICES ASSUME Unit = 1 PROVE Spec => []Reconciles
  OBVIOUS
<1>1. Init => TypeInv /\ BalanceInv /\ Reconciles
  <2>1. Init => TypeInv
    BY BoundsAssumption
       DEF Init, TypeInv, TypeOK, TransactionOK, NoRow, Rows, Statuses, TransactionRows
  <2>2. Init => BalanceInv /\ Reconciles
    BY DEF Init, BalanceInv, BalanceOK, Reconciles, LastAfter, NoRow
  <2>. QED  BY <2>1, <2>2
<1>2. TypeInv /\ BalanceInv /\ Reconciles /\ [Next]_vars => Reconciles'
  BY ReconcileStep
<1>. QED  BY <1>1, <1>2, TypeStep, BalanceStep, PTL DEF Spec

\* A valid request touches each wallet with one leg.
LEMMA LegOnUnique ==
  ASSUME NEW r \in Requests, Valid(r), NEW l \in LegSet(r)
  PROVE  LegOn(r, l.wallet) = l
<1>1. l.wallet \in Touched(r)
  BY DEF Touched
<1>2. LegOn(r, l.wallet) \in LegSet(r) /\ LegOn(r, l.wallet).wallet = l.wallet
  BY <1>1, LegsType
<1>3. ASSUME NEW a \in LegType, Legs(r) = <<a>>
      PROVE  LegSet(r) = {a}
  BY <1>3 DEF LegSet
<1>4. ASSUME NEW a \in LegType, NEW b \in LegType, Legs(r) = <<a, b>>,
             a.wallet = r.from, b.wallet = r.to, r.op = "transfer"
      PROVE  LegSet(r) = {a, b} /\ a.wallet # b.wallet
  BY <1>4 DEF LegSet, Valid
<1>. QED  BY <1>2, <1>3, <1>4, LegsShape

\* A commit writes the row of every leg of its request, and keeps the rows there are.
LEMMA CommitWrites ==
  ASSUME TypeInv, NEW c \in Clients, NEW told \in BOOLEAN, Commit(c, told)
  PROVE  \A l \in LegSet(req[c]) : \E i \in DOMAIN ledger'[l.wallet] :
           /\ ledger'[l.wallet][i].key = l.key
           /\ ledger'[l.wallet][i].type = l.type
           /\ ledger'[l.wallet][i].amount = Stored(l.amount)
<1>1. req[c] \in Requests /\ Valid(req[c]) /\ Inserted(c) = Touched(req[c])
  <2>1. pc[c] = "insert" /\ ~(rows[c] < Len(Legs(req[c])))
    BY DEF Commit, InsertsLeft
  <2>2. req[c] \in Requests /\ Valid(req[c]) /\ rows[c] <= Len(Legs(req[c]))
    BY <2>1 DEF TypeInv, TransactionOK
  <2>3. 1..rows[c] = DOMAIN Legs(req[c])
    BY <2>1, <2>2, LegsType, RowsCount
  <2>. QED  BY <2>2, <2>3 DEF Inserted, Touched, LegSet
<1>2. ASSUME NEW l \in LegSet(req[c])
      PROVE  \E i \in DOMAIN ledger'[l.wallet] :
               /\ ledger'[l.wallet][i].key = l.key
               /\ ledger'[l.wallet][i].type = l.type
               /\ ledger'[l.wallet][i].amount = Stored(l.amount)
  <2>1. l.wallet \in Touched(req[c]) /\ l.wallet \in Wallets
    BY <1>1, LegsType DEF Touched
  <2>2. LegOn(req[c], l.wallet) = l
    BY <1>1, LegOnUnique
  <2>3. NewRow(c, l.wallet) = [type |-> l.type, amount |-> Stored(l.amount),
                               after |-> Stored(seen[c][l.wallet].balance), key |-> l.key]
    BY <2>2 DEF NewRow
  <2>4. ledger'[l.wallet] = Append(ledger[l.wallet], NewRow(c, l.wallet))
    BY <1>1, <2>1 DEF Commit
  <2>5. ledger[l.wallet] \in Seq(TransactionRows) /\ NewRow(c, l.wallet) \in TransactionRows
    <3>1. ledger'[l.wallet] \in Seq(TransactionRows)
      BY <2>1, CommitType
    <3>2. ledger[l.wallet] \in Seq(TransactionRows)
      BY <2>1 DEF TypeInv, TypeOK
    <3>. QED  BY <2>4, <3>1, <3>2
  <2>. DEFINE n == Len(ledger[l.wallet]) + 1
  <2>6. n \in DOMAIN ledger'[l.wallet] /\ ledger'[l.wallet][n] = NewRow(c, l.wallet)
    BY <2>4, <2>5
  <2>. HIDE DEF n
  <2>. QED  BY <2>3, <2>6
<1>. QED  BY <1>2

\* Rows are only ever added at the end of a ledger.
LEMMA LedgerGrows ==
  ASSUME TypeInv, [Next]_vars, NEW w \in Wallets, NEW i \in DOMAIN ledger[w]
  PROVE  i \in DOMAIN ledger'[w] /\ ledger'[w][i] = ledger[w][i]
<1>1. CASE ledger'[w] = ledger[w]
  BY <1>1
<1>2. ASSUME NEW c \in Clients, NEW told \in BOOLEAN, Commit(c, told), ledger'[w] # ledger[w]
      PROVE  i \in DOMAIN ledger'[w] /\ ledger'[w][i] = ledger[w][i]
  <2>1. ledger'[w] = Append(ledger[w], NewRow(c, w))
    BY <1>2 DEF Commit
  <2>2. ledger[w] \in Seq(TransactionRows)
    BY DEF TypeInv, TypeOK
  <2>. QED  BY <2>1, <2>2
<1>. QED
  BY <1>1, <1>2
     DEF Next, vars, Step, GetOrCreateByOwner, SetStatus, Begin, ReplayUnlocked, LockWallet,
         ReplayLocked, Apply, InsertRow, Rollback, Disconnect

\* A keyed request is answered with success only when its rows are committed, by its own
\* transaction or by that of an earlier try, and then they stay; with amounts that the
\* column keeps, a replay compares what was asked.
THEOREM WalletAckedIsDurable == Unit = 1 => (Spec => []AckedIsDurable)
<1>. SUFFICES ASSUME Unit = 1 PROVE Spec => []AckedIsDurable
  OBVIOUS
<1>1. Init => TypeInv /\ AckedIsDurable
  <2>1. Init => TypeInv
    BY BoundsAssumption
       DEF Init, TypeInv, TypeOK, TransactionOK, NoRow, Rows, Statuses, TransactionRows
  <2>2. Init => AckedIsDurable
    BY DEF Init, AckedIsDurable
  <2>. QED  BY <2>1, <2>2
<1>2. TypeInv /\ AckedIsDurable /\ [Next]_vars => AckedIsDurable'
  <2>. SUFFICES ASSUME TypeInv, AckedIsDurable, [Next]_vars,
                       NEW r \in acked', r.key # <<>>, NEW l \in LegSet(r)
                PROVE  \E i \in DOMAIN ledger'[l.wallet] :
                         /\ ledger'[l.wallet][i].key = l.key
                         /\ ledger'[l.wallet][i].type = l.type
                         /\ ledger'[l.wallet][i].amount = Stored(l.amount)
    BY DEF AckedIsDurable
  <2>1. CASE r \in acked
    <3>1. r \in Requests
      BY <2>1 DEF TypeInv, TypeOK
    <3>2. l.wallet \in Wallets
      BY <3>1, LegsType DEF Touched
    <3>3. PICK i \in DOMAIN ledger[l.wallet] :
            /\ ledger[l.wallet][i].key = l.key /\ ledger[l.wallet][i].type = l.type
            /\ ledger[l.wallet][i].amount = Stored(l.amount)
      BY <2>1 DEF AckedIsDurable
    <3>4. i \in DOMAIN ledger'[l.wallet] /\ ledger'[l.wallet][i] = ledger[l.wallet][i]
      BY <3>2, <3>3, LedgerGrows
    <3>. QED  BY <3>3, <3>4
  <2>2. ASSUME r \in Requests, Replayed(r), UNCHANGED ledger
        PROVE  \E i \in DOMAIN ledger'[l.wallet] :
                 /\ ledger'[l.wallet][i].key = l.key
                 /\ ledger'[l.wallet][i].type = l.type
                 /\ ledger'[l.wallet][i].amount = Stored(l.amount)
    <3>1. l \in LegType
      BY <2>2, LegsType
    <3>2. Stored(l.amount) = l.amount
      BY <3>1, StoredType DEF LegType
    <3>. QED  BY <2>2, <3>2 DEF Replayed, SameTransaction
  <2>3. ASSUME NEW c \in Clients, NEW told \in BOOLEAN, Commit(c, told), r \notin acked
        PROVE  \E i \in DOMAIN ledger'[l.wallet] :
                 /\ ledger'[l.wallet][i].key = l.key
                 /\ ledger'[l.wallet][i].type = l.type
                 /\ ledger'[l.wallet][i].amount = Stored(l.amount)
    <3>1. r = req[c]
      BY <2>3 DEF Commit
    <3>. QED  BY <2>3, <3>1, CommitWrites
  <2>4. ASSUME NEW c \in Clients, NEW q \in Requests, ReplayUnlocked(c, q), r \notin acked
        PROVE  r \in Requests /\ Replayed(r) /\ UNCHANGED ledger
    BY <2>4 DEF ReplayUnlocked
  <2>5. ASSUME NEW c \in Clients, ReplayLocked(c), r \notin acked
        PROVE  r \in Requests /\ Replayed(r) /\ UNCHANGED ledger
    <3>1. r = req[c] /\ Replayed(req[c]) /\ pc[c] = "apply" /\ UNCHANGED ledger
      BY <2>5 DEF ReplayLocked
    <3>. QED  BY <3>1 DEF TypeInv, TransactionOK
  <2>. QED
    BY <2>1, <2>2, <2>3, <2>4, <2>5
       DEF Next, vars, Step, GetOrCreateByOwner, SetStatus, Begin, LockWallet, Apply, InsertRow,
           Rollback, Disconnect
<1>. QED  BY <1>1, <1>2, TypeStep, PTL DEF Spec

-----------------------------------------------------------------------------
(* The refinement.  A commit is the posting of its request in the abstract *)
(* ledger; every other step leaves balances and spent keys alone.          *)

\* The legs of the abstract ledger are those of the wallet service.
LEMMA AbstractLegs ==
  ASSUME NEW r \in Requests
  PROVE  /\ AbstractLedger!LegSet(r) = LegSet(r)
         /\ AbstractLedger!Touched(r) = Touched(r)
         /\ AbstractLedger!KeysOf(r) = KeysOf(r)
         /\ AbstractLedger!Valid(r) = Valid(r)
         /\ \A w : AbstractLedger!LegOn(r, w) = LegOn(r, w)
<1>1. AbstractLedger!Legs(r) = Legs(r)
  BY DEF AbstractLedger!Legs, Legs, AbstractLedger!Leg, Leg,
         AbstractLedger!TransferKey, TransferKey
<1>2. AbstractLedger!LegSet(r) = LegSet(r)
  BY <1>1 DEF AbstractLedger!LegSet, LegSet
<1>. QED
  BY <1>2 DEF AbstractLedger!Touched, Touched, AbstractLedger!KeysOf, KeysOf,
              AbstractLedger!Valid, Valid, AbstractLedger!LegOn, LegOn

\* A commit is a posting of its request in the abstract ledger.
LEMMA CommitPosts ==
  ASSUME Unit = 1, TypeInv, KeyInv, BalanceInv, NEW c \in Clients, NEW told \in BOOLEAN,
         Commit(c, told)
  PROVE  AbstractLedger!Post(req[c]) /\ req[c] \in Requests
<1>. DEFINE r == req[c]
<1>1. /\ r \in Requests /\ Inserted(c) = Touched(r) /\ held[c] = Touched(r) /\ Valid(r)
      /\ Pending(c) = KeysOf(r)
  <2>1. pc[c] = "insert" /\ ~(rows[c] < Len(Legs(r)))
    BY DEF Commit, InsertsLeft
  <2>2. r \in Requests /\ Valid(r) /\ rows[c] <= Len(Legs(r))
    BY <2>1 DEF TypeInv, TransactionOK
  <2>3. rows[c] = Len(Legs(r))
    BY <2>1, <2>2, LegsType, RowsCount
  <2>4. Pending(c) = KeysOf(r)
    BY <2>2, <2>3, LegsType DEF Pending, KeysOf, LegSet
  <2>. QED  BY <2>2, <2>4, CommitEffect
<1>. HIDE DEF r
<1>2. KeysOf(r) \cap SpentKeys = {}
  BY <1>1 DEF KeyInv, SpentKeys
<1>3. \A l \in LegSet(r) : Funds[l.wallet] + l.amount >= 0
  <2>. SUFFICES ASSUME NEW l \in LegSet(r) PROVE Funds[l.wallet] + l.amount >= 0
    OBVIOUS
  <2>1. l.wallet \in Touched(r) /\ l.wallet \in Wallets
    BY <1>1, LegsType DEF Touched
  <2>2. wallet'[l.wallet].balance = wallet[l.wallet].balance + l.amount
    BY <1>1, <2>1, CommitEffect, LegOnUnique DEF r
  <2>3. wallet'[l.wallet].balance >= 0
    <3>1. TypeInv'
      <4>1. [Next]_vars
        BY DEF Next, Step
      <4>. QED  BY <4>1, TypeStep
    <3>. QED  BY <2>1, <3>1 DEF TypeInv, TypeOK, Rows
  <2>. QED  BY <2>1, <2>2, <2>3 DEF Funds
<1>4. Funds' = [w \in Wallets |-> IF w \in Touched(r) THEN Funds[w] + LegOn(r, w).amount
                                                      ELSE Funds[w]]
  <2>1. \A w \in Touched(r) : wallet'[w].balance = wallet[w].balance + LegOn(r, w).amount
    BY CommitEffect DEF r
  <2>2. \A w \in Wallets \ Touched(r) : wallet'[w] = wallet[w]
    BY <1>1 DEF Commit
  <2>. QED  BY <2>1, <2>2 DEF Funds
<1>5. SpentKeys' = SpentKeys \cup KeysOf(r)
  <2>1. ledger' = [w \in Wallets |-> IF w \in Touched(r) THEN Append(ledger[w], NewRow(c, w))
                                                         ELSE ledger[w]]
    BY <1>1 DEF Commit
  <2>2. \A w \in Wallets : ledger[w] \in Seq(TransactionRows)
    BY DEF TypeInv, TypeOK
  <2>3. \A w \in Touched(r) : NewRow(c, w).key = LegOn(r, w).key /\ LegOn(r, w) \in LegSet(r)
    BY <1>1, LegsType DEF NewRow, r
  <2>4. ASSUME NEW k, k # <<>>
        PROVE  Used(k)' <=> Used(k) \/ k \in KeysOf(r)
    <3>1. ASSUME Used(k) PROVE Used(k)'
      BY <2>1, <2>2, <3>1 DEF Used
    <3>2. ASSUME k \in KeysOf(r) PROVE Used(k)'
      <4>1. PICK l \in LegSet(r) : l.key = k
        BY <3>2 DEF KeysOf
      <4>2. l.wallet \in Touched(r) /\ l.wallet \in Wallets /\ LegOn(r, l.wallet) = l
        BY <1>1, LegsType, LegOnUnique DEF Touched
      <4>3. ledger'[l.wallet] = Append(ledger[l.wallet], NewRow(c, l.wallet))
            /\ NewRow(c, l.wallet).key = k
        BY <2>1, <2>3, <4>1, <4>2
      <4>4. Len(ledger[l.wallet]) + 1 \in DOMAIN ledger'[l.wallet]
            /\ ledger'[l.wallet][Len(ledger[l.wallet]) + 1].key = k
        BY <2>2, <4>2, <4>3
      <4>. QED  BY <4>2, <4>4 DEF Used
    <3>3. ASSUME Used(k)', ~Used(k) PROVE k \in KeysOf(r)
      <4>w. PICK w \in Wallets : \E i \in DOMAIN ledger'[w] : ledger'[w][i].key = k
        BY <3>3 DEF Used
      <4>1. PICK i \in DOMAIN ledger'[w] : ledger'[w][i].key = k
        BY <4>w
      <4>2. ~(i \in DOMAIN ledger[w] /\ ledger'[w][i] = ledger[w][i])
        BY <3>3, <4>1 DEF Used
      <4>3. w \in Touched(r) /\ ledger'[w][i] = NewRow(c, w)
        BY <2>1, <2>2, <4>1, <4>2
      <4>. QED  BY <2>3, <2>4, <4>1, <4>3 DEF KeysOf
    <3>. QED  BY <3>1, <3>2, <3>3
  <2>5. \A q \in Requests : <<>> \notin KeysOf(q)
    BY DEF KeysOf
  <2>. QED  BY <1>1, <2>4, <2>5 DEF SpentKeys
<1>6. AbstractLedger!Post(r)
  BY <1>1, <1>2, <1>3, <1>4, <1>5, AbstractLegs
     DEF AbstractLedger!Post, Funds, SpentKeys
<1>. QED  BY <1>1, <1>6 DEF r

\* The wallet tables, under row locks, retries and crashes, implement the abstract
\* ledger: each request takes effect in one step, and a keyed one at most once.
THEOREM WalletImplementsLedger == Unit = 1 => (Spec => ImplementsLedger)
<1>. SUFFICES ASSUME Unit = 1 PROVE Spec => ImplementsLedger
  OBVIOUS
<1>1. Init => TypeInv /\ KeyInv /\ BalanceInv
  <2>1. Init => TypeInv
    BY BoundsAssumption
       DEF Init, TypeInv, TypeOK, TransactionOK, NoRow, Rows, Statuses, TransactionRows
  <2>2. Init => KeyInv /\ BalanceInv
    BY DEF Init, KeyInv, KeySpentOnce, Pending, BalanceInv, BalanceOK
  <2>. QED  BY <2>1, <2>2
<1>2. Init => AbstractLedger!Init
  BY DEF Init, AbstractLedger!Init, NoRow, Used, Funds, SpentKeys
<1>3. TypeInv /\ KeyInv /\ BalanceInv /\ [Next]_vars
        => [AbstractLedger!Next]_<<Funds, SpentKeys>>
  <2>. SUFFICES ASSUME TypeInv, KeyInv, BalanceInv, [Next]_vars
                PROVE  [AbstractLedger!Next]_<<Funds, SpentKeys>>
    OBVIOUS
  <2>1. ASSUME ledger' = ledger, \A w \in Wallets : wallet'[w].balance = wallet[w].balance
        PROVE  UNCHANGED <<Funds, SpentKeys>>
    BY <2>1 DEF Funds, SpentKeys, Used
  <2>2. ASSUME NEW w \in Wallets, GetOrCreateByOwner(w) \/ SetStatus(w)
        PROVE  UNCHANGED <<Funds, SpentKeys>>
    BY <2>1, <2>2, StatusKeepsBalances DEF GetOrCreateByOwner, SetStatus
  <2>3. ASSUME NEW c \in Clients, NEW told \in BOOLEAN, Commit(c, told)
        PROVE  AbstractLedger!Next
    BY <2>3, CommitPosts DEF AbstractLedger!Next
  <2>. QED
    BY <2>1, <2>2, <2>3
       DEF Next, vars, Step, Begin, ReplayUnlocked, LockWallet, ReplayLocked, Apply,
           InsertRow, Rollback, Disconnect
<1>. QED
  BY <1>1, <1>2, <1>3, TypeStep, KeyStep, BalanceStep, PTL
     DEF Spec, ImplementsLedger, AbstractLedger!Spec

-----------------------------------------------------------------------------
(* Circular waits.  Row locks are taken in the order of the wallets' ids,   *)
(* and who waits for an index entry waits for one that waits for none.      *)

\* A set of numbers has a least one.
LEMMA LeastNumber ==
  ASSUME NEW S \in SUBSET Nat, S # {}
  PROVE  \E n \in S : \A m \in S : ~(m < n)
<1> DEFINE R == {ss \in Nat \X Nat : ss[1] < ss[2]}
<1>1. IsWellFoundedOn(R, Nat)
  BY NatLessThanWellFounded DEF OpToRel
<1> HIDE DEF R
<1>2. PICK n \in S : \A m \in S : ~(<<m, n>> \in R)
  BY <1>1, WFMin
<1>3. \A m \in S : ~(m < n)
  BY <1>2 DEF R
<1> QED
  BY <1>3

\* Of finitely many clients, each with a number, one has the highest.
LEMMA HighestExists ==
  ASSUME NEW S, IsFiniteSet(S), S # {}, NEW f \in [S -> Nat]
  PROVE  \E c \in S : \A d \in S : ~(f[c] < f[d])
<1> DEFINE Above(c) == {d \in S : f[c] < f[d]}
           N == {Cardinality(Above(c)) : c \in S}
<1>1. ASSUME NEW c \in S PROVE IsFiniteSet(Above(c)) /\ Cardinality(Above(c)) \in Nat
  <2>1. Above(c) \in SUBSET S
    OBVIOUS
  <2> QED
    BY <2>1, FS_Subset, FS_CardinalityType
<1>2. N \in SUBSET Nat /\ N # {}
  BY <1>1
<1>3. PICK n \in N : \A m \in N : ~(m < n)
  BY <1>2, LeastNumber
<1>4. PICK c \in S : n = Cardinality(Above(c))
  OBVIOUS
<1>5. ASSUME NEW d \in S, f[c] < f[d] PROVE FALSE
  <2>1. Above(d) \in SUBSET Above(c) /\ d \in Above(c) /\ d \notin Above(d)
    BY <1>5
  <2>2. Above(d) # Above(c)
    BY <2>1
  <2>3. Cardinality(Above(d)) <= Cardinality(Above(c))
        /\ Cardinality(Above(d)) # Cardinality(Above(c))
    BY <1>1, <2>1, <2>2, FS_Subset
  <2>4. Cardinality(Above(d)) \in N /\ ~(Cardinality(Above(d)) < Cardinality(Above(c)))
    BY <1>3, <1>4
  <2>5. Cardinality(Above(d)) \in Nat /\ Cardinality(Above(c)) \in Nat
    BY <1>1
  <2> QED
    BY <2>3, <2>4, <2>5
<1> QED
  BY <1>5

\* The wallets a client has locked come before those it has still to lock.
LockOrder ==
  \A c \in Clients : pc[c] = "lock" => \A w \in held[c], v \in Unlocked(c) : w < v

LEMMA LockOrderStep == TypeInv /\ LockOrder /\ [Next]_vars => LockOrder'
<1>. SUFFICES ASSUME TypeInv, LockOrder, [Next]_vars PROVE LockOrder'
  OBVIOUS
<1>1. ASSUME NEW c \in Clients, \A d \in Clients \ {c} : UNCHANGED <<pc[d], req[d], held[d]>>,
             pc'[c] = "lock" => \A w \in held'[c], v \in Unlocked(c)' : w < v
      PROVE  LockOrder'
  BY <1>1 DEF LockOrder, Unlocked
<1>2. ASSUME NEW c \in Clients, NEW r \in Requests, Begin(c, r)
      PROVE  LockOrder'
  <2>1. /\ \A d \in Clients \ {c} : UNCHANGED <<pc[d], req[d], held[d]>>
        /\ held'[c] = {}
    BY <1>2 DEF Begin, TypeInv, TypeOK, TransactionOK
  <2>. QED  BY <1>1, <2>1
<1>3. ASSUME NEW c \in Clients, LockWallet(c)
      PROVE  LockOrder'
  <2>. DEFINE w == NextToLock(c)
  <2>1. /\ pc[c] = "lock" /\ req[c] \in Requests /\ Unlocked(c) # {}
    BY <1>3 DEF LockWallet, TypeInv, TransactionOK, Unlocked
  <2>2. /\ w \in Unlocked(c) /\ \A v \in Unlocked(c) : w <= v
        /\ Unlocked(c) \subseteq Nat
    BY <2>1, UnlockedMinimum, LegsType, WalletsAssumption DEF Unlocked
  <2>3. held' = [held EXCEPT ![c] = @ \cup {w}] /\ req' = req
        /\ \A d \in Clients \ {c} : pc'[d] = pc[d]
    BY <1>3 DEF LockWallet, TypeInv, TypeOK
  <2>. HIDE DEF w
  <2>4. held'[c] = held[c] \cup {w} /\ \A d \in Clients \ {c} : held'[d] = held[d]
    BY <2>3 DEF TypeInv, TypeOK
  <2>5. Unlocked(c)' = Unlocked(c) \ {w}
    BY <2>3, <2>4 DEF Unlocked
  <2>6. \A x \in held'[c], v \in Unlocked(c)' : x < v
    BY <2>1, <2>2, <2>4, <2>5 DEF LockOrder
  <2>. QED  BY <1>1, <2>3, <2>4, <2>6
<1>4. ASSUME NEW c \in Clients, EndTransaction(c)
      PROVE  LockOrder'
  BY <1>1, <1>4 DEF EndTransaction, TypeInv, TypeOK
<1>5. ASSUME NEW c \in Clients, Apply(c)
      PROVE  LockOrder'
  BY <1>1, <1>5 DEF Apply, TypeInv, TypeOK
<1>6. ASSUME UNCHANGED <<pc, req, held>>
      PROVE  LockOrder'
  BY <1>6 DEF LockOrder, Unlocked
<1>. QED
  BY <1>2, <1>3, <1>4, <1>5, <1>6
     DEF Next, Step, GetOrCreateByOwner, SetStatus, ReplayUnlocked, ReplayLocked, InsertRow,
         Commit, Rollback, Disconnect, vars

\* The keys of the two rows of transfers, the one way and the other, are never the same.
LEMMA SidesDiffer ==
  ASSUME NEW k \in Seq(KeyParts), NEW l \in Seq(KeyParts)
  PROVE  Append(k, "in") # Append(l, "out")
<1>. SUFFICES ASSUME Append(k, "in") = Append(l, "out") PROVE FALSE
  OBVIOUS
<1>1. /\ Append(k, "in")[Len(k) + 1] = "in" /\ Len(Append(k, "in")) = Len(k) + 1
      /\ Append(l, "out")[Len(l) + 1] = "out" /\ Len(Append(l, "out")) = Len(l) + 1
  BY KeyPartsAssumption
<1>. QED  BY <1>1

\* A client that has inserted a row and has one left is half-way through a transfer.
LEMMA HalfWay ==
  ASSUME TypeInv, NEW d \in Clients, Pending(d) # {}, InsertsLeft(d)
  PROVE  /\ pc[d] = "insert" /\ req[d] \in Requests
         /\ NextKey(d) = TransferKey(req[d].key, "in")
         /\ Pending(d) \subseteq {TransferKey(req[d].key, "out")}
<1>1. rows[d] \in Nat /\ rows[d] # 0
  BY RowsCount DEF Pending
<1>2. pc[d] = "insert" /\ req[d] \in Requests
  BY <1>1 DEF TypeInv, TypeOK, TransactionOK
<1>3. Len(Legs(req[d])) \in 1..2 /\ rows[d] < Len(Legs(req[d]))
  BY <1>2, LegsType DEF InsertsLeft
<1>4. rows[d] = 1 /\ Len(Legs(req[d])) = 2
  <2>. DEFINE n == rows[d]  m == Len(Legs(req[d]))
  <2>1. n \in Nat /\ n # 0 /\ m \in 1..2 /\ n < m
    BY <1>1, <1>3
  <2>. HIDE DEF n, m
  <2>2. n = 1 /\ m = 2
    BY <2>1
  <2>. QED  BY <2>2 DEF n, m
<1>5. req[d].op = "transfer"
  <2>1. Len(Legs(req[d])) # 1
    BY <1>4
  <2>. QED  BY <1>2, <2>1, LegsShape
<1>6. Legs(req[d]) =
        <<Leg(req[d].from, "transfer_out", -req[d].amount, TransferKey(req[d].key, "out")),
          Leg(req[d].to, "transfer_in", req[d].amount, TransferKey(req[d].key, "in"))>>
  BY <1>5 DEF Legs
<1>7. Legs(req[d])[1].key = TransferKey(req[d].key, "out")
      /\ Legs(req[d])[2].key = TransferKey(req[d].key, "in")
  BY <1>6 DEF Leg
<1>8. NextKey(d) = TransferKey(req[d].key, "in")
  BY <1>4, <1>7 DEF NextKey
<1>9. Pending(d) \subseteq {TransferKey(req[d].key, "out")}
  <2>1. \A i \in 1..rows[d] : i = 1
    BY <1>4
  <2>. QED  BY <1>7, <2>1 DEF Pending
<1>. QED  BY <1>2, <1>8, <1>9

\* Who is waited for because of an index entry does not itself wait for one of a client
\* that waits.
LEMMA InsertWaitsEnd ==
  ASSUME TypeInv, NEW c \in Clients, NEW d \in KeyHeldBy(c), NEW e \in KeyHeldBy(d),
         InsertsLeft(d), InsertsLeft(e)
  PROVE  FALSE
<1>1. d \in Clients /\ e \in Clients /\ Pending(d) # {} /\ Pending(e) # {}
      /\ NextKey(d) \in Pending(e) /\ NextKey(d) # <<>>
  BY DEF KeyHeldBy, Pending
<1>2. /\ req[d] \in Requests /\ NextKey(d) = TransferKey(req[d].key, "in")
      /\ req[e] \in Requests /\ NextKey(d) = TransferKey(req[e].key, "out")
  BY <1>1, HalfWay
<1>3. req[d].key \in Seq(KeyParts) /\ req[e].key \in Seq(KeyParts)
  BY <1>2, RequestsAssumption
<1>4. NextKey(d) = Append(req[d].key, "in") /\ NextKey(d) = Append(req[e].key, "out")
  BY <1>1, <1>2 DEF TransferKey
<1>. QED  BY <1>3, <1>4, SidesDiffer

\* Of finitely many clients one waits for none of them.
LEMMA NoCircle ==
  ASSUME TypeInv, LockOrder, NEW S \in SUBSET Clients, S # {}, IsFiniteSet(S),
         \A c \in S : Waits(c) \cap S # {}
  PROVE  FALSE
<1>1. \A c \in Clients : /\ pc[c] = "lock" => Waits(c) = {d \in Clients : NextToLock(c) \in held[d]}
                         /\ pc[c] = "insert" /\ InsertsLeft(c) => Waits(c) = KeyHeldBy(c)
                         /\ pc[c] # "lock" /\ ~(pc[c] = "insert" /\ InsertsLeft(c))
                              => Waits(c) = {}
  BY DEF Waits
<1>2. \A c \in S : pc[c] = "lock" \/ (pc[c] = "insert" /\ InsertsLeft(c))
  BY <1>1
<1>3. ASSUME NEW c \in S, pc[c] = "insert" PROVE FALSE
  <2>1. PICK d \in S : d \in KeyHeldBy(c)
    BY <1>1, <1>2, <1>3
  <2>2. ASSUME NEW x \in S, NEW y \in S, y \in KeyHeldBy(x)
        PROVE  pc[y] = "insert" /\ InsertsLeft(y)
    <3>1. Pending(y) # {}
      BY <2>2 DEF KeyHeldBy
    <3>2. rows[y] # 0
      BY <3>1 DEF Pending
    <3>3. pc[y] # "lock"
      BY <3>2 DEF TypeInv, TransactionOK
    <3>. QED  BY <1>2, <3>3
  <2>3. pc[d] = "insert" /\ InsertsLeft(d)
    BY <2>1, <2>2
  <2>4. PICK e \in S : e \in KeyHeldBy(d)
    BY <1>1, <2>3
  <2>5. InsertsLeft(e)
    BY <2>2, <2>4
  <2>. QED  BY <2>1, <2>3, <2>4, <2>5, InsertWaitsEnd
<1>4. ASSUME NEW c \in S
      PROVE  /\ pc[c] = "lock" /\ NextToLock(c) \in Nat /\ NextToLock(c) \in Unlocked(c)
             /\ \E d \in S : NextToLock(c) \in held[d]
  <2>1. pc[c] = "lock"
    BY <1>2, <1>3
  <2>2. req[c] \in Requests /\ Unlocked(c) # {}
    BY <2>1 DEF TypeInv, TransactionOK, Unlocked
  <2>3. NextToLock(c) \in Unlocked(c) /\ Unlocked(c) \subseteq Nat
    BY <2>2, UnlockedMinimum, LegsType, WalletsAssumption DEF Unlocked
  <2>. QED  BY <1>1, <2>1, <2>3
<1>. DEFINE f == [c \in S |-> NextToLock(c)]
<1>5. f \in [S -> Nat] /\ \A c \in S : f[c] = NextToLock(c)
  BY <1>4
<1>. HIDE DEF f
<1>6. PICK c \in S : \A d \in S : ~(f[c] < f[d])
  BY <1>5, HighestExists
<1>7. PICK d \in S : NextToLock(c) \in held[d]
  BY <1>4
<1>8. NextToLock(c) < NextToLock(d)
  BY <1>4, <1>7 DEF LockOrder
<1>. QED  BY <1>5, <1>6, <1>8

\* With finitely many goroutines, whatever wallets, requests and keys: lock waits and
\* waits for index entries close no circle, so PostgreSQL has no deadlock to break.
THEOREM WalletNoCircularWait == IsFiniteSet(Clients) => (Spec => []NoCircularWait)
<1>. SUFFICES ASSUME IsFiniteSet(Clients) PROVE Spec => []NoCircularWait
  OBVIOUS
<1>1. Init => TypeInv /\ LockOrder
  BY BoundsAssumption
     DEF Init, TypeInv, TypeOK, TransactionOK, NoRow, Rows, Statuses, TransactionRows, LockOrder
<1>2. TypeInv /\ LockOrder => NoCircularWait
  <2>. SUFFICES ASSUME TypeInv, LockOrder, NEW S \in SUBSET Clients, S # {},
                       \A c \in S : Waits(c) \cap S # {}
                PROVE  FALSE
    BY DEF NoCircularWait
  <2>1. IsFiniteSet(S)
    BY FS_Subset
  <2>. QED  BY <2>1, NoCircle
<1>. QED  BY <1>1, <1>2, TypeStep, LockOrderStep, PTL DEF Spec
=============================================================================

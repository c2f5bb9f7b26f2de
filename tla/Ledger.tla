------------------------------- MODULE Ledger -------------------------------
(***************************************************************************)
(* What the wallet service promises: every request is posted in one        *)
(* indivisible step, only if no balance becomes negative, and a request    *)
(* that carries an idempotency key is posted at most once.                 *)
(***************************************************************************)
EXTENDS WalletLegs

VARIABLES
  funds,   \* balance of each wallet
  spent    \* idempotency keys that have been posted

Init == funds = [w \in Wallets |-> 0] /\ spent = {}

Post(r) ==
  /\ Valid(r)
  /\ KeysOf(r) \cap spent = {}
  /\ \A l \in LegSet(r) : funds[l.wallet] + l.amount >= 0
  /\ funds' = [w \in Wallets |->
                 IF w \in Touched(r) THEN funds[w] + LegOn(r, w).amount ELSE funds[w]]
  /\ spent' = spent \cup KeysOf(r)

Next == \E r \in Requests : Post(r)

Spec == Init /\ [][Next]_<<funds, spent>>
=============================================================================

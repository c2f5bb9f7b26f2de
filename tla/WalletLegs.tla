---------------------------- MODULE WalletLegs -----------------------------
(***************************************************************************)
(* What a wallet request asks for: the transaction rows (legs) that a      *)
(* credit, a debit or a transfer writes, with their wallets, signed        *)
(* amounts and idempotency keys.  A key is the sequence of its ':'-        *)
(* separated parts, <<>> when the caller gave none.                        *)
(***************************************************************************)
EXTENDS Integers, Sequences, FiniteSets

CONSTANTS
  Wallets,      \* wallet ids; uuid strings are ordered, numbers stand for them
  KeyParts,     \* the ':'-separated parts idempotency keys are made of
  Requests      \* the requests clients may send, and send again

Operations == {"credit", "debit", "transfer"}

ASSUME WalletsAssumption  == Wallets \subseteq Nat
ASSUME KeyPartsAssumption == {"out", "in"} \subseteq KeyParts
ASSUME RequestsAssumption ==
  Requests \subseteq [op : Operations, from : Wallets, to : Wallets,
                      amount : Nat \ {0}, key : Seq(KeyParts)]

Leg(w, t, a, k) == [wallet |-> w, type |-> t, amount |-> a, key |-> k]

TransferKey(k, side) == IF k = <<>> THEN <<>> ELSE Append(k, side)

\* The transaction rows a request writes, in the order it inserts them.
Legs(r) ==
  CASE r.op = "credit"   -> <<Leg(r.to, "recharge", r.amount, r.key)>>
    [] r.op = "debit"    -> <<Leg(r.from, "consume", -r.amount, r.key)>>
    [] r.op = "transfer" ->
         <<Leg(r.from, "transfer_out", -r.amount, TransferKey(r.key, "out")),
           Leg(r.to, "transfer_in", r.amount, TransferKey(r.key, "in"))>>

LegSet(r)   == {Legs(r)[i] : i \in DOMAIN Legs(r)}
Touched(r)  == {l.wallet : l \in LegSet(r)}
LegOn(r, w) == CHOOSE l \in LegSet(r) : l.wallet = w
KeysOf(r)   == {l.key : l \in LegSet(r)} \ {<<>>}

\* Transfer refuses to move money from a wallet to itself.
Valid(r) == r.op = "transfer" => r.from # r.to
=============================================================================

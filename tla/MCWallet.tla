------------------------------ MODULE MCWallet ------------------------------
(* Small instances of Wallet for TLC. *)
EXTENDS Wallet

Credit(w, a, k)      == [op |-> "credit", from |-> w, to |-> w, amount |-> a, key |-> k]
Debit(w, a, k)       == [op |-> "debit", from |-> w, to |-> w, amount |-> a, key |-> k]
Transfer(f, t, a, k) == [op |-> "transfer", from |-> f, to |-> t, amount |-> a, key |-> k]

\* Opposite transfers, one of them keyed; a debit and a credit of different
\* wallets with the key which that transfer derives for its outgoing row; and a credit
\* that fills the column each time it is sent.
ContendedRequests ==
  {Credit(1, 1, <<>>), Debit(1, 1, <<"t", "out">>), Credit(3, 1, <<"t", "out">>),
   Transfer(1, 2, 1, <<"t">>), Transfer(2, 1, 1, <<>>)}

\* The keyed transfer is retried, and the first wallet is credited twice.
MCTries == [r \in Requests |-> IF r.key = <<"t">> \/ r = Credit(1, 1, <<>>) THEN 2 ELSE 1]

\* Amounts with more decimals than the column keeps: the unit is 2.
FractionalRequests ==
  {Credit(1, 2, <<"k">>), Credit(2, 2, <<>>), Transfer(1, 2, 1, <<>>), Debit(1, 3, <<>>)}
=============================================================================

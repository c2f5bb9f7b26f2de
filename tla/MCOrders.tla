------------------------------ MODULE MCOrders ------------------------------
(* Small instances of Orders for TLC.  An item is its price: the wallet pays for *)
(* two of the cheap one, or for one of the dear one.                             *)
EXTENDS Orders, TLC

MCPrice   == [i \in Items |-> i]
MCOpening == [u \in Users |-> 2]

Symmetry == Permutations(Clients) \cup Permutations(Workers) \cup Permutations(Orders)
=============================================================================

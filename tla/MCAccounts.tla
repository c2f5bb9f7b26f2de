----------------------------- MODULE MCAccounts -----------------------------
(***************************************************************************)
(* What a request meets before its handler besides the gateway, the limits *)
(* of its address and JWTAuth with the accounts, and the lists that it may *)
(* ask for.  They share nothing: "part" says which of them a behaviour is  *)
(* about, the others stay as they began.  The states are the sum of the    *)
(* three, not their product.                                               *)
(***************************************************************************)
EXTENDS RateLimits, Accounts, Listings

CONSTANTS u1, u2, d1, d2, e1

MCOwnerOf    == [d \in Devices |-> IF d = d1 THEN u1 ELSE u2]
MCFirstEmail == [u \in Users |-> IF u = u1 THEN e1 ELSE None]

VARIABLE part
allVars == <<limitVars, accountVars, listVars, part>>

MCInit ==
  /\ LimitInit /\ AccountInit /\ ListInit
  /\ \/ part = "limits" /\ list = ChangeLogs
     \/ part = "accounts" /\ backend = "none" /\ list = ChangeLogs
     \/ part = "lists" /\ backend = "none"

MCNext ==
  \/ part = "limits" /\ LimitNext /\ UNCHANGED <<accountVars, listVars, part>>
  \/ part = "accounts" /\ AccountNext /\ UNCHANGED <<limitVars, listVars, part>>
  \/ part = "lists" /\ ListNext /\ UNCHANGED <<limitVars, accountVars, part>>

MCSpec == MCInit /\ [][MCNext]_allVars
=============================================================================

---------------------------- MODULE PolicyProofs ----------------------------
(***************************************************************************)
(* Theorems about groups and roles: superadmin keeps role:manage, and a    *)
(* group keeps its owner as a member, for any number of calls, nodes,      *)
(* people, groups and roles, through restarts and failures.                *)
(***************************************************************************)
EXTENDS PolicyCache, TLAPS

Places == {"new", "ask", "miss", "wait", "run", "owner", "found", "member", "deleting",
           "insert", "reread", "changed", "publish", "done"}
Asked  == [kind : DOMAIN Requires, who : People, group : Groups, target : People,
           role : Roles, asked : SUBSET Perms]
Grant  == [role : Roles, perm : Perms, by : Calls \cup {Nil}]
TxType == [sees : SUBSET Grant, deleted : SUBSET Grant, added : SUBSET Grant,
           todo : SUBSET Perms]

Resting == {"new", "done"}

PolicyTypeOK ==
  /\ at \in [Calls -> Places]
  /\ call \in [Calls -> Asked \cup {Nil}]
  /\ \A c \in Calls : at[c] \notin Resting => call[c] \in Asked
  /\ tx \in [Calls -> TxType]
  /\ owner \in [Groups -> People \cup {Nil}]
  /\ member \in [Groups -> [People -> Roles \cup {Nil}]]
  /\ grants \subseteq Grant /\ known \subseteq Groups


-----------------------------------------------------------------------------
(* Types *)

LEMMA NothingHasType == Nothing \in TxType
BY DEF Nothing, TxType

\* A call that is answered keeps the types.
LEMMA AnswerKeepsTypes ==
  ASSUME PolicyTypeOK, NEW C, Answer(C)
  PROVE  /\ at' \in [Calls -> Places] /\ call' \in [Calls -> Asked \cup {Nil}]
         /\ \A c \in Calls : at'[c] \notin Resting => call'[c] \in Asked
         /\ tx' \in [Calls -> TxType]
BY NothingHasType DEF PolicyTypeOK, Answer, Places, Resting

\* So does one that has its enforcer.
LEMMA DecideKeepsTypes ==
  ASSUME PolicyTypeOK, NEW C \in SUBSET {c \in Calls : at[c] \notin Resting}, NEW policy,
         Decide(C, policy)
  PROVE  /\ at' \in [Calls -> Places] /\ call' \in [Calls -> Asked \cup {Nil}]
         /\ \A c \in Calls : at'[c] \notin Resting => call'[c] \in Asked
<1> DEFINE ok == {c \in C : Allowed(c, policy)}
<1>1. /\ at' = [c \in Calls |-> IF c \in ok THEN "run" ELSE IF c \in C THEN "done" ELSE at[c]]
      /\ call' = [c \in Calls |-> IF c \in C \ ok THEN Nil ELSE call[c]]
  BY DEF Decide
<1>2. ok \subseteq C /\ \A c \in C : c \in Calls /\ at[c] \notin Resting
  OBVIOUS
<1> HIDE DEF ok
<1>3. at' \in [Calls -> Places]
  BY <1>1 DEF PolicyTypeOK, Places
<1>4. call' \in [Calls -> Asked \cup {Nil}]
  BY <1>1 DEF PolicyTypeOK
<1>5. ASSUME NEW c \in Calls, at'[c] \notin Resting PROVE call'[c] \in Asked
  <2>1. c \in ok \/ (c \notin C /\ at[c] \notin Resting)
    BY <1>1, <1>5 DEF Resting
  <2>2. call'[c] = call[c] /\ at[c] \notin Resting
    BY <1>1, <1>2, <2>1
  <2> QED
    BY <2>2 DEF PolicyTypeOK
<1> QED
  BY <1>3, <1>4, <1>5

LEMMA PolicyInitTypes == PolicyInit => PolicyTypeOK
<1> SUFFICES ASSUME PolicyInit PROVE PolicyTypeOK
  OBVIOUS
<1> USE PolicyAssumption DEF PolicyInit, PolicyTypeOK
<1>1. at \in [Calls -> Places] /\ call \in [Calls -> Asked \cup {Nil}]
      /\ \A c \in Calls : at[c] \notin Resting => call[c] \in Asked
  BY DEF Places, Resting
<1>2. tx \in [Calls -> TxType]
  BY NothingHasType
<1>3. grants \subseteq Grant
  BY DEF Grant
<1> QED
  BY <1>1, <1>2, <1>3

LEMMA TableStepTypes ==
  ASSUME PolicyTypeOK, NEW c \in Calls, TableStep(c)
  PROVE  PolicyTypeOK'
<1> USE PolicyAssumption DEF PolicyTypeOK, tables, Step
<1>0. at[c] \notin Resting => call[c] \in Asked
  OBVIOUS
<1>1. CASE RegisterGroup(c)
  BY <1>0, <1>1 DEF RegisterGroup, Places, Resting, Asked
<1>2. CASE AddOwner(c)
  <2>1. call[c] \in Asked
    BY <1>0, <1>2 DEF AddOwner, Resting
  <2>2. member' \in [Groups -> [People -> Roles \cup {Nil}]] /\ known' \subseteq Groups
    BY <1>2, <2>1 DEF AddOwner, Asked
  <2> QED
    BY <1>2, <2>2, AnswerKeepsTypes DEF AddOwner
<1>3. CASE FindGroup(c)
  <2>1. call[c] \in Asked /\ owner[call[c].group] \in People
    BY <1>0, <1>3 DEF FindGroup, Resting, Asked
  <2>2. PICK p \in People : call' = [call EXCEPT ![c].who = p]
    BY <1>3, <2>1 DEF FindGroup, Asked
  <2>3. [call[c] EXCEPT !.who = p] \in Asked
    BY <2>1 DEF Asked
  <2>4. call' \in [Calls -> Asked \cup {Nil}] /\ call'[c] \in Asked
        /\ \A d \in Calls \ {c} : call'[d] = call[d]
    BY <2>2, <2>3
  <2>5. at' = [at EXCEPT ![c] = "found"] /\ UNCHANGED <<tables, tx>>
    BY <1>3 DEF FindGroup
  <2> QED
    BY <2>4, <2>5 DEF Places
<1>4. CASE SaveGroup(c)
  <2>1. call[c] \in Asked
    BY <1>0, <1>4 DEF SaveGroup, Resting
  <2>2. owner' \in [Groups -> People \cup {Nil}]
    BY <1>4, <2>1 DEF SaveGroup, Asked
  <2> QED
    BY <1>4, <2>2, AnswerKeepsTypes DEF SaveGroup
<1>5. CASE DissolveGroup(c)
  BY <1>0, <1>5 DEF DissolveGroup, Places, Resting, Asked
<1>6. CASE RemoveMember(c)
  <2>1. call[c] \in Asked
    BY <1>0, <1>6 DEF RemoveMember, Resting
  <2>2. PICK p \in People : member' = [member EXCEPT ![call[c].group][p] = Nil]
    BY <1>6, <2>1 DEF RemoveMember, Asked
  <2>3. member' \in [Groups -> [People -> Roles \cup {Nil}]]
    BY <2>1, <2>2 DEF Asked
  <2>4. at' = [at EXCEPT ![c] = "changed"] /\ UNCHANGED <<owner, grants, known, call, tx>>
    BY <1>6 DEF RemoveMember
  <2> QED
    BY <2>1, <2>3, <2>4 DEF Places
<1>7. CASE InviteMember(c)
  BY <1>0, <1>7 DEF InviteMember, Places, Resting, Asked
<1>8. CASE FindMember(c)
  BY <1>0, <1>8 DEF FindMember, Places, Resting
<1>9. CASE UpdateMemberRole(c)
  <2>1. call[c] \in Asked
    BY <1>0, <1>9 DEF UpdateMemberRole, Resting
  <2>2. member' \in [Groups -> [People -> Roles \cup {Nil}]]
    BY <1>9, <2>1 DEF UpdateMemberRole, Asked
  <2> QED
    BY <1>9, <2>1, <2>2 DEF UpdateMemberRole, Places
<1>10. CASE BeginDelete(c)
  <2>1. call[c] \in Asked
    BY <1>0, <1>10 DEF BeginDelete, Resting
  <2>2. [Nothing EXCEPT !.sees = RowsOf(call[c].role), !.todo = call[c].asked] \in TxType
    BY <2>1 DEF Nothing, TxType, RowsOf, Asked
  <2> QED
    BY <1>10, <2>1, <2>2 DEF BeginDelete, Places
<1>11. CASE DeleteGrants(c)
  <2>1. call[c] \in Asked
    BY <1>0, <1>11 DEF DeleteGrants, Resting
  <2>2. PICK S \in SUBSET Grant : tx' = [tx EXCEPT ![c].deleted = S, ![c].sees = {}]
    BY <1>11 DEF DeleteGrants
  <2>3. [tx[c] EXCEPT !.deleted = S, !.sees = {}] \in TxType
    <3>1. tx[c] \in TxType
      OBVIOUS
    <3> QED
      BY <3>1 DEF TxType
  <2>4. tx' \in [Calls -> TxType]
    BY <2>2, <2>3
  <2> QED
    BY <1>11, <2>1, <2>4 DEF DeleteGrants, Places
<1>12. ASSUME NEW p \in Perms, InsertGrant(c, p) PROVE PolicyTypeOK'
  <2>1. call[c] \in Asked
    BY <1>0, <1>12 DEF InsertGrant, Resting
  <2>2. [role |-> call[c].role, perm |-> p, by |-> c] \in Grant
    BY <2>1 DEF Grant, Asked
  <2>3. PICK S \in SUBSET Grant :
          tx' = [tx EXCEPT ![c].todo = @ \ {p}, ![c].added = S]
    <3>1. tx[c].added \subseteq Grant
      BY DEF TxType
    <3> QED
      BY <1>12, <2>2, <3>1 DEF InsertGrant
  <2>4. [tx[c] EXCEPT !.todo = tx[c].todo \ {p}, !.added = S] \in TxType
    <3>1. tx[c] \in TxType
      OBVIOUS
    <3> QED
      BY <3>1 DEF TxType
  <2>5. tx' = [tx EXCEPT ![c] = [tx[c] EXCEPT !.todo = tx[c].todo \ {p}, !.added = S]]
    BY <2>3
  <2>6. UNCHANGED <<tables, at, call>>
    BY <1>12 DEF InsertGrant
  <2> QED
    BY <2>4, <2>5, <2>6
<1>13. CASE Commit(c)
  <2>1. call[c] \in Asked
    BY <1>0, <1>13 DEF Commit, Resting
  <2>2. tx' \in [Calls -> TxType] /\ grants' \subseteq Grant
    BY <1>13, NothingHasType DEF Commit, TxType
  <2> QED
    BY <1>13, <2>1, <2>2 DEF Commit, Places
<1>14. CASE Reread(c)
  BY <1>0, <1>14 DEF Reread, Places, Resting
<1>15. CASE Refused(c)
  BY <1>15, AnswerKeepsTypes DEF Refused
<1> QED
  BY <1>1, <1>2, <1>3, <1>4, <1>5, <1>6, <1>7, <1>8, <1>9, <1>10, <1>11, <1>12, <1>13,
     <1>14, <1>15 DEF TableStep

LEMMA PolicyStepTypes ==
  ASSUME PolicyTypeOK, [PolicyNext]_<<policyVars, cacheVars>>
  PROVE  PolicyTypeOK'
<1> USE PolicyAssumption DEF PolicyTypeOK, tables, Step
<1>1. ASSUME NEW c \in Calls, NEW n \in Nodes, NEW k \in Inputs, Receive(c, n, k)
      PROVE  PolicyTypeOK'
  <2>1. k \in Asked
    BY DEF Asked
  <2>2. Requires[k.kind] = Nil \/ Requires[k.kind] # Nil
    OBVIOUS
  <2>3. PICK to \in {"run", "ask"} : at' = [at EXCEPT ![c] = to]
    BY <1>1 DEF Receive
  <2>4. call' = [call EXCEPT ![c] = k] /\ UNCHANGED <<tables, tx>>
    BY <1>1 DEF Receive
  <2> QED
    BY <2>1, <2>3, <2>4 DEF Places
<1>2. ASSUME NEW c \in Calls, Hit(c) PROVE PolicyTypeOK'
  <2>1. {c} \in SUBSET {d \in Calls : at[d] \notin Resting}
    BY <1>2 DEF Hit, Resting
  <2>2. PICK policy : Decide({c}, policy)
    BY <1>2 DEF Hit
  <2> QED
    BY <1>2, <2>1, <2>2, DecideKeepsTypes DEF Hit
<1>3. ASSUME NEW c \in Calls, Expire(c) PROVE PolicyTypeOK'
  BY <1>3 DEF Expire, Places, Resting
<1>4. ASSUME NEW c \in Calls, BeginLoad(c) PROVE PolicyTypeOK'
  <2>1. at' = [at EXCEPT ![c] = "wait"] /\ at[c] = "miss" /\ UNCHANGED <<tables, call, tx>>
    BY <1>4 DEF BeginLoad
  <2> QED
    BY <2>1 DEF Places, Resting
<1>5. ASSUME NEW c \in Calls, TableStep(c) PROVE PolicyTypeOK'
  BY <1>5, TableStepTypes
<1>6. ASSUME NEW c \in Calls, Invalidate(c) PROVE PolicyTypeOK'
  BY <1>6 DEF Invalidate, Places, Resting
<1>7. ASSUME NEW c \in Calls, Publish(c) \/ PublishFails(c) \/ ChangeUnseen(c)
      PROVE  PolicyTypeOK'
  BY <1>7, AnswerKeepsTypes DEF Publish, PublishFails, ChangeUnseen
<1>8. ASSUME NEW n \in Nodes, Restart(n) PROVE PolicyTypeOK'
  <2>1. PICK C : Answer(C)
    BY <1>8 DEF Restart
  <2> QED
    BY <1>8, <2>1, AnswerKeepsTypes DEF Restart
<1>9. ASSUME NEW n \in Nodes, NEW m \in mail[n], Deliver(n, m) PROVE PolicyTypeOK'
  BY <1>9 DEF Deliver, policyVars
<1>10. ASSUME NEW n \in Nodes, NEW d \in Groups, LoadStep(n, d) PROVE PolicyTypeOK'
  <2>1. CASE LoadMembers(n, d)
    BY <2>1 DEF LoadMembers, policyVars
  <2>2. CASE AddEnforcer(n, d)
    <3>1. Waiting(n, d) \in SUBSET {c \in Calls : at[c] \notin Resting}
      BY DEF Waiting, Resting
    <3>2. PICK policy : Decide(Waiting(n, d), policy)
      BY <2>2 DEF AddEnforcer
    <3> QED
      BY <2>2, <3>1, <3>2, DecideKeepsTypes DEF AddEnforcer
  <2>3. CASE LoadFails(n, d)
    BY <2>3, AnswerKeepsTypes DEF LoadFails
  <2> QED
    BY <1>10, <2>1, <2>2, <2>3 DEF LoadStep
<1>11. ASSUME NEW n \in Nodes, NEW d \in Groups, Age(n, d) \/ Evict(n, d)
       PROVE  PolicyTypeOK'
  BY <1>11 DEF Age, Evict, policyVars
<1>12. CASE UNCHANGED <<policyVars, cacheVars>>
  BY <1>12 DEF policyVars
<1> QED
  BY <1>1, <1>2, <1>3, <1>4, <1>5, <1>6, <1>7, <1>8, <1>9, <1>10, <1>11, <1>12
  DEF PolicyNext, CacheStep

-----------------------------------------------------------------------------
(* The permissions of superadmin *)

InTx     == {"deleting", "insert"}
IsKey(x) == x.role = Superadmin /\ x.perm = "role:manage"
HasKey(S) == \E x \in S : IsKey(x)

\* What a transaction holds: rows of its role, which are still there and nobody else's.
TxInv ==
  \A c \in Calls :
    /\ at[c] \notin InTx => tx[c] = Nothing
    /\ at[c] = "deleting" => tx[c].deleted = {} /\ tx[c].added = {}
    /\ \A x \in tx[c].sees \cup tx[c].deleted \cup tx[c].added : x.role = call[c].role
    /\ \A x \in tx[c].added : x.by = c
    /\ tx[c].deleted \subseteq grants
    /\ \A d \in Calls \ {c} : tx[c].deleted \cap tx[d].deleted = {}

\* There is one row for the key, and who has deleted it has yet to insert it, or did.
KeyInv ==
  /\ HasKey(grants)
  /\ \A x, y \in grants : IsKey(x) /\ IsKey(y) => x = y
  /\ \A c \in Calls :
       /\ at[c] = "deleting" /\ call[c].role = Superadmin => "role:manage" \in tx[c].todo
       /\ HasKey(tx[c].added) => HasKey(tx[c].deleted)
       /\ at[c] = "insert" /\ HasKey(tx[c].deleted)
            => "role:manage" \in tx[c].todo \/ HasKey(tx[c].added)

\* A step that is no part of a transaction, or ends some without a commit.
TxQuiet ==
  /\ grants' = grants
  /\ \A c \in Calls :
       \/ at'[c] = at[c] /\ call'[c] = call[c] /\ tx'[c] = tx[c]
       \/ at'[c] \notin InTx /\ tx'[c] = Nothing

LEMMA QuietKeepsTx ==
  ASSUME PolicyTypeOK, TxInv, TxQuiet
  PROVE  TxInv'
<1>1. Nothing.sees = {} /\ Nothing.deleted = {} /\ Nothing.added = {}
  BY DEF Nothing
<1> SUFFICES ASSUME NEW c \in Calls
             PROVE  /\ at'[c] \notin InTx => tx'[c] = Nothing
                    /\ at'[c] = "deleting" => tx'[c].deleted = {} /\ tx'[c].added = {}
                    /\ \A x \in tx'[c].sees \cup tx'[c].deleted \cup tx'[c].added :
                         x.role = call'[c].role
                    /\ \A x \in tx'[c].added : x.by = c
                    /\ tx'[c].deleted \subseteq grants'
                    /\ \A d \in Calls \ {c} : tx'[c].deleted \cap tx'[d].deleted = {}
  BY DEF TxInv
<1>2. \A d \in Calls : tx'[d].deleted = tx[d].deleted \/ tx'[d].deleted = {}
  BY <1>1 DEF TxQuiet
<1>3. \A d \in Calls \ {c} : tx'[c].deleted \cap tx'[d].deleted = {}
  BY <1>2 DEF TxInv
<1>4. CASE at'[c] = at[c] /\ call'[c] = call[c] /\ tx'[c] = tx[c]
  BY <1>3, <1>4 DEF TxInv, TxQuiet
<1>5. CASE at'[c] \notin InTx /\ tx'[c] = Nothing
  BY <1>1, <1>3, <1>5 DEF InTx
<1> QED
  BY <1>4, <1>5 DEF TxQuiet

LEMMA QuietKeepsKey ==
  ASSUME PolicyTypeOK, KeyInv, TxQuiet
  PROVE  KeyInv'
<1>1. Nothing.deleted = {} /\ Nothing.added = {}
  BY DEF Nothing
<1>2. HasKey(grants)' /\ \A x, y \in grants' : IsKey(x) /\ IsKey(y) => x = y
  BY DEF TxQuiet, KeyInv, HasKey, IsKey
<1>3. ASSUME NEW c \in Calls
      PROVE  /\ at'[c] = "deleting" /\ call'[c].role = Superadmin
                  => "role:manage" \in tx'[c].todo
             /\ HasKey(tx'[c].added) => HasKey(tx'[c].deleted)
             /\ at'[c] = "insert" /\ HasKey(tx'[c].deleted)
                  => "role:manage" \in tx'[c].todo \/ HasKey(tx'[c].added)
  <2>1. CASE at'[c] = at[c] /\ call'[c] = call[c] /\ tx'[c] = tx[c]
    BY <2>1 DEF KeyInv
  <2>2. CASE at'[c] \notin InTx /\ tx'[c] = Nothing
    BY <1>1, <2>2 DEF InTx, HasKey
  <2> QED
    BY <2>1, <2>2 DEF TxQuiet
<1> QED
  BY <1>2, <1>3 DEF KeyInv, HasKey, IsKey

InTransaction(c) ==
  BeginDelete(c) \/ DeleteGrants(c) \/ (\E p \in Perms : InsertGrant(c, p)) \/ Commit(c)

LEMMA AnswerIsQuiet ==
  ASSUME PolicyTypeOK, NEW C, Answer(C), UNCHANGED grants
  PROVE  TxQuiet
BY DEF TxQuiet, Answer, InTx, PolicyTypeOK

LEMMA DecideIsQuiet ==
  ASSUME PolicyTypeOK, TxInv, NEW C \in SUBSET {c \in Calls : at[c] \notin InTx},
         NEW policy, Decide(C, policy), UNCHANGED <<grants, tx>>
  PROVE  TxQuiet
<1> DEFINE ok == {c \in C : Allowed(c, policy)}
<1>1. /\ at' = [c \in Calls |-> IF c \in ok THEN "run" ELSE IF c \in C THEN "done" ELSE at[c]]
      /\ call' = [c \in Calls |-> IF c \in C \ ok THEN Nil ELSE call[c]]
  BY DEF Decide
<1>2. ok \subseteq C /\ \A c \in C : c \in Calls /\ at[c] \notin InTx
  OBVIOUS
<1> HIDE DEF ok
<1>3. ASSUME NEW c \in Calls
      PROVE  \/ at'[c] = at[c] /\ call'[c] = call[c] /\ tx'[c] = tx[c]
             \/ at'[c] \notin InTx /\ tx'[c] = Nothing
  <2>1. CASE c \in C
    <3>1. at'[c] \in {"run", "done"}
      BY <1>1, <2>1
    <3>2. tx'[c] = Nothing
      BY <1>2, <2>1 DEF TxInv
    <3> QED
      BY <3>1, <3>2 DEF InTx
  <2>2. CASE c \notin C
    BY <1>1, <1>2, <2>2
  <2> QED
    BY <2>1, <2>2
<1> QED
  BY <1>3 DEF TxQuiet

\* One call moves on, outside of any transaction.
LEMMA MoveIsQuiet ==
  ASSUME PolicyTypeOK, TxInv, NEW c \in Calls, NEW to, at[c] \notin InTx, to \notin InTx,
         at' = [at EXCEPT ![c] = to], \A d \in Calls \ {c} : call'[d] = call[d],
         UNCHANGED <<grants, tx>>
  PROVE  TxQuiet
BY DEF TxQuiet, TxInv, PolicyTypeOK

LEMMA TableStepIsQuiet ==
  ASSUME PolicyTypeOK, TxInv, NEW c \in Calls, TableStep(c), ~InTransaction(c)
  PROVE  TxQuiet
<1> USE DEF tables, Step
<1>1. CASE RegisterGroup(c)
  BY <1>1, MoveIsQuiet DEF RegisterGroup, InTx
<1>2. CASE AddOwner(c)
  BY <1>2, AnswerIsQuiet DEF AddOwner
<1>3. CASE FindGroup(c)
  <2>1. at' = [at EXCEPT ![c] = "found"] /\ at[c] = "run" /\ UNCHANGED <<grants, tx>>
        /\ \A d \in Calls \ {c} : call'[d] = call[d]
    BY <1>3 DEF FindGroup, PolicyTypeOK
  <2> QED
    BY <2>1, MoveIsQuiet DEF InTx
<1>4. CASE SaveGroup(c)
  BY <1>4, AnswerIsQuiet DEF SaveGroup
<1>5. CASE DissolveGroup(c)
  BY <1>5, MoveIsQuiet DEF DissolveGroup, InTx
<1>6. CASE RemoveMember(c)
  <2>1. at' = [at EXCEPT ![c] = "changed"] /\ at[c] \in {"run", "found"}
        /\ UNCHANGED <<grants, tx, call>>
    BY <1>6 DEF RemoveMember
  <2> QED
    BY <2>1, MoveIsQuiet DEF InTx
<1>7. CASE InviteMember(c)
  BY <1>7, MoveIsQuiet DEF InviteMember, InTx
<1>8. CASE FindMember(c)
  BY <1>8, MoveIsQuiet DEF FindMember, InTx
<1>9. CASE UpdateMemberRole(c)
  BY <1>9, MoveIsQuiet DEF UpdateMemberRole, InTx
<1>10. CASE Reread(c)
  BY <1>10, MoveIsQuiet DEF Reread, InTx
<1>11. CASE Refused(c)
  BY <1>11, AnswerIsQuiet DEF Refused
<1> QED
  BY <1>1, <1>2, <1>3, <1>4, <1>5, <1>6, <1>7, <1>8, <1>9, <1>10, <1>11
  DEF TableStep, InTransaction

\* All steps of a behaviour: a statement of a transaction, or a quiet one.
LEMMA StepIsQuiet ==
  ASSUME PolicyTypeOK, TxInv, [PolicyNext]_<<policyVars, cacheVars>>,
         ~ \E c \in Calls : InTransaction(c)
  PROVE  TxQuiet
<1> USE DEF tables, Step
<1>1. ASSUME NEW c \in Calls, NEW n \in Nodes, NEW k \in Inputs, Receive(c, n, k)
      PROVE  TxQuiet
  <2>1. PICK to \in {"run", "ask"} : at' = [at EXCEPT ![c] = to]
    BY <1>1 DEF Receive
  <2>2. at[c] = "new" /\ UNCHANGED <<grants, tx>> /\ \A d \in Calls \ {c} : call'[d] = call[d]
    BY <1>1 DEF Receive, PolicyTypeOK
  <2> QED
    BY <2>1, <2>2, MoveIsQuiet DEF InTx
<1>2. ASSUME NEW c \in Calls, Hit(c) PROVE TxQuiet
  <2>1. {c} \in SUBSET {d \in Calls : at[d] \notin InTx}
    BY <1>2 DEF Hit, InTx
  <2>2. PICK policy : Decide({c}, policy)
    BY <1>2 DEF Hit
  <2> QED
    BY <1>2, <2>1, <2>2, DecideIsQuiet DEF Hit
<1>3. ASSUME NEW c \in Calls, Expire(c) PROVE TxQuiet
  BY <1>3, MoveIsQuiet DEF Expire, InTx
<1>4. ASSUME NEW c \in Calls, BeginLoad(c) PROVE TxQuiet
  BY <1>4, MoveIsQuiet DEF BeginLoad, InTx
<1>5. ASSUME NEW c \in Calls, TableStep(c) PROVE TxQuiet
  BY <1>5, TableStepIsQuiet
<1>6. ASSUME NEW c \in Calls, Invalidate(c) PROVE TxQuiet
  BY <1>6, MoveIsQuiet DEF Invalidate, InTx
<1>7. ASSUME NEW c \in Calls, Publish(c) \/ PublishFails(c) \/ ChangeUnseen(c)
      PROVE  TxQuiet
  BY <1>7, AnswerIsQuiet DEF Publish, PublishFails, ChangeUnseen
<1>8. ASSUME NEW n \in Nodes, Restart(n) PROVE TxQuiet
  <2>1. PICK C : Answer(C)
    BY <1>8 DEF Restart
  <2> QED
    BY <1>8, <2>1, AnswerIsQuiet DEF Restart
<1>9. ASSUME NEW n \in Nodes, NEW d \in Groups, LoadStep(n, d) PROVE TxQuiet
  <2>1. CASE LoadMembers(n, d)
    BY <2>1 DEF LoadMembers, policyVars, TxQuiet
  <2>2. CASE AddEnforcer(n, d)
    <3>1. Waiting(n, d) \in SUBSET {c \in Calls : at[c] \notin InTx}
      BY DEF Waiting, InTx
    <3>2. PICK policy : Decide(Waiting(n, d), policy)
      BY <2>2 DEF AddEnforcer
    <3> QED
      BY <2>2, <3>1, <3>2, DecideIsQuiet DEF AddEnforcer
  <2>3. CASE LoadFails(n, d)
    BY <2>3, AnswerIsQuiet DEF LoadFails
  <2> QED
    BY <1>9, <2>1, <2>2, <2>3 DEF LoadStep
<1>10. ASSUME UNCHANGED policyVars PROVE TxQuiet
  BY <1>10 DEF policyVars, TxQuiet
<1> QED
  BY <1>1, <1>2, <1>3, <1>4, <1>5, <1>6, <1>7, <1>8, <1>9, <1>10
  DEF PolicyNext, CacheStep, Deliver, Age, Evict

\* The statements of a replacement.
LEMMA BeginDeleteKeeps ==
  ASSUME PolicyTypeOK, TxInv, KeyInv, NEW c \in Calls, BeginDelete(c)
  PROVE  TxInv' /\ KeyInv'
<1> DEFINE k == call[c]
           t == [Nothing EXCEPT !.sees = RowsOf(k.role), !.todo = k.asked]
<1>1. /\ at[c] = "run" /\ Valid(k.role, k.asked)
      /\ at' = [at EXCEPT ![c] = "deleting"] /\ tx' = [tx EXCEPT ![c] = t]
      /\ call' = call /\ grants' = grants
  BY DEF BeginDelete, tables, Step
<1>2. t.sees = RowsOf(k.role) /\ t.todo = k.asked /\ t.deleted = {} /\ t.added = {}
  BY DEF Nothing
<1> HIDE DEF k, t
<1>3. tx'[c] = t /\ at'[c] = "deleting"
      /\ \A d \in Calls \ {c} : tx'[d] = tx[d] /\ at'[d] = at[d]
  BY <1>1 DEF PolicyTypeOK
<1>4. \A x \in t.sees : x.role = call[c].role
  BY <1>2 DEF RowsOf, k
<1>5. TxInv'
  <2>1. \A d \in Calls : tx'[d].deleted = tx[d].deleted \/ tx'[d].deleted = {}
    BY <1>2, <1>3
  <2>2. \A d \in Calls : \A e \in Calls \ {d} : tx'[d].deleted \cap tx'[e].deleted = {}
    BY <2>1 DEF TxInv
  <2>3. ASSUME NEW d \in Calls
        PROVE  /\ at'[d] \notin InTx => tx'[d] = Nothing
               /\ at'[d] = "deleting" => tx'[d].deleted = {} /\ tx'[d].added = {}
               /\ \A x \in tx'[d].sees \cup tx'[d].deleted \cup tx'[d].added :
                    x.role = call'[d].role
               /\ \A x \in tx'[d].added : x.by = d
               /\ tx'[d].deleted \subseteq grants'
    <3>1. CASE d = c
      BY <1>1, <1>2, <1>3, <1>4, <3>1 DEF InTx
    <3>2. CASE d # c
      BY <1>1, <1>3, <3>2 DEF TxInv
    <3> QED
      BY <3>1, <3>2
  <2> QED
    BY <2>2, <2>3 DEF TxInv
<1>6. KeyInv'
  <2>1. k.role = Superadmin => "role:manage" \in t.todo
    BY <1>1, <1>2 DEF Valid
  <2>2. ASSUME NEW d \in Calls
        PROVE  /\ at'[d] = "deleting" /\ call'[d].role = Superadmin
                    => "role:manage" \in tx'[d].todo
               /\ HasKey(tx'[d].added) => HasKey(tx'[d].deleted)
               /\ at'[d] = "insert" /\ HasKey(tx'[d].deleted)
                    => "role:manage" \in tx'[d].todo \/ HasKey(tx'[d].added)
    <3>1. CASE d = c
      BY <1>1, <1>2, <1>3, <2>1, <3>1 DEF HasKey, k
    <3>2. CASE d # c
      BY <1>1, <1>3, <3>2 DEF KeyInv
    <3> QED
      BY <3>1, <3>2
  <2> QED
    BY <1>1, <2>2 DEF KeyInv, HasKey, IsKey
<1> QED
  BY <1>5, <1>6

LEMMA DeleteGrantsKeeps ==
  ASSUME PolicyTypeOK, TxInv, KeyInv, NEW c \in Calls, DeleteGrants(c)
  PROVE  TxInv' /\ KeyInv'
<1>1. /\ at[c] = "deleting" /\ \A d \in Calls \ {c} : tx[d].deleted \cap tx[c].sees = {}
      /\ at' = [at EXCEPT ![c] = "insert"] /\ call' = call /\ grants' = grants
      /\ tx' = [tx EXCEPT ![c].deleted = tx[c].sees \cap grants, ![c].sees = {}]
  BY DEF DeleteGrants, tables, Step
<1>2. /\ tx'[c].deleted = tx[c].sees \cap grants /\ tx'[c].sees = {}
      /\ tx'[c].added = tx[c].added /\ tx'[c].todo = tx[c].todo
      /\ at'[c] = "insert" /\ \A d \in Calls \ {c} : tx'[d] = tx[d] /\ at'[d] = at[d]
  BY <1>1 DEF PolicyTypeOK, TxType
<1>3. tx[c].added = {}
  BY <1>1 DEF TxInv
<1>4. TxInv'
  <2>1. \A d \in Calls \ {c} : tx'[d].deleted \cap tx'[c].deleted = {}
    BY <1>1, <1>2
  <2>2. ASSUME NEW d \in Calls
        PROVE  /\ at'[d] \notin InTx => tx'[d] = Nothing
               /\ at'[d] = "deleting" => tx'[d].deleted = {} /\ tx'[d].added = {}
               /\ \A x \in tx'[d].sees \cup tx'[d].deleted \cup tx'[d].added :
                    x.role = call'[d].role
               /\ \A x \in tx'[d].added : x.by = d
               /\ tx'[d].deleted \subseteq grants'
               /\ \A e \in Calls \ {d} : tx'[d].deleted \cap tx'[e].deleted = {}
    <3>1. CASE d = c
      <4>1. \A x \in tx[c].sees : x.role = call[c].role
        BY DEF TxInv
      <4>2. \A e \in Calls \ {c} : tx'[c].deleted \cap tx'[e].deleted = {}
        BY <2>1
      <4>3. tx'[c].sees = {} /\ tx'[c].added = {} /\ tx'[c].deleted \subseteq tx[c].sees
        BY <1>2, <1>3
      <4>4. \A x \in tx'[c].sees \cup tx'[c].deleted \cup tx'[c].added : x.role = call'[c].role
        BY <1>1, <4>1, <4>3
      <4>5. tx'[c].deleted \subseteq grants' /\ at'[c] = "insert"
        BY <1>1, <1>2
      <4>6. at'[c] \in InTx /\ at'[c] # "deleting"
        BY <4>5 DEF InTx
      <4>7. \A x \in tx'[c].added : x.by = c
        BY <4>3
      <4> QED
        BY <3>1, <4>2, <4>4, <4>5, <4>6, <4>7
    <3>2. CASE d # c
      <4>1. tx'[d] = tx[d] /\ at'[d] = at[d] /\ call'[d] = call[d]
        BY <1>1, <1>2, <3>2
      <4>2. \A e \in Calls \ {c, d} : tx'[e] = tx[e]
        BY <1>2
      <4>3. \A e \in Calls \ {d} : tx'[d].deleted \cap tx'[e].deleted = {}
        BY <2>1, <3>2, <4>1, <4>2 DEF TxInv
      <4> QED
        BY <1>1, <4>1, <4>3 DEF TxInv
    <3> QED
      BY <3>1, <3>2
  <2> QED
    BY <2>2 DEF TxInv
<1>5. KeyInv'
  <2>1. HasKey(tx'[c].deleted) => call[c].role = Superadmin
    BY <1>2 DEF TxInv, HasKey, IsKey
  <2>2. call[c].role = Superadmin => "role:manage" \in tx[c].todo
    BY <1>1 DEF KeyInv
  <2>3. ASSUME NEW d \in Calls
        PROVE  /\ at'[d] = "deleting" /\ call'[d].role = Superadmin
                    => "role:manage" \in tx'[d].todo
               /\ HasKey(tx'[d].added) => HasKey(tx'[d].deleted)
               /\ at'[d] = "insert" /\ HasKey(tx'[d].deleted)
                    => "role:manage" \in tx'[d].todo \/ HasKey(tx'[d].added)
    <3>1. CASE d = c
      BY <1>1, <1>2, <1>3, <2>1, <2>2, <3>1 DEF HasKey
    <3>2. CASE d # c
      BY <1>1, <1>2, <3>2 DEF KeyInv
    <3> QED
      BY <3>1, <3>2
  <2> QED
    BY <1>1, <2>3 DEF KeyInv, HasKey, IsKey
<1> QED
  BY <1>4, <1>5

LEMMA InsertGrantKeeps ==
  ASSUME PolicyTypeOK, TxInv, KeyInv, NEW c \in Calls, NEW p \in Perms, InsertGrant(c, p)
  PROVE  TxInv' /\ KeyInv'
<1> DEFINE new == [role |-> call[c].role, perm |-> p, by |-> c]
           there == \E x \in grants \ tx[c].deleted : x.role = call[c].role /\ x.perm = p
<1>1. /\ at[c] = "insert" /\ UNCHANGED <<at, call, grants>>
      /\ tx' = [tx EXCEPT ![c].todo = @ \ {p},
                          ![c].added = IF there THEN @ ELSE @ \cup {new}]
  BY DEF InsertGrant, tables
<1> HIDE DEF new, there
<1>2. /\ tx'[c].deleted = tx[c].deleted /\ tx'[c].sees = tx[c].sees
      /\ tx'[c].todo = tx[c].todo \ {p}
      /\ tx'[c].added = IF there THEN tx[c].added ELSE tx[c].added \cup {new}
      /\ \A d \in Calls \ {c} : tx'[d] = tx[d]
  BY <1>1 DEF PolicyTypeOK, TxType
<1>3. new.role = call[c].role /\ new.perm = p /\ new.by = c
  BY DEF new
<1>4. \A d \in Calls : tx'[d].deleted = tx[d].deleted
  BY <1>2
<1>5. TxInv'
  <2>1. ASSUME NEW d \in Calls
        PROVE  /\ at'[d] \notin InTx => tx'[d] = Nothing
               /\ at'[d] = "deleting" => tx'[d].deleted = {} /\ tx'[d].added = {}
               /\ \A x \in tx'[d].sees \cup tx'[d].deleted \cup tx'[d].added :
                    x.role = call'[d].role
               /\ \A x \in tx'[d].added : x.by = d
               /\ tx'[d].deleted \subseteq grants'
               /\ \A e \in Calls \ {d} : tx'[d].deleted \cap tx'[e].deleted = {}
    <3>1. CASE d = c
      <4>1. \A x \in tx[c].sees \cup tx[c].deleted \cup tx[c].added : x.role = call[c].role
        BY DEF TxInv
      <4>2. \A x \in tx[c].added : x.by = c
        BY DEF TxInv
      <4>3. /\ \A x \in tx'[c].sees \cup tx'[c].deleted \cup tx'[c].added :
                 x.role = call'[c].role
            /\ \A x \in tx'[c].added : x.by = c
        <5>1. tx'[c].added \subseteq tx[c].added \cup {new}
          BY <1>2
        <5>2. call'[c] = call[c]
          BY <1>1
        <5>3. \A x \in tx[c].sees \cup tx[c].deleted \cup tx[c].added \cup {new} :
                x.role = call[c].role
          BY <1>3, <4>1
        <5>4. \A x \in tx[c].added \cup {new} : x.by = c
          BY <1>3, <4>2
        <5> QED
          BY <1>2, <5>1, <5>2, <5>3, <5>4
      <4>4. /\ tx'[c].deleted \subseteq grants'
            /\ \A e \in Calls \ {c} : tx'[c].deleted \cap tx'[e].deleted = {}
        BY <1>1, <1>4 DEF TxInv
      <4> QED
        BY <1>1, <3>1, <4>3, <4>4 DEF InTx
    <3>2. CASE d # c
      <4>1. tx'[d] = tx[d] /\ at'[d] = at[d] /\ call'[d] = call[d] /\ grants' = grants
        BY <1>1, <1>2, <3>2
      <4>2. \A e \in Calls \ {d} : tx'[d].deleted \cap tx'[e].deleted = {}
        BY <1>4 DEF TxInv
      <4>3. /\ at[d] \notin InTx => tx[d] = Nothing
            /\ at[d] = "deleting" => tx[d].deleted = {} /\ tx[d].added = {}
            /\ \A x \in tx[d].sees \cup tx[d].deleted \cup tx[d].added :
                 x.role = call[d].role
            /\ \A x \in tx[d].added : x.by = d
            /\ tx[d].deleted \subseteq grants
        BY DEF TxInv
      <4> QED
        BY <4>1, <4>2, <4>3
    <3> QED
      BY <3>1, <3>2
  <2> QED
    BY <2>1 DEF TxInv
\* The only row with the key that could be in the way is one that this transaction deleted.
<1>6. ASSUME IsKey(new) PROVE there \/ HasKey(tx[c].deleted)
  BY <1>3, <1>6 DEF there, KeyInv, HasKey, IsKey
<1>7. ASSUME HasKey(tx[c].deleted), p = "role:manage" PROVE ~there /\ IsKey(new)
  <2>1. call[c].role = Superadmin
    BY <1>7 DEF TxInv, HasKey, IsKey
  <2>2. \A x \in grants \ tx[c].deleted : ~IsKey(x)
    BY <1>7 DEF TxInv, KeyInv, HasKey
  <2> QED
    BY <1>3, <1>7, <2>1, <2>2 DEF there, IsKey
<1>8. KeyInv'
  <2>1. ASSUME NEW d \in Calls
        PROVE  /\ at'[d] = "deleting" /\ call'[d].role = Superadmin
                    => "role:manage" \in tx'[d].todo
               /\ HasKey(tx'[d].added) => HasKey(tx'[d].deleted)
               /\ at'[d] = "insert" /\ HasKey(tx'[d].deleted)
                    => "role:manage" \in tx'[d].todo \/ HasKey(tx'[d].added)
    <3>1. CASE d = c
      <4>1. HasKey(tx'[c].added) => HasKey(tx'[c].deleted)
        BY <1>2, <1>6 DEF KeyInv, HasKey
      <4>2. HasKey(tx'[c].deleted) => "role:manage" \in tx'[c].todo \/ HasKey(tx'[c].added)
        <5>1. CASE p = "role:manage"
          BY <1>2, <1>7, <5>1 DEF HasKey
        <5>2. ASSUME p # "role:manage", HasKey(tx'[c].deleted)
              PROVE  "role:manage" \in tx'[c].todo \/ HasKey(tx'[c].added)
          <6>1. "role:manage" \in tx[c].todo \/ HasKey(tx[c].added)
            BY <1>1, <1>2, <5>2 DEF KeyInv
          <6>2. tx[c].added \subseteq tx'[c].added
            BY <1>2
          <6> QED
            BY <1>2, <5>2, <6>1, <6>2 DEF HasKey
        <5> QED
          BY <5>1, <5>2
      <4> QED
        BY <1>1, <3>1, <4>1, <4>2
    <3>2. CASE d # c
      BY <1>1, <1>2, <3>2 DEF KeyInv
    <3> QED
      BY <3>1, <3>2
  <2> QED
    BY <1>1, <2>1 DEF KeyInv, HasKey, IsKey
<1> QED
  BY <1>5, <1>8

LEMMA CommitKeeps ==
  ASSUME PolicyTypeOK, TxInv, KeyInv, NEW c \in Calls, Commit(c)
  PROVE  TxInv' /\ KeyInv'
<1>1. /\ at[c] = "insert" /\ tx[c].todo = {}
      /\ grants' = (grants \ tx[c].deleted) \cup tx[c].added
      /\ tx' = [tx EXCEPT ![c] = Nothing] /\ at' = [at EXCEPT ![c] = "reread"]
      /\ call' = call
  BY DEF Commit, Step
<1>2. tx'[c] = Nothing /\ at'[c] = "reread"
      /\ \A d \in Calls \ {c} : tx'[d] = tx[d] /\ at'[d] = at[d]
  BY <1>1 DEF PolicyTypeOK
<1>3. Nothing.sees = {} /\ Nothing.deleted = {} /\ Nothing.added = {}
  BY DEF Nothing
<1>4. TxInv'
  <2>1. \A d \in Calls : tx'[d].deleted = tx[d].deleted \/ tx'[d].deleted = {}
    BY <1>2, <1>3
  <2>2. \A d \in Calls : \A e \in Calls \ {d} : tx'[d].deleted \cap tx'[e].deleted = {}
    BY <2>1 DEF TxInv
  <2>3. ASSUME NEW d \in Calls
        PROVE  /\ at'[d] \notin InTx => tx'[d] = Nothing
               /\ at'[d] = "deleting" => tx'[d].deleted = {} /\ tx'[d].added = {}
               /\ \A x \in tx'[d].sees \cup tx'[d].deleted \cup tx'[d].added :
                    x.role = call'[d].role
               /\ \A x \in tx'[d].added : x.by = d
               /\ tx'[d].deleted \subseteq grants'
    <3>1. CASE d = c
      BY <1>2, <1>3, <3>1
    <3>2. CASE d # c
      <4>1. tx[d].deleted \subseteq grants /\ tx[d].deleted \cap tx[c].deleted = {}
        BY <3>2 DEF TxInv
      <4>2. tx'[d].deleted \subseteq grants'
        BY <1>1, <1>2, <3>2, <4>1
      <4> QED
        BY <1>1, <1>2, <3>2, <4>2 DEF TxInv
    <3> QED
      BY <3>1, <3>2
  <2> QED
    BY <2>2, <2>3 DEF TxInv
\* The rows a transaction adds differ in their permissions only.
<1>5. \A x, y \in tx[c].added : IsKey(x) /\ IsKey(y) => x = y
  <2>1. \A x \in tx[c].added : x.by = c /\ x \in Grant
    BY DEF TxInv, PolicyTypeOK, TxType
  <2> QED
    BY <2>1 DEF IsKey, Grant
<1>6. HasKey(grants') /\ \A x, y \in grants' : IsKey(x) /\ IsKey(y) => x = y
  <2>1. CASE HasKey(tx[c].deleted)
    <3>1. HasKey(tx[c].added)
      BY <1>1, <2>1 DEF KeyInv
    <3>2. \A x \in grants \ tx[c].deleted : ~IsKey(x)
      BY <2>1 DEF TxInv, KeyInv, HasKey
    <3>3. \A x \in grants' : IsKey(x) => x \in tx[c].added
      BY <1>1, <3>2
    <3>4. HasKey(grants')
      BY <1>1, <3>1 DEF HasKey
    <3> QED
      BY <1>5, <3>3, <3>4
  <2>2. CASE ~HasKey(tx[c].deleted)
    <3>1. ~HasKey(tx[c].added)
      BY <2>2 DEF KeyInv
    <3>2. \A x \in grants' : IsKey(x) => x \in grants
      BY <1>1, <3>1 DEF HasKey
    <3>3. PICK x \in grants : IsKey(x)
      BY DEF KeyInv, HasKey
    <3>4. x \in grants'
      BY <1>1, <2>2, <3>3 DEF HasKey
    <3>5. HasKey(grants')
      BY <3>3, <3>4 DEF HasKey
    <3> QED
      BY <3>2, <3>5 DEF KeyInv
  <2> QED
    BY <2>1, <2>2
<1>7. KeyInv'
  <2>1. ASSUME NEW d \in Calls
        PROVE  /\ at'[d] = "deleting" /\ call'[d].role = Superadmin
                    => "role:manage" \in tx'[d].todo
               /\ HasKey(tx'[d].added) => HasKey(tx'[d].deleted)
               /\ at'[d] = "insert" /\ HasKey(tx'[d].deleted)
                    => "role:manage" \in tx'[d].todo \/ HasKey(tx'[d].added)
    <3>1. CASE d = c
      BY <1>2, <1>3, <3>1 DEF HasKey
    <3>2. CASE d # c
      BY <1>1, <1>2, <3>2 DEF KeyInv
    <3> QED
      BY <3>1, <3>2
  <2> QED
    BY <1>6, <2>1 DEF KeyInv, HasKey, IsKey
<1> QED
  BY <1>4, <1>7

LEMMA KeyHolds == PolicySpec => [](PolicyTypeOK /\ TxInv /\ KeyInv)
<1>1. PolicyInit => PolicyTypeOK /\ TxInv /\ KeyInv
  <2> SUFFICES ASSUME PolicyInit PROVE PolicyTypeOK /\ TxInv /\ KeyInv
    OBVIOUS
  <2>1. TxInv
    BY DEF PolicyInit, TxInv, Nothing, InTx
  <2>2. \A x, y \in grants : IsKey(x) /\ IsKey(y) => x = y
    BY DEF PolicyInit, IsKey
  <2>3. HasKey(grants)
    <3> DEFINE x == [role |-> Superadmin, perm |-> "role:manage", by |-> Nil]
               f == <<Superadmin, "role:manage">>
    <3>1. f \in FirstGrants /\ x = [role |-> f[1], perm |-> f[2], by |-> Nil]
      BY PolicyAssumption
    <3>2. x \in grants
      BY <3>1 DEF PolicyInit
    <3> QED
      BY <3>2 DEF HasKey, IsKey
  <2>4. \A c \in Calls : at[c] = "new" /\ tx[c].added = {}
    BY DEF PolicyInit, Nothing
  <2>5. KeyInv
    BY <2>2, <2>3, <2>4 DEF KeyInv, HasKey
  <2> QED
    BY <2>1, <2>5, PolicyInitTypes
<1>2. PolicyTypeOK /\ TxInv /\ KeyInv /\ [PolicyNext]_<<policyVars, cacheVars>>
        => (PolicyTypeOK /\ TxInv /\ KeyInv)'
  <2> SUFFICES ASSUME PolicyTypeOK, TxInv, KeyInv, [PolicyNext]_<<policyVars, cacheVars>>
               PROVE  (PolicyTypeOK /\ TxInv /\ KeyInv)'
    OBVIOUS
  <2>1. CASE \E c \in Calls : InTransaction(c)
    BY <2>1, BeginDeleteKeeps, DeleteGrantsKeeps, InsertGrantKeeps, CommitKeeps,
       PolicyStepTypes DEF InTransaction
  <2>2. CASE ~ \E c \in Calls : InTransaction(c)
    BY <2>2, StepIsQuiet, QuietKeepsTx, QuietKeepsKey, PolicyStepTypes
  <2> QED
    BY <2>1, <2>2
<1> QED
  BY <1>1, <1>2, PTL DEF PolicySpec

\* The tables and the calls keep their types.
THEOREM PoliciesTypeCorrect == PolicySpec => []PolicyTypeOK
BY KeyHolds, PTL

\* Superadmin has role:manage at all times, however the replacements of its permissions
\* cross, break off or end with the process.
THEOREM PoliciesSuperadminKeeps == PolicySpec => []SuperadminKeeps
<1>1. KeyInv => SuperadminKeeps
  BY DEF KeyInv, HasKey, IsKey, SuperadminKeeps, Granted
<1> QED
  BY <1>1, KeyHolds, PTL

-----------------------------------------------------------------------------
(* The owners of the groups *)

Active(c)    == at[c] \notin Resting
Registers(c) == Active(c) /\ call[c].kind = "register"

\* What a call knows of its group: one that registers it is alone with it; the others
\* work on a group that clients know, and what FindGroup asked of the owner still holds.
OwnCall(c) ==
  LET g == call[c].group IN
  /\ Registers(c) => /\ g \notin known
                     /\ \A d \in Calls \ {c} : Registers(d) => call[d].group # g
  /\ Active(c) /\ ~Registers(c) => g \in known
  /\ at[c] = "owner" => Registers(c) /\ owner[g] = call[c].who
  /\ at[c] = "found" => call[c].kind \in {"update", "dissolve", "leave", "setrole"}
  /\ at[c] = "member" => call[c].kind = "setrole"
  /\ at[c] \in {"found", "member"} /\ g \notin bereft =>
       /\ call[c].kind = "update" => owner[g] \in {call[c].who, Nil}
       /\ call[c].kind = "leave" => owner[g] # call[c].who
       /\ call[c].kind = "setrole" => owner[g] # call[c].target

OwnerInv == Global \in known /\ OwnerBelongs /\ \A c \in Calls : OwnCall(c)

\* A step that leaves the groups alone, in which calls end or go on somewhere else.
OwnQuiet ==
  /\ UNCHANGED <<owner, member, known, bereft>>
  /\ \A c \in Calls :
       \/ at'[c] = at[c] /\ call'[c] = call[c]
       \/ at'[c] \in Resting
       \/ Active(c) /\ call'[c] = call[c] /\ at'[c] \notin {"owner", "found", "member"}

LEMMA QuietKeepsOwners ==
  ASSUME OwnerInv, OwnQuiet
  PROVE  OwnerInv'
<1>1. Global \in known' /\ OwnerBelongs'
  BY DEF OwnerInv, OwnQuiet, OwnerBelongs
<1>2. \A c \in Calls : Active(c)' => Active(c) /\ call'[c] = call[c]
  BY DEF OwnQuiet, Active
<1>3. \A c \in Calls : Registers(c)' => Registers(c) /\ call'[c] = call[c]
  BY <1>2 DEF Registers
<1>4. ASSUME NEW c \in Calls PROVE OwnCall(c)'
  <2>1. Registers(c)' =>
          /\ call'[c].group \notin known'
          /\ \A d \in Calls \ {c} : Registers(d)' => call'[d].group # call'[c].group
    BY <1>3 DEF OwnerInv, OwnCall, OwnQuiet
  <2>2. Active(c)' /\ ~Registers(c)' => call'[c].group \in known'
    BY <1>2 DEF OwnerInv, OwnCall, OwnQuiet, Registers
  <2>3. ASSUME at'[c] \in {"owner", "found", "member"}
        PROVE  at'[c] = at[c] /\ call'[c] = call[c]
    BY <2>3 DEF OwnQuiet, Resting
  <2>4. at'[c] = "owner" => Registers(c)'
    BY <2>3 DEF OwnerInv, OwnCall, Registers, Active
  <2> QED
    BY <2>1, <2>2, <2>3, <2>4 DEF OwnerInv, OwnCall, OwnQuiet
<1> QED
  BY <1>1, <1>4 DEF OwnerInv

\* What a step of another call must not do to the group of this one.
LEMMA BystanderKeeps ==
  ASSUME PolicyTypeOK, OwnerInv, NEW d \in Calls, at'[d] = at[d], call'[d] = call[d],
         \A e \in Calls : Registers(e)' => Registers(e) /\ call'[e].group = call[e].group,
         known \subseteq known', Registers(d) => call[d].group \notin known',
         bereft \subseteq bereft',
         Active(d) /\ call[d].group \notin bereft' =>
           \/ owner'[call[d].group] = owner[call[d].group]
           \/ owner'[call[d].group] = Nil /\ ~Registers(d),
         Registers(d) => owner'[call[d].group] = owner[call[d].group]
  PROVE  OwnCall(d)'
<1>1. Active(d)' = Active(d) /\ Registers(d)' = Registers(d)
  BY DEF Active, Registers
<1>2. Active(d) => call[d].who # Nil /\ call[d].target # Nil
  BY PolicyAssumption DEF PolicyTypeOK, Active, Asked
<1>3. OwnCall(d)
  BY DEF OwnerInv
<1>4. Registers(d)' =>
        /\ call'[d].group \notin known'
        /\ \A e \in Calls \ {d} : Registers(e)' => call'[e].group # call'[d].group
  BY <1>1, <1>3 DEF OwnCall
<1>5. Active(d)' /\ ~Registers(d)' => call'[d].group \in known'
  BY <1>1, <1>3 DEF OwnCall
<1>6. at[d] \in {"owner", "found", "member"} => Active(d)
  BY DEF Active, Resting
<1>7. at'[d] = "owner" => Registers(d)' /\ owner'[call'[d].group] = call'[d].who
  BY <1>1, <1>3, <1>6 DEF OwnCall
<1>8. ASSUME at[d] \in {"found", "member"}, call[d].group \notin bereft'
      PROVE  /\ call[d].kind = "update" => owner'[call[d].group] \in {call[d].who, Nil}
             /\ call[d].kind = "leave" => owner'[call[d].group] # call[d].who
             /\ call[d].kind = "setrole" => owner'[call[d].group] # call[d].target
  BY <1>2, <1>3, <1>6, <1>8 DEF OwnCall
<1> QED
  BY <1>1, <1>3, <1>4, <1>5, <1>7, <1>8 DEF OwnCall

\* The call that is answered is nobody any more.
LEMMA AnsweredOwns ==
  ASSUME PolicyTypeOK, NEW c \in Calls, Answer({c})
  PROVE  /\ OwnCall(c)'
         /\ \A e \in Calls : Registers(e)' => Registers(e) /\ call'[e].group = call[e].group
         /\ \A d \in Calls \ {c} : at'[d] = at[d] /\ call'[d] = call[d]
<1>1. at'[c] = "done" /\ \A d \in Calls \ {c} : at'[d] = at[d] /\ call'[d] = call[d]
  BY DEF Answer, PolicyTypeOK
<1> QED
  BY <1>1 DEF OwnCall, Registers, Active, Resting

LEMMA RegisterGroupKeeps ==
  ASSUME PolicyTypeOK, OwnerInv, NEW c \in Calls, RegisterGroup(c)
  PROVE  OwnerInv'
<1> DEFINE g == call[c].group
<1>1. /\ at[c] = "run" /\ call[c].kind = "register" /\ at' = [at EXCEPT ![c] = "owner"]
      /\ owner' = [owner EXCEPT ![g] = call[c].who]
      /\ UNCHANGED <<member, known, bereft, call>>
  BY DEF RegisterGroup, Step
<1>2. call[c] \in Asked /\ Registers(c) /\ g \in Groups
  BY <1>1 DEF PolicyTypeOK, Registers, Active, Resting, Asked
<1>3. g \notin known /\ OwnCall(c)
  BY <1>2 DEF OwnerInv, OwnCall
<1>4. at'[c] = "owner" /\ owner'[g] = call[c].who /\ \A h \in Groups \ {g} : owner'[h] = owner[h]
  BY <1>1, <1>2 DEF PolicyTypeOK
<1>5. \A e \in Calls : Registers(e)' => Registers(e) /\ call'[e].group = call[e].group
  BY <1>1, <1>2 DEF Registers, Active, PolicyTypeOK
<1>6. OwnerBelongs' /\ Global \in known'
  BY <1>1, <1>3, <1>4 DEF OwnerInv, OwnerBelongs, PolicyTypeOK
<1>7. ASSUME NEW d \in Calls PROVE OwnCall(d)'
  <2>1. CASE d = c
    <3>1. Registers(c)'
      BY <1>1, <1>4 DEF Registers, Active, Resting
    <3>2. \A e \in Calls \ {c} : Registers(e)' => call'[e].group # g
      BY <1>2, <1>3, <1>5 DEF OwnCall
    <3> QED
      BY <1>1, <1>3, <1>4, <2>1, <3>1, <3>2 DEF OwnCall
  <2>2. CASE d # c
    <3>1. at'[d] = at[d] /\ call'[d] = call[d]
      BY <1>1, <2>2
    <3>2. Active(d) => call[d].group \in Groups \ {g}
      <4>1. CASE Registers(d)
        BY <1>2, <1>3, <2>2, <4>1 DEF OwnCall, Registers, Active, PolicyTypeOK, Asked
      <4>2. CASE ~Registers(d)
        BY <1>3, <4>2 DEF OwnerInv, OwnCall, PolicyTypeOK
      <4> QED
        BY <4>1, <4>2
    <3>3. Registers(d) => Active(d) /\ call[d].group \notin known
      BY DEF OwnerInv, OwnCall, Registers
    <3> QED
      BY <1>1, <1>4, <1>5, <3>1, <3>2, <3>3, BystanderKeeps
  <2> QED
    BY <2>1, <2>2
<1> QED
  BY <1>6, <1>7 DEF OwnerInv

LEMMA AddOwnerKeeps ==
  ASSUME PolicyTypeOK, OwnerInv, NEW c \in Calls, AddOwner(c)
  PROVE  OwnerInv'
<1> DEFINE g == call[c].group
<1>1. /\ at[c] = "owner" /\ Answer({c}) /\ known' = known \cup {g}
      /\ member' = [member EXCEPT ![g][call[c].who] = Owner] /\ UNCHANGED <<owner, bereft>>
  BY DEF AddOwner
<1>2. OwnCall(c)
  BY DEF OwnerInv
<1>3. Registers(c) /\ owner[g] = call[c].who
  BY <1>1, <1>2 DEF OwnCall
<1>4. call[c] \in Asked /\ g \in Groups /\ call[c].who \in People
  BY <1>3 DEF PolicyTypeOK, Registers, Active, Asked
<1>5. g \notin known /\ g # Global
  BY <1>2, <1>3 DEF OwnCall, OwnerInv
<1>6. member'[g][owner[g]] = OwnerRole(g)
  BY <1>1, <1>3, <1>4, <1>5 DEF PolicyTypeOK, OwnerRole
<1>7. \A h \in known : member'[h] = member[h]
  BY <1>1, <1>5 DEF PolicyTypeOK
<1>8. OwnerBelongs' /\ Global \in known'
  BY <1>1, <1>6, <1>7 DEF OwnerInv, OwnerBelongs
<1>9. ASSUME NEW d \in Calls \ {c} PROVE OwnCall(d)'
  <2>1. Registers(d) => call[d].group \notin known'
    BY <1>1, <1>2, <1>3 DEF OwnCall, OwnerInv
  <2> QED
    BY <1>1, <2>1, AnsweredOwns, BystanderKeeps
<1> QED
  BY <1>1, <1>8, <1>9, AnsweredOwns DEF OwnerInv

LEMMA FindGroupKeeps ==
  ASSUME PolicyTypeOK, OwnerInv, NEW c \in Calls, FindGroup(c)
  PROVE  OwnerInv'
<1> DEFINE g == call[c].group
<1>1. /\ at[c] = "run" /\ call[c].kind \in {"update", "dissolve", "leave", "setrole"}
      /\ at' = [at EXCEPT ![c] = "found"] /\ UNCHANGED <<owner, member, known, bereft>>
      /\ call[c].kind = "leave" => owner[g] # call[c].who
      /\ call[c].kind = "setrole" => owner[g] # call[c].target
      /\ call' = [call EXCEPT ![c].who = IF call[c].kind = "update" THEN owner[g] ELSE @]
  BY DEF FindGroup, Step, tables, NotOwner
<1>2. call[c] \in Asked /\ Active(c) /\ ~Registers(c)
  BY <1>1 DEF PolicyTypeOK, Registers, Active, Resting
<1>3. /\ call'[c].kind = call[c].kind /\ call'[c].group = g /\ call'[c].target = call[c].target
      /\ call'[c].who = IF call[c].kind = "update" THEN owner[g] ELSE call[c].who
      /\ \A d \in Calls \ {c} : call'[d] = call[d] /\ at'[d] = at[d]
      /\ at'[c] = "found"
  BY <1>1, <1>2 DEF PolicyTypeOK, Asked
<1>4. \A e \in Calls : Registers(e)' => Registers(e) /\ call'[e].group = call[e].group
  BY <1>1, <1>3 DEF Registers, Active
<1>5. OwnCall(c)'
  <2>1. Active(c)' /\ ~Registers(c)' /\ g \in known'
    BY <1>1, <1>2, <1>3 DEF Active, Registers, Resting, OwnerInv, OwnCall
  <2> QED
    BY <1>1, <1>3, <2>1 DEF OwnCall
<1>6. ASSUME NEW d \in Calls \ {c} PROVE OwnCall(d)'
  <2>1. Registers(d) => call[d].group \notin known'
    BY <1>1 DEF OwnCall, OwnerInv
  <2> QED
    BY <1>1, <1>3, <1>4, <2>1, BystanderKeeps
<1>7. OwnerBelongs' /\ Global \in known'
  BY <1>1 DEF OwnerInv, OwnerBelongs
<1> QED
  BY <1>5, <1>6, <1>7 DEF OwnerInv

LEMMA SaveGroupKeeps ==
  ASSUME PolicyTypeOK, OwnerInv, NEW c \in Calls, SaveGroup(c)
  PROVE  OwnerInv'
<1> DEFINE g == call[c].group
<1>1. /\ at[c] = "found" /\ call[c].kind = "update" /\ Answer({c})
      /\ owner' = [owner EXCEPT ![g] = call[c].who] /\ UNCHANGED <<member, known>>
      /\ bereft' = IF owner[g] = Nil THEN bereft \cup {g} ELSE bereft
  BY DEF SaveGroup
<1>2. OwnCall(c) /\ Active(c) /\ ~Registers(c)
  BY <1>1 DEF OwnerInv, Active, Resting, Registers
<1>3. call[c] \in Asked /\ g \in known /\ g \in Groups
  BY <1>2 DEF PolicyTypeOK, OwnCall, Active
<1>4. bereft \subseteq bereft' /\ \A h \in Groups \ {g} : owner'[h] = owner[h]
  BY <1>1 DEF PolicyTypeOK
<1>5. g \notin bereft' => owner'[g] = owner[g]
  BY <1>1, <1>2, <1>3 DEF OwnCall, PolicyTypeOK
<1>6. OwnerBelongs' /\ Global \in known'
  BY <1>1, <1>4, <1>5 DEF OwnerInv, OwnerBelongs, PolicyTypeOK
<1>7. ASSUME NEW d \in Calls \ {c} PROVE OwnCall(d)'
  <2>1. Registers(d) => call[d].group \notin known' /\ call[d].group # g
    BY <1>1, <1>3 DEF OwnCall, OwnerInv
  <2>2. Active(d) => call[d].group \in Groups
    BY DEF Active, PolicyTypeOK, Asked
  <2>3. Registers(d) => Active(d)
    BY DEF Registers
  <2> QED
    BY <1>1, <1>4, <1>5, <2>1, <2>2, <2>3, AnsweredOwns, BystanderKeeps
<1> QED
  BY <1>1, <1>6, <1>7, AnsweredOwns DEF OwnerInv

LEMMA DissolveGroupKeeps ==
  ASSUME PolicyTypeOK, OwnerInv, NEW c \in Calls, DissolveGroup(c)
  PROVE  OwnerInv'
<1> DEFINE g == call[c].group
<1>1. /\ at[c] = "found" /\ call[c].kind = "dissolve" /\ at' = [at EXCEPT ![c] = "changed"]
      /\ owner' = [owner EXCEPT ![g] = Nil] /\ UNCHANGED <<known, bereft, call>>
      /\ member' = [member EXCEPT ![g] = [p \in People |-> Nil]]
  BY DEF DissolveGroup, Step
<1>2. OwnCall(c) /\ Active(c) /\ ~Registers(c)
  BY <1>1 DEF OwnerInv, Active, Resting, Registers
<1>3. call[c] \in Asked /\ g \in known /\ g \in Groups
  BY <1>2 DEF PolicyTypeOK, OwnCall, Active
<1>4. owner'[g] = Nil /\ \A h \in Groups \ {g} : owner'[h] = owner[h] /\ member'[h] = member[h]
  BY <1>1, <1>3 DEF PolicyTypeOK
<1>5. OwnerBelongs' /\ Global \in known'
  BY <1>1, <1>4 DEF OwnerInv, OwnerBelongs, PolicyTypeOK
<1>6. at'[c] = "changed" /\ call'[c] = call[c]
      /\ \A d \in Calls \ {c} : at'[d] = at[d] /\ call'[d] = call[d]
  BY <1>1 DEF PolicyTypeOK
<1>7. \A e \in Calls : Registers(e)' => Registers(e) /\ call'[e].group = call[e].group
  BY <1>2, <1>6 DEF Registers, Active
<1>8. OwnCall(c)'
  BY <1>1, <1>2, <1>3, <1>6 DEF OwnCall, Registers, Active
<1>9. ASSUME NEW d \in Calls \ {c} PROVE OwnCall(d)'
  <2>1. Registers(d) => call[d].group \notin known' /\ call[d].group # g
    BY <1>1, <1>3 DEF OwnCall, OwnerInv
  <2>2. Active(d) => call[d].group \in Groups
    BY DEF Active, PolicyTypeOK, Asked
  <2>3. Registers(d) => Active(d)
    BY DEF Registers
  <2> QED
    BY <1>1, <1>4, <1>6, <1>7, <2>1, <2>2, <2>3, BystanderKeeps
<1> QED
  BY <1>5, <1>8, <1>9 DEF OwnerInv

\* A call that is about a known group goes on, and the groups keep their owners.
LEMMA WalkOnKeeps ==
  ASSUME PolicyTypeOK, OwnerInv, NEW c \in Calls, NEW to, Active(c), ~Registers(c),
         to \notin {"owner", "found"}, to = "member" => call[c].kind = "setrole" /\ at[c] = "found",
         at' = [at EXCEPT ![c] = to], UNCHANGED <<owner, known, call>>, bereft \subseteq bereft',
         OwnerBelongs'
  PROVE  OwnerInv'
<1>1. at'[c] = to /\ call'[c] = call[c]
      /\ \A d \in Calls \ {c} : at'[d] = at[d] /\ call'[d] = call[d]
  BY DEF PolicyTypeOK
<1>2. ~Registers(c)'
  BY <1>1 DEF Registers
<1>3. \A e \in Calls : Registers(e)' => Registers(e) /\ call'[e].group = call[e].group
  BY <1>1, <1>2 DEF Registers, Active
<1>4. OwnCall(c)'
  BY <1>1, <1>2 DEF OwnerInv, OwnCall
<1>5. ASSUME NEW d \in Calls \ {c} PROVE OwnCall(d)'
  <2>1. Registers(d) => call[d].group \notin known'
    BY DEF OwnCall, OwnerInv
  <2> QED
    BY <1>1, <1>3, <2>1, BystanderKeeps
<1> QED
  BY <1>4, <1>5 DEF OwnerInv

LEMMA MembersKeep ==
  ASSUME PolicyTypeOK, OwnerInv, NEW c \in Calls,
         RemoveMember(c) \/ InviteMember(c) \/ FindMember(c) \/ UpdateMemberRole(c)
  PROVE  OwnerInv'
<1> DEFINE g == call[c].group
<1>1. OwnCall(c) /\ Active(c) /\ ~Registers(c)
  BY DEF OwnerInv, OwnCall, Active, Resting, Registers, RemoveMember, InviteMember,
         FindMember, UpdateMemberRole
<1>2. call[c] \in Asked /\ g \in known /\ g \in Groups
  BY <1>1 DEF PolicyTypeOK, OwnCall, Active
<1>3. call[c].who \in People /\ call[c].target \in People /\ call[c].role \in Roles
  BY <1>2 DEF Asked
<1>4. OwnerRole(g) # Nil
  BY PolicyAssumption DEF OwnerRole
<1>5. CASE RemoveMember(c)
  <2> DEFINE p == IF call[c].kind = "leave" THEN call[c].who ELSE call[c].target
  <2>1. /\ at' = [at EXCEPT ![c] = "changed"] /\ member' = [member EXCEPT ![g][p] = Nil]
        /\ bereft' = IF call[c].kind = "kick" /\ p = owner[g] THEN bereft \cup {g} ELSE bereft
        /\ UNCHANGED <<owner, known, call>>
        /\ (at[c] = "found" /\ call[c].kind = "leave") \/ call[c].kind = "kick"
    BY <1>5 DEF RemoveMember, Step
  <2>2. g \notin bereft' => p # owner[g]
    BY <1>1, <2>1 DEF OwnCall
  <2>3. \A h \in Groups, q \in People : h # g \/ q # p => member'[h][q] = member[h][q]
    BY <1>2, <1>3, <2>1 DEF PolicyTypeOK
  <2>4. bereft \subseteq bereft'
    BY <2>1
  <2> HIDE DEF p
  <2>5. OwnerBelongs'
    BY <2>1, <2>2, <2>3, <2>4 DEF OwnerInv, OwnerBelongs, PolicyTypeOK
  <2> QED
    BY <1>1, <2>1, <2>4, <2>5, WalkOnKeeps
<1>6. CASE InviteMember(c)
  <2>1. /\ at' = [at EXCEPT ![c] = "changed"] /\ UNCHANGED <<owner, known, bereft, call>>
        /\ member[g][call[c].target] = Nil
        /\ member' = [member EXCEPT ![g][call[c].target] = call[c].role]
    BY <1>6 DEF InviteMember, Step
  <2>2. g \notin bereft /\ owner[g] # Nil => call[c].target # owner[g]
    BY <1>2, <1>4, <2>1 DEF OwnerInv, OwnerBelongs
  <2>3. \A h \in Groups, q \in People :
          h # g \/ q # call[c].target => member'[h][q] = member[h][q]
    BY <1>2, <1>3, <2>1 DEF PolicyTypeOK
  <2>4. OwnerBelongs'
    BY <2>1, <2>2, <2>3 DEF OwnerInv, OwnerBelongs, PolicyTypeOK
  <2> QED
    BY <1>1, <2>1, <2>4, WalkOnKeeps
<1>7. CASE FindMember(c)
  <2>1. /\ at[c] = "found" /\ call[c].kind = "setrole" /\ at' = [at EXCEPT ![c] = "member"]
        /\ UNCHANGED <<owner, member, known, bereft, call>>
    BY <1>7 DEF FindMember, Step, tables
  <2>2. OwnerBelongs'
    BY <2>1 DEF OwnerInv, OwnerBelongs
  <2> QED
    BY <1>1, <2>1, <2>2, WalkOnKeeps
<1>8. CASE UpdateMemberRole(c)
  <2>1. /\ at[c] = "member" /\ at' = [at EXCEPT ![c] = "changed"]
        /\ UNCHANGED <<owner, known, bereft, call>>
        /\ member' = [member EXCEPT ![g][call[c].target] = IF @ = Nil THEN Nil ELSE call[c].role]
    BY <1>8 DEF UpdateMemberRole, Step
  <2>2. g \notin bereft => call[c].target # owner[g]
    BY <1>1, <2>1 DEF OwnCall
  <2>3. \A h \in Groups, q \in People :
          h # g \/ q # call[c].target => member'[h][q] = member[h][q]
    BY <1>2, <1>3, <2>1 DEF PolicyTypeOK
  <2>4. OwnerBelongs'
    BY <2>1, <2>2, <2>3 DEF OwnerInv, OwnerBelongs, PolicyTypeOK
  <2> QED
    BY <1>1, <2>1, <2>4, WalkOnKeeps
<1> QED
  BY <1>5, <1>6, <1>7, <1>8

LEMMA ReceiveKeeps ==
  ASSUME PolicyTypeOK, OwnerInv, NEW c \in Calls, NEW n \in Nodes, NEW k \in Inputs,
         Receive(c, n, k)
  PROVE  OwnerInv'
<1>1. /\ at[c] = "new" /\ call' = [call EXCEPT ![c] = k] /\ UNCHANGED tables
      /\ IF k.kind = "register" THEN IsNew(k.group) ELSE k.group \in known
  BY DEF Receive
<1>2. PICK to \in {"run", "ask"} : at' = [at EXCEPT ![c] = to]
  BY DEF Receive, Step
<1>3. at'[c] \in {"run", "ask"} /\ call'[c] = k
      /\ \A d \in Calls \ {c} : at'[d] = at[d] /\ call'[d] = call[d]
  BY <1>1, <1>2 DEF PolicyTypeOK
<1>4. ASSUME k.kind = "register" PROVE \A d \in Calls : Registers(d) => call[d].group # k.group
  BY <1>1, <1>4 DEF IsNew, Registers, Active, Resting
<1>5. \A d \in Calls \ {c} : /\ Registers(d)' = Registers(d)
                             /\ Active(d)' = Active(d)
  BY <1>3 DEF Registers, Active
<1>6. OwnCall(c)'
  <2>1. Active(c)' /\ (Registers(c)' <=> k.kind = "register")
    BY <1>3 DEF Active, Registers, Resting
  <2>2. Registers(c)' => /\ k.group \notin known'
                         /\ \A d \in Calls \ {c} : Registers(d)' => call'[d].group # k.group
    BY <1>1, <1>3, <1>4, <1>5, <2>1 DEF IsNew, tables
  <2>3. ~Registers(c)' => k.group \in known'
    BY <1>1, <2>1 DEF tables
  <2> QED
    BY <1>3, <2>1, <2>2, <2>3 DEF OwnCall
<1>7. ASSUME NEW d \in Calls \ {c} PROVE OwnCall(d)'
  <2>1. OwnCall(d) /\ UNCHANGED <<owner, known, bereft>>
    BY <1>1 DEF OwnerInv, tables
  <2>2. Registers(d)' /\ Registers(c)' => call'[d].group # k.group
    BY <1>3, <1>4, <1>5 DEF Registers
  <2>3. Registers(d)' => \A e \in Calls \ {d} : Registers(e)' => call'[e].group # call'[d].group
    BY <1>3, <1>5, <2>1, <2>2 DEF OwnCall
  <2> QED
    BY <1>3, <1>5, <2>1, <2>3 DEF OwnCall
<1>8. OwnerBelongs' /\ Global \in known'
  BY <1>1 DEF OwnerInv, OwnerBelongs, tables
<1> QED
  BY <1>6, <1>7, <1>8 DEF OwnerInv

\* Everything else is quiet.
LEMMA AnswerIsOwnQuiet ==
  ASSUME PolicyTypeOK, NEW C, Answer(C), UNCHANGED <<owner, member, known, bereft>>
  PROVE  OwnQuiet
BY DEF OwnQuiet, Answer, PolicyTypeOK, Resting

LEMMA DecideIsOwnQuiet ==
  ASSUME PolicyTypeOK, NEW C \in SUBSET {c \in Calls : Active(c)}, NEW policy,
         Decide(C, policy), UNCHANGED tables
  PROVE  OwnQuiet
<1> DEFINE ok == {c \in C : Allowed(c, policy)}
<1>1. /\ at' = [c \in Calls |-> IF c \in ok THEN "run" ELSE IF c \in C THEN "done" ELSE at[c]]
      /\ call' = [c \in Calls |-> IF c \in C \ ok THEN Nil ELSE call[c]]
  BY DEF Decide
<1>2. ok \subseteq C /\ \A c \in C : c \in Calls /\ Active(c)
  OBVIOUS
<1> HIDE DEF ok
<1>3. ASSUME NEW c \in Calls
      PROVE  \/ at'[c] = at[c] /\ call'[c] = call[c]
             \/ at'[c] \in Resting
             \/ Active(c) /\ call'[c] = call[c] /\ at'[c] \notin {"owner", "found", "member"}
  BY <1>1, <1>2 DEF Resting
<1> QED
  BY <1>3 DEF OwnQuiet, tables

LEMMA MoveIsOwnQuiet ==
  ASSUME PolicyTypeOK, NEW c \in Calls, NEW to, Active(c), to \notin {"owner", "found", "member"},
         at' = [at EXCEPT ![c] = to], UNCHANGED <<call, owner, member, known, bereft>>
  PROVE  OwnQuiet
BY DEF OwnQuiet, PolicyTypeOK

LEMMA OwnersStep ==
  ASSUME PolicyTypeOK, OwnerInv, [PolicyNext]_<<policyVars, cacheVars>>
  PROVE  OwnerInv'
<1> USE DEF tables, Step
<1>1. ASSUME NEW c \in Calls, Hit(c) PROVE OwnQuiet
  <2>1. {c} \in SUBSET {d \in Calls : Active(d)}
    BY <1>1 DEF Hit, Active, Resting
  <2>2. PICK policy : Decide({c}, policy)
    BY <1>1 DEF Hit
  <2> QED
    BY <1>1, <2>1, <2>2, DecideIsOwnQuiet DEF Hit
<1>2. ASSUME NEW c \in Calls, Expire(c) \/ BeginLoad(c) \/ Invalidate(c) PROVE OwnQuiet
  <2>1. Active(c)
    BY <1>2 DEF Expire, BeginLoad, Invalidate, Active, Resting
  <2> QED
    BY <1>2, <2>1, MoveIsOwnQuiet DEF Expire, BeginLoad, Invalidate
<1>3. ASSUME NEW c \in Calls,
             BeginDelete(c) \/ DeleteGrants(c) \/ Commit(c) \/ Reread(c)
      PROVE  OwnQuiet
  <2>1. Active(c)
    BY <1>3 DEF BeginDelete, DeleteGrants, Commit, Reread, Active, Resting
  <2> QED
    BY <1>3, <2>1, MoveIsOwnQuiet DEF BeginDelete, DeleteGrants, Commit, Reread
<1>4. ASSUME NEW c \in Calls, NEW p \in Perms, InsertGrant(c, p) PROVE OwnQuiet
  BY <1>4 DEF InsertGrant, OwnQuiet
<1>5. ASSUME NEW c \in Calls,
             Refused(c) \/ Publish(c) \/ PublishFails(c) \/ ChangeUnseen(c)
      PROVE  OwnQuiet
  BY <1>5, AnswerIsOwnQuiet DEF Refused, Publish, PublishFails, ChangeUnseen
<1>6. ASSUME NEW n \in Nodes, Restart(n) PROVE OwnQuiet
  <2>1. PICK C : Answer(C)
    BY <1>6 DEF Restart
  <2> QED
    BY <1>6, <2>1, AnswerIsOwnQuiet DEF Restart
<1>7. ASSUME NEW n \in Nodes, NEW d \in Groups, LoadStep(n, d) PROVE OwnQuiet
  <2>1. CASE LoadMembers(n, d)
    BY <2>1 DEF LoadMembers, policyVars, OwnQuiet
  <2>2. CASE AddEnforcer(n, d)
    <3>1. Waiting(n, d) \in SUBSET {c \in Calls : Active(c)}
      BY DEF Waiting, Active, Resting
    <3>2. PICK policy : Decide(Waiting(n, d), policy)
      BY <2>2 DEF AddEnforcer
    <3> QED
      BY <2>2, <3>1, <3>2, DecideIsOwnQuiet DEF AddEnforcer
  <2>3. CASE LoadFails(n, d)
    BY <2>3, AnswerIsOwnQuiet DEF LoadFails
  <2> QED
    BY <1>7, <2>1, <2>2, <2>3 DEF LoadStep
<1>8. ASSUME UNCHANGED policyVars PROVE OwnQuiet
  BY <1>8 DEF policyVars, OwnQuiet
<1>9. ASSUME NEW c \in Calls, TableStep(c) PROVE OwnerInv'
  BY <1>3, <1>4, <1>5, <1>9, QuietKeepsOwners, RegisterGroupKeeps, AddOwnerKeeps,
     FindGroupKeeps, SaveGroupKeeps, DissolveGroupKeeps, MembersKeep DEF TableStep
<1> QED
  BY <1>1, <1>2, <1>5, <1>6, <1>7, <1>8, <1>9, QuietKeepsOwners, ReceiveKeeps
  DEF PolicyNext, CacheStep, Deliver, Age, Evict

\* A group that clients know keeps its owner as a member in the owner's role, whatever
\* the others invite, kick, promote, save and dissolve at the same time; but for a group
\* whose owner was kicked or that was saved after it was dissolved.
THEOREM PoliciesOwnerBelongs == PolicySpec => []OwnerBelongs
<1>1. PolicyInit => PolicyTypeOK /\ OwnerInv
  <2> SUFFICES ASSUME PolicyInit PROVE PolicyTypeOK /\ OwnerInv
    OBVIOUS
  <2>1. Global \in known /\ OwnerBelongs
    BY PolicyAssumption DEF PolicyInit, OwnerBelongs
  <2>2. \A c \in Calls : OwnCall(c)
    BY DEF PolicyInit, OwnCall, Registers, Active, Resting
  <2> QED
    BY <2>1, <2>2, PolicyInitTypes DEF OwnerInv
<1>2. PolicyTypeOK /\ OwnerInv /\ [PolicyNext]_<<policyVars, cacheVars>>
        => (PolicyTypeOK /\ OwnerInv)'
  BY PolicyStepTypes, OwnersStep
<1>3. OwnerInv => OwnerBelongs
  BY DEF OwnerInv
<1> QED
  BY <1>1, <1>2, <1>3, PTL DEF PolicySpec

-----------------------------------------------------------------------------
(* The enforcers *)

PolicyType == [p : SUBSET (Roles \X Perms), g : [People -> Roles \cup {Nil}] \cup {Nil}]
Entry      == [policy : PolicyType, late : BOOLEAN, old : BOOLEAN]
Loading    == [policy : PolicyType, late : BOOLEAN]
Message    == [by : Calls, of : SUBSET Groups]

CacheTypeOK ==
  /\ cache \in [Nodes -> [Groups -> Entry \cup {Nil}]]
  /\ load \in [Nodes -> [Groups -> Loading \cup {Nil}]]
  /\ mail \in [Nodes -> SUBSET Message]
  /\ node \in [Calls -> Nodes \cup {Nil}]
  /\ \A c \in Calls : Active(c) => node[c] \in Nodes

\* What a call does where.
PlaceInv ==
  \A c \in Calls :
    /\ at[c] \in {"ask", "miss", "wait"} => call[c].kind # "register"
    /\ at[c] \in {"deleting", "insert"} => call[c].kind = "replace"

EntryOK(n, d) ==
  LET e == cache[n][d] IN
  e # Nil => e.policy = Policy(d) \/ e.late = TRUE \/ Awaited(n, d)
LoadOK(n, d) ==
  LET l == load[n][d] IN
  l # Nil => \/ l.policy.p = Granted /\ l.policy.g \in {Nil, member[d]}
             \/ l.late = TRUE
             \/ Awaited(n, d)

\* No enforcer is made for a group that clients do not know.
CellOK(n, d) ==
  EntryOK(n, d) /\ LoadOK(n, d) /\ (cache[n][d] # Nil \/ load[n][d] # Nil => d \in known)
EnforcerInv == \A n \in Nodes, d \in Groups : CellOK(n, d)

LEMMA PolicyHasType ==
  ASSUME PolicyTypeOK, NEW d \in Groups
  PROVE  Policy(d) \in PolicyType
BY DEF PolicyTypeOK, Policy, Granted, Grant, PolicyType

LEMMA LateHasType ==
  /\ \A e \in Entry \cup {Nil} :
       /\ Late(e) \in Entry \cup {Nil}
       /\ Late(e) = Nil \/ Late(e).late = TRUE
       /\ Late(e) # Nil => e # Nil
  /\ \A l \in Loading \cup {Nil} :
       /\ Late(l) \in Loading \cup {Nil}
       /\ Late(l) = Nil \/ Late(l).late = TRUE
       /\ Late(l) # Nil => l # Nil
BY DEF Late, Entry, Loading

\* The enforcer in a cell, or the load, stays what it is, is dropped or becomes late.
Fades(x, y) ==
  \/ y = Nil
  \/ x # Nil /\ y.late = TRUE
  \/ x # Nil /\ y.policy = x.policy /\ y.late = x.late
Drops(x, y) == y = Nil \/ (x # Nil /\ y.late = TRUE)

\* While the tables stay what they are for a domain, its cell stays in order if its
\* invalidation stays on the way, or comes.
LEMMA CellKeeps ==
  ASSUME NEW n \in Nodes, NEW d \in Groups, CellOK(n, d),
         Granted' = Granted, member'[d] = member[d], known \subseteq known',
         Fades(cache[n][d], cache'[n][d]), Fades(load[n][d], load'[n][d]),
         \/ Awaited(n, d) => Awaited(n, d)'
         \/ Drops(cache[n][d], cache'[n][d]) /\ Drops(load[n][d], load'[n][d])
  PROVE  CellOK(n, d)'
<1>1. Policy(d)' = Policy(d)
  BY DEF Policy
<1>2. cache'[n][d] # Nil \/ load'[n][d] # Nil => d \in known'
  BY DEF CellOK, Fades
<1>3. EntryOK(n, d)'
  BY <1>1 DEF CellOK, EntryOK, Fades, Drops
<1>4. LoadOK(n, d)'
  BY <1>1 DEF CellOK, LoadOK, Fades, Drops
<1> QED
  BY <1>2, <1>3, <1>4 DEF CellOK

NodeTypeOK ==
  /\ node \in [Calls -> Nodes \cup {Nil}]
  /\ \A c \in Calls : Active(c) => node[c] \in Nodes
CellTypeOK ==
  /\ cache \in [Nodes -> [Groups -> Entry \cup {Nil}]]
  /\ load \in [Nodes -> [Groups -> Loading \cup {Nil}]]

LEMMA AnswerKeepsNodes ==
  ASSUME PolicyTypeOK, NodeTypeOK, NEW C, Answer(C)
  PROVE  NodeTypeOK'
BY DEF NodeTypeOK, Answer, PolicyTypeOK, Active, Resting

LEMMA MoveKeepsNodes ==
  ASSUME PolicyTypeOK, NodeTypeOK, NEW c \in Calls, NEW to, Active(c),
         at' = [at EXCEPT ![c] = to], UNCHANGED node
  PROVE  NodeTypeOK'
BY DEF NodeTypeOK, PolicyTypeOK, Active

LEMMA DecideKeepsNodes ==
  ASSUME PolicyTypeOK, NodeTypeOK, NEW C \in SUBSET {c \in Calls : Active(c)}, NEW policy,
         Decide(C, policy)
  PROVE  NodeTypeOK'
<1> DEFINE ok == {c \in C : Allowed(c, policy)}
<1>1. /\ at' = [c \in Calls |-> IF c \in ok THEN "run" ELSE IF c \in C THEN "done" ELSE at[c]]
      /\ node' = [c \in Calls |-> IF c \in C \ ok THEN Nil ELSE node[c]]
  BY DEF Decide
<1>2. ok \subseteq C /\ \A c \in C : c \in Calls /\ Active(c)
  OBVIOUS
<1> HIDE DEF ok
<1>3. node' \in [Calls -> Nodes \cup {Nil}]
  BY <1>1 DEF NodeTypeOK
<1>4. ASSUME NEW c \in Calls, Active(c)' PROVE node'[c] \in Nodes
  <2>1. Active(c) /\ c \notin C \ ok
    BY <1>1, <1>2, <1>4 DEF Active, Resting
  <2> QED
    BY <1>1, <2>1 DEF NodeTypeOK
<1> QED
  BY <1>3, <1>4 DEF NodeTypeOK

LEMMA TableStepKeepsNodes ==
  ASSUME PolicyTypeOK, NodeTypeOK, NEW c \in Calls, TableStep(c)
  PROVE  NodeTypeOK'
<1>1. CASE AddOwner(c) \/ SaveGroup(c) \/ Refused(c)
  BY <1>1, AnswerKeepsNodes DEF AddOwner, SaveGroup, Refused
<1>2. ASSUME NEW p \in Perms, InsertGrant(c, p) PROVE NodeTypeOK'
  BY <1>2 DEF InsertGrant, NodeTypeOK, Active
<1>3. CASE RegisterGroup(c) \/ FindGroup(c) \/ DissolveGroup(c) \/ RemoveMember(c)
           \/ InviteMember(c) \/ FindMember(c) \/ UpdateMemberRole(c)
  <2>1. Active(c)
    BY <1>3 DEF RegisterGroup, FindGroup, DissolveGroup, RemoveMember, InviteMember,
                FindMember, UpdateMemberRole, Active, Resting
  <2>2. UNCHANGED node
    BY <1>3 DEF RegisterGroup, FindGroup, DissolveGroup, RemoveMember, InviteMember,
                FindMember, UpdateMemberRole
  <2>3. PICK to : at' = [at EXCEPT ![c] = to]
    BY <1>3 DEF RegisterGroup, FindGroup, DissolveGroup, RemoveMember, InviteMember,
                FindMember, UpdateMemberRole, Step
  <2> QED
    BY <2>1, <2>2, <2>3, MoveKeepsNodes
<1>4. CASE BeginDelete(c) \/ DeleteGrants(c) \/ Commit(c) \/ Reread(c)
  <2>1. Active(c) /\ UNCHANGED node
    BY <1>4 DEF BeginDelete, DeleteGrants, Commit, Reread, Active, Resting
  <2>2. PICK to : at' = [at EXCEPT ![c] = to]
    BY <1>4 DEF BeginDelete, DeleteGrants, Commit, Reread, Step
  <2> QED
    BY <2>1, <2>2, MoveKeepsNodes
<1> QED
  BY <1>1, <1>2, <1>3, <1>4 DEF TableStep

\* What the steps that invalidate do to the cells.
LEMMA DropCells ==
  ASSUME CellTypeOK, NEW n \in Nodes, NEW ds, Drop(n, ds)
  PROVE  /\ CellTypeOK'
         /\ \A m \in Nodes, d \in Groups :
              /\ m # n \/ d \notin ds => cache'[m][d] = cache[m][d] /\ load'[m][d] = load[m][d]
              /\ m = n /\ d \in ds => cache'[m][d] = Nil /\ load'[m][d] = Late(load[m][d])
BY LateHasType DEF Drop, CellTypeOK

LEMMA MissCells ==
  ASSUME CellTypeOK, NEW ns, NEW ds, Miss(ns, ds)
  PROVE  /\ CellTypeOK'
         /\ \A m \in Nodes, d \in Groups :
              IF m \in ns /\ d \in ds
              THEN cache'[m][d] = Late(cache[m][d]) /\ load'[m][d] = Late(load[m][d])
              ELSE cache'[m][d] = cache[m][d] /\ load'[m][d] = load[m][d]
BY LateHasType DEF Miss, CellTypeOK

LEMMA CacheStepTypes ==
  ASSUME PolicyTypeOK, CacheTypeOK, OwnerInv, PlaceInv,
         [PolicyNext]_<<policyVars, cacheVars>>
  PROVE  CacheTypeOK'
<1> SUFFICES NodeTypeOK' /\ CellTypeOK' /\ mail' \in [Nodes -> SUBSET Message]
  BY DEF CacheTypeOK, NodeTypeOK, CellTypeOK
<1>0. NodeTypeOK /\ CellTypeOK /\ mail \in [Nodes -> SUBSET Message]
  BY DEF CacheTypeOK, NodeTypeOK, CellTypeOK
<1> DEFINE Goal == NodeTypeOK' /\ CellTypeOK' /\ mail' \in [Nodes -> SUBSET Message]
<1>a. UNCHANGED <<cache, load>> => CellTypeOK'
  BY <1>0 DEF CellTypeOK
<1>b. UNCHANGED <<at, node>> => NodeTypeOK'
  BY <1>0 DEF NodeTypeOK, Active
<1>c. ASSUME NEW c \in Calls, Active(c)
      PROVE  Concerned(c) \subseteq Groups /\ Domain(c) \in Groups /\ node[c] \in Nodes
  BY <1>0, <1>c, PolicyAssumption
  DEF Concerned, Domain, PolicyTypeOK, Active, Asked, NodeTypeOK
<1>1. ASSUME NEW c \in Calls, NEW n \in Nodes, NEW k \in Inputs, Receive(c, n, k)
      PROVE  Goal
  <2>1. PICK to : at' = [at EXCEPT ![c] = to]
    BY <1>1 DEF Receive, Step
  <2>2. node' = [node EXCEPT ![c] = n] /\ UNCHANGED cacheVars
    BY <1>1 DEF Receive
  <2>3. NodeTypeOK'
    BY <1>0, <2>1, <2>2 DEF NodeTypeOK, Active, PolicyTypeOK
  <2> QED
    BY <1>0, <1>a, <2>2, <2>3 DEF cacheVars
<1>2. ASSUME NEW c \in Calls, Hit(c) PROVE Goal
  <2>1. {c} \in SUBSET {d \in Calls : Active(d)}
    BY <1>2 DEF Hit, Active, Resting
  <2>2. PICK policy : Decide({c}, policy)
    BY <1>2 DEF Hit
  <2> QED
    BY <1>0, <1>2, <1>a, <2>1, <2>2, DecideKeepsNodes DEF Hit, cacheVars
<1>3. ASSUME NEW c \in Calls, Expire(c) PROVE Goal
  <2>1. Active(c)
    BY <1>3 DEF Expire, Active, Resting
  <2>2. CellTypeOK'
    BY <1>0, <1>3, <1>c, <2>1 DEF Expire, CellTypeOK
  <2> QED
    BY <1>0, <1>3, <2>1, <2>2, MoveKeepsNodes DEF Expire, Step
<1>4. ASSUME NEW c \in Calls, BeginLoad(c) PROVE Goal
  <2>1. Active(c)
    BY <1>4 DEF BeginLoad, Active, Resting
  <2>2. NodeTypeOK' /\ UNCHANGED mail
    BY <1>0, <1>4, <2>1, MoveKeepsNodes DEF BeginLoad, Step
  <2>3. CASE UNCHANGED <<cache, load>>
    BY <1>0, <1>a, <2>2, <2>3
  <2>4. CASE ~UNCHANGED <<cache, load>>
    <3> DEFINE n == node[c]
               d == Domain(c)
               l == [policy |-> [p |-> Granted, g |-> Nil], late |-> FALSE]
    <3>1. cache' = [cache EXCEPT ![n][d] = Nil] /\ load' = [load EXCEPT ![n][d] = l]
      BY <1>4, <2>4 DEF BeginLoad
    <3>2. l \in Loading
      BY DEF Loading, PolicyType, Granted, PolicyTypeOK, Grant
    <3>3. n \in Nodes /\ d \in Groups
      BY <1>c, <2>1
    <3> HIDE DEF n, d, l
    <3>4. CellTypeOK'
      BY <1>0, <3>1, <3>2, <3>3 DEF CellTypeOK
    <3> QED
      BY <1>0, <2>2, <3>4
  <2> QED
    BY <2>3, <2>4
<1>5. ASSUME NEW c \in Calls, TableStep(c), UNCHANGED cacheVars PROVE Goal
  BY <1>0, <1>5, <1>a, TableStepKeepsNodes DEF cacheVars
<1>6. ASSUME NEW c \in Calls, Invalidate(c) PROVE Goal
  <2>1. Active(c)
    BY <1>6 DEF Invalidate, Active, Resting
  <2> QED
    BY <1>0, <1>6, <1>c, <2>1, MoveKeepsNodes, DropCells DEF Invalidate, Step
<1>7. ASSUME NEW c \in Calls, Publish(c) PROVE Goal
  <2>1. Active(c)
    BY <1>7 DEF Publish, Active, Resting
  <2>2. [by |-> c, of |-> Dropped(c)] \in Message
    BY <1>c, <2>1 DEF Message, Dropped
  <2>3. mail' \in [Nodes -> SUBSET Message]
    BY <1>0, <1>7, <2>2 DEF Publish
  <2> QED
    BY <1>0, <1>7, <1>a, <2>3, AnswerKeepsNodes DEF Publish
<1>8. ASSUME NEW c \in Calls, PublishFails(c) \/ ChangeUnseen(c) PROVE Goal
  BY <1>0, <1>8, AnswerKeepsNodes, MissCells DEF PublishFails, ChangeUnseen, tables
<1>9. ASSUME NEW n \in Nodes, Restart(n) PROVE Goal
  <2>1. PICK C : Answer(C)
    BY <1>9 DEF Restart
  <2>2. PICK lost : /\ cache' = [m \in Nodes |-> [d \in Groups |->
                         IF m = n THEN Nil ELSE IF d \in lost THEN Late(cache[m][d]) ELSE cache[m][d]]]
                    /\ load' = [m \in Nodes |-> [d \in Groups |->
                         IF m = n THEN Nil ELSE IF d \in lost THEN Late(load[m][d]) ELSE load[m][d]]]
    BY <1>9 DEF Restart
  <2>3. CellTypeOK'
    BY <1>0, <2>2, LateHasType DEF CellTypeOK
  <2>4. mail' \in [Nodes -> SUBSET Message]
    BY <1>0, <1>9 DEF Restart
  <2> QED
    BY <1>0, <2>1, <2>3, <2>4, AnswerKeepsNodes
<1>10. ASSUME NEW n \in Nodes, NEW m \in mail[n], Deliver(n, m) PROVE Goal
  <2>1. mail' \in [Nodes -> SUBSET Message]
    BY <1>0, <1>10 DEF Deliver
  <2> QED
    BY <1>0, <1>10, <1>b, <2>1, DropCells DEF Deliver, policyVars
<1>11. ASSUME NEW n \in Nodes, NEW d \in Groups, LoadMembers(n, d) PROVE Goal
  <2>1. load' = [load EXCEPT ![n][d].policy.g = member[d]] /\ load[n][d] # Nil
        /\ UNCHANGED <<policyVars, cache, mail>>
    BY <1>11 DEF LoadMembers
  <2>2. load[n][d] \in Loading
    BY <1>0, <2>1 DEF CellTypeOK
  <2>3. [load[n][d] EXCEPT !.policy.g = member[d]] \in Loading
    BY <2>2 DEF Loading, PolicyType, PolicyTypeOK
  <2>4. CellTypeOK'
    BY <1>0, <2>1, <2>3 DEF CellTypeOK
  <2> QED
    BY <1>0, <1>b, <2>1, <2>4 DEF policyVars
<1>12. ASSUME NEW n \in Nodes, NEW d \in Groups, AddEnforcer(n, d) PROVE Goal
  <2> DEFINE l == load[n][d]
             e == [policy |-> l.policy, late |-> l.late, old |-> FALSE]
  <2>1. /\ l # Nil /\ cache' = [cache EXCEPT ![n][d] = e] /\ load' = [load EXCEPT ![n][d] = Nil]
        /\ UNCHANGED mail
    BY <1>12 DEF AddEnforcer
  <2>2. e \in Entry
    BY <1>0, <2>1 DEF CellTypeOK, Loading, Entry
  <2> HIDE DEF e, l
  <2>3. CellTypeOK'
    BY <1>0, <2>1, <2>2 DEF CellTypeOK
  <2>4. Waiting(n, d) \in SUBSET {c \in Calls : Active(c)}
    BY DEF Waiting, Active, Resting
  <2>5. PICK policy : Decide(Waiting(n, d), policy)
    BY <1>12 DEF AddEnforcer
  <2> QED
    BY <1>0, <2>1, <2>3, <2>4, <2>5, DecideKeepsNodes
<1>13. ASSUME NEW n \in Nodes, NEW d \in Groups, LoadFails(n, d) PROVE Goal
  <2>1. CellTypeOK'
    BY <1>0, <1>13 DEF LoadFails, CellTypeOK
  <2> QED
    BY <1>0, <1>13, <2>1, AnswerKeepsNodes DEF LoadFails
<1>14. ASSUME NEW n \in Nodes, NEW d \in Groups, Age(n, d) \/ Evict(n, d) PROVE Goal
  <2>1. CASE Age(n, d)
    <3>1. cache' = [cache EXCEPT ![n][d].old = TRUE] /\ cache[n][d] # Nil
          /\ UNCHANGED <<policyVars, load, mail>>
      BY <2>1 DEF Age, Fresh
    <3>2. cache[n][d] \in Entry
      BY <1>0, <3>1 DEF CellTypeOK
    <3>3. [cache[n][d] EXCEPT !.old = TRUE] \in Entry
      BY <3>2 DEF Entry
    <3>4. CellTypeOK'
      BY <1>0, <3>1, <3>3 DEF CellTypeOK
    <3> QED
      BY <1>0, <1>b, <3>1, <3>4 DEF policyVars
  <2>2. CASE Evict(n, d)
    <3>1. CellTypeOK'
      BY <1>0, <2>2 DEF Evict, CellTypeOK
    <3> QED
      BY <1>0, <1>b, <2>2, <3>1 DEF Evict, policyVars
  <2> QED
    BY <1>14, <2>1, <2>2
<1>15. CASE UNCHANGED <<policyVars, cacheVars>>
  BY <1>0, <1>15, <1>a, <1>b DEF policyVars, cacheVars
<1> QED
  BY <1>1, <1>2, <1>3, <1>4, <1>5, <1>6, <1>7, <1>8, <1>9, <1>10, <1>11, <1>12, <1>13,
     <1>14, <1>15 DEF PolicyNext, CacheStep, LoadStep

\* A step in which calls end, or go on to a place that PlaceInv does not speak of.
PlaceQuiet ==
  \A c \in Calls :
    \/ at'[c] = at[c] /\ call'[c] = call[c]
    \/ at'[c] \notin {"ask", "miss", "wait", "deleting", "insert"}

LEMMA PlaceStep ==
  ASSUME PolicyTypeOK, PlaceInv, [PolicyNext]_<<policyVars, cacheVars>>
  PROVE  PlaceInv'
<1>0. PlaceQuiet => PlaceInv'
  BY DEF PlaceQuiet, PlaceInv
<1>a. ASSUME NEW C, Answer(C) PROVE PlaceQuiet
  BY <1>a DEF Answer, PolicyTypeOK, PlaceQuiet
<1>b. ASSUME NEW C, NEW policy, Decide(C, policy) PROVE PlaceQuiet
  <2> DEFINE ok == {c \in C : Allowed(c, policy)}
  <2>1. /\ at' = [c \in Calls |-> IF c \in ok THEN "run" ELSE IF c \in C THEN "done" ELSE at[c]]
        /\ call' = [c \in Calls |-> IF c \in C \ ok THEN Nil ELSE call[c]]
    BY <1>b DEF Decide
  <2> HIDE DEF ok
  <2> QED
    BY <2>1 DEF PlaceQuiet
<1>1. ASSUME NEW c \in Calls, NEW n \in Nodes, NEW k \in Inputs, Receive(c, n, k)
      PROVE  PlaceInv'
  <2>1. k.kind = "register" => at' = [at EXCEPT ![c] = "run"]
    BY <1>1 DEF Receive, Step, Requires
  <2>2. PICK to \in {"run", "ask"} : at' = [at EXCEPT ![c] = to]
    BY <1>1 DEF Receive, Step
  <2>3. call' = [call EXCEPT ![c] = k]
    BY <1>1 DEF Receive
  <2> QED
    BY <2>1, <2>2, <2>3 DEF PlaceInv, PolicyTypeOK
<1>2. ASSUME NEW c \in Calls,
             Expire(c) \/ BeginLoad(c) \/ BeginDelete(c) \/ DeleteGrants(c)
      PROVE  PlaceInv'
  <2>1. CASE Expire(c) \/ BeginLoad(c)
    BY <2>1 DEF Expire, BeginLoad, Step, PlaceInv, PolicyTypeOK
  <2>2. CASE BeginDelete(c) \/ DeleteGrants(c)
    BY <2>2 DEF BeginDelete, DeleteGrants, Step, PlaceInv, PolicyTypeOK
  <2> QED
    BY <1>2, <2>1, <2>2
<1>3. ASSUME NEW c \in Calls,
             RegisterGroup(c) \/ FindGroup(c) \/ DissolveGroup(c) \/ RemoveMember(c)
               \/ InviteMember(c) \/ FindMember(c) \/ UpdateMemberRole(c) \/ Commit(c)
               \/ Reread(c) \/ Invalidate(c)
      PROVE  PlaceQuiet
  <2>1. \A d \in Calls \ {c} : call'[d] = call[d]
    BY <1>3 DEF RegisterGroup, FindGroup, DissolveGroup, RemoveMember, InviteMember,
                FindMember, UpdateMemberRole, Commit, Reread, Invalidate, PolicyTypeOK
  <2>2. PICK to \in {"owner", "found", "changed", "member", "reread", "publish"} :
          at' = [at EXCEPT ![c] = to]
    BY <1>3 DEF RegisterGroup, FindGroup, DissolveGroup, RemoveMember, InviteMember,
                FindMember, UpdateMemberRole, Commit, Reread, Invalidate, Step
  <2> QED
    BY <2>1, <2>2 DEF PlaceQuiet, PolicyTypeOK
<1>4. ASSUME NEW c \in Calls, TableStep(c) PROVE PlaceInv'
  <2>1. ASSUME NEW p \in Perms, InsertGrant(c, p) PROVE PlaceQuiet
    BY <2>1 DEF InsertGrant, PlaceQuiet
  <2>2. CASE AddOwner(c) \/ SaveGroup(c) \/ Refused(c)
    BY <1>0, <1>a, <2>2 DEF AddOwner, SaveGroup, Refused
  <2> QED
    BY <1>0, <1>2, <1>3, <1>4, <2>1, <2>2 DEF TableStep
<1>5. ASSUME NEW c \in Calls, Hit(c) \/ Publish(c) \/ PublishFails(c) \/ ChangeUnseen(c)
      PROVE  PlaceQuiet
  <2>1. CASE Hit(c)
    <3>1. PICK policy : Decide({c}, policy)
      BY <2>1 DEF Hit
    <3> QED
      BY <1>b, <3>1
  <2>2. CASE Publish(c) \/ PublishFails(c) \/ ChangeUnseen(c)
    BY <1>a, <2>2 DEF Publish, PublishFails, ChangeUnseen
  <2> QED
    BY <1>5, <2>1, <2>2
<1>6. ASSUME NEW n \in Nodes, Restart(n) PROVE PlaceQuiet
  <2>1. PICK C : Answer(C)
    BY <1>6 DEF Restart
  <2> QED
    BY <1>a, <2>1
<1>7. ASSUME NEW n \in Nodes, NEW d \in Groups, AddEnforcer(n, d) \/ LoadFails(n, d)
      PROVE  PlaceQuiet
  <2>1. CASE AddEnforcer(n, d)
    <3>1. PICK policy : Decide(Waiting(n, d), policy)
      BY <2>1 DEF AddEnforcer
    <3> QED
      BY <1>b, <3>1
  <2>2. CASE LoadFails(n, d)
    BY <1>a, <2>2 DEF LoadFails
  <2> QED
    BY <1>7, <2>1, <2>2
<1>8. ASSUME UNCHANGED policyVars PROVE PlaceQuiet
  BY <1>8 DEF policyVars, PlaceQuiet
<1> QED
  BY <1>0, <1>1, <1>2, <1>4, <1>5, <1>3, <1>6, <1>7, <1>8
  DEF PolicyNext, CacheStep, LoadStep, Deliver, Age, Evict, LoadMembers

-----------------------------------------------------------------------------
\* The call c has still to drop the enforcer of d at n.
Owes(c, n, d) ==
  /\ at[c] \in {"reread", "changed", "publish"} /\ d \in Concerned(c)
  /\ at[c] = "publish" => node[c] # n

LEMMA AwaitedBy ==
  ASSUME NEW n, NEW d
  PROVE  Awaited(n, d) <=> (\E c \in Calls : Owes(c, n, d)) \/ \E m \in mail[n] : d \in m.of
BY DEF Awaited, Owes

\* Calls that owe something stay what they are.
Patient ==
  /\ mail' = mail
  /\ \A c \in Calls :
       \/ at'[c] = at[c] /\ call'[c] = call[c] /\ node'[c] = node[c]
       \/ at[c] \notin {"reread", "changed", "publish"}

LEMMA PatientAwaits ==
  ASSUME Patient, NEW n \in Nodes, NEW d
  PROVE  Awaited(n, d) => Awaited(n, d)'
<1>1. \A c \in Calls : Owes(c, n, d) => Owes(c, n, d)'
  BY DEF Patient, Owes, Concerned, Domain
<1> QED
  BY <1>1, AwaitedBy DEF Patient, Awaited, Owes

LEMMA PatientCells ==
  ASSUME Patient, EnforcerInv, UNCHANGED <<grants, member, known>>,
         \A n \in Nodes, d \in Groups : /\ Fades(cache[n][d], cache'[n][d])
                                        /\ Fades(load[n][d], load'[n][d])
  PROVE  EnforcerInv'
<1> SUFFICES ASSUME NEW n \in Nodes, NEW d \in Groups PROVE CellOK(n, d)'
  BY DEF EnforcerInv
<1>1. Granted' = Granted
  BY DEF Granted
<1> QED
  BY <1>1, CellKeeps, PatientAwaits DEF EnforcerInv

LEMMA SameFades == \A x : Fades(x, x)
BY DEF Fades

Owing == {"reread", "changed", "publish"}

\* One call moves on that owes nothing, while the tables and the cells stay.
LEMMA MoveIsPatient ==
  ASSUME PolicyTypeOK, CacheTypeOK, NEW c \in Calls, at[c] \notin Owing,
         \A d \in Calls \ {c} : at'[d] = at[d] /\ call'[d] = call[d] /\ node'[d] = node[d],
         UNCHANGED mail
  PROVE  Patient
BY DEF Patient, Owing

LEMMA AnswerIsPatient ==
  ASSUME PolicyTypeOK, CacheTypeOK, NEW C, Answer(C), \A c \in C \cap Calls : at[c] \notin Owing,
         UNCHANGED mail
  PROVE  Patient
BY DEF Patient, Owing, Answer, PolicyTypeOK, CacheTypeOK

LEMMA DecideIsPatient ==
  ASSUME PolicyTypeOK, CacheTypeOK, NEW C \in SUBSET {c \in Calls : at[c] \notin Owing},
         NEW policy, Decide(C, policy), UNCHANGED mail
  PROVE  Patient
<1> DEFINE ok == {c \in C : Allowed(c, policy)}
<1>1. /\ at' = [c \in Calls |-> IF c \in ok THEN "run" ELSE IF c \in C THEN "done" ELSE at[c]]
      /\ call' = [c \in Calls |-> IF c \in C \ ok THEN Nil ELSE call[c]]
      /\ node' = [c \in Calls |-> IF c \in C \ ok THEN Nil ELSE node[c]]
  BY DEF Decide
<1>2. ok \subseteq C /\ \A c \in C : c \in Calls /\ at[c] \notin Owing
  OBVIOUS
<1> HIDE DEF ok
<1>3. \A c \in Calls : \/ at'[c] = at[c] /\ call'[c] = call[c] /\ node'[c] = node[c]
                       \/ at[c] \notin Owing
  BY <1>1, <1>2
<1> QED
  BY <1>3 DEF Patient, Owing

\* A change of the members of one group owes their enforcers.
LEMMA MembersChange ==
  ASSUME PolicyTypeOK, CacheTypeOK, EnforcerInv, NEW c \in Calls, at[c] \notin Owing,
         at'[c] = "changed", call'[c] = call[c], call[c].kind # "replace",
         \A d \in Calls \ {c} : at'[d] = at[d] /\ call'[d] = call[d] /\ node'[d] = node[d],
         \A d \in Groups \ {call[c].group} : member'[d] = member[d],
         UNCHANGED <<grants, known, cacheVars>>
  PROVE  EnforcerInv'
<1> SUFFICES ASSUME NEW n \in Nodes, NEW d \in Groups PROVE CellOK(n, d)'
  BY DEF EnforcerInv
<1>1. Granted' = Granted /\ cache' = cache /\ load' = load /\ mail' = mail
  BY DEF Granted, cacheVars
<1>2. CASE d = call[c].group
  <2>1. Owes(c, n, d)'
    BY <1>2 DEF Owes, Concerned, Domain
  <2>2. Awaited(n, d)'
    BY <2>1 DEF Awaited, Owes
  <2> QED
    BY <1>1, <2>2 DEF EnforcerInv, CellOK, EntryOK, LoadOK
<1>3. CASE d # call[c].group
  <2>1. Awaited(n, d) => Awaited(n, d)'
    BY <1>1, MoveIsPatient, PatientAwaits
  <2> QED
    BY <1>1, <1>3, <2>1, CellKeeps, SameFades DEF EnforcerInv
<1> QED
  BY <1>2, <1>3

LEMMA TableStepEnforcers ==
  ASSUME PolicyTypeOK, CacheTypeOK, OwnerInv, PlaceInv, EnforcerInv, NEW c \in Calls,
         TableStep(c), UNCHANGED cacheVars
  PROVE  EnforcerInv'
<1>0. UNCHANGED <<cache, load, mail>>
  BY DEF cacheVars
<1>a. ASSUME Patient, UNCHANGED <<grants, member, known>> PROVE EnforcerInv'
  BY <1>0, <1>a, PatientCells, SameFades
<1>1. CASE RegisterGroup(c) \/ FindGroup(c) \/ FindMember(c) \/ BeginDelete(c) \/ DeleteGrants(c)
           \/ (\E p \in Perms : InsertGrant(c, p))
  <2>1. UNCHANGED <<grants, member, known>> /\ at[c] \notin Owing
    BY <1>1 DEF RegisterGroup, FindGroup, FindMember, BeginDelete, DeleteGrants,
                InsertGrant, tables, Owing
  <2>2. \A d \in Calls \ {c} : at'[d] = at[d] /\ call'[d] = call[d] /\ node'[d] = node[d]
    BY <1>1 DEF RegisterGroup, FindGroup, FindMember, BeginDelete, DeleteGrants,
                InsertGrant, Step, PolicyTypeOK
  <2> QED
    BY <1>0, <1>a, <2>1, <2>2, MoveIsPatient
<1>2. CASE SaveGroup(c) \/ Refused(c)
  <2>1. at[c] \notin Owing /\ Answer({c}) /\ UNCHANGED <<grants, member, known>>
    BY <1>2 DEF SaveGroup, Refused, tables, Owing
  <2> QED
    BY <1>0, <1>a, <2>1, AnswerIsPatient
<1>3. CASE AddOwner(c)
  <2> DEFINE g == call[c].group
  <2>1. /\ at[c] = "owner" /\ Answer({c}) /\ UNCHANGED grants
        /\ member' = [member EXCEPT ![g][call[c].who] = Owner] /\ known' = known \cup {g}
    BY <1>3 DEF AddOwner
  <2>2. g \notin known
    BY <2>1 DEF OwnerInv, OwnCall
  <2>3. Patient
    BY <1>0, <2>1, AnswerIsPatient DEF Owing
  <2>4. Granted' = Granted
    BY <2>1 DEF Granted
  <2>5. ASSUME NEW n \in Nodes, NEW d \in Groups PROVE CellOK(n, d)'
    <3>1. CASE d \in known
      <4>1. member'[d] = member[d]
        BY <2>1, <2>2, <3>1 DEF PolicyTypeOK
      <4> QED
        BY <1>0, <2>1, <2>3, <2>4, <4>1, CellKeeps, SameFades, PatientAwaits DEF EnforcerInv
    <3>2. CASE d \notin known
      BY <1>0, <3>2 DEF EnforcerInv, CellOK, EntryOK, LoadOK
    <3> QED
      BY <3>1, <3>2
  <2> QED
    BY <2>5 DEF EnforcerInv
<1>4. CASE DissolveGroup(c) \/ RemoveMember(c) \/ InviteMember(c) \/ UpdateMemberRole(c)
  <2>1. /\ at[c] \notin Owing /\ at'[c] = "changed" /\ UNCHANGED <<call, node, grants, known>>
        /\ \A d \in Calls \ {c} : at'[d] = at[d]
    BY <1>4 DEF DissolveGroup, RemoveMember, InviteMember, UpdateMemberRole, Step,
                PolicyTypeOK, Owing
  <2>2. call[c].kind # "replace"
    BY <1>4 DEF DissolveGroup, RemoveMember, InviteMember, UpdateMemberRole, OwnerInv, OwnCall
  <2>3. \A d \in Groups \ {call[c].group} : member'[d] = member[d]
    BY <1>4 DEF DissolveGroup, RemoveMember, InviteMember, UpdateMemberRole, PolicyTypeOK
  <2> QED
    BY <2>1, <2>2, <2>3, MembersChange
<1>5. CASE Commit(c)
  <2>1. at'[c] = "reread" /\ UNCHANGED <<member, known, call>> /\ call[c].kind = "replace"
    BY <1>5 DEF Commit, Step, PolicyTypeOK, PlaceInv
  <2>2. ASSUME NEW n \in Nodes, NEW d \in Groups PROVE CellOK(n, d)'
    <3>1. Owes(c, n, d)'
      BY <2>1 DEF Owes, Concerned
    <3>2. Awaited(n, d)'
      BY <3>1 DEF Awaited, Owes
    <3> QED
      BY <1>0, <2>1, <3>2 DEF EnforcerInv, CellOK, EntryOK, LoadOK
  <2> QED
    BY <2>2 DEF EnforcerInv
<1>6. CASE Reread(c)
  <2>1. /\ at[c] = "reread" /\ at' = [at EXCEPT ![c] = "changed"]
        /\ UNCHANGED <<call, node, grants, member, known>>
    BY <1>6 DEF Reread, Step, tables
  <2>2. ASSUME NEW n \in Nodes, NEW d \in Groups PROVE CellOK(n, d)'
    <3>1. \A b \in Calls : Owes(b, n, d) => Owes(b, n, d)'
      BY <2>1 DEF Owes, Concerned, Domain, PolicyTypeOK
    <3>2. Awaited(n, d) => Awaited(n, d)'
      BY <1>0, <3>1 DEF Awaited, Owes
    <3>3. Granted' = Granted
      BY <2>1 DEF Granted
    <3> QED
      BY <1>0, <2>1, <3>2, <3>3, CellKeeps, SameFades DEF EnforcerInv
  <2> QED
    BY <2>2 DEF EnforcerInv
<1> QED
  BY <1>1, <1>2, <1>3, <1>4, <1>5, <1>6 DEF TableStep

\* An invalidation, by the call that changed the tables or by its message.
LEMMA InvalidateEnforcers ==
  ASSUME PolicyTypeOK, CacheTypeOK, EnforcerInv, NEW c \in Calls, Invalidate(c)
  PROVE  EnforcerInv'
<1>1. /\ at[c] = "changed" /\ Drop(node[c], Dropped(c)) /\ at' = [at EXCEPT ![c] = "publish"]
      /\ UNCHANGED <<grants, member, known, call, node, mail>>
  BY DEF Invalidate, Step, tables
<1>2. node[c] \in Nodes /\ CellTypeOK
  BY <1>1 DEF CacheTypeOK, CellTypeOK, Active, Resting
<1>3. \A m \in Nodes, d \in Groups :
        /\ m # node[c] \/ d \notin Dropped(c)
             => cache'[m][d] = cache[m][d] /\ load'[m][d] = load[m][d]
        /\ m = node[c] /\ d \in Dropped(c)
             => cache'[m][d] = Nil /\ load'[m][d] = Late(load[m][d])
  BY <1>1, <1>2, DropCells
<1>4. at'[c] = "publish" /\ \A b \in Calls \ {c} : at'[b] = at[b]
  BY <1>1 DEF PolicyTypeOK
<1> SUFFICES ASSUME NEW n \in Nodes, NEW d \in Groups PROVE CellOK(n, d)'
  BY DEF EnforcerInv
<1>5. Granted' = Granted /\ CellOK(n, d)
  BY <1>1 DEF Granted, EnforcerInv
<1>6. CASE n = node[c] /\ d \in Dropped(c)
  <2>1. load[n][d] \in Loading \cup {Nil}
    BY <1>2 DEF CellTypeOK
  <2>2. Drops(cache[n][d], cache'[n][d]) /\ Drops(load[n][d], load'[n][d])
    BY <1>3, <1>6, <2>1, LateHasType DEF Drops
  <2>3. Fades(cache[n][d], cache'[n][d]) /\ Fades(load[n][d], load'[n][d])
    BY <2>2 DEF Drops, Fades
  <2> QED
    BY <1>1, <1>5, <2>2, <2>3, CellKeeps
<1>7. CASE n # node[c] \/ d \notin Dropped(c)
  <2>1. \A b \in Calls : Owes(b, n, d) => Owes(b, n, d)'
    BY <1>1, <1>4, <1>7 DEF Owes, Dropped, Concerned, Domain
  <2>2. Awaited(n, d) => Awaited(n, d)'
    BY <1>1, <2>1 DEF Awaited, Owes
  <2> QED
    BY <1>1, <1>3, <1>5, <1>7, <2>2, CellKeeps, SameFades
<1> QED
  BY <1>6, <1>7

LEMMA PublishEnforcers ==
  ASSUME PolicyTypeOK, CacheTypeOK, EnforcerInv, NEW c \in Calls, Publish(c)
  PROVE  EnforcerInv'
<1>1. /\ Answer({c}) /\ UNCHANGED <<grants, member, known, cache, load>>
      /\ mail' = [n \in Nodes |-> mail[n] \cup {[by |-> c, of |-> Dropped(c)]}]
  BY DEF Publish, tables
<1>2. \A b \in Calls \ {c} : at'[b] = at[b] /\ call'[b] = call[b] /\ node'[b] = node[b]
  BY <1>1 DEF Answer, PolicyTypeOK, CacheTypeOK
<1> SUFFICES ASSUME NEW n \in Nodes, NEW d \in Groups PROVE CellOK(n, d)'
  BY DEF EnforcerInv
<1>3. mail'[n] = mail[n] \cup {[by |-> c, of |-> Dropped(c)]}
  BY <1>1
<1>4. Awaited(n, d) => Awaited(n, d)'
  <2>1. CASE Owes(c, n, d)
    <3> DEFINE x == [by |-> c, of |-> Dropped(c)]
    <3>1. x \in mail'[n]
      BY <1>3
    <3>2. d \in x.of
      BY <2>1 DEF Owes, Dropped
    <3> QED
      BY <3>1, <3>2 DEF Awaited
  <2>2. ASSUME NEW b \in Calls \ {c}, Owes(b, n, d) PROVE Owes(b, n, d)'
    BY <1>2, <2>2 DEF Owes, Concerned, Domain
  <2>3. ASSUME NEW m \in mail[n], d \in m.of PROVE Awaited(n, d)'
    BY <1>3, <2>3 DEF Awaited
  <2> QED
    BY <2>1, <2>2, <2>3 DEF Awaited, Owes
<1>5. Granted' = Granted
  BY <1>1 DEF Granted
<1> QED
  BY <1>1, <1>4, <1>5, CellKeeps, SameFades DEF EnforcerInv

\* Lost invalidations leave late enforcers behind.
LEMMA MissEnforcers ==
  ASSUME PolicyTypeOK, CacheTypeOK, EnforcerInv, NEW c \in Calls,
         PublishFails(c) \/ ChangeUnseen(c)
  PROVE  EnforcerInv'
<1>1. PICK ns : /\ Miss(ns, Concerned(c)) /\ Answer({c})
                /\ \A n \in Nodes : n \in ns \/ (at[c] = "publish" /\ n = node[c])
  <2>1. CASE PublishFails(c)
    BY <2>1 DEF PublishFails
  <2>2. CASE ChangeUnseen(c)
    BY <2>2 DEF ChangeUnseen
  <2> QED
    BY <2>1, <2>2
<1>2. UNCHANGED <<grants, member, known, mail>>
  BY DEF PublishFails, ChangeUnseen, tables
<1>3. CellTypeOK
  BY DEF CacheTypeOK, CellTypeOK
<1>4. \A m \in Nodes, d \in Groups :
        IF m \in ns /\ d \in Concerned(c)
        THEN cache'[m][d] = Late(cache[m][d]) /\ load'[m][d] = Late(load[m][d])
        ELSE cache'[m][d] = cache[m][d] /\ load'[m][d] = load[m][d]
  BY <1>1, <1>3, MissCells
<1>5. \A b \in Calls \ {c} : at'[b] = at[b] /\ call'[b] = call[b] /\ node'[b] = node[b]
  BY <1>1 DEF Answer, PolicyTypeOK, CacheTypeOK
<1> SUFFICES ASSUME NEW n \in Nodes, NEW d \in Groups PROVE CellOK(n, d)'
  BY DEF EnforcerInv
<1>6. Granted' = Granted /\ CellOK(n, d)
  BY <1>2 DEF Granted, EnforcerInv
<1>7. CASE n \in ns /\ d \in Concerned(c)
  <2>1. cache[n][d] \in Entry \cup {Nil} /\ load[n][d] \in Loading \cup {Nil}
    BY <1>3 DEF CellTypeOK
  <2>2. Drops(cache[n][d], cache'[n][d]) /\ Drops(load[n][d], load'[n][d])
    BY <1>4, <1>7, <2>1, LateHasType DEF Drops
  <2>3. Fades(cache[n][d], cache'[n][d]) /\ Fades(load[n][d], load'[n][d])
    BY <2>2 DEF Drops, Fades
  <2> QED
    BY <1>2, <1>6, <2>2, <2>3, CellKeeps
<1>8. CASE n \notin ns \/ d \notin Concerned(c)
  <2>1. ~Owes(c, n, d)
    BY <1>1, <1>8 DEF Owes
  <2>2. \A b \in Calls : Owes(b, n, d) => Owes(b, n, d)'
    BY <1>5, <2>1 DEF Owes, Concerned, Domain
  <2>3. Awaited(n, d) => Awaited(n, d)'
    BY <1>2, <2>2 DEF Awaited, Owes
  <2> QED
    BY <1>2, <1>4, <1>6, <1>8, <2>3, CellKeeps, SameFades
<1> QED
  BY <1>7, <1>8

LEMMA DeliverEnforcers ==
  ASSUME PolicyTypeOK, CacheTypeOK, EnforcerInv, NEW k \in Nodes, NEW m \in mail[k],
         Deliver(k, m)
  PROVE  EnforcerInv'
<1>1. /\ mail' = [mail EXCEPT ![k] = @ \ {m}] /\ Drop(k, m.of)
      /\ UNCHANGED <<grants, member, known, at, call, node>>
  BY DEF Deliver, policyVars, tables
<1>2. CellTypeOK
  BY DEF CacheTypeOK, CellTypeOK
<1>3. \A n \in Nodes, d \in Groups :
        /\ n # k \/ d \notin m.of => cache'[n][d] = cache[n][d] /\ load'[n][d] = load[n][d]
        /\ n = k /\ d \in m.of => cache'[n][d] = Nil /\ load'[n][d] = Late(load[n][d])
  BY <1>1, <1>2, DropCells
<1> SUFFICES ASSUME NEW n \in Nodes, NEW d \in Groups PROVE CellOK(n, d)'
  BY DEF EnforcerInv
<1>4. Granted' = Granted /\ CellOK(n, d)
  BY <1>1 DEF Granted, EnforcerInv
<1>5. CASE n = k /\ d \in m.of
  <2>1. load[n][d] \in Loading \cup {Nil}
    BY <1>2 DEF CellTypeOK
  <2>2. Drops(cache[n][d], cache'[n][d]) /\ Drops(load[n][d], load'[n][d])
    BY <1>3, <1>5, <2>1, LateHasType DEF Drops
  <2>3. Fades(cache[n][d], cache'[n][d]) /\ Fades(load[n][d], load'[n][d])
    BY <2>2 DEF Drops, Fades
  <2> QED
    BY <1>1, <1>4, <2>2, <2>3, CellKeeps
<1>6. CASE n # k \/ d \notin m.of
  <2>1. \A b \in Calls : Owes(b, n, d) => Owes(b, n, d)'
    BY <1>1 DEF Owes, Concerned, Domain
  <2>2. \A x \in mail[n] : d \in x.of => x \in mail'[n]
    BY <1>1, <1>6 DEF CacheTypeOK
  <2>3. (\E b \in Calls : Owes(b, n, d)) => (\E b \in Calls : Owes(b, n, d)')
    BY <2>1
  <2>4. (\E x \in mail[n] : d \in x.of) => (\E x \in mail'[n] : d \in x.of)
    BY <2>2
  <2>5. Awaited(n, d) => Awaited(n, d)'
    BY <2>3, <2>4 DEF Awaited, Owes
  <2> QED
    BY <1>1, <1>3, <1>4, <1>6, <2>5, CellKeeps, SameFades
<1> QED
  BY <1>5, <1>6

\* A restart takes the cells and the messages of a node with it, and what its calls owed
\* to the others is lost.
LEMMA RestartEnforcers ==
  ASSUME PolicyTypeOK, CacheTypeOK, EnforcerInv, NEW k \in Nodes, Restart(k)
  PROVE  EnforcerInv'
<1> DEFINE mine == {c \in Calls : node[c] = k}
           lost == UNION {Concerned(c) : c \in {b \in mine : at[b] \in {"reread", "changed",
                                                                       "publish"}}}
<1>1. /\ cache' = [m \in Nodes |-> [d \in Groups |->
           IF m = k THEN Nil ELSE IF d \in lost THEN Late(cache[m][d]) ELSE cache[m][d]]]
      /\ load' = [m \in Nodes |-> [d \in Groups |->
           IF m = k THEN Nil ELSE IF d \in lost THEN Late(load[m][d]) ELSE load[m][d]]]
      /\ mail' = [mail EXCEPT ![k] = {}] /\ Answer(mine)
      /\ UNCHANGED <<grants, member, known>>
  BY DEF Restart, tables
<1>2. \A c \in mine : Owing \cap {at[c]} # {} => Concerned(c) \subseteq lost
  BY DEF Owing
<1>3. \A c \in Calls \ mine : at'[c] = at[c] /\ call'[c] = call[c] /\ node'[c] = node[c]
  BY <1>1 DEF Answer
<1> HIDE DEF mine, lost
<1> SUFFICES ASSUME NEW n \in Nodes, NEW d \in Groups PROVE CellOK(n, d)'
  BY DEF EnforcerInv
<1>4. Granted' = Granted /\ CellOK(n, d)
  BY <1>1 DEF Granted, EnforcerInv
<1>5. CASE n = k
  BY <1>1, <1>5 DEF CellOK, EntryOK, LoadOK
<1>6. CASE n # k /\ d \in lost
  <2>1. cache[n][d] \in Entry \cup {Nil} /\ load[n][d] \in Loading \cup {Nil}
    BY DEF CacheTypeOK
  <2>2. cache'[n][d] = Late(cache[n][d]) /\ load'[n][d] = Late(load[n][d])
    BY <1>1, <1>6
  <2>3. Drops(cache[n][d], cache'[n][d]) /\ Drops(load[n][d], load'[n][d])
    BY <2>1, <2>2, LateHasType DEF Drops
  <2>4. Fades(cache[n][d], cache'[n][d]) /\ Fades(load[n][d], load'[n][d])
    BY <2>3 DEF Drops, Fades
  <2> QED
    BY <1>1, <1>4, <2>3, <2>4, CellKeeps
<1>7. CASE n # k /\ d \notin lost
  <2>1. cache'[n][d] = cache[n][d] /\ load'[n][d] = load[n][d] /\ mail'[n] = mail[n]
    BY <1>1, <1>7 DEF CacheTypeOK
  <2>2. ASSUME NEW b \in Calls, Owes(b, n, d) PROVE Owes(b, n, d)'
    <3>1. b \notin mine
      BY <1>2, <1>7, <2>2 DEF Owes, Owing
    <3> QED
      BY <1>3, <2>2, <3>1 DEF Owes, Concerned, Domain
  <2>3. Awaited(n, d) => Awaited(n, d)'
    BY <2>1, <2>2 DEF Awaited, Owes
  <2> QED
    BY <1>1, <1>4, <2>1, <2>3, CellKeeps, SameFades
<1> QED
  BY <1>5, <1>6, <1>7

\* A load begins with the permissions, goes on with the members and ends as an enforcer.
LEMMA BeginLoadEnforcers ==
  ASSUME PolicyTypeOK, CacheTypeOK, OwnerInv, PlaceInv, EnforcerInv, NEW c \in Calls,
         BeginLoad(c)
  PROVE  EnforcerInv'
<1> DEFINE k == node[c]
           g == Domain(c)
           l == [policy |-> [p |-> Granted, g |-> Nil], late |-> FALSE]
<1>1. /\ at[c] = "miss" /\ at' = [at EXCEPT ![c] = "wait"]
      /\ UNCHANGED <<grants, member, known, call, node, mail>>
      /\ \/ UNCHANGED <<cache, load>>
         \/ cache' = [cache EXCEPT ![k][g] = Nil] /\ load' = [load EXCEPT ![k][g] = l]
  BY DEF BeginLoad, Step, tables
<1>2. Patient
  BY <1>1, MoveIsPatient DEF Owing, PolicyTypeOK
<1>3. CASE UNCHANGED <<cache, load>>
  BY <1>1, <1>2, <1>3, PatientCells, SameFades
<1>4. CASE cache' = [cache EXCEPT ![k][g] = Nil] /\ load' = [load EXCEPT ![k][g] = l]
  <2>1. Active(c) /\ ~Registers(c) /\ call[c] \in Asked
    BY <1>1 DEF Active, Resting, Registers, PlaceInv, PolicyTypeOK
  <2>2. g \in known /\ g \in Groups
    BY <2>1, PolicyAssumption DEF OwnerInv, OwnCall, Domain, Asked
  <2>3. l.policy.p = Granted /\ l.policy.g = Nil
    OBVIOUS
  <2> HIDE DEF k, g, l
  <2>4. Granted' = Granted
    BY <1>1 DEF Granted
  <2>5. ASSUME NEW n \in Nodes, NEW d \in Groups PROVE CellOK(n, d)'
    <3>1. CASE n = k /\ d = g
      <4>1. cache'[n][d] = Nil /\ load'[n][d] = l
        BY <1>4, <3>1 DEF CacheTypeOK
      <4> QED
        BY <1>1, <2>2, <2>3, <2>4, <3>1, <4>1 DEF CellOK, EntryOK, LoadOK
    <3>2. CASE ~(n = k /\ d = g)
      <4>1. cache'[n][d] = cache[n][d] /\ load'[n][d] = load[n][d]
        BY <1>4, <3>2 DEF CacheTypeOK
      <4> QED
        BY <1>1, <1>2, <2>4, <4>1, PatientAwaits, CellKeeps, SameFades DEF EnforcerInv
    <3> QED
      BY <3>1, <3>2
  <2> QED
    BY <2>5 DEF EnforcerInv
<1> QED
  BY <1>1, <1>3, <1>4

LEMMA LoadEnforcers ==
  ASSUME PolicyTypeOK, CacheTypeOK, EnforcerInv, NEW k \in Nodes, NEW g \in Groups,
         LoadStep(k, g)
  PROVE  EnforcerInv'
<1>1. CASE LoadMembers(k, g)
  <2>1. /\ load[k][g] # Nil /\ load' = [load EXCEPT ![k][g].policy.g = member[g]]
        /\ UNCHANGED <<grants, member, known, at, call, node, cache, mail>>
    BY <1>1 DEF LoadMembers, policyVars, tables
  <2>2. load[k][g] \in Loading
    BY <2>1 DEF CacheTypeOK
  <2> DEFINE l == [load[k][g] EXCEPT !.policy.g = member[g]]
  <2>3. l.policy.p = load[k][g].policy.p /\ l.policy.g = member[g] /\ l.late = load[k][g].late
    BY <2>2 DEF Loading, PolicyType
  <2>4. load' = [load EXCEPT ![k][g] = l]
    BY <2>1
  <2> HIDE DEF l
  <2>5. Patient /\ Granted' = Granted
    BY <2>1 DEF Patient, Granted
  <2>6. ASSUME NEW n \in Nodes, NEW d \in Groups PROVE CellOK(n, d)'
    <3>1. CASE n = k /\ d = g
      <4>1. load'[n][d] = l
        BY <2>4, <3>1 DEF CacheTypeOK
      <4>2. EntryOK(n, d)' /\ d \in known'
        BY <2>1, <2>5, <3>1, PatientAwaits DEF EnforcerInv, CellOK, EntryOK, Policy
      <4>3. LoadOK(n, d)'
        BY <2>1, <2>3, <2>5, <3>1, <4>1, PatientAwaits DEF EnforcerInv, CellOK, LoadOK
      <4> QED
        BY <4>2, <4>3 DEF CellOK
    <3>2. CASE ~(n = k /\ d = g)
      <4>1. cache'[n][d] = cache[n][d] /\ load'[n][d] = load[n][d]
        BY <2>1, <2>4, <3>2 DEF CacheTypeOK
      <4> QED
        BY <2>1, <2>5, <4>1, PatientAwaits, CellKeeps, SameFades DEF EnforcerInv
    <3> QED
      BY <3>1, <3>2
  <2> QED
    BY <2>6 DEF EnforcerInv
<1>2. CASE AddEnforcer(k, g)
  <2> DEFINE l == load[k][g]
             e == [policy |-> l.policy, late |-> l.late, old |-> FALSE]
  <2>1. /\ l # Nil /\ l.policy.g # Nil
        /\ cache' = [cache EXCEPT ![k][g] = e] /\ load' = [load EXCEPT ![k][g] = Nil]
        /\ UNCHANGED <<grants, member, known, mail>>
    BY <1>2 DEF AddEnforcer, tables
  <2>2. PICK policy : Decide(Waiting(k, g), policy)
    BY <1>2 DEF AddEnforcer
  <2>3. Waiting(k, g) \in SUBSET {c \in Calls : at[c] \notin Owing}
    BY DEF Waiting, Owing
  <2>4. Patient /\ Granted' = Granted
    BY <2>1, <2>2, <2>3, DecideIsPatient DEF Granted
  <2>5. l \in Loading
    BY <2>1 DEF CacheTypeOK
  <2>6. e.policy = l.policy /\ e.late = l.late
    OBVIOUS
  <2>7. l.policy = [p |-> l.policy.p, g |-> l.policy.g]
    BY <2>5 DEF Loading, PolicyType
  <2> HIDE DEF e
  <2>8. ASSUME NEW n \in Nodes, NEW d \in Groups PROVE CellOK(n, d)'
    <3>1. CASE n = k /\ d = g
      <4>1. cache'[n][d] = e /\ load'[n][d] = Nil
        BY <2>1, <3>1 DEF CacheTypeOK
      <4>2. l.policy = Policy(g) \/ l.late = TRUE \/ Awaited(k, g)
        BY <2>1, <2>7 DEF EnforcerInv, CellOK, LoadOK, Policy
      <4>3. EntryOK(n, d)'
        BY <2>1, <2>4, <2>6, <3>1, <4>1, <4>2, PatientAwaits DEF EntryOK, Policy
      <4>4. d \in known'
        BY <2>1, <3>1 DEF EnforcerInv, CellOK
      <4> QED
        BY <4>1, <4>3, <4>4 DEF CellOK, LoadOK
    <3>2. CASE ~(n = k /\ d = g)
      <4>1. cache'[n][d] = cache[n][d] /\ load'[n][d] = load[n][d]
        BY <2>1, <3>2 DEF CacheTypeOK
      <4> QED
        BY <2>1, <2>4, <4>1, PatientAwaits, CellKeeps, SameFades DEF EnforcerInv
    <3> QED
      BY <3>1, <3>2
  <2> QED
    BY <2>8 DEF EnforcerInv
<1>3. CASE LoadFails(k, g)
  <2>1. /\ load' = [load EXCEPT ![k][g] = Nil] /\ Answer(Waiting(k, g))
        /\ UNCHANGED <<grants, member, known, cache, mail>>
    BY <1>3 DEF LoadFails, tables
  <2>2. Patient
    BY <2>1, AnswerIsPatient DEF Waiting, Owing
  <2>3. \A n \in Nodes, d \in Groups : Fades(load[n][d], load'[n][d])
    BY <2>1 DEF Fades, CacheTypeOK
  <2> QED
    BY <2>1, <2>2, <2>3, PatientCells, SameFades
<1> QED
  BY <1>1, <1>2, <1>3 DEF LoadStep

LEMMA EnforcersStep ==
  ASSUME PolicyTypeOK, CacheTypeOK, OwnerInv, PlaceInv, EnforcerInv,
         [PolicyNext]_<<policyVars, cacheVars>>
  PROVE  EnforcerInv'
<1>1. ASSUME NEW c \in Calls, NEW n \in Nodes, NEW k \in Inputs, Receive(c, n, k)
      PROVE  EnforcerInv'
  <2>1. UNCHANGED <<grants, member, known, cache, load, mail>> /\ at[c] \notin Owing
    BY <1>1 DEF Receive, tables, cacheVars, Owing
  <2>2. \A d \in Calls \ {c} : at'[d] = at[d] /\ call'[d] = call[d] /\ node'[d] = node[d]
    BY <1>1 DEF Receive, Step, PolicyTypeOK, CacheTypeOK
  <2> QED
    BY <2>1, <2>2, MoveIsPatient, PatientCells, SameFades
<1>2. ASSUME NEW c \in Calls, Hit(c) PROVE EnforcerInv'
  <2>1. {c} \in SUBSET {d \in Calls : at[d] \notin Owing}
    BY <1>2 DEF Hit, Owing
  <2>2. PICK policy : Decide({c}, policy)
    BY <1>2 DEF Hit
  <2>3. UNCHANGED <<grants, member, known, cache, load, mail>>
    BY <1>2 DEF Hit, tables, cacheVars
  <2> QED
    BY <2>1, <2>2, <2>3, DecideIsPatient, PatientCells, SameFades
<1>3. ASSUME NEW c \in Calls, Expire(c) PROVE EnforcerInv'
  <2>1. /\ at[c] = "ask" /\ at' = [at EXCEPT ![c] = "miss"]
        /\ cache' = [cache EXCEPT ![node[c]][Domain(c)] = Nil]
        /\ UNCHANGED <<grants, member, known, call, node, load, mail>>
    BY <1>3 DEF Expire, Step, tables
  <2>2. Patient
    BY <2>1, MoveIsPatient DEF Owing, PolicyTypeOK
  <2>3. \A n \in Nodes, d \in Groups : Fades(cache[n][d], cache'[n][d])
    BY <2>1 DEF Fades, CacheTypeOK
  <2> QED
    BY <2>1, <2>2, <2>3, PatientCells, SameFades
<1>4. ASSUME NEW n \in Nodes, NEW d \in Groups, Age(n, d) \/ Evict(n, d) PROVE EnforcerInv'
  <2>1. UNCHANGED <<policyVars, load, mail>>
    BY <1>4 DEF Age, Evict
  <2>2. Patient /\ UNCHANGED <<grants, member, known, load>>
    BY <2>1 DEF Patient, policyVars, tables
  <2>3. CASE Age(n, d)
    <3>1. cache' = [cache EXCEPT ![n][d].old = TRUE] /\ cache[n][d] # Nil
      BY <2>3 DEF Age, Fresh
    <3>2. cache[n][d] \in Entry
      BY <3>1 DEF CacheTypeOK
    <3>3. PICK e : e = [cache[n][d] EXCEPT !.old = TRUE]
      OBVIOUS
    <3>4. e.policy = cache[n][d].policy /\ e.late = cache[n][d].late
      BY <3>2, <3>3 DEF Entry
    <3>5. cache' = [cache EXCEPT ![n][d] = e]
      BY <3>1, <3>3
    <3>6. \A m \in Nodes, f \in Groups : Fades(cache[m][f], cache'[m][f])
      BY <3>1, <3>4, <3>5 DEF Fades, CacheTypeOK
    <3> QED
      BY <2>2, <3>6, PatientCells, SameFades
  <2>4. CASE Evict(n, d)
    <3>1. \A m \in Nodes, f \in Groups : Fades(cache[m][f], cache'[m][f])
      BY <2>4 DEF Evict, Fades, CacheTypeOK
    <3> QED
      BY <2>2, <3>1, PatientCells, SameFades
  <2> QED
    BY <1>4, <2>3, <2>4
<1>5. ASSUME UNCHANGED <<policyVars, cacheVars>> PROVE EnforcerInv'
  <2>1. Patient /\ UNCHANGED <<grants, member, known, cache, load>>
    BY <1>5 DEF Patient, policyVars, cacheVars, tables
  <2> QED
    BY <2>1, PatientCells, SameFades
<1> QED
  BY <1>1, <1>2, <1>3, <1>4, <1>5, BeginLoadEnforcers, TableStepEnforcers,
     InvalidateEnforcers, PublishEnforcers, MissEnforcers, RestartEnforcers,
     DeliverEnforcers, LoadEnforcers DEF PolicyNext, CacheStep

\* An enforcer that no longer agrees with the tables is about to be dropped; but for those
\* whose invalidation was lost, was left out because the change had been reported as failed,
\* or came while they were loaded, which only their age ends.
THEOREM PoliciesStaleIsAwaited == PolicySpec => []StaleIsAwaited
<1> DEFINE Inv == PolicyTypeOK /\ CacheTypeOK /\ OwnerInv /\ PlaceInv /\ EnforcerInv
<1>1. PolicyInit /\ CacheInit => Inv
  <2> SUFFICES ASSUME PolicyInit, CacheInit PROVE Inv
    OBVIOUS
  <2>1. PolicyTypeOK
    BY PolicyInitTypes
  <2>2. CacheTypeOK
    BY DEF PolicyInit, CacheInit, CacheTypeOK, Active, Resting
  <2>3. Global \in known /\ OwnerBelongs
    BY PolicyAssumption DEF PolicyInit, OwnerBelongs
  <2>4. (\A c \in Calls : OwnCall(c)) /\ PlaceInv
    BY DEF PolicyInit, OwnCall, PlaceInv, Registers, Active, Resting
  <2>5. EnforcerInv
    BY DEF CacheInit, EnforcerInv, CellOK, EntryOK, LoadOK
  <2> QED
    BY <2>1, <2>2, <2>3, <2>4, <2>5 DEF OwnerInv
<1>2. Inv /\ [PolicyNext]_<<policyVars, cacheVars>> => Inv'
  BY PolicyStepTypes, CacheStepTypes, OwnersStep, PlaceStep, EnforcersStep
<1>3. Inv => StaleIsAwaited
  BY DEF EnforcerInv, CellOK, EntryOK, StaleIsAwaited
<1> QED
  BY <1>1, <1>2, <1>3, PTL DEF PolicySpec
=============================================================================

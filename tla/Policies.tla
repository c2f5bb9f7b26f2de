------------------------------ MODULE Policies ------------------------------
(***************************************************************************)
(* services/iam, the groups and the roles: the tables groups,              *)
(* group_members and role_permissions, and the handlers that change them,  *)
(* statement by statement.  The permissions of a role are replaced in a    *)
(* transaction; PostgreSQL runs it at READ COMMITTED, so a DELETE deletes  *)
(* the rows it saw when it began and an INSERT waits for the open          *)
(* transactions that hold the same key.  PolicyCache says who may call a   *)
(* handler and what follows a change.                                      *)
(***************************************************************************)
EXTENDS Naturals, FiniteSets

CONSTANTS
  Calls,     \* requests, numbered as they arrive
  Inputs,    \* what they may ask
  Nodes,     \* the service runs on each
  People, Groups,
  Global,    \* the group of the whole system
  Roles, Owner, Superadmin,
  FirstOwner, FirstMember, FirstGrants,   \* the seeds of the database
  Nil

Perms == {"group:view", "group:edit", "group:delete", "group:invite", "group:kick",
          "role:manage"}
\* The permission a route requires; the last two require none.
Requires ==
  [view |-> "group:view", update |-> "group:edit", setrole |-> "group:edit",
   dissolve |-> "group:delete", invite |-> "group:invite", kick |-> "group:kick",
   replace |-> "role:manage", leave |-> Nil, register |-> Nil]

\* The seeds make the owner of the global group superadmin; RegisterGroup gives role 2.
OwnerRole(g) == IF g = Global THEN Superadmin ELSE Owner

ASSUME PolicyAssumption ==
  /\ Calls \subseteq Nat /\ Global \in Groups /\ {Owner, Superadmin} \subseteq Roles
  /\ Inputs \subseteq [kind : DOMAIN Requires, who : People, group : Groups,
                       target : People, role : Roles, asked : SUBSET Perms]
  /\ FirstOwner \in [Groups -> People \cup {Nil}] /\ FirstOwner[Global] # Nil
  /\ FirstMember \in [Groups -> [People -> Roles \cup {Nil}]]
  /\ FirstGrants \subseteq Roles \X Perms /\ <<Superadmin, "role:manage">> \in FirstGrants
  /\ \A g \in Groups : FirstOwner[g] # Nil => FirstMember[g][FirstOwner[g]] = OwnerRole(g)
  /\ Nil \notin Calls \cup People \cup Roles

VARIABLES
  owner,     \* table groups: the owner of each group
  member,    \* table group_members: the role of each member
  grants,    \* table role_permissions: the committed rows, with their writers
  known,     \* groups whose id a client has
  at,        \* where each call is
  call,      \* what it asks
  node,      \* where it runs
  tx,        \* its transaction: rows it sees, deleted and added, ids to insert
  bereft     \* history: groups whose owner was kicked, or saved once dissolved

tables     == <<owner, member, grants, known, bereft>>
policyVars == <<tables, at, call, node, tx>>

Nothing == [sees |-> {}, deleted |-> {}, added |-> {}, todo |-> {}]
RowsOf(r) == {row \in grants : row.role = r}

PolicyInit ==
  /\ owner = FirstOwner /\ member = FirstMember
  /\ grants = {[role |-> f[1], perm |-> f[2], by |-> Nil] : f \in FirstGrants}
  /\ known = {g \in Groups : FirstOwner[g] # Nil}
  /\ at = [c \in Calls |-> "new"]
  /\ call = [c \in Calls |-> Nil] /\ node = [c \in Calls |-> Nil]
  /\ tx = [c \in Calls |-> Nothing]
  /\ bereft = {}

Step(c, to) == at' = [at EXCEPT ![c] = to]

\* A call is answered and forgotten; a transaction it still has open is rolled back.
Answer(C) ==
  /\ at' = [c \in Calls |-> IF c \in C THEN "done" ELSE at[c]]
  /\ call' = [c \in Calls |-> IF c \in C THEN Nil ELSE call[c]]
  /\ node' = [c \in Calls |-> IF c \in C THEN Nil ELSE node[c]]
  /\ tx' = [c \in Calls |-> IF c \in C THEN Nothing ELSE tx[c]]

-----------------------------------------------------------------------------
(* Groups *)

\* RegisterGroup saves the group,
RegisterGroup(c) ==
  /\ at[c] = "run" /\ call[c].kind = "register"
  /\ Step(c, "owner")
  /\ owner' = [owner EXCEPT ![call[c].group] = call[c].who]
  /\ UNCHANGED <<member, grants, known, bereft, call, node, tx>>

\* then adds its owner; nobody knows its id before the answer, so no cache does.
AddOwner(c) ==
  LET g == call[c].group IN
  /\ at[c] = "owner"
  /\ member' = [member EXCEPT ![g][call[c].who] = Owner] /\ known' = known \cup {g}
  /\ Answer({c})
  /\ UNCHANGED <<owner, grants, bereft>>

\* Fault: an owner may leave.
MayLeaveFreely(g, p) == TRUE
NotOwner(g, p)       == owner[g] # p

\* FindByID, and the owner may neither leave nor change roles.
FindGroup(c) ==
  LET g == call[c].group IN
  /\ at[c] = "run" /\ call[c].kind \in {"update", "dissolve", "leave", "setrole"}
  /\ owner[g] # Nil
  /\ call[c].kind = "leave" => NotOwner(g, call[c].who)
  /\ call[c].kind = "setrole" => NotOwner(g, call[c].target)
  /\ Step(c, "found")
  /\ call' = [call EXCEPT ![c].who = IF call[c].kind = "update" THEN owner[g] ELSE @]
  /\ UNCHANGED <<tables, node, tx>>

\* UpdateGroupInfo saves every column of the row it found, and inserts it when it is gone.
SaveGroup(c) ==
  LET g == call[c].group IN
  /\ at[c] = "found" /\ call[c].kind = "update"
  /\ owner' = [owner EXCEPT ![g] = call[c].who]
  /\ bereft' = IF owner[g] = Nil THEN bereft \cup {g} ELSE bereft
  /\ Answer({c})
  /\ UNCHANGED <<member, grants, known>>

\* The members go with the group.
DissolveGroup(c) ==
  LET g == call[c].group IN
  /\ at[c] = "found" /\ call[c].kind = "dissolve"
  /\ owner' = [owner EXCEPT ![g] = Nil]
  /\ member' = [member EXCEPT ![g] = [p \in People |-> Nil]]
  /\ Step(c, "changed")
  /\ UNCHANGED <<grants, known, bereft, call, node, tx>>

\* A member leaves, or is kicked: the service does not ask whether it is the owner.
RemoveMember(c) ==
  LET g == call[c].group
      p == IF call[c].kind = "leave" THEN call[c].who ELSE call[c].target IN
  /\ \/ at[c] = "found" /\ call[c].kind = "leave"
     \/ at[c] = "run" /\ call[c].kind = "kick"
  /\ member' = [member EXCEPT ![g][p] = Nil]
  /\ bereft' = IF call[c].kind = "kick" /\ p = owner[g] THEN bereft \cup {g} ELSE bereft
  /\ Step(c, "changed")
  /\ UNCHANGED <<owner, grants, known, call, node, tx>>

\* AddMember needs the group and a user who is no member yet.
InviteMember(c) ==
  LET g == call[c].group IN
  /\ at[c] = "run" /\ call[c].kind = "invite"
  /\ owner[g] # Nil /\ member[g][call[c].target] = Nil
  /\ member' = [member EXCEPT ![g][call[c].target] = call[c].role]
  /\ Step(c, "changed")
  /\ UNCHANGED <<owner, grants, known, bereft, call, node, tx>>

\* GetMember, then an UPDATE that may find no row any more.
FindMember(c) ==
  /\ at[c] = "found" /\ call[c].kind = "setrole"
  /\ member[call[c].group][call[c].target] # Nil
  /\ Step(c, "member")
  /\ UNCHANGED <<tables, call, node, tx>>

UpdateMemberRole(c) ==
  LET g == call[c].group IN
  /\ at[c] = "member"
  /\ member' = [member EXCEPT ![g][call[c].target] = IF @ = Nil THEN Nil ELSE call[c].role]
  /\ Step(c, "changed")
  /\ UNCHANGED <<owner, grants, known, bereft, call, node, tx>>

-----------------------------------------------------------------------------
(* ReplaceRolePermissions *)

\* Fault: what superadmin must keep is not checked.
AnySet(r, ps) == TRUE
Valid(r, ps)  == r = Superadmin => "role:manage" \in ps

\* The ids are valid; the DELETE begins with the rows it sees.
BeginDelete(c) ==
  LET k == call[c] IN
  /\ at[c] = "run" /\ k.kind = "replace" /\ Valid(k.role, k.asked)
  /\ Step(c, "deleting")
  /\ tx' = [tx EXCEPT ![c] = [Nothing EXCEPT !.sees = RowsOf(k.role), !.todo = k.asked]]
  /\ UNCHANGED <<tables, call, node>>

\* It waits for the others that have deleted one of them; those rows are gone if they
\* commit, and rows inserted meanwhile are not seen.
DeleteGrants(c) ==
  /\ at[c] = "deleting"
  /\ \A d \in Calls \ {c} : tx[d].deleted \cap tx[c].sees = {}
  /\ Step(c, "insert")
  /\ tx' = [tx EXCEPT ![c].deleted = tx[c].sees \cap grants, ![c].sees = {}]
  /\ UNCHANGED <<tables, call, node>>

\* INSERT ... ON CONFLICT DO NOTHING waits for the open transactions that have deleted or
\* inserted the key.
InsertGrant(c, p) ==
  LET r == call[c].role
      Holds(S) == \E row \in S : row.role = r /\ row.perm = p IN
  /\ at[c] = "insert" /\ p \in tx[c].todo
  /\ \A d \in Calls \ {c} : ~Holds(tx[d].deleted \cup tx[d].added)
  /\ tx' = [tx EXCEPT ![c].todo = @ \ {p},
                      ![c].added = IF Holds(grants \ tx[c].deleted) THEN @
                                   ELSE @ \cup {[role |-> r, perm |-> p, by |-> c]}]
  /\ UNCHANGED <<tables, at, call, node>>

Commit(c) ==
  /\ at[c] = "insert" /\ tx[c].todo = {}
  /\ grants' = (grants \ tx[c].deleted) \cup tx[c].added
  /\ tx' = [tx EXCEPT ![c] = Nothing]
  /\ Step(c, "reread")
  /\ UNCHANGED <<owner, member, known, bereft, call, node>>

\* FindByID reads the role once more for the answer.
Reread(c) ==
  /\ at[c] = "reread"
  /\ Step(c, "changed")
  /\ UNCHANGED <<tables, call, node, tx>>

\* A read answers; a statement fails, the call asks what is refused, or its transaction
\* is aborted, as it is when two wait for each other.
Refused(c) ==
  /\ at[c] \in {"run", "owner", "found", "member", "deleting", "insert"}
  /\ Answer({c})
  /\ UNCHANGED tables

TableStep(c) ==
  \/ RegisterGroup(c) \/ AddOwner(c) \/ FindGroup(c) \/ SaveGroup(c) \/ DissolveGroup(c)
  \/ RemoveMember(c) \/ InviteMember(c) \/ FindMember(c) \/ UpdateMemberRole(c)
  \/ BeginDelete(c) \/ DeleteGrants(c) \/ (\E p \in Perms : InsertGrant(c, p))
  \/ Commit(c) \/ Reread(c) \/ Refused(c)
=============================================================================

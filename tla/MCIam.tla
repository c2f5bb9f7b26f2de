-------------------------------- MODULE MCIam --------------------------------
(***************************************************************************)
(* Groups, roles and enforcers.  "side" says what a behaviour is about:    *)
(* on side "groups" two calls of any kind meet on two nodes, on side       *)
(* "roles" three replacements of the permissions of superadmin on one,     *)
(* where what follows their commits is left out.                           *)
(***************************************************************************)
EXTENDS PolicyCache

CONSTANTS root, founder, guest, g1, g2, editor, n1

MCFirstOwner  == [g \in Groups |-> CASE g = Global -> root [] g = g1 -> founder [] OTHER -> Nil]
MCFirstMember ==
  [g \in Groups |-> [p \in People |->
     IF p = MCFirstOwner[g] THEN IF g = Global THEN Superadmin ELSE Owner ELSE Nil]]
MCFirstGrants ==
  {<<Superadmin, "role:manage">>, <<editor, "group:edit">>} \cup
  ({Owner} \X {"group:edit", "group:delete", "group:invite", "group:kick"})

Wants(who, what, g, target, role) ==
  [kind |-> what, who |-> who, group |-> g, target |-> target, role |-> role, asked |-> {}]
Replaces(role, perms) == [Wants(root, "replace", Global, root, role) EXCEPT !.asked = perms]

GroupCalls ==
  {Wants(founder, "invite", g1, guest, editor), Wants(founder, "kick", g1, guest, editor),
   Wants(founder, "kick", g1, founder, editor), Wants(founder, "setrole", g1, guest, Owner),
   Wants(founder, "dissolve", g1, founder, Owner), Wants(founder, "leave", g1, founder, Owner),
   Wants(guest, "leave", g1, guest, Owner), Wants(guest, "update", g1, guest, Owner),
   Wants(guest, "register", g2, guest, Owner)}
RoleCalls ==
  {Replaces(Superadmin, {"role:manage"}), Replaces(Superadmin, {"role:manage", "group:view"})}
OtherRoleCalls ==
  {Replaces(Superadmin, {"group:view"}), Replaces(editor, {"group:view"})}
MCInputs == GroupCalls \cup RoleCalls \cup OtherRoleCalls

VARIABLE side
iamVars == <<policyVars, cacheVars, side>>

MCInit == PolicyInit /\ CacheInit /\ side \in {"groups", "roles"}

\* What the side may receive
Received(c) ==
  CASE side = "groups" -> c > 2 => at'[c] = "new"
    [] side = "roles"  -> /\ call'[c] \in RoleCalls \cup {Nil} /\ node'[c] \in {n1, Nil}
                          /\ at'[c] # "changed"

OnSide(A) == A /\ (\A c \in Calls : Received(c)) /\ UNCHANGED side

\* The fairness of PolicySpec
MCSpec ==
  /\ MCInit /\ [][OnSide(PolicyNext)]_iamVars
  /\ WF_iamVars(OnSide(\E c \in Calls : CacheStep(c)))
  /\ WF_iamVars(OnSide(\E n \in Nodes, d \in Groups : LoadStep(n, d)))
  /\ WF_iamVars(OnSide(\E n \in Nodes, d \in Groups : Age(n, d)))
==============================================================================

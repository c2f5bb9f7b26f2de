----------------------------- MODULE PolicyCache -----------------------------
(***************************************************************************)
(* Casbin on every node: an enforcer for each domain (a group), loaded     *)
(* when a call needs it, one load at a time, and kept for a while.  A      *)
(* change of the tables drops the enforcers it concerns on its own node    *)
(* and broadcasts a message that drops them on all of them.                *)
(***************************************************************************)
EXTENDS Policies

VARIABLES
  cache,   \* the enforcer of each domain on each node
  load,    \* the load under way
  mail     \* messages on their way to each node

cacheVars == <<cache, load, mail>>

\* What the adapter reads for a domain: the permissions of every role, the domain's members.
Granted   == {<<row.role, row.perm>> : row \in grants}
Policy(d) == [p |-> Granted, g |-> member[d]]

\* The matcher: the user has a role in the domain that has the permission.
Enforce(policy, who, perm) == <<policy.g[who], perm>> \in policy.p

Domain(c)    == IF call[c].kind = "replace" THEN Global ELSE call[c].group
Concerned(c) == IF call[c].kind = "replace" THEN Groups ELSE {call[c].group}

CacheInit ==
  /\ cache = [n \in Nodes |-> [d \in Groups |-> Nil]]
  /\ load = [n \in Nodes |-> [d \in Groups |-> Nil]]
  /\ mail = [n \in Nodes |-> {}]

\* History: an invalidation that passes a load, or does not come, leaves a late enforcer.
Late(x) == IF x = Nil THEN Nil ELSE [x EXCEPT !.late = TRUE]
Miss(ns, ds) ==
  /\ cache' = [n \in Nodes |-> [d \in Groups |->
                 IF n \in ns /\ d \in ds THEN Late(cache[n][d]) ELSE cache[n][d]]]
  /\ load' = [n \in Nodes |-> [d \in Groups |->
                 IF n \in ns /\ d \in ds THEN Late(load[n][d]) ELSE load[n][d]]]

-----------------------------------------------------------------------------
(* CasbinRequire and GetEnforcer *)

\* The id of a group is drawn by the call that registers it.
IsNew(g) ==
  /\ g \notin known /\ owner[g] = Nil
  /\ \A c \in Calls : at[c] \notin {"new", "done"} => call[c].group # g

\* A call arrives at a node; JWTAuth has named the caller.
Receive(c, n, k) ==
  /\ at[c] = "new" /\ \A b \in Calls : b < c => at[b] # "new"
  /\ IF k.kind = "register" THEN IsNew(k.group) ELSE k.group \in known
  /\ call' = [call EXCEPT ![c] = k] /\ node' = [node EXCEPT ![c] = n]
  /\ Step(c, IF Requires[k.kind] = Nil THEN "run" ELSE "ask")
  /\ UNCHANGED <<tables, tx, cacheVars>>

Allowed(c, policy) == Enforce(policy, call[c].who, Requires[call[c].kind])

\* The calls in C get their enforcer, and are let through or answered with 403.
Decide(C, policy) ==
  LET ok == {c \in C : Allowed(c, policy)} IN
  /\ at' = [c \in Calls |-> IF c \in ok THEN "run" ELSE IF c \in C THEN "done" ELSE at[c]]
  /\ call' = [c \in Calls |-> IF c \in C \ ok THEN Nil ELSE call[c]]
  /\ node' = [c \in Calls |-> IF c \in C \ ok THEN Nil ELSE node[c]]

\* Fault: the age of an entry is not looked at.
EveryEntry(e) == e # Nil
Fresh(e)      == e # Nil /\ ~e.old

\* A fresh entry is used; an old one is removed and the call turns to the single flight.
Hit(c) ==
  LET e == cache[node[c]][Domain(c)] IN
  /\ at[c] \in {"ask", "miss"} /\ Fresh(e)
  /\ Decide({c}, e.policy)
  /\ UNCHANGED <<tables, tx, cacheVars>>

Expire(c) ==
  LET e == cache[node[c]][Domain(c)] IN
  /\ at[c] = "ask" /\ ~Fresh(e)
  /\ cache' = [cache EXCEPT ![node[c]][Domain(c)] = Nil]
  /\ Step(c, "miss")
  /\ UNCHANGED <<tables, call, node, tx, load, mail>>

\* It joins the load under way, or looks again and begins one: the permissions are read,
BeginLoad(c) ==
  LET n == node[c]
      d == Domain(c) IN
  /\ at[c] = "miss"
  /\ Step(c, "wait")
  /\ \/ load[n][d] # Nil /\ UNCHANGED <<cache, load>>
     \/ /\ load[n][d] = Nil /\ ~Fresh(cache[n][d])
        /\ cache' = [cache EXCEPT ![n][d] = Nil]
        /\ load' = [load EXCEPT ![n][d] =
                      [policy |-> [p |-> Granted, g |-> Nil], late |-> FALSE]]
  /\ UNCHANGED <<tables, call, node, tx, mail>>

\* then the members,
LoadMembers(n, d) ==
  /\ load[n][d] # Nil /\ load[n][d].policy.g = Nil
  /\ load' = [load EXCEPT ![n][d].policy.g = member[d]]
  /\ UNCHANGED <<policyVars, cache, mail>>

Waiting(n, d) == {c \in Calls : at[c] = "wait" /\ node[c] = n /\ Domain(c) = d}

\* and the enforcer is added for those that wait for it.
AddEnforcer(n, d) ==
  LET l == load[n][d] IN
  /\ l # Nil /\ l.policy.g # Nil
  /\ cache' = [cache EXCEPT ![n][d] = [policy |-> l.policy, late |-> l.late, old |-> FALSE]]
  /\ load' = [load EXCEPT ![n][d] = Nil]
  /\ Decide(Waiting(n, d), l.policy)
  /\ UNCHANGED <<tables, tx, mail>>

\* A query fails: 500.
LoadFails(n, d) ==
  /\ load[n][d] # Nil
  /\ load' = [load EXCEPT ![n][d] = Nil]
  /\ Answer(Waiting(n, d))
  /\ UNCHANGED <<tables, cache, mail>>

\* ttl after it was added an entry is old; the LRU cache drops an entry for want of room.
Age(n, d) ==
  /\ Fresh(cache[n][d])
  /\ cache' = [cache EXCEPT ![n][d].old = TRUE]
  /\ UNCHANGED <<policyVars, load, mail>>

Evict(n, d) ==
  /\ cache[n][d] # Nil
  /\ cache' = [cache EXCEPT ![n][d] = Nil]
  /\ UNCHANGED <<policyVars, load, mail>>

-----------------------------------------------------------------------------
(* Invalidation *)

\* Fault: a change of the roles drops the enforcer of the global domain only.
OneDomain(c) == {Domain(c)}
Dropped(c)   == Concerned(c)

\* InvalidateDomain and PurgeAll
Drop(n, ds) ==
  /\ cache' = [cache EXCEPT ![n] = [d \in Groups |-> IF d \in ds THEN Nil ELSE cache[n][d]]]
  /\ load' = [load EXCEPT ![n] = [d \in Groups |->
                                   IF d \in ds THEN Late(load[n][d]) ELSE load[n][d]]]

Invalidate(c) ==
  /\ at[c] = "changed"
  /\ Drop(node[c], Dropped(c))
  /\ Step(c, "publish")
  /\ UNCHANGED <<tables, call, node, tx, mail>>

\* PublishCasbinSync; when it fails that is only logged.
Publish(c) ==
  /\ at[c] = "publish"
  /\ mail' = [n \in Nodes |-> mail[n] \cup {[by |-> c, of |-> Dropped(c)]}]
  /\ Answer({c})
  /\ UNCHANGED <<tables, cache, load>>

PublishFails(c) ==
  /\ at[c] = "publish"
  /\ Miss(Nodes \ {node[c]}, Concerned(c))
  /\ Answer({c})
  /\ UNCHANGED <<tables, mail>>

\* The tables have changed but the handler is told of an error: the statement that changed
\* them, or the commit, is reported as failed, or the permissions cannot be read again.  It
\* answers with the error and neither drops nor publishes anything.
ChangeUnseen(c) ==
  /\ at[c] = "reread" \/ (at[c] = "changed" /\ call[c].kind # "replace")
  /\ Miss(Nodes, Concerned(c))
  /\ Answer({c})
  /\ UNCHANGED <<tables, mail>>

\* The broadcast consumer of a node
Deliver(n, m) ==
  /\ m \in mail[n]
  /\ mail' = [mail EXCEPT ![n] = @ \ {m}]
  /\ Drop(n, m.of)
  /\ UNCHANGED policyVars

-----------------------------------------------------------------------------
\* A node restarts, with empty caches; its calls are lost, and with them the messages they
\* had still to send.
Restart(n) ==
  LET mine == {c \in Calls : node[c] = n}
      lost == UNION {Concerned(c) : c \in {b \in mine : at[b] \in {"reread", "changed",
                                                                  "publish"}}} IN
  /\ cache' = [m \in Nodes |-> [d \in Groups |->
       IF m = n THEN Nil ELSE IF d \in lost THEN Late(cache[m][d]) ELSE cache[m][d]]]
  /\ load' = [m \in Nodes |-> [d \in Groups |->
       IF m = n THEN Nil ELSE IF d \in lost THEN Late(load[m][d]) ELSE load[m][d]]]
  /\ mail' = [mail EXCEPT ![n] = {}]
  /\ Answer(mine)
  /\ UNCHANGED tables

CacheStep(c) ==
  \/ \E n \in Nodes, k \in Inputs : Receive(c, n, k)
  \/ Hit(c) \/ Expire(c) \/ BeginLoad(c)
  \/ TableStep(c) /\ UNCHANGED cacheVars
  \/ Invalidate(c) \/ Publish(c) \/ PublishFails(c) \/ ChangeUnseen(c)

LoadStep(n, d) == LoadMembers(n, d) \/ AddEnforcer(n, d) \/ LoadFails(n, d)

PolicyNext ==
  \/ \E c \in Calls : CacheStep(c)
  \/ \E n \in Nodes : Restart(n) \/ \E m \in mail[n] : Deliver(n, m)
  \/ \E n \in Nodes, d \in Groups : LoadStep(n, d) \/ Age(n, d) \/ Evict(n, d)

PolicyFairness ==
  /\ WF_<<policyVars, cacheVars>>(\E c \in Calls : CacheStep(c))
  /\ WF_<<policyVars, cacheVars>>(\E n \in Nodes, d \in Groups : LoadStep(n, d))
  /\ WF_<<policyVars, cacheVars>>(\E n \in Nodes, d \in Groups : Age(n, d))

\* Handlers and loads go on by themselves, and time passes.
PolicySpec == PolicyInit /\ CacheInit /\ [][PolicyNext]_<<policyVars, cacheVars>> /\ PolicyFairness

-----------------------------------------------------------------------------
(* Properties *)

\* Whichever replacements of its permissions run at once, superadmin has role:manage after
\* every commit: a transaction that deletes the row inserts it, and one that deletes it
\* later waits for the first.
SuperadminKeeps == <<Superadmin, "role:manage">> \in Granted

\* A group that clients know has its owner among its members, in the role of the owner,
\* unless the owner was kicked or the group saved again after it was dissolved.
OwnerBelongs ==
  \A g \in known :
    owner[g] # Nil => g \in bereft \/ member[g][owner[g]] = OwnerRole(g)

\* The change that made an enforcer stale has still to drop it, on this node or by message.
Awaited(n, d) ==
  \/ \E c \in Calls : /\ at[c] \in {"reread", "changed", "publish"}
                      /\ d \in Concerned(c)
                      /\ at[c] = "publish" => node[c] # n
  \/ \E m \in mail[n] : d \in m.of

\* An enforcer agrees with the tables, or its invalidation is on the way, or it was lost or
\* left out after a failure, or had come while the enforcer was being loaded.
StaleIsAwaited ==
  \A n \in Nodes, d \in Groups :
    LET e == cache[n][d] IN
    e # Nil => e.policy = Policy(d) \/ e.late \/ Awaited(n, d)

\* Once the calls have ended, no node goes on with a stale enforcer: the lifetime of an
\* entry ends what lost messages and loads under way have left behind.
EnforcersConverge ==
  <>[](\A n \in Nodes, d \in Groups : Fresh(cache[n][d]) => cache[n][d].policy = Policy(d))
=============================================================================

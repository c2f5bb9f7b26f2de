---------------------------- MODULE AccountsProofs ----------------------------
(***************************************************************************)
(* What a request meets on its way to a handler and there, for any         *)
(* constants: the accounts of IAM, the limits of an address, and the lists *)
(* that are read page by page.                                             *)
(***************************************************************************)
EXTENDS RateLimits, Accounts, Listings, FiniteSetTheorems, TLAPS

-----------------------------------------------------------------------------
(* Accounts: what requests may do to each other *)

\* The places of a request, and what a device may hold.
Stages == {"new", "login", "answer", "renew", "run", "found", "logout", "uploaded",
           "removed", "done"}
Tokens == {"none", "valid", "expired"}

\* The values of the variables.
AccountType ==
  /\ row \in [Users -> Rows \cup {None}]
  /\ session \in [Users -> Ids \cup {None}]
  /\ jar \in [Devices -> [token : Tokens, sid : Ids \cup {None}]]
  /\ stage \in [Visits -> Stages] /\ kind \in [Visits -> Kinds \cup {"login"}]
  /\ device \in [Visits -> Devices \cup {None}]
  /\ copy \in [Visits -> Rows \cup {None}] /\ sid \in [Visits -> Ids \cup {None}]
  /\ opened \in [Ids -> Ids \cup {None}]

\* Who is logged in has a row, and so has the user of a request that JWTAuth let pass;
\* the handlers that save a row have read one.
Present(r) ==
  /\ stage[r] \notin {"new", "done"} => device[r] \in Devices /\ row[UserOf(r)] # None
  /\ stage[r] \in {"login", "found", "uploaded", "removed"} => copy[r] # None
PresenceInv ==
  /\ \A r \in Visits : Present(r)
  /\ \A d \in Devices : jar[d].token # "none" => row[OwnerOf[d]] # None
  /\ \A u \in Users : row[u] = None => session[u] = None

\* A session id that is kept anywhere was opened, once, by the login it is named by.
WasOpened(s) == s # None => opened[s] # None
OpenedInv ==
  /\ \A u \in Users : WasOpened(session[u])
  /\ \A d \in Devices : WasOpened(jar[d].sid)
  /\ \A r \in Visits : /\ WasOpened(sid[r])
                       /\ stage[r] \in {"new", "login"} => opened[r] = None
                       /\ stage[r] = "answer" => opened[r] # None

\* A new avatar is stored, and no row or copy of one names it until it is saved.
Settled == {None, Origin} \cup {r \in Visits : stage[r] = "done"}
AvatarInv ==
  /\ \A u \in Users : row[u] # None => row[u].avatar \in Settled
  /\ \A r \in Visits : /\ copy[r] # None => copy[r].avatar \in Settled
                       /\ stage[r] \in {"uploaded", "removed"} => <<UserOf(r), r>> \in stored

\* The invariant of the accounts.
AccountInv == AccountType /\ PresenceInv /\ OpenedInv /\ AvatarInv

\* The invariant and both properties hold in the beginning.
LEMMA AccountInitInv == AccountInit => AccountInv /\ SessionMatchesPassword /\ AvatarExists
<1> SUFFICES ASSUME AccountInit PROVE AccountInv /\ SessionMatchesPassword /\ AvatarExists
  OBVIOUS
<1> USE AccountAssumption, NoRowAssumption
<1>1. \A u \in Users :
       /\ u \in Known => row[u] = [email |-> FirstEmail[u], pass |-> Origin, avatar |-> Origin]
       /\ u \in Known => row[u] \in Rows /\ row[u] # None
       /\ u \notin Known => row[u] = None
  BY DEF AccountInit, Known, Rows, Ids
<1>2. AccountType
  BY <1>1 DEF AccountInit, AccountType, Stages, Tokens, Kinds, NoCookies, Ids
<1>3. PresenceInv
  BY <1>1 DEF AccountInit, PresenceInv, Present, NoCookies
<1>4. OpenedInv
  BY DEF AccountInit, OpenedInv, WasOpened, NoCookies, Ids
<1>5. AvatarInv
  BY <1>1 DEF AccountInit, AvatarInv, Settled
<1>6. SessionMatchesPassword /\ AvatarExists
  BY <1>1 DEF AccountInit, SessionMatchesPassword, AvatarExists, Ids
<1> QED
  BY <1>2, <1>3, <1>4, <1>5, <1>6 DEF AccountInv

\* A request touches no other request.
Others(r) == \A q \in Visits \ {r} :
  /\ stage'[q] = stage[q] /\ kind'[q] = kind[q] /\ device'[q] = device[q]
  /\ copy'[q] = copy[q] /\ sid'[q] = sid[q]

\* The end of a request.
LEMMA FinishType ==
  ASSUME AccountInv, NEW r \in Visits, Finish(r)
  PROVE  /\ stage' \in [Visits -> Stages] /\ kind' \in [Visits -> Kinds \cup {"login"}]
         /\ device' \in [Visits -> Devices \cup {None}]
         /\ copy' \in [Visits -> Rows \cup {None}] /\ sid' \in [Visits -> Ids \cup {None}]
         /\ stage'[r] = "done" /\ copy'[r] = None /\ sid'[r] = None
         /\ Others(r)
BY DEF Finish, Go, AccountInv, AccountType, Stages, Kinds, Others

\* The arrival of a request.
LEMMA ArriveType ==
  ASSUME AccountInv, NEW r \in Visits, NEW d \in Devices, NEW k \in Kinds \cup {"login"},
         NEW to \in Stages, Arrive(r, d, k, to)
  PROVE  /\ stage' \in [Visits -> Stages] /\ kind' \in [Visits -> Kinds \cup {"login"}]
         /\ device' \in [Visits -> Devices \cup {None}]
         /\ stage[r] = "new" /\ stage'[r] = to /\ kind'[r] = k /\ device'[r] = d
         /\ \A q \in Visits \ {r} : stage'[q] = stage[q] /\ kind'[q] = kind[q]
                                    /\ device'[q] = device[q]
BY DEF Arrive, IsNext, Go, AccountInv, AccountType, Stages, Kinds

\* A step of a request to another of its places.
LEMMA GoType ==
  ASSUME AccountInv, NEW r \in Visits, NEW to \in Stages, Go(r, to)
  PROVE  /\ stage' \in [Visits -> Stages] /\ stage'[r] = to
         /\ \A q \in Visits \ {r} : stage'[q] = stage[q]
BY DEF Go, AccountInv, AccountType, Stages

\* A row that is saved is one that was read, with one column changed.
LEMMA CopyType ==
  ASSUME AccountInv, NEW r \in Visits, copy[r] # None
  PROVE  /\ copy[r] \in Rows
         /\ \A e \in Emails : /\ [copy[r] EXCEPT !.email = e] \in Rows
                              /\ [copy[r] EXCEPT !.email = e] # None
                              /\ [copy[r] EXCEPT !.email = e].pass = copy[r].pass
                              /\ [copy[r] EXCEPT !.email = e].avatar = copy[r].avatar
         /\ [copy[r] EXCEPT !.pass = r] \in Rows
         /\ [copy[r] EXCEPT !.pass = r] # None
         /\ [copy[r] EXCEPT !.pass = r].pass = r
         /\ [copy[r] EXCEPT !.pass = r].avatar = copy[r].avatar
         /\ [copy[r] EXCEPT !.avatar = r] \in Rows
         /\ [copy[r] EXCEPT !.avatar = r] # None
         /\ [copy[r] EXCEPT !.avatar = r].pass = copy[r].pass
         /\ [copy[r] EXCEPT !.avatar = r].avatar = r
<1>1. copy[r] \in Rows
  BY DEF AccountInv, AccountType
<1>2. \A c \in Rows : c # None
  BY NoRowAssumption DEF Rows
<1> QED
  BY <1>1, <1>2 DEF Rows, Ids

\* What a step of a request may do to the rest: a row stays a row, only its user's row,
\* session and device are touched.
LEMMA RequestType ==
  ASSUME AccountInv, NEW r \in Visits, AccountStep(r)
  PROVE  AccountType' /\ Others(r)
<1> USE AccountAssumption
<1>0. /\ AccountType /\ r \in Ids /\ None \notin Ids
      /\ \A d \in Devices : OwnerOf[d] \in Users
  BY DEF AccountInv, Ids
<1>1. ASSUME NEW d \in Devices, NEW e \in Emails, Register(r, d, e)
      PROVE  AccountType' /\ Others(r)
  <2>1. [email |-> e, pass |-> r, avatar |-> None] \in Rows
    BY <1>0 DEF Rows
  <2>2. row' \in [Users -> Rows \cup {None}]
    BY <1>0, <1>1, <2>1 DEF Register, AccountType
  <2> QED
    BY <1>0, <1>1, <2>2, FinishType DEF Register, AccountType, slips
<1>2. ASSUME NEW d \in Devices, Login(r, d)
      PROVE  AccountType' /\ Others(r)
  BY <1>0, <1>2, ArriveType DEF Login, AccountType, slips, Others, Stages
<1>3. CASE OpenSession(r)
  <2>1. copy[r] # None /\ copy[r].pass \in Ids /\ device[r] \in Devices
    BY <1>0, <1>3, CopyType DEF OpenSession, AccountInv, PresenceInv, Present, Rows
  <2> QED
    BY <1>0, <1>3, <2>1, GoType DEF OpenSession, AccountType, asked, Others, Stages
<1>4. CASE KeepCookies(r)
  BY <1>0, <1>4, FinishType DEF KeepCookies, AccountType, slips, Tokens
<1>5. ASSUME NEW d \in Devices, NEW k \in Kinds, NEW header \in BOOLEAN,
             Authenticate(r, d, k, header)
      PROVE  AccountType' /\ Others(r)
  BY <1>0, <1>5, ArriveType DEF Authenticate, AccountType, slips, Others, Stages
<1>6. ASSUME NEW d \in Devices, NEW k \in Kinds, Renew(r, d, k)
      PROVE  AccountType' /\ Others(r)
  BY <1>0, <1>6, ArriveType DEF Renew, AccountType, slips, Others, Stages
<1>7. CASE WriteBack(r)
  <2>0. jar' = [jar EXCEPT ![device[r]].token = "valid"]
        /\ session' \in {session, [session EXCEPT ![UserOf(r)] = sid[r]]}
    BY <1>7 DEF WriteBack
  <2>1. /\ session' \in [Users -> Ids \cup {None}]
        /\ jar' \in [Devices -> [token : Tokens, sid : Ids \cup {None}]]
    <3>1. session' \in [Users -> Ids \cup {None}]
      BY <1>0, <2>0 DEF AccountType
    <3>2. \A c \in [token : Tokens, sid : Ids \cup {None}] :
            [c EXCEPT !.token = "valid"] \in [token : Tokens, sid : Ids \cup {None}]
      BY DEF Tokens
    <3>3. jar \in [Devices -> [token : Tokens, sid : Ids \cup {None}]]
      BY <1>0 DEF AccountType
    <3>4. jar' \in [Devices -> [token : Tokens, sid : Ids \cup {None}]]
      BY <2>0, <3>2, <3>3
    <3> QED
      BY <3>1, <3>4
  <2>2. stage' \in [Visits -> Stages] /\ \A q \in Visits \ {r} : stage'[q] = stage[q]
    BY <1>7, GoType DEF WriteBack, Stages
  <2> QED
    BY <1>0, <1>7, <2>1, <2>2 DEF WriteBack, AccountType, asked, Others
<1>8. ASSUME NEW d \in Devices, Refuse(r, d)
      PROVE  AccountType' /\ Others(r)
  BY <1>0, <1>8, FinishType DEF Refuse, AccountType, slips
<1>9. CASE Find(r)
  <2>1. UserOf(r) \in Users
    BY <1>0, <1>9 DEF Find, AccountInv, PresenceInv, Present, UserOf
  <2> QED
    BY <1>0, <1>9, <2>1, GoType DEF Find, AccountType, slips, Others, Stages
<1>10. CASE GetProfile(r)
  BY <1>0, <1>10, FinishType DEF GetProfile, AccountType, slips
<1>11. ASSUME NEW e \in Emails, SaveProfile(r, e)
       PROVE  AccountType' /\ Others(r)
  <2>1. copy[r] # None
    BY <1>11 DEF SaveProfile, AccountInv, PresenceInv, Present
  <2>2. row' \in [Users -> Rows \cup {None}]
    BY <1>0, <1>11, <2>1, CopyType DEF SaveProfile, Save, AccountType
  <2> QED
    BY <1>0, <1>11, <2>2, FinishType DEF SaveProfile, AccountType
<1>12. CASE SavePassword(r)
  <2>1. copy[r] # None
    BY <1>12 DEF SavePassword, AccountInv, PresenceInv, Present
  <2>2. row' \in [Users -> Rows \cup {None}]
    BY <1>0, <1>12, <2>1, CopyType DEF SavePassword, Save, AccountType
  <2> QED
    BY <1>0, <1>12, <2>2, GoType DEF SavePassword, AccountType, asked, Others, Stages
<1>13. ASSUME NEW ok \in BOOLEAN, NEW keeps \in BOOLEAN, EndSession(r, ok, keeps)
       PROVE  AccountType' /\ Others(r)
  <2>0. /\ session' = session \/ session' = [session EXCEPT ![UserOf(r)] = None]
        /\ jar' = [jar EXCEPT ![device[r]] = IF keeps THEN [@ EXCEPT !.sid = None]
                                                      ELSE NoCookies]
    BY <1>13 DEF EndSession, Ended
  <2>1. /\ session' \in [Users -> Ids \cup {None}]
        /\ jar' \in [Devices -> [token : Tokens, sid : Ids \cup {None}]]
    <3>1. session' \in [Users -> Ids \cup {None}]
      BY <1>0, <2>0 DEF AccountType
    <3>2. /\ NoCookies \in [token : Tokens, sid : Ids \cup {None}]
          /\ \A c \in [token : Tokens, sid : Ids \cup {None}] :
               [c EXCEPT !.sid = None] \in [token : Tokens, sid : Ids \cup {None}]
      BY DEF NoCookies, Tokens
    <3>3. jar \in [Devices -> [token : Tokens, sid : Ids \cup {None}]]
      BY <1>0 DEF AccountType
    <3>4. jar' \in [Devices -> [token : Tokens, sid : Ids \cup {None}]]
      BY <2>0, <3>2, <3>3
    <3> QED
      BY <3>1, <3>4
  <2> QED
    BY <1>0, <1>13, <2>1, FinishType DEF EndSession, AccountType
<1>14. CASE Upload(r) \/ \E ok \in BOOLEAN : RemoveOld(r, ok)
  <2>1. stage' \in [Visits -> Stages] /\ \A q \in Visits \ {r} : stage'[q] = stage[q]
    BY <1>14, GoType DEF Upload, RemoveOld, Stages
  <2>2. UNCHANGED <<row, session, jar, asked, opened>>
    BY <1>14 DEF Upload, RemoveOld, slips
  <2> QED
    BY <1>0, <2>1, <2>2 DEF AccountType, asked, Others
<1>15. CASE SaveAvatar(r)
  <2>1. copy[r] # None
    BY <1>15 DEF SaveAvatar, AccountInv, PresenceInv, Present
  <2>2. row' \in [Users -> Rows \cup {None}]
    BY <1>0, <1>15, <2>1, CopyType DEF SaveAvatar, NewName, Save, AccountType
  <2> QED
    BY <1>0, <1>15, <2>2, FinishType DEF SaveAvatar, AccountType
<1>16. CASE Fail(r)
  BY <1>0, <1>16, FinishType DEF Fail, AccountType
<1> QED
  BY <1>1, <1>2, <1>3, <1>4, <1>5, <1>6, <1>7, <1>8, <1>9, <1>10, <1>11, <1>12, <1>13,
     <1>14, <1>15, <1>16 DEF AccountStep, Arrival

\* A step that keeps rows, and lets only who has one in, keeps who has a row.
LEMMA PresenceKept ==
  ASSUME AccountInv, NEW r \in Visits, Others(r), Present(r)',
         \A u \in Users : row[u] # None => row'[u] # None,
         \A d \in Devices : jar'[d].token # "none"
                              => jar[d].token # "none" \/ row'[OwnerOf[d]] # None,
         \A u \in Users : row'[u] = None => session'[u] = None
  PROVE  PresenceInv'
<1>1. \A d \in Devices : OwnerOf[d] \in Users
  BY AccountAssumption
<1>2. ASSUME NEW q \in Visits \ {r}
      PROVE  Present(q)'
  <2>1. /\ stage'[q] = stage[q] /\ device'[q] = device[q] /\ copy'[q] = copy[q]
        /\ Present(q)
    BY DEF Others, AccountInv, PresenceInv
  <2> QED
    BY <1>1, <2>1 DEF Present, UserOf
<1>3. \A q \in Visits : Present(q)'
  BY <1>2
<1>4. \A d \in Devices : jar'[d].token # "none" => row'[OwnerOf[d]] # None
  BY <1>1 DEF AccountInv, PresenceInv
<1> QED
  BY <1>3, <1>4 DEF PresenceInv

\* Every step of a request keeps who has a row.
LEMMA RequestPresence ==
  ASSUME AccountInv, NEW r \in Visits, AccountStep(r)
  PROVE  PresenceInv'
<1> USE AccountAssumption
<1>0. /\ AccountType /\ AccountType' /\ Others(r) /\ r \in Ids /\ None \notin Ids
      /\ PresenceInv /\ Present(r)
      /\ \A d \in Devices : OwnerOf[d] \in Users
  BY RequestType DEF AccountInv, Ids, PresenceInv
<1>1. ASSUME Finish(r), UNCHANGED <<row, session>>,
             \A d \in Devices : jar'[d].token # "none"
                                  => jar[d].token # "none" \/ row'[OwnerOf[d]] # None
      PROVE  PresenceInv'
  <2>1. Present(r)'
    BY <1>1, FinishType DEF Present
  <2> QED
    BY <1>0, <1>1, <2>1, PresenceKept DEF PresenceInv
<1>2. ASSUME NEW d \in Devices, NEW e \in Emails, Register(r, d, e)
      PROVE  PresenceInv'
  <2>1. [email |-> e, pass |-> r, avatar |-> None] # None
    BY <1>0, NoRowAssumption
  <2>2. Present(r)'
    BY <1>2, FinishType DEF Register, Present
  <2> QED
    BY <1>0, <1>2, <2>1, <2>2, PresenceKept DEF Register, PresenceInv, AccountType
<1>3. ASSUME NEW d \in Devices, Login(r, d)
      PROVE  PresenceInv'
  <2>1. stage'[r] = "login" /\ device'[r] = d /\ copy'[r] = row[OwnerOf[d]]
    BY <1>0, <1>3, ArriveType DEF Login, AccountType, Stages
  <2>2. Present(r)'
    BY <1>3, <2>1 DEF Login, Present, UserOf
  <2> QED
    BY <1>0, <1>3, <2>2, PresenceKept DEF Login, PresenceInv
<1>4. ASSUME NEW d \in Devices, NEW k \in Kinds, NEW header \in BOOLEAN,
             Authenticate(r, d, k, header) \/ Renew(r, d, k)
      PROVE  PresenceInv'
  <2>1. stage'[r] \in {"run", "renew"} /\ device'[r] = d
    BY <1>0, <1>4, ArriveType DEF Authenticate, Renew, AccountType, Stages
  <2>2. jar[d].token # "none" /\ UNCHANGED <<row, session, jar>>
    BY <1>4 DEF Authenticate, Renew
  <2>3. Present(r)'
    BY <2>1, <2>2, <1>0 DEF Present, UserOf, PresenceInv
  <2> QED
    BY <1>0, <2>2, <2>3, PresenceKept DEF PresenceInv
<1>5. CASE OpenSession(r) \/ WriteBack(r)
  <2>1. /\ stage[r] \in {"login", "renew"} /\ stage'[r] \in {"answer", "run"}
        /\ UNCHANGED <<row, device>>
    BY <1>5, GoType DEF OpenSession, WriteBack, asked, Stages
  <2>2. Present(r)' /\ row[UserOf(r)] # None
    BY <1>0, <2>1 DEF Present, UserOf
  <2>3. \A u \in Users \ {UserOf(r)} : session'[u] = session[u]
    BY <1>0, <1>5 DEF OpenSession, WriteBack, AccountType
  <2>4. \A d \in Devices : jar'[d].token # "none"
                             => jar[d].token # "none" \/ row'[OwnerOf[d]] # None
    BY <1>0, <1>5, <2>1, <2>2 DEF OpenSession, WriteBack, AccountType, UserOf
  <2> QED
    BY <1>0, <2>1, <2>2, <2>3, <2>4, PresenceKept DEF PresenceInv
<1>6. CASE KeepCookies(r)
  <2>1. device[r] \in Devices /\ row[UserOf(r)] # None
    BY <1>0, <1>6 DEF KeepCookies, Present
  <2>2. \A d \in Devices \ {device[r]} : jar'[d] = jar[d]
    BY <1>0, <1>6 DEF KeepCookies, AccountType
  <2> QED
    BY <1>1, <1>6, <2>1, <2>2 DEF KeepCookies, UserOf
<1>7. CASE GetProfile(r) \/ Fail(r) \/ \E d \in Devices : Refuse(r, d)
  BY <1>1, <1>7 DEF GetProfile, Fail, Refuse
<1>8. CASE Find(r)
  <2>1. /\ stage[r] = "run" /\ stage'[r] = "found" /\ copy'[r] = row[UserOf(r)]
        /\ UNCHANGED <<row, session, jar, device>>
    BY <1>0, <1>8, GoType DEF Find, AccountType, Stages
  <2>2. Present(r)'
    BY <1>0, <2>1 DEF Present, UserOf
  <2> QED
    BY <1>0, <2>1, <2>2, PresenceKept DEF PresenceInv
<1>9. ASSUME NEW new, new # None, row' = [row EXCEPT ![UserOf(r)] = new],
             UNCHANGED <<session, jar>>,
             Finish(r) \/ (Go(r, "logout") /\ device' = device /\ stage[r] = "found")
      PROVE  PresenceInv'
  <2>1. \A u \in Users : row[u] # None => row'[u] # None
    BY <1>0, <1>9 DEF AccountType
  <2>2. CASE Finish(r)
    <3>1. Present(r)'
      BY <2>2, FinishType DEF Present
    <3> QED
      BY <1>0, <1>9, <2>1, <3>1, PresenceKept DEF PresenceInv, AccountType
  <2>3. CASE Go(r, "logout") /\ device' = device /\ stage[r] = "found"
    <3>1. stage'[r] = "logout"
      BY <2>3, GoType DEF Stages
    <3>2. Present(r)'
      BY <1>0, <2>1, <2>3, <3>1 DEF Present, UserOf
    <3> QED
      BY <1>0, <1>9, <2>1, <3>2, PresenceKept DEF PresenceInv, AccountType
  <2> QED
    BY <1>9, <2>2, <2>3
<1>10. CASE SaveAvatar(r) \/ SavePassword(r) \/ \E e \in Emails : SaveProfile(r, e)
  <2>1. copy[r] # None
    BY <1>0, <1>10 DEF SaveAvatar, SavePassword, SaveProfile, Present
  <2>2. CASE SaveAvatar(r)
    BY <1>9, <2>1, <2>2, CopyType DEF SaveAvatar, NewName, Save
  <2>3. CASE SavePassword(r)
    BY <1>9, <2>1, <2>3, CopyType DEF SavePassword, Save, asked
  <2>4. ASSUME NEW e \in Emails, SaveProfile(r, e)
        PROVE  PresenceInv'
    <3>1. [copy[r] EXCEPT !.email = e] # None
      <4>1. copy[r] \in Rows
        BY <2>1, CopyType
      <4> QED
        BY <4>1, NoRowAssumption DEF Rows
    <3>2. /\ row' = [row EXCEPT ![UserOf(r)] = [copy[r] EXCEPT !.email = e]]
          /\ UNCHANGED <<session, jar>> /\ Finish(r)
      BY <2>4 DEF SaveProfile, Save
    <3> QED
      BY <1>9, <3>1, <3>2
  <2> QED
    BY <1>10, <2>2, <2>3, <2>4
<1>11. ASSUME NEW ok \in BOOLEAN, NEW keeps \in BOOLEAN, EndSession(r, ok, keeps)
       PROVE  PresenceInv'
  <2>1. Present(r)'
    BY <1>11, FinishType DEF EndSession, Present
  <2>2. \A d \in Devices : jar'[d].token # "none" => jar[d].token # "none"
    BY <1>0, <1>11 DEF EndSession, AccountType, NoCookies
  <2>3. \A u \in Users : session'[u] = None \/ session'[u] = session[u]
    BY <1>0, <1>11 DEF EndSession, Ended, AccountType
  <2> QED
    BY <1>0, <1>11, <2>1, <2>2, <2>3, PresenceKept DEF EndSession, PresenceInv
<1>12. CASE Upload(r) \/ \E ok \in BOOLEAN : RemoveOld(r, ok)
  <2>1. /\ stage[r] \in {"found", "uploaded"} /\ stage'[r] \in {"uploaded", "removed"}
        /\ UNCHANGED <<row, session, jar, device, copy>>
    BY <1>12, GoType DEF Upload, RemoveOld, Stages, asked
  <2>2. Present(r)'
    BY <1>0, <2>1 DEF Present, UserOf
  <2> QED
    BY <1>0, <2>1, <2>2, PresenceKept DEF PresenceInv
<1> QED
  BY <1>2, <1>3, <1>4, <1>5, <1>6, <1>7, <1>8, <1>10, <1>11, <1>12 DEF AccountStep, Arrival

\* After the step too.
IsOpened(s) == s # None => opened'[s] # None

\* A step that forgets no session that was opened.
LEMMA OpenedKept ==
  ASSUME AccountInv, NEW r \in Visits, Others(r),
         \A s \in Ids : opened[s] # None => opened'[s] # None,
         \A q \in Visits \ {r} : opened'[q] = opened[q],
         \A u \in Users : session'[u] = session[u] \/ IsOpened(session'[u]),
         \A d \in Devices : jar'[d].sid = jar[d].sid \/ IsOpened(jar'[d].sid),
         sid'[r] = sid[r] \/ IsOpened(sid'[r]),
         stage'[r] \in {"new", "login"} => opened'[r] = None,
         stage'[r] = "answer" => opened'[r] # None
  PROVE  OpenedInv'
<1>1. /\ \A u \in Users : session[u] \in Ids \cup {None} /\ WasOpened(session[u])
      /\ \A d \in Devices : jar[d].sid \in Ids \cup {None} /\ WasOpened(jar[d].sid)
      /\ \A q \in Visits : sid[q] \in Ids \cup {None} /\ WasOpened(sid[q])
  BY DEF AccountInv, AccountType, OpenedInv
<1>2. \A s \in Ids \cup {None} : WasOpened(s) => IsOpened(s)
  BY DEF WasOpened, IsOpened
<1>3. /\ \A u \in Users : IsOpened(session[u])
      /\ \A d \in Devices : IsOpened(jar[d].sid)
      /\ \A q \in Visits : IsOpened(sid[q])
  BY <1>1, <1>2 DEF WasOpened, IsOpened
<1>4. \A q \in Visits : IsOpened(sid'[q])
  BY <1>3 DEF Others
<1>5. /\ \A u \in Users : IsOpened(session'[u])
      /\ \A d \in Devices : IsOpened(jar'[d].sid)
  BY <1>3 DEF IsOpened
<1>6. \A q \in Visits \ {r} : /\ stage'[q] \in {"new", "login"} => opened'[q] = None
                              /\ stage'[q] = "answer" => opened'[q] # None
  BY DEF AccountInv, OpenedInv, Others
<1> QED
  BY <1>4, <1>5, <1>6 DEF OpenedInv, WasOpened, IsOpened

\* Every step of a request knows only ids of sessions that were opened.
LEMMA RequestOpened ==
  ASSUME AccountInv, NEW r \in Visits, AccountStep(r)
  PROVE  OpenedInv'
<1> USE AccountAssumption
<1>0. /\ AccountType /\ AccountType' /\ Others(r) /\ r \in Ids /\ None \notin Ids
      /\ OpenedInv /\ Present(r) /\ \A d \in Devices : OwnerOf[d] \in Users
  BY RequestType DEF AccountInv, Ids, PresenceInv
<1>1. ASSUME opened' = opened,
             stage'[r] \notin {"new", "login", "answer"} \/ (stage'[r] = "login" /\ stage[r] = "new"),
             \A u \in Users : session'[u] \in {session[u], None, sid[r]},
             \A d \in Devices : jar'[d].sid \in {jar[d].sid, None},
             sid'[r] = None \/ sid'[r] = sid[r] \/ \E d \in Devices : sid'[r] = jar[d].sid
      PROVE  OpenedInv'
  <2>1. \A u \in Users : session'[u] = session[u] \/ IsOpened(session'[u])
    BY <1>0, <1>1 DEF OpenedInv, WasOpened, IsOpened
  <2>2. \A d \in Devices : jar'[d].sid = jar[d].sid \/ IsOpened(jar'[d].sid)
    BY <1>0, <1>1 DEF OpenedInv, WasOpened, IsOpened
  <2>3. sid'[r] = sid[r] \/ IsOpened(sid'[r])
    BY <1>0, <1>1 DEF OpenedInv, WasOpened, IsOpened
  <2> QED
    BY <1>0, <1>1, <2>1, <2>2, <2>3, OpenedKept DEF OpenedInv
<1>2. CASE \E d \in Devices : \/ Refuse(r, d) \/ \E e \in Emails : Register(r, d, e)
  BY <1>0, <1>1, <1>2, FinishType DEF Register, Refuse, slips
<1>3. CASE \E d \in Devices : Login(r, d)
  <2>1. stage[r] = "new" /\ stage'[r] = "login"
    BY <1>3, ArriveType DEF Login, Stages
  <2> QED
    BY <1>0, <1>1, <1>3, <2>1 DEF Login, slips
<1>4. ASSUME NEW d \in Devices, NEW k \in Kinds, NEW header \in BOOLEAN,
             Authenticate(r, d, k, header) \/ Renew(r, d, k)
      PROVE  OpenedInv'
  <2>1. stage'[r] \in {"run", "renew"}
    BY <1>4, ArriveType DEF Authenticate, Renew, Stages
  <2>2. sid'[r] = sid[r] \/ sid'[r] = jar[d].sid
    BY <1>0, <1>4 DEF Authenticate, Renew, AccountType
  <2> QED
    BY <1>0, <1>1, <1>4, <2>1, <2>2 DEF Authenticate, Renew, slips
<1>5. CASE OpenSession(r)
  <2>1. /\ stage'[r] = "answer" /\ sid' = sid /\ jar' = jar
        /\ opened' = [opened EXCEPT ![r] = copy[r].pass]
    BY <1>5, GoType DEF OpenSession, asked, Stages
  <2>2. copy[r].pass \in Ids
    BY <1>0, <1>5, CopyType DEF OpenSession, Present, Rows
  <2>3. \A s \in Ids : opened'[s] = IF s = r THEN copy[r].pass ELSE opened[s]
    BY <1>0, <2>1 DEF AccountType
  <2>4. \A u \in Users : session'[u] = session[u] \/ session'[u] = r
    BY <1>0, <1>5 DEF OpenSession, AccountType
  <2>5. \A u \in Users : session'[u] = session[u] \/ IsOpened(session'[u])
    BY <1>0, <2>2, <2>3, <2>4 DEF WasOpened, IsOpened
  <2>6. \A q \in Visits : q \in Ids
    BY DEF Ids
  <2> QED
    BY <1>0, <2>1, <2>2, <2>3, <2>5, <2>6, OpenedKept
<1>6. CASE KeepCookies(r)
  <2>1. opened[r] # None /\ stage'[r] = "done" /\ sid'[r] = None
        /\ UNCHANGED <<opened, session>>
    BY <1>0, <1>6, FinishType DEF KeepCookies, OpenedInv, slips
  <2>2. \A d \in Devices : jar'[d].sid = jar[d].sid \/ jar'[d].sid = r
    BY <1>0, <1>6 DEF KeepCookies, AccountType
  <2> QED
    BY <1>0, <2>1, <2>2, OpenedKept DEF WasOpened, IsOpened
<1>7. CASE WriteBack(r)
  <2>1. stage'[r] = "run" /\ UNCHANGED <<opened, sid>>
    BY <1>7, GoType DEF WriteBack, asked, Stages
  <2>2. \A d \in Devices : jar'[d].sid = jar[d].sid
    BY <1>0, <1>7 DEF WriteBack, AccountType
  <2>3. \A u \in Users : session'[u] \in {session[u], sid[r]}
    BY <1>0, <1>7 DEF WriteBack, AccountType
  <2> QED
    BY <1>1, <2>1, <2>2, <2>3
<1>8. CASE Find(r) \/ Upload(r) \/ SavePassword(r) \/ \E ok \in BOOLEAN : RemoveOld(r, ok)
  <2>1. stage'[r] \in {"found", "uploaded", "logout", "removed"}
    BY <1>8, GoType DEF Find, Upload, SavePassword, RemoveOld, Stages
  <2> QED
    BY <1>1, <1>8, <2>1 DEF Find, Upload, SavePassword, RemoveOld, asked, slips
<1>9. CASE GetProfile(r) \/ SaveAvatar(r) \/ Fail(r) \/ \E e \in Emails : SaveProfile(r, e)
  BY <1>0, <1>1, <1>9, FinishType DEF GetProfile, SaveAvatar, Fail, SaveProfile, slips
<1>10. ASSUME NEW ok \in BOOLEAN, NEW keeps \in BOOLEAN, EndSession(r, ok, keeps)
       PROVE  OpenedInv'
  <2>1. \A d \in Devices : jar'[d].sid \in {jar[d].sid, None}
    BY <1>0, <1>10 DEF EndSession, AccountType, NoCookies
  <2>2. \A u \in Users : session'[u] \in {session[u], None}
    BY <1>0, <1>10 DEF EndSession, Ended, AccountType
  <2> QED
    BY <1>1, <1>10, <2>1, <2>2, FinishType DEF EndSession
<1> QED
  BY <1>2, <1>3, <1>4, <1>5, <1>6, <1>7, <1>8, <1>9, <1>10 DEF AccountStep, Arrival

\* A step that settles no avatar before it is saved.
LEMMA AvatarKept ==
  ASSUME AccountInv, NEW r \in Visits, Others(r), stage[r] # "done",
         \A u \in Users : row'[u] = row[u] \/ (row'[u] # None => row'[u].avatar \in Settled'),
         copy'[r] = copy[r] \/ (copy'[r] # None => copy'[r].avatar \in Settled'),
         stage'[r] \in {"uploaded", "removed"} => <<UserOf(r)', r>> \in stored',
         \A u \in Users, q \in Visits \ {r} :
           stage[q] # "done" /\ <<u, q>> \in stored => <<u, q>> \in stored'
  PROVE  AvatarInv'
<1>1. Settled \subseteq Settled'
  BY DEF Settled, Others
<1>2. \A q \in Visits \ {r} : copy'[q] # None => copy'[q].avatar \in Settled'
  BY <1>1 DEF AccountInv, AvatarInv, Others
<1>3. ASSUME NEW q \in Visits \ {r}, stage'[q] \in {"uploaded", "removed"}
      PROVE  <<UserOf(q)', q>> \in stored'
  <2>1. stage[q] = stage'[q] /\ UserOf(q)' = UserOf(q) /\ <<UserOf(q), q>> \in stored
    BY <1>3 DEF AccountInv, AvatarInv, Others, UserOf
  <2>2. UserOf(q) \in Users
    BY <1>3, <2>1, AccountAssumption DEF AccountInv, PresenceInv, Present, UserOf
  <2> QED
    BY <1>3, <2>1, <2>2
<1> QED
  BY <1>1, <1>2, <1>3 DEF AccountInv, AvatarInv

\* Every step of a request keeps what is known of avatars.
LEMMA RequestAvatar ==
  ASSUME AccountInv, NEW r \in Visits, AccountStep(r)
  PROVE  AvatarInv'
<1> USE AccountAssumption
<1>0. /\ AccountType /\ AccountType' /\ Others(r) /\ r \in Ids /\ None \notin Ids
      /\ AvatarInv /\ Present(r) /\ \A d \in Devices : OwnerOf[d] \in Users
  BY RequestType DEF AccountInv, Ids, PresenceInv
<1>1. stage[r] # "done"
  BY DEF AccountStep, Arrival, Register, Login, Renew, Authenticate, Refuse, Arrive, IsNext,
         OpenSession, KeepCookies, WriteBack, Find, GetProfile, SavePassword, SaveProfile,
         EndSession, Upload, SaveAvatar, RemoveOld, Fail
<1>2. None \in Settled' /\ Settled \subseteq Settled'
  BY <1>0, <1>1 DEF Settled, Others
<1>3. ASSUME UNCHANGED <<row, stored>>, stage'[r] \notin {"uploaded", "removed"},
             copy'[r] = copy[r] \/ copy'[r] = None \/ \E u \in Users : copy'[r] = row[u]
      PROVE  AvatarInv'
  BY <1>0, <1>1, <1>2, <1>3, AvatarKept DEF AvatarInv
<1>4. ASSUME NEW d \in Devices, NEW e \in Emails, Register(r, d, e)
      PROVE  AvatarInv'
  <2>1. \A u \in Users : row'[u] = row[u] \/ row'[u].avatar = None
    BY <1>0, <1>4 DEF Register, AccountType
  <2> QED
    BY <1>0, <1>1, <1>2, <1>4, <2>1, FinishType, AvatarKept DEF Register
<1>5. ASSUME NEW d \in Devices, Login(r, d)
      PROVE  AvatarInv'
  <2>1. stage'[r] = "login" /\ copy'[r] = row[OwnerOf[d]]
    BY <1>0, <1>5, ArriveType DEF Login, AccountType, Stages
  <2> QED
    BY <1>0, <1>3, <1>5, <2>1 DEF Login
<1>6. ASSUME NEW d \in Devices, NEW k \in Kinds, NEW header \in BOOLEAN,
             Authenticate(r, d, k, header) \/ Renew(r, d, k)
      PROVE  AvatarInv'
  <2>1. stage'[r] \in {"run", "renew"}
    BY <1>6, ArriveType DEF Authenticate, Renew, Stages
  <2> QED
    BY <1>3, <1>6, <2>1 DEF Authenticate, Renew
<1>7. CASE OpenSession(r) \/ WriteBack(r)
  <2>1. stage'[r] \in {"answer", "run"}
    BY <1>7, GoType DEF OpenSession, WriteBack, Stages
  <2> QED
    BY <1>3, <1>7, <2>1 DEF OpenSession, WriteBack, asked
<1>8. CASE \/ KeepCookies(r) \/ GetProfile(r) \/ Fail(r)
           \/ \E d \in Devices : Refuse(r, d)
           \/ \E ok, keeps \in BOOLEAN : EndSession(r, ok, keeps)
  BY <1>3, <1>8, FinishType DEF KeepCookies, GetProfile, Fail, Refuse, EndSession
<1>9. CASE Find(r)
  <2>1. stage'[r] = "found" /\ copy'[r] = row[UserOf(r)] /\ UserOf(r) \in Users
    BY <1>0, <1>9, GoType DEF Find, AccountType, Stages, Present, UserOf
  <2> QED
    BY <1>3, <1>9, <2>1 DEF Find
<1>10. ASSUME NEW new, new.avatar \in Settled', row' = [row EXCEPT ![UserOf(r)] = new],
              UNCHANGED stored, stage'[r] \in {"done", "logout"},
              copy'[r] \in {None, copy[r]}
       PROVE  AvatarInv'
  <2>1. \A u \in Users : row'[u] = row[u] \/ row'[u].avatar \in Settled'
    BY <1>0, <1>10 DEF AccountType
  <2> QED
    BY <1>0, <1>1, <1>10, <2>1, AvatarKept
<1>11. ASSUME NEW e \in Emails, SaveProfile(r, e)
       PROVE  AvatarInv'
  <2>1. [copy[r] EXCEPT !.email = e].avatar \in Settled'
    <3>1. copy[r] # None
      BY <1>0, <1>11 DEF SaveProfile, Present
    <3>2. [copy[r] EXCEPT !.email = e].avatar = copy[r].avatar
      BY <3>1, CopyType
    <3> QED
      BY <1>0, <1>2, <3>1, <3>2 DEF AvatarInv
  <2> QED
    BY <1>10, <1>11, <2>1, FinishType DEF SaveProfile, Save
<1>12. CASE SavePassword(r)
  <2>1. [copy[r] EXCEPT !.pass = r].avatar \in Settled'
    <3>1. copy[r] # None
      BY <1>0, <1>12 DEF SavePassword, Present
    <3>2. [copy[r] EXCEPT !.pass = r].avatar = copy[r].avatar
      BY <3>1, CopyType
    <3> QED
      BY <1>0, <1>2, <3>1, <3>2 DEF AvatarInv
  <2>2. stage'[r] = "logout"
    BY <1>12, GoType DEF SavePassword, Stages
  <2> QED
    BY <1>10, <1>12, <2>1, <2>2 DEF SavePassword, Save, asked
<1>13. CASE SaveAvatar(r)
  <2>1. stage'[r] = "done" /\ copy'[r] = None
    BY <1>13, FinishType DEF SaveAvatar
  <2>2. [copy[r] EXCEPT !.avatar = r].avatar \in Settled'
    BY <1>0, <1>13, <2>1, CopyType DEF SaveAvatar, Present, Settled
  <2> QED
    BY <1>10, <1>13, <2>1, <2>2 DEF SaveAvatar, Save, NewName
<1>14. CASE Upload(r)
  <2>1. UserOf(r)' = UserOf(r) /\ <<UserOf(r), r>> \in stored'
        /\ stored \subseteq stored' /\ UNCHANGED <<row, copy>>
    BY <1>14 DEF Upload, NewName, UserOf, asked
  <2> QED
    BY <1>0, <1>1, <2>1, AvatarKept
<1>15. ASSUME NEW ok \in BOOLEAN, RemoveOld(r, ok)
       PROVE  AvatarInv'
  <2>1. /\ stage[r] = "uploaded" /\ UserOf(r)' = UserOf(r) /\ UNCHANGED <<row, copy>>
        /\ stored \ {<<UserOf(r), copy[r].avatar>>} \subseteq stored'
    BY <1>15 DEF RemoveOld, OldObject, UserOf, asked
  <2>2. copy[r].avatar \in Settled /\ r \notin Settled /\ <<UserOf(r), r>> \in stored
    BY <1>0, <1>1, <2>1 DEF Present, AvatarInv, Settled, Ids
  <2>3. \A q \in Visits : stage[q] # "done" => q \notin Settled
    BY <1>0 DEF Settled, Ids
  <2> QED
    BY <1>0, <1>1, <2>1, <2>2, <2>3, AvatarKept
<1> QED
  BY <1>4, <1>5, <1>6, <1>7, <1>8, <1>9, <1>11, <1>12, <1>13, <1>14, <1>15
  DEF AccountStep, Arrival

-----------------------------------------------------------------------------
(* Sessions and passwords *)

\* A step after which a session outlives its password only where it may.
LEMMA SessionKept ==
  ASSUME AccountInv, SessionMatchesPassword, NEW r \in Visits, Others(r),
         loose \subseteq loose',
         \A s \in Ids : opened[s] # None => opened'[s] = opened[s],
         \A u \in Users :
           \/ u \in loose' \/ session'[u] = None
           \/ stage'[r] = "logout" /\ UserOf(r)' = u
           \/ opened'[session'[u]] = row'[u].pass
           \/ /\ session'[u] = session[u] /\ row'[u].pass = row[u].pass
              /\ ~(stage[r] = "logout" /\ UserOf(r) = u)
  PROVE  SessionMatchesPassword'
<1> SUFFICES ASSUME NEW u \in Users, session'[u] # None,
                    opened'[session'[u]] # row'[u].pass, u \notin loose'
             PROVE  \E q \in Visits : stage'[q] = "logout" /\ UserOf(q)' = u
  BY DEF SessionMatchesPassword
<1>1. CASE stage'[r] = "logout" /\ UserOf(r)' = u
  BY <1>1
<1>2. CASE /\ session'[u] = session[u] /\ row'[u].pass = row[u].pass
           /\ ~(stage[r] = "logout" /\ UserOf(r) = u)
  <2>1. session[u] \in Ids /\ opened'[session[u]] = opened[session[u]]
    BY <1>2 DEF AccountInv, AccountType, OpenedInv, WasOpened
  <2>2. PICK q \in Visits : stage[q] = "logout" /\ UserOf(q) = u
    BY <1>2, <2>1 DEF SessionMatchesPassword
  <2>3. q # r
    BY <1>2, <2>2
  <2> QED
    BY <2>2, <2>3 DEF Others, UserOf
<1> QED
  BY <1>1, <1>2

\* Every step of a request, but for the slips it marks.
LEMMA RequestSession ==
  ASSUME AccountInv, SessionMatchesPassword, NEW r \in Visits, AccountStep(r)
  PROVE  SessionMatchesPassword'
<1> USE AccountAssumption
<1>0. /\ AccountType /\ Others(r) /\ r \in Ids /\ None \notin Ids
      /\ PresenceInv /\ OpenedInv /\ Present(r) /\ \A d \in Devices : OwnerOf[d] \in Users
  BY RequestType DEF AccountInv, Ids, PresenceInv
<1>1. ASSUME UNCHANGED <<row, session, opened, loose>>, stage[r] # "logout"
      PROVE  SessionMatchesPassword'
  BY <1>0, <1>1, SessionKept
<1>2. ASSUME NEW d \in Devices, NEW e \in Emails, Register(r, d, e)
      PROVE  SessionMatchesPassword'
  <2>1. \A u \in Users : session[u] = None \/ row'[u] = row[u]
    BY <1>0, <1>2 DEF Register, PresenceInv, AccountType
  <2>2. stage[r] = "new" /\ UNCHANGED <<session, opened, loose>>
    BY <1>2 DEF Register, IsNext, slips
  <2> QED
    BY <1>0, <2>1, <2>2, SessionKept
<1>3. CASE \/ \E d \in Devices :
                \/ Login(r, d) \/ Refuse(r, d)
                \/ \E k \in Kinds : Renew(r, d, k)
                                    \/ \E header \in BOOLEAN : Authenticate(r, d, k, header)
           \/ KeepCookies(r) \/ Find(r) \/ GetProfile(r) \/ Upload(r)
           \/ \E ok \in BOOLEAN : RemoveOld(r, ok)
  BY <1>1, <1>3 DEF Login, Refuse, Renew, Authenticate, Arrive, IsNext, KeepCookies, Find,
                    GetProfile, Upload, RemoveOld, slips
<1>4. CASE OpenSession(r)
  <2>1. /\ stage[r] = "login" /\ opened[r] = None
        /\ row' = row /\ loose \subseteq loose' /\ UserOf(r) \in Users
        /\ session' = [session EXCEPT ![UserOf(r)] = r]
        /\ opened' = [opened EXCEPT ![r] = copy[r].pass]
        /\ row[UserOf(r)].pass = copy[r].pass \/ UserOf(r) \in loose'
    BY <1>0, <1>4 DEF OpenSession, Mark, OpenedInv, Present, UserOf
  <2>2. \A s \in Ids : opened[s] # None => opened'[s] = opened[s]
    BY <1>0, <2>1 DEF AccountType
  <2>3. \A u \in Users : IF u = UserOf(r) THEN session'[u] = r ELSE session'[u] = session[u]
    BY <1>0, <2>1 DEF AccountType
  <2>4. opened'[r] = copy[r].pass
    BY <1>0, <2>1 DEF AccountType
  <2> QED
    BY <1>0, <2>1, <2>2, <2>3, <2>4, SessionKept
<1>5. CASE WriteBack(r)
  <2>1. /\ stage[r] = "renew" /\ row' = row /\ opened' = opened /\ loose \subseteq loose'
        /\ session'[UserOf(r)] = session[UserOf(r)] \/ UserOf(r) \in loose'
    BY <1>5 DEF WriteBack, Mark
  <2>2. \A u \in Users \ {UserOf(r)} : session'[u] = session[u]
    BY <1>0, <1>5 DEF WriteBack, AccountType
  <2> QED
    BY <1>0, <2>1, <2>2, SessionKept
<1>6. ASSUME NEW new, row' = [row EXCEPT ![UserOf(r)] = new], stage[r] # "logout",
             session' = session, opened' = opened, loose \subseteq loose',
             \/ new.pass = row[UserOf(r)].pass \/ UserOf(r) \in loose'
             \/ stage'[r] = "logout" /\ UserOf(r)' = UserOf(r)
      PROVE  SessionMatchesPassword'
  <2>1. \A u \in Users : row'[u] = IF u = UserOf(r) THEN new ELSE row[u]
    BY <1>0, <1>6 DEF AccountType
  <2> QED
    BY <1>0, <1>6, <2>1, SessionKept
<1>7. ASSUME NEW e \in Emails, SaveProfile(r, e)
      PROVE  SessionMatchesPassword'
  <2>1. [copy[r] EXCEPT !.email = e].pass = copy[r].pass
    BY <1>0, <1>7, CopyType DEF SaveProfile, Present
  <2> QED
    BY <1>6, <1>7, <2>1 DEF SaveProfile, Save, Mark
<1>8. CASE SavePassword(r)
  <2>1. stage'[r] = "logout" /\ UserOf(r)' = UserOf(r)
    BY <1>8, GoType DEF SavePassword, Stages, asked, UserOf
  <2> QED
    BY <1>6, <1>8, <2>1 DEF SavePassword, Save
<1>9. CASE SaveAvatar(r)
  <2>1. [copy[r] EXCEPT !.avatar = r].pass = copy[r].pass
    BY <1>0, <1>9, CopyType DEF SaveAvatar, Present
  <2> QED
    BY <1>6, <1>9, <2>1 DEF SaveAvatar, Save, NewName, Mark
<1>10. ASSUME NEW ok \in BOOLEAN, NEW keeps \in BOOLEAN, EndSession(r, ok, keeps)
       PROVE  SessionMatchesPassword'
  <2>1. /\ UNCHANGED <<row, opened>> /\ loose \subseteq loose' /\ UserOf(r) \in Users
        /\ session'[UserOf(r)] = None \/ UserOf(r) \in loose'
    BY <1>0, <1>10 DEF EndSession, Ended, Mark, AccountType, Present, UserOf
  <2>2. \A u \in Users \ {UserOf(r)} : session'[u] = session[u]
    BY <1>0, <1>10 DEF EndSession, AccountType
  <2> QED
    BY <1>0, <2>1, <2>2, SessionKept
<1>11. CASE Fail(r)
  <2>1. /\ UNCHANGED <<row, session, opened>> /\ loose \subseteq loose'
        /\ stage[r] = "logout" => UserOf(r) \in loose'
    BY <1>11 DEF Fail, Mark
  <2> QED
    BY <1>0, <2>1, SessionKept
<1> QED
  BY <1>2, <1>3, <1>4, <1>5, <1>7, <1>8, <1>9, <1>10, <1>11 DEF AccountStep, Arrival

\* No step of a request brings a session back that was retired.
LEMMA RequestRetired ==
  ASSUME AccountInv, NEW r \in Visits, AccountStep(r),
         NEW u \in Users, NEW s \in Ids, Retired(u, s)
  PROVE  Retired(u, s)'
<1> USE AccountAssumption
<1>0. /\ AccountType /\ Others(r) /\ r \in Ids /\ None \notin Ids
      /\ OpenedInv /\ Present(r) /\ \A d \in Devices : OwnerOf[d] \in Users
      /\ opened[s] # None /\ session[u] # s
      /\ \A q \in Visits : ~(stage[q] = "renew" /\ UserOf(q) = u /\ sid[q] = s)
  BY RequestType DEF AccountInv, Ids, PresenceInv, Retired
<1>1. ASSUME opened'[s] # None, session'[u] \in {session[u], None} \/ session'[u] # s,
             ~(stage'[r] = "renew" /\ UserOf(r)' = u /\ sid'[r] = s)
      PROVE  Retired(u, s)'
  <2>1. \A q \in Visits : ~(stage'[q] = "renew" /\ UserOf(q)' = u /\ sid'[q] = s)
    BY <1>0, <1>1 DEF Others, UserOf
  <2>2. s # None
    BY <1>0
  <2> QED
    BY <1>0, <1>1, <2>1, <2>2 DEF Retired
<1>2. CASE \E d \in Devices : Refuse(r, d) \/ \E e \in Emails : Register(r, d, e)
  BY <1>0, <1>1, <1>2, FinishType DEF Refuse, Register, slips
<1>3. ASSUME NEW d \in Devices,
             \/ Login(r, d)
             \/ \E k \in Kinds, header \in BOOLEAN : Authenticate(r, d, k, header)
      PROVE  Retired(u, s)'
  <2>1. stage'[r] \in {"login", "run"}
    BY <1>3, ArriveType DEF Login, Authenticate, Stages
  <2> QED
    BY <1>0, <1>1, <1>3, <2>1 DEF Login, Authenticate, slips
<1>4. ASSUME NEW d \in Devices, NEW k \in Kinds, Renew(r, d, k)
      PROVE  Retired(u, s)'
  <2>1. /\ device'[r] = d /\ sid'[r] = jar[d].sid /\ session[OwnerOf[d]] = jar[d].sid
        /\ UNCHANGED <<session, opened>>
    BY <1>0, <1>4, ArriveType DEF Renew, IsCurrent, AccountType, Stages, slips
  <2> QED
    BY <1>0, <1>1, <2>1 DEF UserOf
<1>5. CASE OpenSession(r)
  <2>1. /\ r # s /\ stage'[r] = "answer" /\ opened'[s] = opened[s]
        /\ session'[u] \in {session[u], r}
    BY <1>0, <1>5, GoType DEF OpenSession, OpenedInv, AccountType, Stages
  <2> QED
    BY <1>0, <1>1, <2>1
<1>6. CASE WriteBack(r)
  <2>1. stage'[r] = "run" /\ opened' = opened
    BY <1>6, GoType DEF WriteBack, Stages
  <2>2. session'[u] = session[u] \/ (UserOf(r) = u /\ session'[u] = sid[r])
    BY <1>0, <1>6 DEF WriteBack, AccountType
  <2>3. stage[r] = "renew"
    BY <1>6 DEF WriteBack
  <2> QED
    BY <1>0, <1>1, <2>1, <2>2, <2>3
<1>7. CASE Find(r) \/ Upload(r) \/ SavePassword(r) \/ \E ok \in BOOLEAN : RemoveOld(r, ok)
  <2>1. stage'[r] \in {"found", "uploaded", "logout", "removed"}
    BY <1>7, GoType DEF Find, Upload, SavePassword, RemoveOld, Stages
  <2> QED
    BY <1>0, <1>1, <1>7, <2>1 DEF Find, Upload, SavePassword, RemoveOld, slips
<1>8. CASE KeepCookies(r) \/ GetProfile(r) \/ SaveAvatar(r) \/ Fail(r)
           \/ \E e \in Emails : SaveProfile(r, e)
  BY <1>0, <1>1, <1>8, FinishType DEF KeepCookies, GetProfile, SaveAvatar, Fail, SaveProfile,
                                      slips
<1>9. ASSUME NEW ok \in BOOLEAN, NEW keeps \in BOOLEAN, EndSession(r, ok, keeps)
      PROVE  Retired(u, s)'
  <2>1. session'[u] \in {session[u], None}
    BY <1>0, <1>9 DEF EndSession, Ended, AccountType
  <2> QED
    BY <1>0, <1>1, <1>9, <2>1, FinishType DEF EndSession
<1> QED
  BY <1>2, <1>3, <1>4, <1>5, <1>6, <1>7, <1>8, <1>9 DEF AccountStep, Arrival

-----------------------------------------------------------------------------
(* Avatars *)

\* A step after which a row names an avatar that is gone only where it may.
LEMMA AvatarExistsKept ==
  ASSUME AccountInv, AvatarExists, NEW r \in Visits, Others(r), astray \subseteq astray',
         \A u \in Users :
           \/ u \in astray' \/ row'[u] = None \/ row'[u].avatar = None
           \/ <<u, row'[u].avatar>> \in stored'
           \/ stage'[r] = "removed" /\ UserOf(r)' = u /\ copy'[r].avatar = row'[u].avatar
           \/ /\ row[u] # None /\ row'[u].avatar = row[u].avatar
              /\ <<u, row[u].avatar>> \notin stored
              /\ ~(stage[r] = "removed" /\ UserOf(r) = u)
  PROVE  AvatarExists'
<1> SUFFICES ASSUME NEW u \in Users, row'[u] # None, row'[u].avatar # None,
                    <<u, row'[u].avatar>> \notin stored', u \notin astray'
             PROVE  \E q \in Visits : /\ stage'[q] = "removed" /\ UserOf(q)' = u
                                      /\ copy'[q].avatar = row'[u].avatar
  BY DEF AvatarExists
<1>1. CASE stage'[r] = "removed" /\ UserOf(r)' = u /\ copy'[r].avatar = row'[u].avatar
  BY <1>1
<1>2. CASE /\ row[u] # None /\ row'[u].avatar = row[u].avatar
           /\ <<u, row[u].avatar>> \notin stored
           /\ ~(stage[r] = "removed" /\ UserOf(r) = u)
  <2>1. PICK q \in Visits : /\ stage[q] = "removed" /\ UserOf(q) = u
                            /\ copy[q].avatar = row[u].avatar
    BY <1>2 DEF AvatarExists
  <2>2. q # r
    BY <1>2, <2>1
  <2> QED
    BY <1>2, <2>1, <2>2 DEF Others, UserOf
<1> QED
  BY <1>1, <1>2

\* Every step of a request, but for the slips it marks.
LEMMA RequestAvatarExists ==
  ASSUME AccountInv, AvatarExists, NEW r \in Visits, AccountStep(r)
  PROVE  AvatarExists'
<1> USE AccountAssumption
<1>0. /\ AccountType /\ Others(r) /\ r \in Ids /\ None \notin Ids
      /\ AvatarInv /\ Present(r) /\ \A d \in Devices : OwnerOf[d] \in Users
  BY RequestType DEF AccountInv, Ids, PresenceInv
<1>1. ASSUME UNCHANGED <<row, astray>>, stored \subseteq stored', stage[r] # "removed"
      PROVE  AvatarExists'
  BY <1>0, <1>1, AvatarExistsKept
<1>2. ASSUME NEW d \in Devices, NEW e \in Emails, Register(r, d, e)
      PROVE  AvatarExists'
  <2>1. \A u \in Users : row'[u].avatar = None \/ row'[u] = row[u]
    BY <1>0, <1>2 DEF Register, AccountType
  <2>2. stage[r] = "new" /\ UNCHANGED <<stored, astray>>
    BY <1>2 DEF Register, IsNext, slips
  <2> QED
    BY <1>0, <2>1, <2>2, AvatarExistsKept
<1>3. CASE \/ \E d \in Devices :
                \/ Login(r, d) \/ Refuse(r, d)
                \/ \E k \in Kinds : Renew(r, d, k)
                                    \/ \E header \in BOOLEAN : Authenticate(r, d, k, header)
           \/ OpenSession(r) \/ KeepCookies(r) \/ WriteBack(r) \/ Find(r) \/ GetProfile(r)
           \/ Upload(r) \/ \E ok, keeps \in BOOLEAN : EndSession(r, ok, keeps)
  BY <1>1, <1>3 DEF Login, Refuse, Renew, Authenticate, Arrive, IsNext, OpenSession,
                    KeepCookies, WriteBack, Find, GetProfile, Upload, EndSession, slips
<1>4. ASSUME NEW new, row' = [row EXCEPT ![UserOf(r)] = new],
             UNCHANGED stored, astray \subseteq astray', stage[r] \in {"found", "removed"},
             \/ <<UserOf(r), new.avatar>> \in stored
             \/ stage[r] = "found" /\ \/ new.avatar = row[UserOf(r)].avatar
                                      \/ UserOf(r) \in astray'
      PROVE  AvatarExists'
  <2>1. \A u \in Users : row'[u] = IF u = UserOf(r) THEN new ELSE row[u]
    BY <1>0, <1>4 DEF AccountType
  <2>2. row[UserOf(r)] # None
    BY <1>0, <1>4 DEF Present
  <2> QED
    BY <1>0, <1>4, <2>1, <2>2, AvatarExistsKept
<1>5. ASSUME NEW e \in Emails, SaveProfile(r, e)
      PROVE  AvatarExists'
  <2>1. [copy[r] EXCEPT !.email = e].avatar = copy[r].avatar
    BY <1>0, <1>5, CopyType DEF SaveProfile, Present
  <2> QED
    BY <1>4, <1>5, <2>1 DEF SaveProfile, Save, Mark
<1>6. CASE SavePassword(r)
  <2>1. [copy[r] EXCEPT !.pass = r].avatar = copy[r].avatar
    BY <1>0, <1>6, CopyType DEF SavePassword, Present
  <2> QED
    BY <1>4, <1>6, <2>1 DEF SavePassword, Save, Mark
<1>7. CASE SaveAvatar(r)
  <2>1. [copy[r] EXCEPT !.avatar = r].avatar = r /\ <<UserOf(r), r>> \in stored
    BY <1>0, <1>7, CopyType DEF SaveAvatar, Present, AvatarInv
  <2> QED
    BY <1>4, <1>7, <2>1 DEF SaveAvatar, Save, NewName
<1>8. ASSUME NEW ok \in BOOLEAN, RemoveOld(r, ok)
      PROVE  AvatarExists'
  <2>1. /\ stage[r] = "uploaded" /\ stage'[r] = "removed"
        /\ UserOf(r)' = UserOf(r) /\ UNCHANGED <<row, copy, astray>>
        /\ stored \ {<<UserOf(r), copy[r].avatar>>} \subseteq stored'
    BY <1>8, GoType DEF RemoveOld, OldObject, UserOf, asked, Stages
  <2> QED
    BY <1>0, <2>1, AvatarExistsKept
<1>9. CASE Fail(r)
  <2>1. /\ UNCHANGED <<row, stored>> /\ astray \subseteq astray'
        /\ stage[r] = "removed" => UserOf(r) \in astray'
    BY <1>9 DEF Fail, Mark
  <2> QED
    BY <1>0, <2>1, AvatarExistsKept
<1> QED
  BY <1>2, <1>3, <1>5, <1>6, <1>7, <1>8, <1>9 DEF AccountStep, Arrival

-----------------------------------------------------------------------------
(* What holds of the accounts *)

\* A token or a session that expires takes nothing from what its user has.
LEMMA ExpiryInv ==
  ASSUME AccountInv, \/ \E d \in Devices : TokenExpires(d)
                     \/ \E u \in Users : SessionExpires(u)
                     \/ UNCHANGED accountVars
  PROVE  /\ AccountInv' /\ (SessionMatchesPassword => SessionMatchesPassword')
         /\ AvatarExists => AvatarExists'
         /\ \A u \in Users, s \in Ids : Retired(u, s) => Retired(u, s)'
<1> USE AccountAssumption
<1>0. AccountType /\ PresenceInv /\ OpenedInv /\ AvatarInv /\ None \notin Ids
  BY DEF AccountInv, Ids
<1>1. UNCHANGED <<row, stored, stage, kind, device, copy, sid, opened, loose, astray>>
  BY DEF TokenExpires, SessionExpires, accountVars, asked, slips
<1>2. /\ session' \in [Users -> Ids \cup {None}]
      /\ jar' \in [Devices -> [token : Tokens, sid : Ids \cup {None}]]
      /\ \A u \in Users : session'[u] \in {session[u], None}
      /\ \A d \in Devices : /\ jar'[d].sid = jar[d].sid
                            /\ jar'[d].token # "none" => jar[d].token # "none"
  <2>1. CASE \E d \in Devices : TokenExpires(d)
    <3>1. PICK d \in Devices : TokenExpires(d)
      BY <2>1
    <3>2. /\ session' = session /\ jar' = [jar EXCEPT ![d].token = "expired"]
          /\ jar[d].token = "valid"
      BY <3>1 DEF TokenExpires
    <3>3. \A c \in [token : Tokens, sid : Ids \cup {None}] :
            [c EXCEPT !.token = "expired"] \in [token : Tokens, sid : Ids \cup {None}]
      BY DEF Tokens
    <3>4. jar \in [Devices -> [token : Tokens, sid : Ids \cup {None}]]
      BY <1>0 DEF AccountType
    <3>5. jar' \in [Devices -> [token : Tokens, sid : Ids \cup {None}]]
      BY <3>2, <3>3, <3>4
    <3>6. \A x \in Devices : /\ jar'[x].sid = jar[x].sid
                              /\ jar'[x].token # "none" => jar[x].token # "none"
      BY <3>2, <3>4
    <3> QED
      BY <1>0, <3>2, <3>5, <3>6 DEF AccountType
  <2>2. CASE \E u \in Users : SessionExpires(u)
    BY <1>0, <2>2 DEF SessionExpires, AccountType
  <2> QED
    BY <1>0, <2>1, <2>2 DEF accountVars, AccountType
<1>3. AccountType'
  BY <1>0, <1>1, <1>2 DEF AccountType
<1>4. PresenceInv'
  BY <1>0, <1>1, <1>2 DEF PresenceInv, Present, UserOf
<1>5. OpenedInv'
  BY <1>0, <1>1, <1>2 DEF OpenedInv, WasOpened
<1>6. AvatarInv' /\ (AvatarExists => AvatarExists')
  BY <1>0, <1>1 DEF AvatarInv, Settled, UserOf, AvatarExists
<1>7. SessionMatchesPassword => SessionMatchesPassword'
  BY <1>1, <1>2 DEF SessionMatchesPassword, UserOf
<1>8. \A u \in Users, s \in Ids : Retired(u, s) => Retired(u, s)'
  BY <1>0, <1>1, <1>2 DEF Retired, UserOf
<1> QED
  BY <1>3, <1>4, <1>5, <1>6, <1>7, <1>8 DEF AccountInv

\* Every step of the accounts keeps the invariant and both properties, and brings no
\* retired session back.
LEMMA AccountStepInv ==
  ASSUME AccountInv, [AccountNext]_accountVars
  PROVE  /\ AccountInv' /\ (SessionMatchesPassword => SessionMatchesPassword')
         /\ AvatarExists => AvatarExists'
         /\ \A u \in Users, s \in Ids : Retired(u, s) => Retired(u, s)'
<1>1. ASSUME NEW r \in Visits, AccountStep(r)
      PROVE  /\ AccountInv' /\ (SessionMatchesPassword => SessionMatchesPassword')
             /\ AvatarExists => AvatarExists'
             /\ \A u \in Users, s \in Ids : Retired(u, s) => Retired(u, s)'
  <2>1. AccountInv'
    BY <1>1, RequestType, RequestPresence, RequestOpened, RequestAvatar DEF AccountInv
  <2> QED
    BY <1>1, <2>1, RequestSession, RequestAvatarExists, RequestRetired
<1> QED
  BY <1>1, ExpiryInv DEF AccountNext

\* The handlers and the middleware keep rows, sessions, cookies and copies well formed,
\* and who is logged in or at work keeps a row: the table forgets nobody.
THEOREM AccountsTypeCorrect == AccountSpec => [](AccountType /\ PresenceInv)
<1>1. AccountInv /\ [AccountNext]_accountVars => AccountInv'
  BY AccountStepInv
<1>2. AccountInv => AccountType /\ PresenceInv
  BY DEF AccountInv
<1> QED
  BY AccountInitInv, <1>1, <1>2, PTL DEF AccountSpec

\* A session outlives the password it was opened with only in the ways the property
\* lists, for any users, devices and requests that cross each other.
THEOREM PasswordEndsSessions == AccountSpec => []SessionMatchesPassword
<1>1. AccountInv /\ SessionMatchesPassword /\ [AccountNext]_accountVars
        => AccountInv' /\ SessionMatchesPassword'
  BY AccountStepInv
<1> QED
  BY AccountInitInv, <1>1, PTL DEF AccountSpec

\* The avatar a row names is gone only in the ways the property lists; in particular
\* uploads of one user that cross each other do not lose the avatar that is saved last.
THEOREM NamedAvatarExists == AccountSpec => []AvatarExists
<1>1. AccountInv /\ AvatarExists /\ [AccountNext]_accountVars => AccountInv' /\ AvatarExists'
  BY AccountStepInv
<1> QED
  BY AccountInitInv, <1>1, PTL DEF AccountSpec

\* No login, renewal or handler brings a session back that was replaced, ended or has
\* expired, once no renewal that read it before is under way.
THEOREM RetiredSessionStaysOut == AccountSpec => RetiredStaysOut
<1>1. AccountInv /\ [AccountNext]_accountVars => AccountInv'
  BY AccountStepInv
<1>2. AccountInv /\ [AccountNext]_accountVars
        => [\A u \in Users, s \in Ids : Retired(u, s) => Retired(u, s)']_accountVars
  BY AccountStepInv
<1> QED
  BY AccountInitInv, <1>1, <1>2, PTL DEF AccountSpec, RetiredStaysOut

-----------------------------------------------------------------------------
(* The limits *)

\* The values of the variables that both limiters use, and that time goes on.
LimitType ==
  /\ clock \in Nat
  /\ desk \in [Arrivals -> {"new", "create", "fetched", "passed", "refused"}]

-----------------------------------------------------------------------------
(* The token bucket *)

\* The tokens a bucket would have now.
TokensOf(c, t) == AtMost(Capacity, c.tokens + (t - c.last) * Rate)
Buckets == [tokens : 0..Capacity, last : Nat]

\* A request makes a bucket once and uses one that is in the map or was found idle; the
\* one in the map has no more tokens than the credit, which is full when there is none or
\* the one that is there is about to be deleted.
BucketType ==
  /\ entry \in Arrivals \cup {NoBucket} /\ bucket \in [Arrivals -> Buckets]
  /\ held \in [Arrivals -> Arrivals \cup {NoBucket}]
  /\ sweeping \in BOOLEAN /\ dropped \in SUBSET Arrivals
  /\ credit \in Int /\ credit <= Capacity
BucketInv ==
  /\ \A a \in Arrivals : bucket[a].last <= clock
  /\ \A a \in Arrivals : desk[a] \in {"new", "create"} => a # entry /\ a \notin dropped
  /\ \A a \in Arrivals : desk[a] = "fetched" => held[a] # NoBucket
                                                /\ (held[a] = entry \/ held[a] \in dropped)
  /\ sweeping <=> entry \in dropped
  /\ entry = NoBucket \/ sweeping => credit = Capacity
  /\ entry # NoBucket /\ ~sweeping => TokensOf(bucket[entry], clock) <= credit
MemoryInv == LimitType /\ BucketType /\ BucketInv

\* A bucket gains Rate tokens a tick, is never above its capacity, and full when idle.
LEMMA TokensGrow ==
  ASSUME NEW c \in Buckets, NEW t \in Nat, c.last <= t
  PROVE  /\ TokensOf(c, t) \in 0..Capacity
         /\ TokensOf(c, t + 1) = AtMost(Capacity, TokensOf(c, t) + Rate)
         /\ LongEnough /\ t - c.last > TTL => TokensOf(c, t) = Capacity
<1> USE LimitAssumption
<1> DEFINE age == t - c.last
           n   == c.tokens + age * Rate
<1>1. age \in Nat /\ c.tokens \in 0..Capacity /\ (t + 1) - c.last = age + 1
  BY DEF Buckets
<1> HIDE DEF age
<1>2. age * Rate \in Nat /\ (age + 1) * Rate = age * Rate + Rate
  BY <1>1
<1>3. TokensOf(c, t) = AtMost(Capacity, n) /\ TokensOf(c, t + 1) = AtMost(Capacity, n + Rate)
  BY <1>1, <1>2 DEF TokensOf, age
<1>4. n \in Nat
  BY <1>1, <1>2
<1>5. LongEnough /\ age > TTL => n >= Capacity
  <2> SUFFICES ASSUME LongEnough, age > TTL PROVE n >= Capacity
    OBVIOUS
  <2>1. PICK k \in Nat : age = TTL + k
    <3>1. age - TTL \in Nat /\ age = TTL + (age - TTL)
      BY <1>1
    <3> QED
      BY <3>1
  <2>2. age * Rate = TTL * Rate + k * Rate /\ k * Rate \in Nat /\ TTL * Rate \in Nat
    BY <2>1
  <2> QED
    BY <1>1, <2>2 DEF LongEnough
<1> HIDE DEF n
<1> QED
  BY <1>3, <1>4, <1>5 DEF AtMost, age

\* The bucket is empty of history at the start.
LEMMA MemoryInitInv == LimitInit => MemoryInv
<1> SUFFICES ASSUME LimitInit PROVE MemoryInv
  OBVIOUS
<1>1. Full(0) \in Buckets /\ Full(0).last = 0
  BY LimitAssumption DEF Full, Buckets
<1>2. LimitType
  BY DEF LimitInit, LimitType
<1>3. BucketType
  <2>1. bucket = [a \in Arrivals |-> Full(0)] /\ held = [a \in Arrivals |-> NoBucket]
    BY DEF LimitInit
  <2>2. bucket \in [Arrivals -> Buckets] /\ held \in [Arrivals -> Arrivals \cup {NoBucket}]
    BY <1>1, <2>1
  <2>3. entry = NoBucket /\ sweeping = FALSE /\ dropped = {} /\ credit = Capacity
    BY DEF LimitInit
  <2>4. Capacity \in Int
    BY LimitAssumption
  <2>5. credit \in Int /\ credit <= Capacity
    BY <2>3, <2>4
  <2>6. entry \in Arrivals \cup {NoBucket} /\ dropped \in SUBSET Arrivals
    BY <2>3
  <2>7. sweeping \in BOOLEAN
    BY <2>3, Zenon
  <2> QED
    BY <2>2, <2>5, <2>6, <2>7, Zenon DEF BucketType
<1>4. BucketInv
  BY <1>1, LimitAssumption DEF LimitInit, BucketInv, NoBucket
<1> QED
  BY <1>2, <1>3, <1>4 DEF MemoryInv

\* The credit is never overdrawn: it covers what the bucket in the map still holds.
LEMMA CreditCovers == ASSUME MemoryInv PROVE BurstBounded
<1>1. CASE entry = NoBucket \/ sweeping
  BY <1>1, LimitAssumption DEF MemoryInv, BucketType, BucketInv, BurstBounded
<1>2. CASE entry # NoBucket /\ ~sweeping
  <2>1. TokensOf(bucket[entry], clock) \in 0..Capacity
    BY <1>2, TokensGrow DEF MemoryInv, LimitType, BucketType, BucketInv
  <2> QED
    BY <1>2, <2>1, LimitAssumption DEF MemoryInv, BucketType, BucketInv, BurstBounded
<1> QED
  BY <1>1, <1>2

\* A request takes a token, from the bucket in the map or from one that was deleted.
LEMMA AllowKeepsBucket ==
  ASSUME MemoryInv, NEW a \in Arrivals, AllowToken(a)
  PROVE  MemoryInv'
<1> USE LimitAssumption
<1> DEFINE b == held[a]
           n == TokensOf(bucket[b], clock)
           k == IF n >= 1 THEN n - 1 ELSE n
           c == [tokens |-> k, last |-> clock]
<1>0. LimitType /\ BucketType /\ BucketInv
  BY DEF MemoryInv
<1>1. /\ b \in Arrivals /\ b # NoBucket /\ (b = entry \/ b \in dropped)
      /\ bucket[b] \in Buckets /\ bucket[b].last <= clock
  BY <1>0 DEF AllowToken, BucketInv, BucketType
<1>2. n \in 0..Capacity
  BY <1>0, <1>1, TokensGrow DEF LimitType
<1>3. /\ desk[a] = "fetched" /\ bucket' = [bucket EXCEPT ![b] = c]
      /\ desk' = [desk EXCEPT ![a] = IF n >= 1 THEN "passed" ELSE "refused"]
      /\ credit' = IF n >= 1 /\ b \notin dropped THEN credit - 1 ELSE credit
      /\ UNCHANGED <<clock, entry, held, sweeping, dropped>>
  BY DEF AllowToken, Move, TokensOf
<1> HIDE DEF n
<1>4. c \in Buckets /\ c.tokens = k /\ c.last = clock /\ k \in 0..Capacity
  BY <1>0, <1>2 DEF Buckets, LimitType
<1>5. TokensOf(c, clock) = k
  <2>1. (clock - c.last) * Rate = 0
    BY <1>0, <1>4 DEF LimitType
  <2> QED
    BY <1>4, <2>1 DEF TokensOf, AtMost
<1> HIDE DEF c, k
<1>6. LimitType' /\ BucketType'
  BY <1>0, <1>1, <1>2, <1>3, <1>4 DEF LimitType, BucketType
<1>7. \A d \in Arrivals : bucket'[d] = IF d = b THEN c ELSE bucket[d]
  BY <1>0, <1>3 DEF BucketType
<1>8. entry # NoBucket /\ ~sweeping => TokensOf(bucket'[entry], clock) <= credit'
  <2>1. CASE b = entry /\ ~sweeping
    <3>1. b \notin dropped /\ TokensOf(bucket[entry], clock) = n /\ n <= credit
      BY <1>0, <1>1, <2>1 DEF BucketInv, n
    <3>2. bucket'[entry] = c
      BY <1>1, <1>7, <2>1
    <3> QED
      BY <1>0, <1>2, <1>3, <1>5, <3>1, <3>2 DEF k, BucketType
  <2>2. CASE b # entry
    <3>1. credit' = credit /\ (entry # NoBucket => bucket'[entry] = bucket[entry])
      BY <1>0, <1>1, <1>3, <1>7, <2>2 DEF BucketType
    <3> QED
      BY <1>0, <3>1 DEF BucketInv
  <2> QED
    BY <2>1, <2>2
<1>9. entry = NoBucket \/ sweeping => credit' = Capacity
  BY <1>0, <1>1, <1>3 DEF BucketInv
<1>10. \A d \in Arrivals : bucket'[d].last <= clock
  BY <1>0, <1>4, <1>7 DEF BucketInv, LimitType
<1>11. \A d \in Arrivals : desk'[d] \in {"new", "create", "fetched"} => desk'[d] = desk[d]
  BY <1>0, <1>3 DEF LimitType
<1> QED
  BY <1>0, <1>3, <1>6, <1>8, <1>9, <1>10, <1>11 DEF MemoryInv, BucketInv

\* Every step keeps the tokens below the credit: a bucket is made when the credit is
\* full, and found idle when it is full itself.
LEMMA MemoryStepInv == LongEnough /\ MemoryInv /\ [LimitNext]_limitVars => MemoryInv'
<1> SUFFICES ASSUME LongEnough, MemoryInv, [LimitNext]_limitVars PROVE MemoryInv'
  OBVIOUS
<1> USE LimitAssumption
<1>0. LimitType /\ BucketType /\ BucketInv /\ NoBucket \notin Arrivals
  BY DEF MemoryInv, NoBucket
<1>1. CASE LimitTick
  <2>1. /\ clock' = clock + 1 /\ clock \in Nat /\ credit' = AtMost(Capacity, credit + Rate)
        /\ UNCHANGED <<desk, entry, bucket, held, sweeping, dropped>>
    BY <1>0, <1>1 DEF LimitTick, LimitType
  <2>2. ASSUME entry # NoBucket, ~sweeping PROVE TokensOf(bucket[entry], clock + 1) <= credit'
    <3>1. /\ TokensOf(bucket[entry], clock) \in 0..Capacity
          /\ TokensOf(bucket[entry], clock + 1)
               = AtMost(Capacity, TokensOf(bucket[entry], clock) + Rate)
          /\ TokensOf(bucket[entry], clock) <= credit
      BY <1>0, <2>1, <2>2, TokensGrow DEF BucketType, BucketInv
    <3> QED
      BY <1>0, <2>1, <3>1 DEF AtMost, BucketType
  <2>3. credit' \in Int /\ credit' <= Capacity /\ (credit = Capacity => credit' = Capacity)
    BY <1>0, <2>1 DEF AtMost, BucketType
  <2>4. \A a \in Arrivals : bucket'[a].last <= clock'
    <3> SUFFICES ASSUME NEW a \in Arrivals PROVE bucket[a].last <= clock + 1
      BY <2>1
    <3>1. bucket[a] \in Buckets /\ bucket[a].last <= clock
      BY <1>0 DEF BucketType, BucketInv
    <3> QED
      BY <2>1, <3>1 DEF Buckets
  <2> QED
    BY <1>0, <2>1, <2>2, <2>3, <2>4 DEF MemoryInv, LimitType, BucketType, BucketInv
<1>2. CASE FindIdle
  <2>1. /\ entry \in Arrivals /\ ~sweeping /\ sweeping' = TRUE /\ dropped' = dropped \cup {entry}
        /\ clock - bucket[entry].last > TTL
        /\ UNCHANGED <<clock, desk, entry, bucket, held, credit>>
    BY <1>0, <1>2 DEF FindIdle, Stale, BucketType
  <2>2. TokensOf(bucket[entry], clock) = Capacity
    BY <1>0, <2>1, TokensGrow DEF BucketType, BucketInv, LimitType
  <2>3. credit = Capacity
    BY <1>0, <2>1, <2>2 DEF BucketType, BucketInv
  <2> QED
    BY <1>0, <2>1, <2>3 DEF MemoryInv, LimitType, BucketType, BucketInv
<1>9. CASE Cleanup
  <2>1. /\ sweeping /\ sweeping' = FALSE /\ entry' = NoBucket
        /\ UNCHANGED <<clock, desk, bucket, held, dropped, credit>>
    BY <1>9 DEF Cleanup
  <2>2. NoBucket \notin dropped /\ entry \in dropped /\ credit = Capacity
    BY <1>0, <2>1 DEF BucketType, BucketInv
  <2> QED
    BY <1>0, <2>1, <2>2 DEF MemoryInv, LimitType, BucketType, BucketInv
<1>3. ASSUME NEW a \in Arrivals, FetchBucket(a) PROVE MemoryInv'
  <2>1. /\ held' = [held EXCEPT ![a] = entry] /\ desk[a] = "new"
        /\ desk' = [desk EXCEPT ![a] = IF entry = NoBucket THEN "create" ELSE "fetched"]
        /\ UNCHANGED <<clock, entry, bucket, sweeping, dropped, credit>>
    BY <1>3 DEF FetchBucket, Arrives, Move
  <2>2. \A d \in Arrivals : d # a => desk'[d] = desk[d] /\ held'[d] = held[d]
    BY <1>0, <2>1 DEF LimitType, BucketType
  <2>3. /\ desk'[a] = (IF entry = NoBucket THEN "create" ELSE "fetched") /\ held'[a] = entry
    BY <1>0, <2>1 DEF LimitType, BucketType
  <2>4. LimitType' /\ BucketType'
    BY <1>0, <2>1 DEF LimitType, BucketType
  <2> QED
    BY <1>0, <2>1, <2>2, <2>3, <2>4 DEF MemoryInv, BucketInv
<1>4. ASSUME NEW a \in Arrivals, CreateBucket(a) PROVE MemoryInv'
  <2>1. /\ desk[a] = "create" /\ desk' = [desk EXCEPT ![a] = "fetched"]
        /\ entry' = IF entry # NoBucket THEN entry ELSE a
        /\ bucket' = IF entry # NoBucket THEN bucket ELSE [bucket EXCEPT ![a] = Full(clock)]
        /\ held' = [held EXCEPT ![a] = entry'] /\ ~sweeping
        /\ UNCHANGED <<clock, sweeping, dropped, credit>>
    BY <1>4 DEF CreateBucket, Move, InMap
  <2>2. Full(clock) \in Buckets /\ Full(clock).last = clock
    BY <1>0 DEF Full, Buckets, LimitType
  <2>3. LimitType' /\ BucketType'
    BY <1>0, <2>1, <2>2 DEF LimitType, BucketType
  <2>4. /\ \A d \in Arrivals : d # a => desk'[d] = desk[d] /\ held'[d] = held[d]
        /\ desk'[a] = "fetched" /\ held'[a] = entry'
    BY <1>0, <2>1 DEF LimitType, BucketType
  <2>5. /\ entry' \in Arrivals /\ entry' \notin dropped /\ (entry # NoBucket => entry' = entry)
        /\ \A d \in Arrivals : desk[d] \in {"new", "create"} /\ d # a => d # entry'
    BY <1>0, <2>1 DEF BucketInv, BucketType
  <2>6. \A d \in Arrivals : bucket'[d].last <= clock
    BY <1>0, <2>1, <2>2 DEF BucketInv, BucketType, LimitType
  <2>7. TokensOf(bucket'[entry'], clock) <= credit
    <3>1. CASE entry # NoBucket
      BY <1>0, <2>1, <3>1 DEF BucketInv
    <3>2. CASE entry = NoBucket
      <4>1. bucket'[entry'] = Full(clock) /\ credit = Capacity
        BY <1>0, <2>1, <3>2 DEF BucketInv, BucketType
      <4>2. TokensOf(Full(clock), clock) \in 0..Capacity
        BY <1>0, <2>2, TokensGrow DEF LimitType
      <4> QED
        BY <4>1, <4>2
    <3> QED
      BY <3>1, <3>2
  <2> QED
    BY <1>0, <2>1, <2>3, <2>4, <2>5, <2>6, <2>7 DEF MemoryInv, BucketInv
<1>5. ASSUME NEW a \in Arrivals, AllowToken(a) PROVE MemoryInv'
  BY <1>5, AllowKeepsBucket
<1>6. ASSUME NEW a \in Arrivals, NEW to \in {"passed", "refused"}, Arrives(a), Move(a, to),
             UNCHANGED <<clock, bucketVars>>
      PROVE  MemoryInv'
  <2>1. /\ UNCHANGED <<clock, entry, bucket, held, sweeping, dropped, credit>>
        /\ desk' = [desk EXCEPT ![a] = to]
    BY <1>6 DEF bucketVars, Move
  <2>2. LimitType'
    BY <1>0, <2>1 DEF LimitType
  <2>3. \A d \in Arrivals : desk'[d] \in {"new", "create", "fetched"} => desk'[d] = desk[d]
    BY <1>0, <2>1 DEF LimitType
  <2> QED
    BY <1>0, <2>1, <2>2, <2>3 DEF MemoryInv, BucketType, BucketInv
<1>7. ASSUME NEW a \in Arrivals,
             \/ Unlimited(a) \/ RedisFails(a)
             \/ \E now \in (clock - Delay)..(clock + Skew) : RunScript(a, now)
      PROVE  MemoryInv'
  BY <1>6, <1>7 DEF Unlimited, RedisFails, RunScript
<1>8. CASE UNCHANGED limitVars
  BY <1>0, <1>8 DEF limitVars, bucketVars, MemoryInv, LimitType, BucketType, BucketInv
<1> QED
  BY <1>1, <1>2, <1>3, <1>4, <1>5, <1>7, <1>8, <1>9 DEF LimitNext

\* For any rate, capacity, TTL and number of requests: if the TTL is long enough for a
\* bucket to fill, deleting idle buckets gives an address nothing it would not have had,
\* but through requests that held the bucket when it was found idle.
THEOREM CleanupGivesNothing == LimitSpec => []BurstBounded
<1>1. LimitInit => (LongEnough => MemoryInv)
  BY MemoryInitInv
<1>2. (LongEnough => MemoryInv) /\ [LimitNext]_limitVars => (LongEnough => MemoryInv)'
  BY MemoryStepInv DEF LongEnough
<1>3. (LongEnough => MemoryInv) => BurstBounded
  BY CreditCovers DEF BurstBounded
<1> QED
  BY <1>1, <1>2, <1>3, PTL DEF LimitSpec

-----------------------------------------------------------------------------
(* The sliding window *)

\* The window, shortened by what the clocks may be wrong, and who passed in it.
Narrow    == Window - Delay - Skew
Recent(t) == {f \in passed : f.time > t - Narrow}

\* A request that passed in the shortened window is still in Redis, under a score that is
\* not too old, and Redis never holds more than Limit of them.
WindowType ==
  /\ passed \in SUBSET [by : Arrivals, time : Nat] /\ zset \in SUBSET [by : Arrivals, score : Int]
  /\ expires \in Nat /\ IsFiniteSet(zset) /\ Cardinality(zset) <= Limit
WindowInv ==
  /\ \A f \in passed : /\ f.time <= clock /\ f.time + Window <= expires
                       /\ desk[f.by] = "passed"
  /\ \A f, g \in passed : f.by = g.by => f = g
  /\ \A f \in Recent(clock) : \E z \in zset : z.by = f.by /\ z.score >= f.time - Delay
RedisInv == LimitType /\ WindowType /\ WindowInv

\* Nobody has passed at the start.
LEMMA RedisInitInv == LimitInit => RedisInv /\ WindowBounded
BY LimitAssumption, FS_EmptySet
DEF LimitInit, RedisInv, LimitType, WindowType, WindowInv, Recent, WindowBounded

\* Requests that each have an entry in Redis are no more than the entries.
LEMMA OneEntryEach ==
  ASSUME NEW R, NEW Z, IsFiniteSet(Z), Cardinality(Z) <= Limit,
         \A f, g \in R : f.by = g.by => f = g, \A f \in R : \E z \in Z : z.by = f.by
  PROVE  Cardinality(R) <= Limit
<1> USE LimitAssumption
<1> DEFINE F == [f \in R |-> CHOOSE z \in Z : z.by = f.by]
<1>1. \A f \in R : F[f] \in Z /\ F[f].by = f.by
  OBVIOUS
<1>2. F \in [R -> Z] /\ \A f, g \in R : F[f] = F[g] => f = g
  BY <1>1
<1> HIDE DEF F
<1>3. F \in Injection(R, Z)
  BY <1>2 DEF Injection, IsInjective
<1>4. IsFiniteSet(R) /\ Cardinality(R) <= Cardinality(Z)
  BY <1>3, FS_Injection
<1>5. Cardinality(R) \in Nat /\ Cardinality(Z) \in Nat
  BY <1>4, FS_CardinalityType
<1> QED
  BY <1>4, <1>5

\* The script drops nobody who passed lately.
LEMMA KeptByScript ==
  ASSUME RedisInv, NEW now \in (clock - Delay)..(clock + Skew), NEW f \in Recent(clock)
  PROVE  \E z \in {e \in zset : e.score > now - Window} :
            z.by = f.by /\ z.score >= f.time - Delay /\ ~(clock >= expires)
<1> USE LimitAssumption
<1>1. PICK z \in zset : z.by = f.by /\ z.score >= f.time - Delay
  BY DEF RedisInv, WindowInv
<1>2. /\ f \in passed /\ f.time > clock - Narrow /\ f.time \in Nat /\ z.score \in Int
      /\ clock \in Nat /\ f.time + Window <= expires /\ expires \in Nat
  BY DEF Recent, RedisInv, LimitType, WindowType, WindowInv
<1>3. now <= clock + Skew /\ now \in Int
  BY <1>2
<1>4. z.score > now - Window
  BY <1>1, <1>2, <1>3 DEF Narrow
<1>5. ~(clock >= expires)
  BY <1>2 DEF Narrow
<1> QED
  BY <1>1, <1>4, <1>5

\* A step that leaves the window alone.
LEMMA RedisKept ==
  ASSUME RedisInv, LimitType', UNCHANGED windowVars, clock <= clock',
         \A a \in Arrivals : desk[a] = "passed" => desk'[a] = "passed"
  PROVE  RedisInv' /\ (WindowBounded => WindowBounded')
<1> USE LimitAssumption
<1>1. UNCHANGED <<zset, expires, passed>> /\ clock \in Nat /\ clock' \in Nat
  BY DEF windowVars, RedisInv, LimitType
<1>2. WindowType'
  BY <1>1 DEF RedisInv, WindowType
<1>3. \A f \in passed : f.time <= clock' /\ desk'[f.by] = "passed" /\ f.time \in Nat
                        /\ f.by \in Arrivals
  <2>1. \A f \in passed : f.by \in Arrivals /\ f.time \in Nat
    BY DEF RedisInv, WindowType
  <2>2. \A f \in passed : f.time <= clock /\ desk[f.by] = "passed"
    BY DEF RedisInv, WindowInv
  <2> SUFFICES ASSUME NEW f \in passed
               PROVE  f.time <= clock' /\ desk'[f.by] = "passed" /\ f.time \in Nat
                      /\ f.by \in Arrivals
    OBVIOUS
  <2>3. f.by \in Arrivals /\ f.time \in Nat /\ f.time <= clock
    BY <2>1, <2>2
  <2>4. f.time <= clock'
    BY <1>1, <2>3
  <2> QED
    BY <2>2, <2>3, <2>4
<1>4. \A f \in passed : f.time > clock' - Narrow => f.time > clock - Narrow
  BY <1>1, <1>3 DEF Narrow
<1>5. WindowInv'
  BY <1>1, <1>3, <1>4 DEF RedisInv, WindowInv, Recent
<1> QED
  BY <1>1, <1>2, <1>5 DEF RedisInv, WindowBounded

\* The script, by whatever clock it counts.
LEMMA ScriptKeepsWindow ==
  ASSUME RedisInv, WindowBounded, NEW a \in Arrivals,
         NEW now \in (clock - Delay)..(clock + Skew), RunScript(a, now)
  PROVE  RedisInv' /\ WindowBounded'
<1> USE LimitAssumption
<1> DEFINE kept == IF clock >= expires THEN {} ELSE {e \in zset : e.score > now - Window}
           pass == Cardinality(kept) < Limit
           f0   == [by |-> a, time |-> clock]
           z0   == [by |-> a, score |-> now]
<1>0. /\ LimitType /\ WindowType /\ WindowInv /\ clock \in Nat /\ now \in Int
      /\ clock - Delay <= now
  BY DEF RedisInv, LimitType
<1>1. /\ zset' = IF pass THEN kept \cup {z0} ELSE kept
      /\ expires' = IF pass THEN clock + Window ELSE expires
      /\ passed' = IF pass THEN passed \cup {f0} ELSE passed
      /\ desk' = [desk EXCEPT ![a] = IF pass THEN "passed" ELSE "refused"]
      /\ desk[a] = "new" /\ clock' = clock
  BY DEF RunScript, HasRoom, Arrives, Move
<1>2. kept \in SUBSET zset /\ kept \in SUBSET [by : Arrivals, score : Int]
  BY <1>0 DEF WindowType
<1>3. \A f \in Recent(clock) : \E z \in kept : z.by = f.by /\ z.score >= f.time - Delay
  BY KeptByScript
<1>4. IsFiniteSet(kept) /\ Cardinality(kept) <= Limit /\ Cardinality(kept) \in Nat
  <2>1. IsFiniteSet(kept) /\ Cardinality(kept) <= Cardinality(zset)
    BY <1>0, <1>2, FS_Subset DEF WindowType
  <2>2. Cardinality(kept) \in Nat /\ Cardinality(zset) \in Nat /\ Cardinality(zset) <= Limit
    BY <1>0, <2>1, FS_CardinalityType DEF WindowType
  <2> QED
    BY <2>1, <2>2
<1> HIDE DEF kept
<1>5. IsFiniteSet(zset') /\ Cardinality(zset') <= Limit
  <2>1. CASE pass
    <3>1. /\ IsFiniteSet(kept \cup {z0})
          /\ Cardinality(kept \cup {z0}) = IF z0 \in kept THEN Cardinality(kept)
                                                          ELSE Cardinality(kept) + 1
      BY <1>4, FS_AddElement
    <3> QED
      BY <1>1, <1>4, <2>1, <3>1
  <2> QED
    BY <1>1, <1>4, <2>1
<1>6. f0 \in [by : Arrivals, time : Nat] /\ z0 \in [by : Arrivals, score : Int]
  BY <1>0
<1>7. LimitType' /\ WindowType'
  <2>1. LimitType'
    BY <1>0, <1>1 DEF LimitType
  <2>2. passed' \in SUBSET [by : Arrivals, time : Nat]
    BY <1>0, <1>1, <1>6 DEF WindowType
  <2>3. zset' \in SUBSET [by : Arrivals, score : Int]
    BY <1>1, <1>2, <1>6
  <2>4. expires' \in Nat
    BY <1>0, <1>1 DEF WindowType
  <2> QED
    BY <1>5, <2>1, <2>2, <2>3, <2>4 DEF WindowType
<1>8. \A f \in passed : /\ f.by # a /\ f.by \in Arrivals /\ f.time \in Nat /\ f.time <= clock
                        /\ f.time + Window <= expires /\ desk'[f.by] = "passed"
  BY <1>0, <1>1 DEF WindowType, WindowInv, LimitType
<1>9. /\ f0.by = a /\ f0.time = clock /\ z0.by = a /\ z0.score = now
      /\ pass => desk'[a] = "passed"
  BY <1>0, <1>1 DEF LimitType
<1> HIDE DEF f0, z0, pass
<1>10. WindowInv'
  <2>1. ASSUME NEW f \in passed'
        PROVE  f.time <= clock' /\ f.time + Window <= expires' /\ desk'[f.by] = "passed"
    <3>1. CASE f \in passed
      BY <1>0, <1>1, <1>8, <3>1 DEF WindowType
    <3>2. CASE f \notin passed
      BY <1>0, <1>1, <1>9, <2>1, <3>2
    <3> QED
      BY <3>1, <3>2
  <2>2. ASSUME NEW f \in passed', NEW g \in passed', f.by = g.by PROVE f = g
    BY <1>0, <1>1, <1>8, <1>9, <2>2 DEF WindowInv
  <2>3. ASSUME NEW f \in passed', f.time > clock - Narrow
        PROVE  \E z \in zset' : z.by = f.by /\ z.score >= f.time - Delay
    <3>1. CASE f \in passed
      BY <1>1, <1>3, <2>3, <3>1 DEF Recent
    <3>2. CASE f \notin passed
      BY <1>0, <1>1, <1>9, <2>3, <3>2
    <3> QED
      BY <3>1, <3>2
  <2> QED
    BY <1>1, <2>1, <2>2, <2>3 DEF WindowInv, Recent
<1>11. RedisInv'
  BY <1>7, <1>10 DEF RedisInv
<1>12. Cardinality(Recent(clock)') <= Limit
  <2> DEFINE R == {f \in passed' : f.time > clock' - Narrow}
  <2>1. /\ \A f, g \in R : f.by = g.by => f = g
        /\ \A f \in R : \E z \in zset' : z.by = f.by
    BY <1>10 DEF WindowInv, Recent
  <2> HIDE DEF R
  <2>2. Cardinality(R) <= Limit
    BY <1>5, <2>1, OneEntryEach
  <2> QED
    BY <1>1, <2>2 DEF R, Recent
<1>13. ASSUME NEW e \in passed'
       PROVE  Cardinality({f \in passed' : f.time <= e.time
                             /\ f.time > e.time - (Window - Delay - Skew)}) <= Limit
  <2>1. CASE e.time = clock
    <3>1. {f \in passed' : f.time <= e.time /\ f.time > e.time - (Window - Delay - Skew)}
            = Recent(clock)'
      BY <1>1, <1>10, <2>1 DEF Recent, Narrow, WindowInv
    <3> QED
      BY <1>12, <3>1
  <2>2. CASE e.time # clock
    <3>1. e \in passed /\ e.time \in Nat /\ e.time < clock
      BY <1>0, <1>1, <1>8, <1>9, <1>13, <2>2
    <3>2. {f \in passed' : f.time <= e.time /\ f.time > e.time - (Window - Delay - Skew)}
            = {f \in passed : f.time <= e.time /\ f.time > e.time - (Window - Delay - Skew)}
      BY <1>0, <1>1, <1>9, <3>1
    <3> QED
      BY <3>1, <3>2 DEF WindowBounded
  <2> QED
    BY <2>1, <2>2
<1> QED
  BY <1>11, <1>13 DEF WindowBounded

\* Every other step leaves the window alone, and time only takes requests out of it.
LEMMA RedisStepInv ==
  ASSUME RedisInv, WindowBounded, [LimitNext]_limitVars
  PROVE  RedisInv' /\ WindowBounded'
<1> USE LimitAssumption
<1>0. LimitType /\ clock \in Nat
  BY DEF RedisInv, LimitType
<1>1. ASSUME NEW a \in Arrivals, NEW now \in (clock - Delay)..(clock + Skew), RunScript(a, now)
      PROVE  RedisInv' /\ WindowBounded'
  BY <1>1, ScriptKeepsWindow
<1>2. ASSUME NEW a \in Arrivals, NEW to \in {"create", "fetched", "passed", "refused"},
             desk[a] # "passed", desk' = [desk EXCEPT ![a] = to], UNCHANGED <<clock, windowVars>>
      PROVE  RedisInv' /\ WindowBounded'
  <2>1. LimitType' /\ \A d \in Arrivals : desk[d] = "passed" => desk'[d] = "passed"
    BY <1>0, <1>2 DEF LimitType
  <2> QED
    BY <1>0, <1>2, <2>1, RedisKept
<1>3. ASSUME NEW a \in Arrivals,
             Unlimited(a) \/ FetchBucket(a) \/ CreateBucket(a) \/ AllowToken(a) \/ RedisFails(a)
      PROVE  RedisInv' /\ WindowBounded'
  BY <1>2, <1>3 DEF Unlimited, FetchBucket, CreateBucket, AllowToken, RedisFails, Arrives, Move
<1>4. CASE LimitTick \/ FindIdle \/ Cleanup \/ UNCHANGED limitVars
  <2>1. UNCHANGED <<desk, windowVars>> /\ clock' \in Nat /\ clock <= clock'
    BY <1>0, <1>4 DEF LimitTick, FindIdle, Cleanup, limitVars
  <2>2. LimitType'
    BY <1>0, <2>1 DEF LimitType
  <2> QED
    BY <2>1, <2>2, RedisKept
<1> QED
  BY <1>1, <1>3, <1>4 DEF LimitNext

\* For any window and limit, any delay of the scripts and any skew of their clocks, no
\* more than Limit requests pass in a window shortened by both.
THEOREM WindowIsBounded == LimitSpec => []WindowBounded
<1>1. RedisInv /\ WindowBounded /\ [LimitNext]_limitVars => RedisInv' /\ WindowBounded'
  BY RedisStepInv
<1> QED
  BY RedisInitInv, <1>1, PTL DEF LimitSpec

-----------------------------------------------------------------------------
(* The lists *)

\* The rows before one, as the list is ordered.
Newer(e) == {b \in matching : time[b] > time[e]}

\* What stayed is in the list and has its time to itself; what of it the client has not
\* been shown yet comes behind the pages it has read.
ListType ==
  /\ time \in [Items -> Nat] /\ matching \in SUBSET Items /\ number \in Nat
  /\ IsFiniteSet(matching) /\ \A e \in matching : time[e] # 0
StayedInv ==
  /\ stayed \in SUBSET matching
  /\ \A e \in stayed, b \in Items : b # e => time[b] # time[e]
BehindInv ==
  number # 0 /\ ~shaken =>
    \A e \in stayed \ seen : Cardinality(Newer(e)) >= Offset(number)
ListInv == ListType /\ StayedInv /\ BehindInv

\* Nobody reads at the start.
LEMMA ListInitInv == ListInit => ListInv /\ NothingMissed
BY FS_EmptySet DEF ListInit, ListInv, ListType, StayedInv, BehindInv, NothingMissed

\* A part of the list is finite.
LEMMA PartType ==
  ASSUME ListInv, NEW S \in SUBSET matching
  PROVE  IsFiniteSet(S) /\ Cardinality(S) \in Nat
BY FS_Subset, FS_CardinalityType DEF ListInv, ListType

\* The first rows of a part: all of it or as many as were asked for, and nothing that
\* was left out is newer than what was taken.
LEMMA HeadsAreNewest ==
  ASSUME ListInv, NEW S \in SUBSET matching, NEW n \in Nat, NEW T \in Heads(S, n)
  PROVE  /\ T \in SUBSET S /\ Cardinality(T) \in Nat /\ Cardinality(T) <= n
         /\ \A a \in T, b \in S \ T : time[a] >= time[b]
         /\ T = S \/ Cardinality(T) = n
<1>1. /\ T \in SUBSET S /\ \A a \in T, b \in S \ T : time[a] >= time[b]
      /\ Cardinality(T) = IF Cardinality(S) < n THEN Cardinality(S) ELSE n
  BY DEF Heads
<1>2. IsFiniteSet(S) /\ Cardinality(S) \in Nat
  BY PartType
<1>3. Cardinality(T) = Cardinality(S) => T = S
  BY <1>1, <1>2, FS_Subset
<1> QED
  BY <1>1, <1>2, <1>3

\* The pages are numbered from 1 and lie one behind the other.
LEMMA OffsetType ==
  ASSUME NEW n \in Nat, n # 0
  PROVE  Offset(n) \in Nat /\ Offset(n + 1) = Offset(n) + PageSize
<1>1. PICK k \in Nat : n = k + 1
  <2>1. n - 1 \in Nat /\ n = (n - 1) + 1
    OBVIOUS
  <2> QED
    BY <2>1
<1>2. Offset(n) = k * PageSize /\ Offset(n + 1) = (k + 1) * PageSize
  BY <1>1 DEF Offset
<1> QED
  BY <1>2, ListingAssumption

\* A page shows what comes next, or leaves it behind a full page.
LEMMA PageShowsNext ==
  ASSUME ListInv, number # 0, ~shaken, NEW e \in stayed \ seen,
         NEW skipped \in Heads(matching, Offset(number)),
         NEW shown \in Heads(matching \ skipped, PageSize), e \notin shown
  PROVE  /\ Cardinality(shown) = PageSize
         /\ Cardinality(Newer(e)) >= Offset(number + 1)
<1> USE ListingAssumption
<1>1. /\ number \in Nat /\ e \in matching /\ Newer(e) \in SUBSET matching
      /\ \A b \in Items : b # e => time[b] # time[e]
      /\ \A b \in Items : time[b] \in Nat
      /\ Cardinality(Newer(e)) >= Offset(number)
  BY DEF ListInv, ListType, StayedInv, BehindInv, Newer
<1>2. Offset(number) \in Nat /\ Offset(number + 1) = Offset(number) + PageSize
  BY <1>1, OffsetType
<1>3. /\ skipped \in SUBSET matching /\ Cardinality(skipped) \in Nat
      /\ Cardinality(skipped) <= Offset(number)
      /\ \A a \in skipped, b \in matching \ skipped : time[a] >= time[b]
      /\ skipped = matching \/ Cardinality(skipped) = Offset(number)
  BY <1>2, HeadsAreNewest
<1>4. /\ shown \in SUBSET (matching \ skipped) /\ Cardinality(shown) \in Nat
      /\ \A a \in shown, b \in (matching \ skipped) \ shown : time[a] >= time[b]
      /\ shown = matching \ skipped \/ Cardinality(shown) = PageSize
  <2>1. matching \ skipped \in SUBSET matching /\ PageSize \in Nat
    OBVIOUS
  <2> QED
    BY <2>1, HeadsAreNewest
<1>5. e \notin skipped
  <2> SUFFICES ASSUME e \in skipped PROVE FALSE
    OBVIOUS
  <2>1. Newer(e) \cup {e} \in SUBSET skipped
    <3>1. ASSUME NEW b \in Newer(e), b \notin skipped PROVE FALSE
      <4>1. b \in matching \ skipped /\ time[b] > time[e] /\ time[b] \in Nat /\ time[e] \in Nat
        BY <1>1, <3>1 DEF Newer, ListInv, ListType
      <4>2. time[e] >= time[b]
        BY <1>3, <4>1
      <4> QED
        BY <4>1, <4>2
    <3> QED
      BY <3>1
  <2>2. e \notin Newer(e)
    BY <1>1 DEF Newer, ListInv, ListType
  <2>3. Cardinality(Newer(e) \cup {e}) = Cardinality(Newer(e)) + 1
    BY <1>1, <2>2, PartType, FS_AddElement
  <2>4. Cardinality(Newer(e) \cup {e}) <= Cardinality(skipped)
    BY <1>3, <2>1, PartType, FS_Subset
  <2>5. Cardinality(Newer(e)) \in Nat
    BY <1>1, PartType
  <2> QED
    BY <1>1, <1>2, <1>3, <2>3, <2>4, <2>5
<1>6. Cardinality(skipped) = Offset(number) /\ Cardinality(shown) = PageSize
  BY <1>1, <1>3, <1>4, <1>5
<1>7. skipped \cup shown \in SUBSET Newer(e)
  <2> SUFFICES ASSUME NEW a \in skipped \cup shown PROVE a \in Newer(e)
    OBVIOUS
  <2>1. a \in matching /\ time[a] >= time[e]
    BY <1>1, <1>3, <1>4, <1>5
  <2>2. a # e /\ a \in Items /\ e \in Items
    BY <1>1, <1>5, <2>1 DEF ListInv, ListType
  <2> QED
    BY <1>1, <2>1, <2>2 DEF Newer
<1>8. /\ IsFiniteSet(skipped) /\ IsFiniteSet(shown) /\ IsFiniteSet(Newer(e))
      /\ Cardinality(Newer(e)) \in Nat
  BY <1>1, <1>3, <1>4, PartType
<1>9. Cardinality(skipped \cup shown) = Cardinality(skipped) + Cardinality(shown)
  <2>1. skipped \cap shown = {}
    BY <1>4
  <2>2. Cardinality(skipped \cap shown) = 0
    BY <2>1, FS_EmptySet, Zenon
  <2>3. Cardinality(skipped \cup shown)
          = Cardinality(skipped) + Cardinality(shown) - Cardinality(skipped \cap shown)
    BY <1>8, FS_Union
  <2>4. Cardinality(skipped) \in Nat /\ Cardinality(shown) \in Nat
    BY <1>3, <1>4
  <2> QED
    BY <2>2, <2>3, <2>4
<1>10. Cardinality(skipped \cup shown) <= Cardinality(Newer(e))
  BY <1>7, <1>8, FS_Subset
<1> QED
  BY <1>2, <1>3, <1>6, <1>8, <1>9, <1>10

\* What others do to the list: no row that stays is overtaken backwards.
LEMMA OthersKeepList ==
  ASSUME ListInv, NothingMissed, ListType', StayedInv', stayed' \in SUBSET stayed,
         UNCHANGED <<number, seen>>, shaken => shaken',
         ~shaken' => /\ matching \in SUBSET matching'
                     /\ \A e \in stayed' : time'[e] = time[e]
                     /\ \A b \in matching : time'[b] >= time[b]
  PROVE  ListInv' /\ NothingMissed'
<1>1. NothingMissed'
  BY DEF NothingMissed
<1>2. BehindInv'
  <2> SUFFICES ASSUME number # 0, ~shaken', NEW e \in stayed' \ seen
               PROVE  Cardinality(Newer(e)') >= Offset(number)
    BY DEF BehindInv
  <2>1. e \in stayed \ seen /\ Cardinality(Newer(e)) >= Offset(number)
    BY DEF ListInv, BehindInv
  <2>2. Newer(e) \in SUBSET Newer(e)'
    <3> SUFFICES ASSUME NEW b \in Newer(e) PROVE b \in matching' /\ time'[b] > time'[e]
      BY DEF Newer
    <3>1. b \in matching /\ b \in Items /\ e \in Items /\ time[b] > time[e]
      BY <2>1 DEF Newer, ListInv, ListType, StayedInv
    <3>2. time[b] \in Nat /\ time[e] \in Nat /\ time'[b] \in Nat
      BY <3>1 DEF ListInv, ListType
    <3>3. time'[b] >= time[b] /\ time'[e] = time[e] /\ b \in matching'
      BY <3>1
    <3> QED
      BY <3>1, <3>2, <3>3
  <2>3. IsFiniteSet(Newer(e)')
    <3>1. Newer(e)' \in SUBSET matching'
      BY DEF Newer
    <3> QED
      BY <3>1, FS_Subset DEF ListType
  <2>4. /\ Cardinality(Newer(e)) <= Cardinality(Newer(e)')
        /\ Cardinality(Newer(e)) \in Nat /\ Cardinality(Newer(e)') \in Nat
    BY <2>2, <2>3, FS_Subset, FS_CardinalityType
  <2>5. Offset(number) \in Nat
    BY OffsetType DEF ListInv, ListType
  <2> QED
    BY <2>1, <2>4, <2>5
<1> QED
  BY <1>1, <1>2 DEF ListInv

\* Every step keeps what the client has not been shown behind the pages it has read.
LEMMA ListStepInv ==
  ASSUME ListInv, NothingMissed, [ListNext]_listVars
  PROVE  ListInv' /\ NothingMissed'
<1> USE ListingAssumption
<1>0. ListType /\ StayedInv /\ BehindInv
  BY DEF ListInv
<1>1. ASSUME NEW e \in Items, NEW t \in Times, InsertRow(e, t) PROVE ListInv' /\ NothingMissed'
  <2>1. /\ time[e] = 0 /\ time' = [time EXCEPT ![e] = t] /\ t \in Nat /\ t # 0
        /\ matching' \in {matching, matching \cup {e}} /\ stayed' = stayed \ HaveTime(t)
        /\ UNCHANGED <<number, seen, shaken>>
    BY <1>1 DEF InsertRow
  <2>2. \A b \in Items : time'[b] = IF b = e THEN t ELSE time[b]
    BY <1>0, <2>1 DEF ListType
  <2>3. IsFiniteSet(matching')
    BY <1>0, <2>1, FS_AddElement DEF ListType
  <2>4. ListType'
    BY <1>0, <2>1, <2>2, <2>3 DEF ListType
  <2>5. e \notin matching
    BY <1>0, <2>1 DEF ListType
  <2>6. StayedInv'
    BY <1>0, <2>1, <2>2, <2>5 DEF StayedInv, HaveTime, ListType
  <2>7. \A b \in matching : b \in Items /\ b # e
    BY <1>0, <2>5 DEF ListType
  <2>8. \A b \in matching : time'[b] = time[b] /\ time[b] \in Nat
    BY <1>0, <2>2, <2>7 DEF ListType
  <2>9. \A b \in stayed' : b \in matching
    BY <1>0, <2>1 DEF StayedInv
  <2> QED
    BY <2>1, <2>4, <2>6, <2>8, <2>9, OthersKeepList
<1>2. ASSUME NEW e \in Items, NEW t \in Times, Touch(e, t) PROVE ListInv' /\ NothingMissed'
  <2>1. /\ time[e] # 0 /\ time' = [time EXCEPT ![e] = t] /\ t \in Nat /\ t # 0
        /\ stayed' = stayed \ (HaveTime(t) \cup {e})
        /\ shaken' = (shaken \/ (e \in matching /\ t < time[e]))
        /\ UNCHANGED <<matching, number, seen>>
    BY <1>2 DEF Touch
  <2>2. \A b \in Items : time'[b] = IF b = e THEN t ELSE time[b]
    BY <1>0, <2>1 DEF ListType
  <2>3. ListType'
    BY <1>0, <2>1, <2>2 DEF ListType
  <2>4. StayedInv'
    BY <1>0, <2>1, <2>2 DEF StayedInv, HaveTime, ListType
  <2>5. \A b \in matching : b \in Items /\ time[b] \in Nat
    BY <1>0 DEF ListType
  <2>6. ASSUME ~shaken', NEW b \in matching PROVE time'[b] >= time[b]
    <3>1. CASE b = e
      <4>1. ~(t < time[e])
        BY <2>1, <2>6, <3>1
      <4> QED
        BY <2>1, <2>2, <2>5, <3>1, <4>1
    <3> QED
      BY <2>2, <2>5, <3>1
  <2>7. \A b \in stayed' : time'[b] = time[b]
    BY <1>0, <2>1, <2>2, <2>5 DEF StayedInv
  <2> QED
    BY <2>1, <2>3, <2>4, <2>6, <2>7, OthersKeepList
<1>3. ASSUME NEW e \in Items, Enter(e) PROVE ListInv' /\ NothingMissed'
  <2>1. /\ time[e] # 0 /\ matching' = matching \cup {e}
        /\ UNCHANGED <<time, number, seen, stayed, shaken>>
    BY <1>3 DEF Enter
  <2>2. IsFiniteSet(matching')
    BY <1>0, <2>1, FS_AddElement DEF ListType
  <2>3. ListType' /\ StayedInv'
    BY <1>0, <2>1, <2>2 DEF ListType, StayedInv
  <2>4. \A b \in matching : time[b] \in Nat
    BY <1>0 DEF ListType
  <2> QED
    BY <2>1, <2>3, <2>4, OthersKeepList
<1>4. ASSUME NEW e \in Items, Leave(e) PROVE ListInv' /\ NothingMissed'
  <2>1. /\ matching' = matching \ {e} /\ stayed' = stayed \ {e} /\ shaken' = TRUE
        /\ time' = time \/ time' = [time EXCEPT ![e] = 0]
        /\ UNCHANGED <<number, seen>>
    BY <1>4 DEF Leave
  <2>2. \A b \in Items : time'[b] = time[b] \/ (b = e /\ time'[b] = 0)
    BY <1>0, <2>1 DEF ListType
  <2>3. IsFiniteSet(matching')
    BY <1>0, <2>1, FS_Subset DEF ListType
  <2>4. ListType'
    BY <1>0, <2>1, <2>2, <2>3 DEF ListType
  <2>5. StayedInv'
    BY <1>0, <2>1, <2>2 DEF StayedInv, ListType
  <2> QED
    BY <2>1, <2>4, <2>5, OthersKeepList
<1>5. CASE Open
  <2>1. /\ number' = 1 /\ seen' = {} /\ stayed' = {e \in matching : Alone(e)}
        /\ UNCHANGED <<time, matching>>
    BY <1>5 DEF Open
  <2>2. ListType' /\ StayedInv' /\ NothingMissed'
    BY <1>0, <2>1 DEF ListType, StayedInv, NothingMissed, Alone, HaveTime
  <2>3. ASSUME NEW e \in stayed' PROVE Cardinality(Newer(e)') \in Nat
    <3>1. Newer(e)' \in SUBSET matching
      BY <2>1 DEF Newer
    <3> QED
      BY <3>1, PartType
  <2>4. Offset(1) = 0
    BY DEF Offset
  <2> QED
    BY <2>1, <2>2, <2>3, <2>4 DEF ListInv, BehindInv
<1>6. CASE Select
  <2>1. PICK skipped \in Heads(matching, Offset(number)) :
          \E shown \in Heads(matching \ skipped, PageSize) :
            /\ seen' = seen \cup shown
            /\ number' = IF Cardinality(shown) < PageSize THEN 0 ELSE number + 1
    BY <1>6 DEF Select
  <2>2. PICK shown \in Heads(matching \ skipped, PageSize) :
            /\ seen' = seen \cup shown
            /\ number' = IF Cardinality(shown) < PageSize THEN 0 ELSE number + 1
    BY <2>1
  <2>3. number > 0 /\ number \in Nat /\ UNCHANGED <<time, matching, stayed, shaken>>
    BY <1>0, <1>6 DEF Select, ListType
  <2>4. ListType' /\ StayedInv'
    BY <1>0, <2>2, <2>3 DEF ListType, StayedInv
  <2>5. ASSUME ~shaken, NEW e \in stayed \ seen'
        PROVE  number' = number + 1 /\ Cardinality(Newer(e)) >= Offset(number + 1)
    <3>1. e \in stayed \ seen /\ e \notin shown
      BY <2>2, <2>5
    <3>2. Cardinality(shown) = PageSize /\ Cardinality(Newer(e)) >= Offset(number + 1)
      BY <2>3, <2>5, <3>1, PageShowsNext
    <3> QED
      BY <2>2, <3>2
  <2>6. \A e \in stayed : Newer(e)' = Newer(e)
    BY <2>3 DEF Newer
  <2>7. BehindInv'
    BY <2>3, <2>5, <2>6 DEF BehindInv
  <2>8. NothingMissed'
    BY <2>3, <2>5 DEF NothingMissed
  <2> QED
    BY <2>4, <2>7, <2>8 DEF ListInv
<1>7. CASE UNCHANGED listVars
  BY <1>7 DEF listVars, ListInv, ListType, StayedInv, BehindInv, Newer, NothingMissed
<1> QED
  BY <1>1, <1>2, <1>3, <1>4, <1>5, <1>6, <1>7 DEF ListNext

\* For any rows, times and page size, and any number of pages: the client is shown every
\* row that stayed, however rows are inserted and move up meanwhile, unless a row left
\* the list or moved down in it.
THEOREM ListsMissNothing == ListSpec => []NothingMissed
<1>1. ListInv /\ NothingMissed /\ [ListNext]_listVars => ListInv' /\ NothingMissed'
  BY ListStepInv
<1> QED
  BY ListInitInv, <1>1, PTL DEF ListSpec
=============================================================================

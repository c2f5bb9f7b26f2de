------------------------------ MODULE Accounts ------------------------------
(***************************************************************************)
(* services/iam, the accounts: registration, login, the JWT middleware,    *)
(* profile, password and avatar.  A user has one row in PostgreSQL, one    *)
(* session key in Redis and avatars in MinIO.  A handler reads the row,    *)
(* works on its copy and saves every column of it; the middleware renews   *)
(* an expired token by writing back the session it has read.  Nothing      *)
(* orders these steps with those of other requests.                        *)
(*                                                                         *)
(* The username, the other unique column, behaves as the email does.  The  *)
(* UUIDs a request draws, for a session or an avatar, and the password it  *)
(* sets are named by the request.                                          *)
(***************************************************************************)
EXTENDS Naturals, FiniteSets

CONSTANTS
  Visits,      \* requests to the service, numbered as they arrive
  Users,
  Devices,     \* browsers and scripts
  OwnerOf,     \* the user of each device
  Emails,
  FirstEmail,  \* the email of each user registered at the start
  Origin,      \* names their first password, avatar and session
  None         \* no row, no session, no avatar

Ids == Visits \cup {Origin}

ASSUME AccountAssumption ==
  /\ Visits \subseteq Nat
  /\ OwnerOf \in [Devices -> Users] /\ FirstEmail \in [Users -> Emails \cup {None}]
  /\ \A u, v \in Users : FirstEmail[u] = FirstEmail[v] => u = v \/ FirstEmail[u] = None
  /\ Origin \notin Visits /\ None \notin Ids \cup Emails
ASSUME NoRowAssumption == None \notin [email : Emails, pass : Ids, avatar : Ids \cup {None}]

VARIABLES
  row,       \* table users: email, password hash and avatar of each user
  session,   \* the Redis key user:session:<id>
  stored,    \* avatars in MinIO, with their users
  jar,       \* the token and the session id a device keeps
  stage,     \* where each request is
  kind,      \* what it does
  device,    \* who sent it
  copy,      \* the row it has read
  sid,       \* the session id it carries
  opened,    \* history: the password each session was opened with,
  loose,     \* users with a session that may outlive its password,
  astray     \* and with an avatar that may be gone

asked       == <<kind, device, copy, sid>>
slips       == <<opened, loose, astray>>
accountVars == <<row, session, stored, jar, stage, asked, slips>>

Rows == [email : Emails, pass : Ids, avatar : Ids \cup {None}]
Kinds == {"view", "profile", "password", "avatar"}
UserOf(r) == OwnerOf[device[r]]
NoCookies == [token |-> "none", sid |-> None]

Known == {u \in Users : FirstEmail[u] # None}

AccountInit ==
  /\ row = [u \in Users |->
              IF u \in Known
              THEN [email |-> FirstEmail[u], pass |-> Origin, avatar |-> Origin] ELSE None]
  /\ session = [u \in Users |-> IF u \in Known THEN Origin ELSE None]
  /\ stored = {<<u, Origin>> : u \in Known}
  /\ jar = [d \in Devices |-> IF OwnerOf[d] \in Known
                              THEN [token |-> "valid", sid |-> Origin] ELSE NoCookies]
  /\ stage = [r \in Visits |-> "new"]
  /\ kind = [r \in Visits |-> "view"]
  /\ device = [r \in Visits |-> None]
  /\ copy = [r \in Visits |-> None]
  /\ sid = [r \in Visits |-> None]
  /\ opened = [s \in Ids |-> IF s = Origin THEN Origin ELSE None]
  /\ loose = {} /\ astray = {}

Go(r, to) == stage' = [stage EXCEPT ![r] = to]

Mark(S, u, b) == IF b THEN S \cup {u} ELSE S

\* The next request comes, and goes to the route of a handler or is answered at once.
IsNext(r) == stage[r] = "new" /\ \A q \in Visits : q < r => stage[q] # "new"
Arrive(r, d, k, to) ==
  /\ IsNext(r) /\ Go(r, to)
  /\ device' = [device EXCEPT ![r] = d] /\ kind' = [kind EXCEPT ![r] = k]

\* A request is answered, and forgotten.
Finish(r) ==
  /\ Go(r, "done") /\ kind' = [kind EXCEPT ![r] = "view"]
  /\ device' = [device EXCEPT ![r] = None]
  /\ copy' = [copy EXCEPT ![r] = None] /\ sid' = [sid EXCEPT ![r] = None]

\* The unique index on email.
Taken(u, e) == \E v \in Users \ {u} : row[v] # None /\ row[v].email = e

-----------------------------------------------------------------------------
(* Register and Login *)

\* NewUser and Save; a taken email is answered with 409.
Register(r, d, e) ==
  LET u == OwnerOf[d] IN
  /\ row[u] = None
  /\ IsNext(r) /\ Finish(r)
  /\ row' = IF Taken(u, e) THEN row
            ELSE [row EXCEPT ![u] = [email |-> e, pass |-> r, avatar |-> None]]
  /\ UNCHANGED <<session, stored, jar, slips>>

\* FindByEmail and CheckPassword; with other credentials nothing happens.
Login(r, d) ==
  /\ row[OwnerOf[d]] # None
  /\ Arrive(r, d, "login", "login")
  /\ copy' = [copy EXCEPT ![r] = row[OwnerOf[d]]]
  /\ UNCHANGED <<row, session, stored, jar, sid, slips>>

\* SetSession, under a new id.
OpenSession(r) ==
  LET u == UserOf(r) IN
  /\ stage[r] = "login"
  /\ Go(r, "answer") /\ session' = [session EXCEPT ![u] = r]
  /\ opened' = [opened EXCEPT ![r] = copy[r].pass]
  /\ loose' = Mark(loose, u, row[u].pass # copy[r].pass)
  /\ UNCHANGED <<row, stored, jar, asked, astray>>

\* The two cookies.
KeepCookies(r) ==
  /\ stage[r] = "answer"
  /\ Finish(r) /\ jar' = [jar EXCEPT ![device[r]] = [token |-> "valid", sid |-> r]]
  /\ UNCHANGED <<row, session, stored, slips>>

-----------------------------------------------------------------------------
(* JWTAuth *)

\* Fault: some session is enough.
AnySession(u, s) == session[u] # None
IsCurrent(u, s)  == session[u] = s /\ s # None

\* A valid token in the Authorization header needs no session, one in a cookie does.
Authenticate(r, d, k, header) ==
  /\ jar[d].token = "valid"
  /\ header \/ IsCurrent(OwnerOf[d], jar[d].sid)
  /\ Arrive(r, d, k, "run")
  /\ UNCHANGED <<row, session, stored, jar, copy, sid, slips>>

\* An expired token is renewed for the current session, which is read,
Renew(r, d, k) ==
  /\ jar[d].token = "expired" /\ IsCurrent(OwnerOf[d], jar[d].sid)
  /\ Arrive(r, d, k, "renew")
  /\ sid' = [sid EXCEPT ![r] = jar[d].sid]
  /\ UNCHANGED <<row, session, stored, jar, copy, slips>>

\* and written back with a new expiry; an error is ignored.
WriteBack(r) ==
  LET u == UserOf(r) IN
  /\ stage[r] = "renew"
  /\ Go(r, "run")
  /\ jar' = [jar EXCEPT ![device[r]].token = "valid"]
  /\ session' \in {session, [session EXCEPT ![u] = sid[r]]}
  /\ loose' = Mark(loose, u, session'[u] # session[u])
  /\ UNCHANGED <<row, stored, asked, opened, astray>>

\* 401: no token, or not the current session.
Refuse(r, d) ==
  /\ jar[d].token = "none" \/ ~IsCurrent(OwnerOf[d], jar[d].sid)
  /\ IsNext(r) /\ Finish(r)
  /\ UNCHANGED <<row, session, stored, jar, slips>>

\* A token lives for half an hour; the cookie it is kept in does too, the copy a script
\* keeps for the Authorization header does not.
TokenExpires(d) ==
  /\ jar[d].token = "valid"
  /\ jar' = [jar EXCEPT ![d].token = "expired"]
  /\ UNCHANGED <<row, session, stored, stage, asked, slips>>

\* The session key expires after seven days.
SessionExpires(u) ==
  /\ session[u] # None
  /\ session' = [session EXCEPT ![u] = None]
  /\ UNCHANGED <<row, stored, jar, stage, asked, slips>>

-----------------------------------------------------------------------------
(* The handlers *)

\* FindByID; GetProfile answers with what it finds.
Find(r) ==
  /\ stage[r] = "run" /\ kind[r] # "view"
  /\ Go(r, "found") /\ copy' = [copy EXCEPT ![r] = row[UserOf(r)]]
  /\ UNCHANGED <<row, session, stored, jar, kind, device, sid, slips>>

GetProfile(r) ==
  /\ stage[r] = "run" /\ kind[r] = "view"
  /\ Finish(r)
  /\ UNCHANGED <<row, session, stored, jar, slips>>

\* Save: every column of the copy is written, the change among them.
Save(r, new) ==
  LET u == UserOf(r) IN
  /\ ~Taken(u, new.email)
  /\ row' = [row EXCEPT ![u] = new]

\* UpdateProfile
SaveProfile(r, e) ==
  LET u == UserOf(r) IN
  /\ stage[r] = "found" /\ kind[r] = "profile" /\ e # copy[r].email
  /\ Save(r, [copy[r] EXCEPT !.email = e])
  /\ Finish(r)
  /\ loose' = Mark(loose, u, row[u].pass # copy[r].pass)
  /\ astray' = Mark(astray, u, row[u].avatar # copy[r].avatar)
  /\ UNCHANGED <<session, stored, jar, opened>>

\* UpdatePassword, with the right old password
SavePassword(r) ==
  LET u == UserOf(r) IN
  /\ stage[r] = "found" /\ kind[r] = "password"
  /\ Save(r, [copy[r] EXCEPT !.pass = r])
  /\ Go(r, "logout")
  /\ astray' = Mark(astray, u, row[u].avatar # copy[r].avatar)
  /\ UNCHANGED <<session, stored, jar, asked, opened, loose>>

\* Fault: the session of a changed password is left alone.
StaysOpen(u) == session[u]
Ended(u)     == None

\* DeleteSession, its error ignored, and the answer, which clears the cookies but not the
\* copy of the token a script keeps
EndSession(r, ok, keeps) ==
  LET u == UserOf(r) IN
  /\ stage[r] = "logout"
  /\ Finish(r)
  /\ session' = IF ok THEN [session EXCEPT ![u] = Ended(u)] ELSE session
  /\ loose' = Mark(loose, u, ~ok)
  /\ jar' = [jar EXCEPT ![device[r]] = IF keeps THEN [@ EXCEPT !.sid = None] ELSE NoCookies]
  /\ UNCHANGED <<row, stored, opened, astray>>

\* Fault: the avatars of a user share one name.
OneName(r) == Origin
NewName(r) == r

\* UploadAvatar: the new object is stored,
Upload(r) ==
  /\ stage[r] = "found" /\ kind[r] = "avatar"
  /\ Go(r, "uploaded") /\ stored' = stored \cup {<<UserOf(r), NewName(r)>>}
  /\ UNCHANGED <<row, session, jar, asked, slips>>

OldObject(r) == {<<UserOf(r), copy[r].avatar>>}

\* the object of the row that was read is removed, an error ignored,
RemoveOld(r, ok) ==
  /\ stage[r] = "uploaded"
  /\ Go(r, "removed")
  /\ stored' = IF ok THEN stored \ OldObject(r) ELSE stored
  /\ UNCHANGED <<row, session, jar, asked, opened, loose, astray>>

\* and the new name is saved.
SaveAvatar(r) ==
  LET u == UserOf(r) IN
  /\ stage[r] = "removed"
  /\ Save(r, [copy[r] EXCEPT !.avatar = NewName(r)])
  /\ Finish(r)
  /\ loose' = Mark(loose, u, row[u].pass # copy[r].pass)
  /\ UNCHANGED <<session, stored, jar, opened, astray>>

\* A call fails and the handler answers with the error, the email is taken, the old
\* password is wrong, there is nothing to change, or the process dies.
Fail(r) ==
  LET u == UserOf(r) IN
  /\ stage[r] \notin {"new", "done"}
  /\ Finish(r)
  /\ loose' = Mark(loose, u, stage[r] = "logout")
  /\ astray' = Mark(astray, u, stage[r] = "removed")
  /\ UNCHANGED <<row, session, stored, jar, opened>>

-----------------------------------------------------------------------------
Arrival(r, d) ==
  \/ \E e \in Emails : Register(r, d, e)
  \/ Login(r, d)
  \/ \E k \in Kinds : Renew(r, d, k) \/ \E header \in BOOLEAN : Authenticate(r, d, k, header)
  \/ Refuse(r, d)

AccountStep(r) ==
  \/ \E d \in Devices : Arrival(r, d)
  \/ OpenSession(r) \/ KeepCookies(r) \/ WriteBack(r)
  \/ Find(r) \/ GetProfile(r) \/ SavePassword(r) \/ \E e \in Emails : SaveProfile(r, e)
  \/ \E ok, keeps \in BOOLEAN : EndSession(r, ok, keeps)
  \/ Upload(r) \/ SaveAvatar(r) \/ \E ok \in BOOLEAN : RemoveOld(r, ok)
  \/ Fail(r)

AccountNext ==
  \/ \E r \in Visits : AccountStep(r)
  \/ \E d \in Devices : TokenExpires(d)
  \/ \E u \in Users : SessionExpires(u)

AccountSpec == AccountInit /\ [][AccountNext]_accountVars

-----------------------------------------------------------------------------
(* Properties *)

\* A session does not outlive the password it was opened with: the change of the
\* password has still to end it, could not, was undone by the Save of a request that
\* had read the row before, or crossed a login or a renewal that began before it.
SessionMatchesPassword ==
  \A u \in Users :
    session[u] # None /\ opened[session[u]] # row[u].pass
      => u \in loose \/ \E r \in Visits : stage[r] = "logout" /\ UserOf(r) = u

Retired(u, s) ==
  /\ opened[s] # None /\ session[u] # s
  /\ \A r \in Visits : ~(stage[r] = "renew" /\ UserOf(r) = u /\ sid[r] = s)

\* A session that was replaced, ended or expired is gone for good as soon as no renewal
\* that read it before is under way; logins and later renewals never bring it back.
RetiredStaysOut == [][\A u \in Users, s \in Ids : Retired(u, s) => Retired(u, s)']_accountVars

\* The avatar a row names is in MinIO, but for the moment between removal and Save,
\* after an upload that failed there, and after a Save of another column by a request
\* that had read an older avatar.  Uploads that cross each other do no such harm.
AvatarExists ==
  \A u \in Users :
    row[u] # None /\ row[u].avatar # None /\ <<u, row[u].avatar>> \notin stored
      => \/ u \in astray
         \/ \E r \in Visits : /\ stage[r] = "removed" /\ UserOf(r) = u
                                /\ copy[r].avatar = row[u].avatar
=============================================================================

------------------------------ MODULE Accounts ------------------------------
(***************************************************************************)
(* Passwords and sessions: internal/service/auth.go, ResetPassword of      *)
(* account.go, and the middleware and handlers that call them.             *)
(*                                                                         *)
(* A request is a goroutine that talks to Postgres (the user row) and to   *)
(* Redis (the book of sessions) in separate round trips; each trip is one  *)
(* step, and between two of them the requests of other devices run.  A     *)
(* password is known by its version: 0 before the row exists, then one     *)
(* more at every write.  The model remembers, for each session, which      *)
(* version the login that opened it had compared.                          *)
(***************************************************************************)
EXTENDS Naturals

CONSTANTS User, Hash, None,
          Client,      \* requests in flight
          MaxVersion,  \* bound: password writes per account
          Failures     \* may an I/O fail, the client leave, the server stop?

ASSUME NoneAssumption == None \notin User \cup Hash
ASSUME BoundAssumption == MaxVersion \in Nat \ {0} /\ Failures \in BOOLEAN

VARIABLES version,               \* password version in the row of each user
          mailed,                \* users whose row has a verified email address
          req,                   \* where each request is and what it has read
          owner, index, issued,  \* the book of sessions
          born,                  \* history: version a session's owner proved
          seen,                  \* history: version in force when it was stored
          raced,                 \* history: stored inside a reset's revocation
          cut                    \* history: newest version of each user whose
                                 \* revocation a failure cut short

book == <<owner, index, issued>>
history == <<born, seen, raced, cut>>
row == <<version, mailed>>
vars == <<row, req, book, history>>

Book == INSTANCE SessionBook

Idle == [at |-> "idle"]
\* The password was compared or the row created; a session is to be started.
Proved(u, v) == [at |-> "proved", user |-> u, version |-> v]
\* withAuth resolved the cookie.
Authed(u, h) == [at |-> "authed", user |-> u, hash |-> h]
\* ChangePassword compared the current password.
Compared(u, h) == [at |-> "compared", user |-> u, hash |-> h]
\* A new password is stored; old sessions are to be listed, then deleted.
Written(u, v, keep) == [at |-> "written", user |-> u, version |-> v, keep |-> keep]
\* Mutant of Listed: the session to keep is forgotten.
ListedWithoutKeep(r, members) ==
  [at |-> "listed", user |-> r.user, version |-> r.version, members |-> members]
Listed(r, members) ==
  [at |-> "listed", user |-> r.user, version |-> r.version, keep |-> r.keep,
   members |-> members]

Version == 0..MaxVersion
Request ==
  {Idle}
    \cup [at : {"proved"}, user : User, version : Version]
    \cup [at : {"authed", "compared"}, user : User, hash : Hash]
    \cup [at : {"written"}, user : User, version : Version, keep : Hash \cup {None}]
    \cup [at : {"listed"}, user : User, version : Version,
          keep : Hash \cup {None}, members : SUBSET Hash]

TypeOK ==
  /\ version \in [User -> Version]
  /\ mailed \subseteq User
  /\ req \in [Client -> Request]
  /\ owner \in [Hash -> User \cup {None}]
  /\ index \in [User -> SUBSET Hash]
  /\ issued \subseteq Hash
  /\ born \in [Hash -> Version]
  /\ seen \in [Hash -> Version]
  /\ raced \subseteq Hash
  /\ cut \in [User -> Version]

Live == {h \in Hash : owner[h] # None}
Goto(c, r) == req' = [req EXCEPT ![c] = r]

\* The history keeps nothing of a session that has ended: no hash comes back.
ForgetEnded ==
  LET ended(h) == owner'[h] = None
  IN /\ born' = [h \in Hash |-> IF ended(h) THEN 0 ELSE born[h]]
     /\ seen' = [h \in Hash |-> IF ended(h) THEN 0 ELSE seen[h]]
     /\ raced' = {h \in raced : ~ended(h)}
     /\ UNCHANGED cut

\* The server starts on the rows an earlier run left; Redis may be empty.
Init ==
  /\ version \in [User -> 0..1]
  /\ mailed \in SUBSET {u \in User : version[u] > 0}
  /\ req = [c \in Client |-> Idle]
  /\ Book!Init
  /\ born = [h \in Hash |-> 0]
  /\ seen = [h \in Hash |-> 0]
  /\ raced = {}
  /\ cut = [u \in User |-> 0]

-----------------------------------------------------------------------------
\* Register inserts the row; the unique index refuses a name that is taken.
Register(c, u) ==
  /\ req[c] = Idle
  /\ version[u] = 0
  /\ version' = [version EXCEPT ![u] = 1]
  /\ Goto(c, Proved(u, 1))
  /\ UNCHANGED <<mailed, book, history>>

\* Login reads the row and compares the password with what it read.
Login(c, u) ==
  /\ req[c] = Idle
  /\ version[u] > 0
  /\ Goto(c, Proved(u, version[u]))
  /\ UNCHANGED <<row, book, history>>

\* startSession, for Register and Login.
StartSession(c, h) ==
  /\ req[c].at = "proved"
  /\ LET u == req[c].user
         dropping(d) == req[d].at = "listed" /\ req[d].user = u /\ req[d].keep = None
     IN /\ Book!PutSession(h, u)
        /\ born' = [born EXCEPT ![h] = req[c].version]
        /\ seen' = [seen EXCEPT ![h] = version[u]]
        /\ raced' = IF \E d \in Client : dropping(d) THEN raced \cup {h} ELSE raced
  /\ Goto(c, Idle)
  /\ UNCHANGED <<row, cut>>

\* withAuth and Current: the session names the user; the touch that follows
\* does not show in the book.
Current(c, h) ==
  /\ req[c] = Idle
  /\ h \in Live
  /\ Goto(c, Authed(owner[h], h))
  /\ UNCHANGED <<row, book, history>>

Logout(c) ==
  /\ req[c].at = "authed"
  /\ Book!DeleteSession(req[c].hash, req[c].user)
  /\ ForgetEnded
  /\ Goto(c, Idle)
  /\ UNCHANGED row

\* ChangePassword: read the row and compare the current password ...
ComparePassword(c) ==
  /\ req[c].at = "authed"
  /\ Goto(c, Compared(req[c].user, req[c].hash))
  /\ UNCHANGED <<row, book, history>>

\* Mutant of UpdatePassword: it returns without revoking.
UpdatePasswordOnly(c) ==
  /\ req[c].at = "compared"
  /\ version[req[c].user] < MaxVersion
  /\ version' = [version EXCEPT ![req[c].user] = @ + 1]
  /\ born' = [born EXCEPT ![req[c].hash] = version[req[c].user] + 1]
  /\ Goto(c, Idle)
  /\ UNCHANGED <<mailed, book, seen, raced, cut>>

\* ... then store the new one, whatever the row holds by now.  The caller just
\* proved itself, so its own session counts as opened under the new password.
UpdatePassword(c) ==
  /\ req[c].at = "compared"
  /\ LET u == req[c].user
         h == req[c].hash
         v == version[u] + 1
     IN /\ v <= MaxVersion
        /\ version' = [version EXCEPT ![u] = v]
        /\ born' = [born EXCEPT ![h] = IF h \in Live THEN v ELSE @]
        /\ Goto(c, Written(u, v, h))
  /\ UNCHANGED <<mailed, book, seen, raced, cut>>

\* BindEmail or VerifyEmail gives the row of the user a verified address; the
\* AuthTokens module has the steps.
HaveMail(c) ==
  /\ req[c].at = "authed"
  /\ mailed' = mailed \cup {req[c].user}
  /\ Goto(c, Idle)
  /\ UNCHANGED <<version, book, history>>

\* ResetPassword redeems a token mailed to u and stores the new password.
ResetPassword(c, u) ==
  /\ req[c] = Idle
  /\ u \in mailed
  /\ version[u] \in 1..(MaxVersion - 1)
  /\ version' = [version EXCEPT ![u] = @ + 1]
  /\ Goto(c, Written(u, version[u] + 1, None))
  /\ UNCHANGED <<mailed, book, history>>

\* deleteUserSessions: SMEMBERS ...
ListSessions(c) ==
  /\ req[c].at = "written"
  /\ Goto(c, Listed(req[c], index[req[c].user]))
  /\ UNCHANGED <<row, book, history>>

\* Mutant of DeleteListed: the session to keep is the only one deleted.
DeleteOnlyKept(c) ==
  /\ req[c].at = "listed"
  /\ Book!DropSessions(req[c].user, req[c].members \cap {req[c].keep}, None)
  /\ ForgetEnded
  /\ Goto(c, Idle)
  /\ UNCHANGED row

\* ... then one transaction that deletes what was listed.
DeleteListed(c) ==
  /\ req[c].at = "listed"
  /\ Book!DropSessions(req[c].user, req[c].members, req[c].keep)
  /\ ForgetEnded
  /\ Goto(c, Idle)
  /\ UNCHANGED row

\* A request that only needed to be authenticated, or whose password was wrong.
Leave(c) ==
  /\ req[c].at \in {"authed", "compared"}
  /\ Goto(c, Idle)
  /\ UNCHANGED <<row, book, history>>

\* The next trip fails or the client hangs up: the error returns and nothing
\* that was done is undone.
Fail(c) ==
  /\ Failures
  /\ req[c].at \in {"proved", "written", "listed"}
  /\ cut' = [cut EXCEPT ![req[c].user] =
               IF req[c].at # "proved" /\ req[c].version > @ THEN req[c].version ELSE @]
  /\ Goto(c, Idle)
  /\ UNCHANGED <<row, book, born, seen, raced>>

Expire(H, U) ==
  /\ Book!Expire(H, U)
  /\ ForgetEnded
  /\ UNCHANGED <<row, req>>

\* The steps a request that has begun takes on its own.
Proceed(c) ==
  \/ \E h \in Hash : StartSession(c, h)
  \/ UpdatePassword(c)
  \/ ListSessions(c)
  \/ DeleteListed(c)

Next ==
  \/ \E c \in Client, u \in User : Register(c, u) \/ Login(c, u) \/ ResetPassword(c, u)
  \/ \E c \in Client, h \in Hash : Current(c, h)
  \/ \E c \in Client : Logout(c) \/ HaveMail(c) \/ ComparePassword(c) \/ Leave(c) \/ Fail(c)
  \/ \E c \in Client : Proceed(c)
  \/ \E H \in SUBSET Live, U \in SUBSET User : Expire(H, U)

Spec == Init /\ [][Next]_vars

\* The server runs every goroutine and every trip returns.
FairSpec == Spec /\ \A c \in Client : WF_vars(Proceed(c))

-----------------------------------------------------------------------------
\* The session was opened, or renewed by a password change made from it,
\* under an older password than the one in the row.
Stale(h) == h \in Live /\ born[h] < version[owner[h]]

\* Its login had compared a password that was replaced before it was stored.
Late(h) == born[h] < seen[h]

\* Request c is still going to delete session h.
WillDelete(c, h) ==
  \/ req[c].at = "written" /\ req[c].user = owner[h] /\ req[c].keep # h
  \/ req[c].at = "listed" /\ h \in req[c].members \ {req[c].keep}

\* A session opened under an old password is live only while the revocation
\* that the password write promised is on its way, or for one of three causes:
\* its login overtook the write, it was stored between the two trips of a
\* reset's revocation, or that revocation was cut short.
StaleSessionExplained ==
  \A h \in Hash : Stale(h) =>
    \/ \E c \in Client : WillDelete(c, h)
    \/ Late(h)
    \/ h \in raced
    \/ born[h] < cut[owner[h]]

\* Every old session that overtook neither the password write nor a reset's
\* revocation does end, or proves the new password, unless a failure cuts the
\* revocation short.
OldSessionsEnd ==
  \A h \in Hash :
    (Stale(h) /\ ~Late(h) /\ h \notin raced)
      ~> (Stale(h) => born[h] < cut[owner[h]])

\* "Old sessions are revoked after a password is changed or reset"
\* (docs/CODE_REVIEW.md:32): once no request is in flight, every live session
\* was opened under the password in force.
OldSessionsRevoked ==
  (\A c \in Client : req[c] = Idle) => \A h \in Hash : ~Stale(h)
=============================================================================

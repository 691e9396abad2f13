--------------------------- MODULE AccountsProofs ---------------------------
(***************************************************************************)
(* Theorems about passwords and sessions, for every set of users, session  *)
(* hashes and requests and every bound on the versions of a password.      *)
(***************************************************************************)
EXTENDS Accounts, TLAPS

\* Whoever has a session, or is about to have one, has a row.
Rows ==
  /\ \A h \in Live : version[owner[h]] > 0
  /\ \A c \in Client : req[c].at = "proved" => version[req[c].user] > 0

\* What an index lists, and what a request remembers of a session, was stored
\* once and still belongs to that user or to nobody.
Of(h, u) == h \in issued /\ Book!OwnedOrGone(h, u)
Provenance ==
  /\ \A h \in Live : h \in issued
  /\ \A u \in User : \A h \in index[u] : Of(h, u)
  /\ \A c \in Client :
       /\ req[c].at \in {"authed", "compared"} => Of(req[c].hash, req[c].user)
       /\ req[c].at = "listed" => \A h \in req[c].members : Of(h, req[c].user)

\* The index finds a session, unless a reset's revocation was under way when it
\* was stored; such a revocation has listed all the others.
Indexed == \A h \in Live \ raced : h \in index[owner[h]]
Covered ==
  \A c \in Client : req[c].at = "listed" /\ req[c].keep = None =>
    \A h \in Live \ raced : owner[h] = req[c].user => h \in req[c].members

\* StaleSessionExplained, and the revocation that is going to end the session
\* was promised by a password newer than the one the session proves.
Promised(c, h) == WillDelete(c, h) /\ born[h] < req[c].version
Explained(h) ==
  \/ \E c \in Client : Promised(c, h)
  \/ Late(h)
  \/ h \in raced
  \/ born[h] < cut[owner[h]]
Explanation == \A h \in Hash : Stale(h) => Explained(h)

\* The inductive invariant.
IInv == TypeOK /\ Rows /\ Provenance /\ Indexed /\ Covered /\ Explanation

-----------------------------------------------------------------------------
\* The shape of the record of a request in each place.
LEMMA ReqShape ==
  ASSUME TypeOK, NEW c \in Client
  PROVE  /\ req[c] = Idle \/ req[c].at # "idle"
         /\ req[c].at = "proved" => req[c].user \in User /\ req[c].version \in Version
         /\ req[c].at \in {"authed", "compared"} => req[c].user \in User /\ req[c].hash \in Hash
         /\ req[c].at \in {"written", "listed"} =>
              /\ req[c].user \in User
              /\ req[c].version \in Version
              /\ req[c].keep \in Hash \cup {None}
         /\ req[c].at = "listed" => req[c].members \in SUBSET Hash
  BY DEF TypeOK, Request, Idle

\* The records that requests are set to.
LEMMA Places ==
  /\ Idle \in Request /\ Idle.at = "idle"
  /\ \A u \in User, v \in Version :
       /\ Proved(u, v) \in Request
       /\ Proved(u, v).at = "proved" /\ Proved(u, v).user = u
  /\ \A u \in User, h \in Hash :
       /\ Authed(u, h) \in Request
       /\ Authed(u, h).at = "authed" /\ Authed(u, h).user = u /\ Authed(u, h).hash = h
       /\ Compared(u, h) \in Request
       /\ Compared(u, h).at = "compared" /\ Compared(u, h).user = u /\ Compared(u, h).hash = h
  /\ \A u \in User, v \in Version, k \in Hash \cup {None} :
       /\ Written(u, v, k) \in Request
       /\ Written(u, v, k).at = "written" /\ Written(u, v, k).user = u
       /\ Written(u, v, k).version = v /\ Written(u, v, k).keep = k
  BY DEF Request, Idle, Proved, Authed, Compared, Written

\* The record a revocation is set to once it has listed the sessions.
LEMMA ListedPlace ==
  ASSUME TypeOK, NEW c \in Client, req[c].at = "written", NEW members \in SUBSET Hash
  PROVE  /\ Listed(req[c], members) \in Request
         /\ Listed(req[c], members).at = "listed"
         /\ Listed(req[c], members).user = req[c].user
         /\ Listed(req[c], members).version = req[c].version
         /\ Listed(req[c], members).keep = req[c].keep
         /\ Listed(req[c], members).members = members
<1>1. /\ req[c].user \in User /\ req[c].version \in Version
      /\ req[c].keep \in Hash \cup {None}
  BY ReqShape
<1> QED BY <1>1 DEF Listed, Request

\* A request is moved and the others stay.
LEMMA Moved ==
  ASSUME TypeOK, NEW c \in Client, NEW r, Goto(c, r)
  PROVE  /\ req'[c] = r /\ \A d \in Client \ {c} : req'[d] = req[d]
         /\ r \in Request => req' \in [Client -> Request]
  BY DEF Goto, TypeOK

\* The initial states satisfy the invariant.
LEMMA InitInv == Init => IInv
<1> SUFFICES ASSUME Init PROVE IInv
  OBVIOUS
<1> USE BoundAssumption DEF Init, Book!Init
<1>1. TypeOK
  BY Places DEF TypeOK, Version
<1>2. Live = {} /\ \A c \in Client : req[c].at = "idle"
  BY Places DEF Live
<1> QED BY <1>1, <1>2 DEF IInv, Rows, Provenance, Indexed, Covered, Explanation, Stale

\* What the history forgets keeps its type.
LEMMA ForgetTypes ==
  ASSUME TypeOK, ForgetEnded
  PROVE  /\ born' \in [Hash -> Version] /\ seen' \in [Hash -> Version]
         /\ raced' \subseteq Hash /\ cut' \in [User -> Version]
<1>1. 0 \in Version
  BY BoundAssumption DEF Version
<1> QED BY <1>1 DEF ForgetEnded, TypeOK

\* Every step keeps the types.
LEMMA TypeStep == ASSUME TypeOK, [Next]_vars PROVE TypeOK'
<1> USE DEF book, history, row
<1>1. ASSUME NEW c \in Client, NEW u \in User, Register(c, u) PROVE TypeOK'
  <2>1. 1 \in Version
    BY BoundAssumption DEF Version
  <2> QED BY <1>1, <2>1, Places, Moved DEF Register, TypeOK
<1>2. ASSUME NEW c \in Client, NEW u \in User, Login(c, u) PROVE TypeOK'
  <2>1. version[u] \in Version
    BY DEF TypeOK
  <2> QED BY <1>2, <2>1, Places, Moved DEF Login, TypeOK
<1>3. ASSUME NEW c \in Client, NEW u \in User, ResetPassword(c, u) PROVE TypeOK'
  <2>1. version[u] + 1 \in Version
    BY <1>3, BoundAssumption DEF ResetPassword, Version
  <2> QED BY <1>3, <2>1, Places, Moved DEF ResetPassword, TypeOK
<1>4. ASSUME NEW c \in Client, NEW h \in Hash, Current(c, h) PROVE TypeOK'
  <2>1. owner[h] \in User
    BY <1>4 DEF Current, Live, TypeOK
  <2> QED BY <1>4, <2>1, Places, Moved DEF Current, TypeOK
<1>5. ASSUME NEW c \in Client, Logout(c) PROVE TypeOK'
  <2>1. req[c].user \in User /\ req[c].hash \in Hash
    BY <1>5, ReqShape DEF Logout
  <2> QED BY <1>5, <2>1, ForgetTypes, Places, Moved DEF Logout, Book!DeleteSession, TypeOK
<1>6. ASSUME NEW c \in Client, HaveMail(c) PROVE TypeOK'
  BY <1>6, ReqShape, Places, Moved DEF HaveMail, TypeOK
<1>7. ASSUME NEW c \in Client, ComparePassword(c) PROVE TypeOK'
  BY <1>7, ReqShape, Places, Moved DEF ComparePassword, TypeOK
<1>8. ASSUME NEW c \in Client, Leave(c) PROVE TypeOK'
  BY <1>8, Places, Moved DEF Leave, TypeOK
<1>9. ASSUME NEW c \in Client, Fail(c) PROVE TypeOK'
  <2>1. /\ req[c].user \in User
        /\ req[c].at # "proved" => req[c].version \in Version
    BY <1>9, ReqShape DEF Fail
  <2> QED BY <1>9, <2>1, Places, Moved DEF Fail, TypeOK
<1>10. ASSUME NEW c \in Client, NEW h \in Hash, StartSession(c, h) PROVE TypeOK'
  <2>1. req[c].user \in User /\ req[c].version \in Version
    BY <1>10, ReqShape DEF StartSession
  <2> QED BY <1>10, <2>1, Places, Moved DEF StartSession, Book!PutSession, TypeOK
<1>11. ASSUME NEW c \in Client, UpdatePassword(c) PROVE TypeOK'
  <2>1. req[c].user \in User /\ req[c].hash \in Hash
    BY <1>11, ReqShape DEF UpdatePassword
  <2>2. version[req[c].user] + 1 \in Version
    BY <1>11, <2>1, BoundAssumption DEF UpdatePassword, Version, TypeOK
  <2> QED BY <1>11, <2>1, <2>2, Places, Moved DEF UpdatePassword, TypeOK
<1>12. ASSUME NEW c \in Client, ListSessions(c) PROVE TypeOK'
  <2>1. index[req[c].user] \in SUBSET Hash /\ req[c].at = "written"
    BY <1>12, ReqShape DEF ListSessions, TypeOK
  <2> QED BY <1>12, <2>1, ListedPlace, Moved DEF ListSessions, TypeOK
<1>13. ASSUME NEW c \in Client, DeleteListed(c) PROVE TypeOK'
  <2>1. req[c].user \in User
    BY <1>13, ReqShape DEF DeleteListed
  <2> QED BY <1>13, <2>1, ForgetTypes, Places, Moved DEF DeleteListed, Book!DropSessions, TypeOK
<1>14. ASSUME NEW H \in SUBSET Live, NEW U \in SUBSET User, Expire(H, U) PROVE TypeOK'
  BY <1>14, ForgetTypes DEF Expire, Book!Expire, TypeOK
<1>15. CASE UNCHANGED vars
  BY <1>15 DEF vars, TypeOK
<1> QED
  BY <1>1, <1>2, <1>3, <1>4, <1>5, <1>6, <1>7, <1>8, <1>9, <1>10, <1>11, <1>12, <1>13, <1>14,
     <1>15
  DEF Next, Proceed

-----------------------------------------------------------------------------
\* A logout, the end of a revocation, and time: steps that only end sessions.
Ending ==
  \/ \E c \in Client : Logout(c) \/ DeleteListed(c)
  \/ \E H \in SUBSET Live, U \in SUBSET User : Expire(H, U)

\* What such a step leaves as it is.
LEMMA Ends ==
  ASSUME TypeOK, Ending
  PROVE  /\ \A h \in Hash : owner'[h] \in {owner[h], None}
         /\ Live' \subseteq Live
         /\ \A u \in User : index'[u] \subseteq index[u]
         /\ \A h \in Live' :
              /\ owner'[h] = owner[h] /\ born'[h] = born[h] /\ seen'[h] = seen[h]
              /\ h \in raced' <=> h \in raced
         /\ UNCHANGED <<version, issued, cut>>
         /\ \A d \in Client : req'[d] \in {req[d], Idle}
<1> USE DEF TypeOK, Live, ForgetEnded, row
<1>1. ASSUME NEW c \in Client, Logout(c)
      PROVE  /\ \A h \in Hash : owner'[h] \in {owner[h], None}
             /\ \A u \in User : index'[u] \subseteq index[u]
             /\ UNCHANGED issued
    BY <1>1, ReqShape DEF Logout, Book!DeleteSession
<1>2. ASSUME NEW c \in Client, DeleteListed(c)
      PROVE  /\ \A h \in Hash : owner'[h] \in {owner[h], None}
             /\ \A u \in User : index'[u] \subseteq index[u]
             /\ UNCHANGED issued
    BY <1>2, ReqShape DEF DeleteListed, Book!DropSessions
<1>3. ASSUME NEW H \in SUBSET Live, NEW U \in SUBSET User, Expire(H, U)
      PROVE  /\ \A h \in Hash : owner'[h] \in {owner[h], None}
             /\ \A u \in User : index'[u] \subseteq index[u]
             /\ UNCHANGED issued
    BY <1>3 DEF Expire, Book!Expire
<1>4. /\ \A h \in Hash : owner'[h] \in {owner[h], None}
      /\ \A u \in User : index'[u] \subseteq index[u]
      /\ UNCHANGED issued
  BY <1>1, <1>2, <1>3 DEF Ending
<1>5. ForgetEnded /\ UNCHANGED version /\ \A d \in Client : req'[d] \in {req[d], Idle}
  BY DEF Ending, Logout, DeleteListed, Expire, Goto
<1> QED BY <1>4, <1>5

\* A version is never taken back.
LEMMA Grows ==
  ASSUME TypeOK, [Next]_vars
  PROVE  \A u \in User : version'[u] >= version[u]
<1>1. \A u \in User : version[u] \in Nat
  BY BoundAssumption DEF TypeOK, Version
<1>2. ASSUME NEW c \in Client, UpdatePassword(c)
      PROVE  \A u \in User : version'[u] >= version[u]
  BY <1>1, <1>2 DEF UpdatePassword, TypeOK
<1>3. ASSUME NEW c \in Client, NEW w \in User, Register(c, w) \/ ResetPassword(c, w)
      PROVE  \A u \in User : version'[u] >= version[u]
  BY <1>1, <1>3 DEF Register, ResetPassword, TypeOK
<1>4. CASE UNCHANGED version
  BY <1>1, <1>4
<1> QED
  BY <1>2, <1>3, <1>4
  DEF Next, Proceed, Login, Current, Logout, HaveMail, ComparePassword, Leave, Fail, StartSession,
      ListSessions, DeleteListed, Expire, vars, row

\* A session is stored for whoever has proved a password, and a password is
\* proved against a row.
LEMMA RowsStep == ASSUME TypeOK, Rows, [Next]_vars PROVE Rows'
<1> USE DEF book, history, row
<1>0. /\ \A u \in User : version[u] \in Nat /\ version'[u] \in Nat /\ version'[u] >= version[u]
      /\ \A h \in Live : owner[h] \in User
  BY Grows, TypeStep, BoundAssumption DEF TypeOK, Version, Live
<1>1. ASSUME NEW c \in Client, NEW u \in User, version'[u] > 0, UNCHANGED owner,
             \E v \in Version : Goto(c, Proved(u, v))
      PROVE  Rows'
  BY <1>0, <1>1, Moved, Places, ReqShape DEF Rows, Live
<1>2. ASSUME NEW c \in Client, UNCHANGED owner, req'[c].at # "proved",
             \A d \in Client \ {c} : req'[d] = req[d]
      PROVE  Rows'
  BY <1>0, <1>2, ReqShape DEF Rows, Live
<1>3. ASSUME NEW c \in Client, NEW u \in User, Register(c, u) PROVE Rows'
  <2>1. 1 \in Version /\ version'[u] = 1
    BY <1>3, BoundAssumption DEF Register, Version, TypeOK
  <2> QED BY <1>1, <1>3, <2>1 DEF Register
<1>4. ASSUME NEW c \in Client, NEW u \in User, Login(c, u) PROVE Rows'
  BY <1>1, <1>4 DEF Login, TypeOK
<1>5. ASSUME NEW c \in Client, NEW u \in User, ResetPassword(c, u) PROVE Rows'
  BY <1>2, <1>5, Moved DEF ResetPassword, Written
<1>6. ASSUME NEW c \in Client, NEW h \in Hash, Current(c, h) PROVE Rows'
  BY <1>2, <1>6, Moved DEF Current, Authed
<1>7. ASSUME NEW c \in Client, HaveMail(c) \/ ComparePassword(c) \/ Leave(c) \/ Fail(c) PROVE Rows'
  BY <1>2, <1>7, Moved DEF HaveMail, ComparePassword, Leave, Fail, Compared, Idle
<1>8. ASSUME NEW c \in Client, NEW h \in Hash, StartSession(c, h) PROVE Rows'
  <2>1. /\ req[c].at = "proved" /\ version[req[c].user] > 0 /\ UNCHANGED version
        /\ owner' = [owner EXCEPT ![h] = req[c].user]
    BY <1>8 DEF StartSession, Book!PutSession, Rows
  <2>2. \A g \in Live' : g = h \/ (g \in Live /\ owner'[g] = owner[g])
    BY <2>1 DEF Live, TypeOK
  <2>3. owner'[h] = req[c].user
    BY <2>1 DEF TypeOK
  <2>4. req'[c].at = "idle" /\ \A d \in Client \ {c} : req'[d] = req[d]
    BY <1>8, Moved, Places DEF StartSession
  <2> QED BY <2>1, <2>2, <2>3, <2>4 DEF Rows
<1>9. ASSUME NEW c \in Client, UpdatePassword(c) PROVE Rows'
  BY <1>2, <1>9, Moved DEF UpdatePassword, Written
<1>10. ASSUME NEW c \in Client, ListSessions(c) PROVE Rows'
  BY <1>2, <1>10, Moved DEF ListSessions, Listed
<1>11. CASE Ending
  <2>1. /\ UNCHANGED version /\ Live' \subseteq Live
        /\ \A h \in Live' : owner'[h] = owner[h]
    BY <1>11, Ends
  <2>2. \A d \in Client : req'[d] \in {req[d], Idle}
    BY <1>11, Ends
  <2> QED BY <2>1, <2>2, Places DEF Rows
<1>12. CASE UNCHANGED vars
  BY <1>12 DEF vars, Rows, Live
<1> QED
  BY <1>3, <1>4, <1>5, <1>6, <1>7, <1>8, <1>9, <1>10, <1>11, <1>12
  DEF Next, Proceed, Ending

-----------------------------------------------------------------------------
\* What Of says of a session stays true: no hash is stored twice.
LEMMA OfStays ==
  ASSUME TypeOK, [Next]_vars
  PROVE  \A h \in Hash, u \in User :
           Of(h, u) => h \in issued' /\ owner'[h] \in {u, None}
<1> SUFFICES ASSUME NEW h \in Hash, NEW u \in User, Of(h, u)
             PROVE  h \in issued' /\ owner'[h] \in {u, None}
  OBVIOUS
<1> USE DEF Of, Book!OwnedOrGone, book, history
<1>1. ASSUME NEW c \in Client, NEW g \in Hash, StartSession(c, g)
      PROVE  h \in issued' /\ owner'[h] \in {u, None}
  <2>1. g \notin issued /\ owner' = [owner EXCEPT ![g] = req[c].user] /\ issued' = issued \cup {g}
    BY <1>1 DEF StartSession, Book!PutSession
  <2> QED BY <2>1 DEF TypeOK
<1>2. CASE Ending
  <2>1. owner'[h] \in {owner[h], None} /\ UNCHANGED issued
    BY <1>2, Ends
  <2> QED BY <2>1
<1>3. CASE UNCHANGED <<owner, issued>>
  BY <1>3
<1> QED
  BY <1>1, <1>2, <1>3
  DEF Next, Proceed, Ending, Register, Login, ResetPassword, Current, HaveMail, ComparePassword,
      Leave, Fail, UpdatePassword, ListSessions, vars

\* What is stored is stored under a fresh hash and listed for its user; a
\* request remembers what it found in the book.
LEMMA ProvenanceStep == ASSUME TypeOK, Provenance, [Next]_vars PROVE Provenance'
<1> DEFINE Safe(h, u) == h \in issued' /\ owner'[h] \in {u, None}
<1> USE DEF book, history, row
<1>0. /\ \A u \in User : \A h \in index[u] : Safe(h, u)
      /\ \A c \in Client :
           /\ req[c].at \in {"authed", "compared"} => Safe(req[c].hash, req[c].user)
           /\ req[c].at = "listed" => \A h \in req[c].members : Safe(h, req[c].user)
  BY OfStays, ReqShape DEF Provenance, TypeOK
<1>a. ASSUME \A u \in User : \A h \in index'[u] : Safe(h, u),
              \A h \in Live' : h \in issued',
              \A c \in Client :
                /\ req'[c].at \in {"authed", "compared"} => Safe(req'[c].hash, req'[c].user)
                /\ req'[c].at = "listed" => \A h \in req'[c].members : Safe(h, req'[c].user)
       PROVE  Provenance'
  BY <1>a DEF Provenance, Of, Book!OwnedOrGone
<1> HIDE DEF Safe
<1>1. ASSUME UNCHANGED <<owner, index, issued>>, NEW c \in Client,
             \A d \in Client \ {c} : req'[d] = req[d],
             \/ req'[c].at \notin {"authed", "compared", "listed"}
             \/ req'[c].at \in {"authed", "compared"} /\ Safe(req'[c].hash, req'[c].user)
             \/ req'[c].at = "listed" /\ \A h \in req'[c].members : Safe(h, req'[c].user)
      PROVE  Provenance'
  <2>1. \A h \in Live' : h \in issued'
    BY <1>1 DEF Live, Provenance
  <2> QED BY <1>0, <1>a, <1>1, <2>1
<1>2. ASSUME NEW c \in Client, NEW u \in User, Register(c, u) \/ Login(c, u) \/ ResetPassword(c, u)
      PROVE  Provenance'
  <2>1. PICK r : Goto(c, r) /\ r.at \in {"proved", "written"}
    BY <1>2 DEF Register, Login, ResetPassword, Proved, Written
  <2> QED BY <1>1, <1>2, <2>1, Moved DEF Register, Login, ResetPassword
<1>3. ASSUME NEW c \in Client, NEW h \in Hash, Current(c, h) PROVE Provenance'
  <2>1. owner[h] \in User /\ h \in issued /\ UNCHANGED <<owner, index, issued>>
    BY <1>3 DEF Current, Live, Provenance, TypeOK
  <2>2. Safe(h, owner[h])
    BY <2>1 DEF Safe
  <2>3. req'[c] = Authed(owner[h], h) /\ \A d \in Client \ {c} : req'[d] = req[d]
    BY <1>3, Moved DEF Current
  <2>4. req'[c].at = "authed" /\ req'[c].hash = h /\ req'[c].user = owner[h]
    BY <2>3 DEF Authed
  <2> QED BY <1>1, <2>1, <2>2, <2>3, <2>4
<1>4. ASSUME NEW c \in Client, HaveMail(c) \/ Leave(c) \/ Fail(c) PROVE Provenance'
  BY <1>1, <1>4, Moved, Places DEF HaveMail, Leave, Fail
<1>5. ASSUME NEW c \in Client, ComparePassword(c) PROVE Provenance'
  <2>1. req[c].at = "authed" /\ UNCHANGED <<owner, index, issued>>
    BY <1>5 DEF ComparePassword
  <2>2. /\ req'[c] = Compared(req[c].user, req[c].hash)
        /\ \A d \in Client \ {c} : req'[d] = req[d]
    BY <1>5, Moved DEF ComparePassword
  <2>3. req'[c].at = "compared" /\ req'[c].hash = req[c].hash /\ req'[c].user = req[c].user
    BY <2>2 DEF Compared
  <2> QED BY <1>0, <1>1, <2>1, <2>2, <2>3
<1>6. ASSUME NEW c \in Client, UpdatePassword(c) PROVE Provenance'
  <2>1. PICK r : Goto(c, r) /\ r.at = "written"
    BY <1>6 DEF UpdatePassword, Written
  <2> QED BY <1>1, <1>6, <2>1, Moved DEF UpdatePassword
<1>7. ASSUME NEW c \in Client, ListSessions(c) PROVE Provenance'
  <2>1. /\ req[c].at = "written" /\ req[c].user \in User
        /\ Goto(c, Listed(req[c], index[req[c].user]))
        /\ UNCHANGED <<owner, index, issued>>
    BY <1>7, ReqShape DEF ListSessions
  <2>2. /\ req'[c] = Listed(req[c], index[req[c].user])
        /\ \A d \in Client \ {c} : req'[d] = req[d]
    BY <2>1, Moved
  <2>3. /\ req'[c].at = "listed" /\ req'[c].user = req[c].user
        /\ req'[c].members = index[req[c].user]
    BY <2>2 DEF Listed
  <2> QED BY <1>0, <1>1, <2>1, <2>2, <2>3
<1>8. ASSUME NEW c \in Client, NEW g \in Hash, StartSession(c, g) PROVE Provenance'
  <2>1. /\ req[c].user \in User
        /\ owner' = [owner EXCEPT ![g] = req[c].user] /\ issued' = issued \cup {g}
        /\ index' = [index EXCEPT ![req[c].user] = @ \cup {g}]
    BY <1>8, ReqShape DEF StartSession, Book!PutSession
  <2>2. Safe(g, req[c].user) /\ \A h \in Live' : h \in issued'
    BY <2>1 DEF Safe, Live, TypeOK, Provenance
  <2>3. \A u \in User : \A h \in index'[u] : h \in index[u] \/ (h = g /\ u = req[c].user)
    BY <2>1 DEF TypeOK
  <2>4. req'[c].at = "idle" /\ \A d \in Client \ {c} : req'[d] = req[d]
    BY <1>8, Moved, Places DEF StartSession
  <2> QED BY <1>0, <1>a, <2>2, <2>3, <2>4
<1>9. CASE Ending
  <2>1. Live' \subseteq Live /\ UNCHANGED issued /\ \A u \in User : index'[u] \subseteq index[u]
    BY <1>9, Ends
  <2>2. \A d \in Client : req'[d] \in {req[d], Idle}
    BY <1>9, Ends
  <2>3. \A h \in Live' : h \in issued'
    BY <2>1 DEF Provenance
  <2> QED BY <1>0, <1>a, <2>1, <2>2, <2>3, Places
<1>10. CASE UNCHANGED vars
  BY <1>10 DEF vars, Provenance, Of, Live, Book!OwnedOrGone
<1> QED
  BY <1>2, <1>3, <1>4, <1>5, <1>6, <1>7, <1>8, <1>9, <1>10 DEF Next, Proceed, Ending

\* Most steps leave the book and what was raced alone, and no step but
\* ListSessions makes a request one that has listed the sessions.
BookStays == UNCHANGED <<owner, index, issued, raced>>
LEMMA Quiet ==
  ASSUME TypeOK, [Next]_vars
  PROVE  \/ \E c \in Client : (\E h \in Hash : StartSession(c, h)) \/ ListSessions(c)
         \/ Ending
         \/ BookStays /\ \A d \in Client : req'[d] = req[d] \/ req'[d].at # "listed"
<1> USE DEF book, history, BookStays
<1>1. ASSUME NEW c \in Client, NEW r, Goto(c, r), r.at # "listed"
      PROVE  \A d \in Client : req'[d] = req[d] \/ req'[d].at # "listed"
  BY <1>1, Moved
<1>2. ASSUME NEW c \in Client, NEW u \in User, Register(c, u) \/ Login(c, u) \/ ResetPassword(c, u)
      PROVE  BookStays /\ \A d \in Client : req'[d] = req[d] \/ req'[d].at # "listed"
  <2>1. PICK r : Goto(c, r) /\ r.at # "listed"
    BY <1>2 DEF Register, Login, ResetPassword, Proved, Written
  <2> QED BY <1>1, <1>2, <2>1 DEF Register, Login, ResetPassword
<1>3. ASSUME NEW c \in Client, NEW h \in Hash, Current(c, h)
      PROVE  BookStays /\ \A d \in Client : req'[d] = req[d] \/ req'[d].at # "listed"
  <2>1. PICK r : Goto(c, r) /\ r.at # "listed"
    BY <1>3 DEF Current, Authed
  <2> QED BY <1>1, <1>3, <2>1 DEF Current
<1>4. ASSUME NEW c \in Client,
             \/ HaveMail(c) \/ ComparePassword(c) \/ Leave(c) \/ Fail(c)
             \/ UpdatePassword(c)
      PROVE  BookStays /\ \A d \in Client : req'[d] = req[d] \/ req'[d].at # "listed"
  <2>1. PICK r : Goto(c, r) /\ r.at # "listed"
    BY <1>4 DEF HaveMail, ComparePassword, Leave, Fail, UpdatePassword, Idle, Compared, Written
  <2> QED BY <1>1, <1>4, <2>1 DEF HaveMail, ComparePassword, Leave, Fail, UpdatePassword
<1>5. CASE UNCHANGED vars
  BY <1>5 DEF vars
<1> QED BY <1>2, <1>3, <1>4, <1>5 DEF Next, Proceed, Ending

\* A session is stored and listed in one transaction, and is deleted with its
\* entry, unless a reset takes the whole index: what that had not listed is raced.
LEMMA IndexedStep ==
  ASSUME TypeOK, Indexed, Covered, [Next]_vars
  PROVE  Indexed'
<1>0. \A h \in Live : h \in Hash /\ owner[h] \in User
  BY DEF Live, TypeOK
<1>1. ASSUME NEW c \in Client, NEW g \in Hash, StartSession(c, g) PROVE Indexed'
  <2>1. /\ req[c].user \in User /\ raced \subseteq raced'
        /\ owner' = [owner EXCEPT ![g] = req[c].user]
        /\ index' = [index EXCEPT ![req[c].user] = @ \cup {g}]
    BY <1>1, ReqShape DEF StartSession, Book!PutSession
  <2>2. g \in index'[owner'[g]]
    BY <2>1 DEF TypeOK
  <2>3. ASSUME NEW h \in Live', h # g, h \notin raced' PROVE h \in index'[owner'[h]]
    <3>1. h \in Live \ raced /\ owner'[h] = owner[h]
      BY <2>1, <2>3 DEF Live, TypeOK
    <3>2. h \in index[owner[h]] /\ index[owner[h]] \subseteq index'[owner[h]]
      BY <1>0, <2>1, <3>1 DEF Indexed, TypeOK
    <3> QED BY <3>1, <3>2
  <2> QED BY <2>2, <2>3 DEF Indexed
<1>2. CASE Ending
  <2> SUFFICES ASSUME NEW h \in Live', h \notin raced'
               PROVE  h \in index'[owner'[h]]
    BY DEF Indexed
  <2>1. h \in Live \ raced /\ owner'[h] = owner[h]
    BY <1>2, Ends
  <2>2. h \in Hash /\ owner[h] \in User /\ owner'[h] # None /\ h \in index[owner[h]]
    BY <1>0, <2>1 DEF Live, Indexed
  <2>3. ASSUME NEW c \in Client, Logout(c) PROVE h \in index'[owner[h]]
    <3>1. /\ owner' = [owner EXCEPT ![req[c].hash] = None]
          /\ index' = [index EXCEPT ![req[c].user] = @ \ {req[c].hash}]
      BY <2>3 DEF Logout, Book!DeleteSession
    <3>2. h # req[c].hash
      BY <2>2, <3>1 DEF TypeOK
    <3> QED BY <2>2, <3>1, <3>2 DEF TypeOK
  <2>4. ASSUME NEW c \in Client, DeleteListed(c) PROVE h \in index'[owner[h]]
    <3> DEFINE gone == req[c].members \ {req[c].keep}
    <3>1. /\ req[c].at = "listed"
          /\ owner' = [g \in Hash |-> IF g \in gone THEN None ELSE owner[g]]
          /\ index' = [index EXCEPT ![req[c].user] =
                         IF req[c].keep = None THEN {} ELSE @ \ gone]
      BY <2>4 DEF DeleteListed, Book!DropSessions
    <3>2. h \notin gone
      BY <2>2, <3>1
    <3>3. req[c].keep = None => owner[h] # req[c].user
      BY <2>1, <2>2, <3>1, <3>2, NoneAssumption DEF Covered
    <3> QED BY <2>2, <3>1, <3>2, <3>3 DEF TypeOK
  <2>5. ASSUME NEW H \in SUBSET Live, NEW U \in SUBSET User, Expire(H, U)
        PROVE  h \in index'[owner[h]]
    <3>1. /\ \A u \in U : index[u] \cap Live \subseteq H
          /\ owner' = [g \in Hash |-> IF g \in H THEN None ELSE owner[g]]
          /\ index' = [u \in User |-> IF u \in U THEN {} ELSE index[u]]
      BY <2>5 DEF Expire, Book!Expire, Live, Book!Live
    <3>2. h \notin H /\ owner[h] \notin U
      BY <2>1, <2>2, <3>1
    <3> QED BY <2>2, <3>1, <3>2
  <2> QED BY <1>2, <2>1, <2>3, <2>4, <2>5 DEF Ending
<1>3. CASE UNCHANGED <<owner, index, raced>>
  BY <1>3 DEF Indexed, Live
<1> QED BY <1>1, <1>2, <1>3, Quiet DEF BookStays, ListSessions, book, history

\* A revocation lists the index; what is stored after that is raced.
LEMMA CoveredStep ==
  ASSUME TypeOK, Indexed, Covered, [Next]_vars
  PROVE  Covered'
<1>0. \A h \in Live : h \in Hash /\ owner[h] \in User
  BY DEF Live, TypeOK
<1>1. ASSUME NEW c \in Client, NEW g \in Hash, StartSession(c, g) PROVE Covered'
  <2>1. /\ owner' = [owner EXCEPT ![g] = req[c].user]
        /\ raced \subseteq raced'
        /\ \A d \in Client : req[d].at = "listed" /\ req[d].user = req[c].user /\ req[d].keep = None
             => g \in raced'
    BY <1>1 DEF StartSession, Book!PutSession
  <2>2. req'[c].at = "idle" /\ \A d \in Client \ {c} : req'[d] = req[d]
    BY <1>1, Moved, Places DEF StartSession
  <2>3. \A h \in Live' \ {g} : h \in Live /\ owner'[h] = owner[h]
    BY <2>1 DEF Live, TypeOK
  <2>4. owner'[g] = req[c].user
    BY <2>1 DEF TypeOK
  <2> QED BY <2>1, <2>2, <2>3, <2>4 DEF Covered
<1>2. ASSUME NEW c \in Client, ListSessions(c) PROVE Covered'
  <2>1. /\ req[c].at = "written" /\ UNCHANGED <<owner, index, raced>>
        /\ req'[c] = Listed(req[c], index[req[c].user])
        /\ \A d \in Client \ {c} : req'[d] = req[d]
    BY <1>2, Moved DEF ListSessions, book, history
  <2>2. req'[c].user = req[c].user /\ req'[c].members = index[req[c].user]
    BY <2>1 DEF Listed
  <2>3. \A h \in Live' \ raced' : h \in Live \ raced /\ owner'[h] = owner[h]
    BY <2>1 DEF Live
  <2> QED BY <2>1, <2>2, <2>3 DEF Covered, Indexed
<1>3. CASE Ending
  <2>1. \A h \in Live' \ raced' : h \in Live \ raced /\ owner'[h] = owner[h]
    BY <1>3, Ends
  <2>2. \A d \in Client : req'[d] \in {req[d], Idle}
    BY <1>3, Ends
  <2> QED BY <2>1, <2>2, Places DEF Covered
<1>4. CASE BookStays /\ \A d \in Client : req'[d] = req[d] \/ req'[d].at # "listed"
  BY <1>4 DEF BookStays, Covered, Live
<1> QED BY <1>1, <1>2, <1>3, <1>4, Quiet

\* A password write makes stale the sessions it is going to end, and no other.
\* What explains a stale session goes only with the session, or becomes another
\* explanation: a revocation that is cut short is remembered, one that lists the
\* sessions finds it.
LEMMA ExplanationStep == ASSUME IInv, [Next]_vars PROVE Explanation'
<1> USE DEF IInv, book, history, row
<1>0. /\ \A h \in Live : h \in Hash /\ owner[h] \in User
      /\ \A h \in Hash : born[h] \in Nat /\ seen[h] \in Nat
      /\ \A u \in User : version[u] \in Nat /\ cut[u] \in Nat
      /\ \A c \in Client : req[c].at \in {"written", "listed"} =>
           req[c].user \in User /\ req[c].version \in Nat
  BY ReqShape, BoundAssumption DEF TypeOK, Version, Live
\* An explanation that is not about the request that moves stays.
<1>1. ASSUME NEW h \in Hash, Explained(h), NEW c \in Client, ~Promised(c, h),
             \A d \in Client \ {c} : req'[d] = req[d],
             owner'[h] = owner[h], born'[h] = born[h], seen'[h] = seen[h],
             h \in raced => h \in raced', cut' = cut
      PROVE  Explained(h)'
  BY <1>1 DEF Explained, Promised, WillDelete, Late
<1>2. ASSUME UNCHANGED <<version, owner, born, seen, raced, cut>>, NEW c \in Client,
             req[c].at \notin {"written", "listed"}, \A d \in Client \ {c} : req'[d] = req[d]
      PROVE  Explanation'
  <2> SUFFICES ASSUME NEW h \in Hash, Stale(h)'
               PROVE  Explained(h)'
    BY DEF Explanation
  <2>1. Explained(h)
    BY <1>2 DEF Explanation, Stale, Live
  <2>2. ~Promised(c, h)
    BY <1>2 DEF Promised, WillDelete
  <2> QED BY <1>1, <1>2, <2>1, <2>2
<1>3. ASSUME NEW c \in Client, NEW u \in User, Login(c, u) PROVE Explanation'
  BY <1>2, <1>3, Moved, Places DEF Login
<1>4. ASSUME NEW c \in Client, NEW h \in Hash, Current(c, h) PROVE Explanation'
  BY <1>2, <1>4, Moved, Places DEF Current
<1>5. ASSUME NEW c \in Client, HaveMail(c) \/ ComparePassword(c) \/ Leave(c) PROVE Explanation'
  BY <1>2, <1>5, Moved, Places DEF HaveMail, ComparePassword, Leave
<1>6. ASSUME NEW c \in Client, NEW u \in User, Register(c, u) PROVE Explanation'
  <2> SUFFICES ASSUME NEW h \in Hash, Stale(h)'
               PROVE  Explained(h)'
    BY DEF Explanation
  <2>1. h \in Live /\ version[u] = 0 /\ version' = [version EXCEPT ![u] = 1]
        /\ UNCHANGED <<owner, born, seen, raced, cut>>
    BY <1>6 DEF Register, Stale, Live
  <2>2. owner[h] # u
    BY <2>1 DEF Rows
  <2>3. Explained(h)
    BY <1>0, <2>1, <2>2 DEF Explanation, Stale, TypeOK
  <2>4. ~Promised(c, h) /\ \A d \in Client \ {c} : req'[d] = req[d]
    BY <1>6, Moved, Places DEF Register, Promised, WillDelete
  <2> QED BY <1>1, <2>1, <2>3, <2>4
<1>7. ASSUME NEW c \in Client, NEW u \in User, ResetPassword(c, u) PROVE Explanation'
  <2> SUFFICES ASSUME NEW h \in Hash, Stale(h)'
               PROVE  Explained(h)'
    BY DEF Explanation
  <2>1. h \in Live /\ version' = [version EXCEPT ![u] = version[u] + 1]
        /\ UNCHANGED <<owner, born, seen, raced, cut>>
    BY <1>7 DEF ResetPassword, Stale, Live
  <2>2. /\ req'[c] = Written(u, version[u] + 1, None)
        /\ \A d \in Client \ {c} : req'[d] = req[d]
        /\ ~Promised(c, h)
    BY <1>7, Moved, Places DEF ResetPassword, Promised, WillDelete
  <2>3. CASE owner[h] = u
    <3>1. born'[h] < version[u] + 1 /\ owner'[h] = u /\ h # None
      BY <1>0, <2>1, <2>3, NoneAssumption DEF Stale, TypeOK
    <3>2. Promised(c, h)'
      BY <2>2, <3>1 DEF Promised, WillDelete, Written
    <3> QED BY <3>2 DEF Explained
  <2>4. CASE owner[h] # u
    <3>1. Explained(h)
      BY <1>0, <2>1, <2>4 DEF Explanation, Stale, TypeOK
    <3> QED BY <1>1, <2>1, <2>2, <3>1
  <2> QED BY <2>3, <2>4
<1>8. ASSUME NEW c \in Client, UpdatePassword(c) PROVE Explanation'
  <2> SUFFICES ASSUME NEW h \in Hash, Stale(h)'
               PROVE  Explained(h)'
    BY DEF Explanation
  <2> DEFINE u == req[c].user
             g == req[c].hash
  <2>1. /\ h \in Live /\ u \in User /\ g \in Hash
        /\ version' = [version EXCEPT ![u] = version[u] + 1]
        /\ born' = [born EXCEPT ![g] = IF g \in Live THEN version[u] + 1 ELSE @]
        /\ UNCHANGED <<owner, seen, raced, cut>>
    BY <1>8, ReqShape DEF UpdatePassword, Stale, Live
  <2>2. /\ req'[c] = Written(u, version[u] + 1, g)
        /\ \A d \in Client \ {c} : req'[d] = req[d]
        /\ ~Promised(c, h)
    BY <1>8, Moved DEF UpdatePassword, Promised, WillDelete
  <2>3. owner[g] \in {u, None}
    BY <1>8 DEF UpdatePassword, Provenance, Of, Book!OwnedOrGone
  <2> HIDE DEF u, g
  <2>4. h # g
    <3>1. CASE h = g
      <4>1. owner[h] = u /\ born'[h] = version[u] + 1 /\ version'[u] = version[u] + 1
        BY <2>1, <2>3, <3>1 DEF Live, TypeOK
      <4> QED BY <1>0, <2>1, <4>1 DEF Stale
    <3> QED BY <3>1
  <2>5. born'[h] = born[h]
    BY <2>1, <2>4 DEF TypeOK
  <2>6. CASE owner[h] = u
    <3>1. born'[h] < version[u] + 1 /\ owner'[h] = u
      BY <1>0, <2>1, <2>6 DEF Stale, TypeOK
    <3>2. Promised(c, h)'
      BY <2>2, <2>4, <3>1 DEF Promised, WillDelete, Written
    <3> QED BY <3>2 DEF Explained
  <2>7. CASE owner[h] # u
    <3>1. Explained(h)
      BY <1>0, <2>1, <2>5, <2>7 DEF Explanation, Stale, TypeOK
    <3> QED BY <1>1, <2>1, <2>2, <2>5, <3>1
  <2> QED BY <2>6, <2>7
<1>9. ASSUME NEW c \in Client, NEW g \in Hash, StartSession(c, g) PROVE Explanation'
  <2> SUFFICES ASSUME NEW h \in Hash, Stale(h)'
               PROVE  Explained(h)'
    BY DEF Explanation
  <2> DEFINE u == req[c].user
  <2>1. /\ u \in User /\ raced \subseteq raced' /\ UNCHANGED <<version, cut>>
        /\ owner' = [owner EXCEPT ![g] = u]
        /\ born' = [born EXCEPT ![g] = req[c].version]
        /\ seen' = [seen EXCEPT ![g] = version[u]]
    BY <1>9, ReqShape DEF StartSession, Book!PutSession
  <2>2. ~Promised(c, h) /\ \A d \in Client \ {c} : req'[d] = req[d]
    BY <1>9, Moved DEF StartSession, Promised, WillDelete
  <2> HIDE DEF u
  <2>3. CASE h = g
    <3>1. Late(h)'
      BY <2>1, <2>3 DEF Late, Stale, TypeOK
    <3> QED BY <3>1 DEF Explained
  <2>4. CASE h # g
    <3>1. owner'[h] = owner[h] /\ born'[h] = born[h] /\ seen'[h] = seen[h]
      BY <2>1, <2>4 DEF TypeOK
    <3>2. Explained(h)
      BY <2>1, <3>1 DEF Explanation, Stale, Live
    <3> QED BY <1>1, <2>1, <2>2, <3>1, <3>2
  <2> QED BY <2>3, <2>4
<1>10. ASSUME NEW c \in Client, ListSessions(c) PROVE Explanation'
  <2> SUFFICES ASSUME NEW h \in Hash, Stale(h)'
               PROVE  Explained(h)'
    BY DEF Explanation
  <2>1. /\ req[c].at = "written" /\ UNCHANGED <<version, owner, born, seen, raced, cut>>
        /\ req'[c] = Listed(req[c], index[req[c].user])
        /\ \A d \in Client \ {c} : req'[d] = req[d]
    BY <1>10, Moved DEF ListSessions
  <2>2. h \in Live /\ Explained(h)
    BY <2>1 DEF Explanation, Stale, Live
  <2>3. CASE Promised(c, h) /\ h \notin raced
    <3>1. h \in index[req[c].user] /\ h # req[c].keep /\ born[h] < req[c].version
      BY <2>1, <2>2, <2>3 DEF Promised, WillDelete, Indexed
    <3>2. Promised(c, h)'
      BY <2>1, <3>1 DEF Promised, WillDelete, Listed
    <3> QED BY <3>2 DEF Explained
  <2>4. CASE h \in raced
    BY <2>1, <2>4 DEF Explained
  <2>5. CASE ~Promised(c, h)
    BY <1>1, <2>1, <2>2, <2>5
  <2> QED BY <2>3, <2>4, <2>5
<1>11. ASSUME NEW c \in Client, Fail(c) PROVE Explanation'
  <2> SUFFICES ASSUME NEW h \in Hash, Stale(h)'
               PROVE  Explained(h)'
    BY DEF Explanation
  <2>1. /\ UNCHANGED <<version, owner, born, seen, raced>>
        /\ cut' = [cut EXCEPT ![req[c].user] =
                     IF req[c].at # "proved" /\ req[c].version > @ THEN req[c].version ELSE @]
        /\ \A d \in Client \ {c} : req'[d] = req[d]
    BY <1>11, Moved DEF Fail
  <2>2. h \in Live /\ owner[h] \in User /\ Explained(h)
    BY <1>0, <2>1 DEF Explanation, Stale, Live
  <2>3. cut'[owner[h]] >= cut[owner[h]]
    <3>1. req[c].at = "proved" \/ (req[c].user \in User /\ req[c].version \in Nat)
      BY <1>0, <1>11 DEF Fail
    <3>2. cut'[owner[h]] = cut[owner[h]] \/
            (req[c].at # "proved" /\ cut'[owner[h]] = req[c].version
               /\ req[c].version > cut[owner[h]])
      BY <2>1, <2>2 DEF TypeOK
    <3> QED BY <1>0, <2>2, <3>1, <3>2
  <2>4. CASE Promised(c, h)
    <3>1. req[c].at \in {"written", "listed"} /\ born[h] < req[c].version
      BY <2>4 DEF Promised, WillDelete
    <3>2. req[c].user = owner[h]
      BY <2>2, <2>4 DEF Promised, WillDelete, Provenance, Of, Book!OwnedOrGone, Live
    <3>3. cut'[owner[h]] >= req[c].version
      BY <1>0, <2>1, <2>2, <3>1, <3>2 DEF TypeOK
    <3>4. cut'[owner[h]] \in Nat
      BY <1>0, <2>1, <2>2, <3>1, <3>2 DEF TypeOK
    <3>5. born'[h] < cut'[owner'[h]]
      BY <1>0, <2>1, <3>1, <3>3, <3>4
    <3> QED BY <3>5 DEF Explained
  <2>5. CASE ~Promised(c, h)
    <3>1. CASE born[h] < cut[owner[h]]
      <4>1. cut'[owner[h]] \in Nat
        BY <2>2, TypeStep, BoundAssumption DEF TypeOK, Version
      <4>2. born'[h] < cut'[owner'[h]]
        BY <1>0, <2>1, <2>2, <2>3, <3>1, <4>1
      <4> QED BY <4>2 DEF Explained
    <3>2. CASE ~(born[h] < cut[owner[h]])
      BY <2>1, <2>2, <2>5, <3>2 DEF Explained, Promised, WillDelete, Late
    <3> QED BY <3>1, <3>2
  <2> QED BY <2>4, <2>5
<1>12. CASE Ending
  <2> SUFFICES ASSUME NEW h \in Hash, Stale(h)'
               PROVE  Explained(h)'
    BY DEF Explanation
  <2>1. h \in Live' /\ h \in Live
    BY <1>12, Ends DEF Stale
  <2>2. /\ owner'[h] = owner[h] /\ born'[h] = born[h] /\ seen'[h] = seen[h]
        /\ h \in raced' <=> h \in raced
        /\ UNCHANGED <<version, cut>>
    BY <1>12, <2>1, Ends
  <2>3. Explained(h) /\ owner'[h] # None
    BY <2>1, <2>2 DEF Explanation, Stale, Live
  <2>4. ASSUME NEW c \in Client, Logout(c) PROVE Explained(h)'
    BY <1>1, <2>2, <2>3, <2>4, Moved DEF Logout, Promised, WillDelete
  <2>5. ASSUME NEW c \in Client, DeleteListed(c) PROVE Explained(h)'
    <3>1. ~Promised(c, h)
      BY <2>3, <2>5 DEF DeleteListed, Book!DropSessions, Promised, WillDelete
    <3> QED BY <1>1, <2>2, <2>3, <2>5, <3>1, Moved DEF DeleteListed
  <2>6. ASSUME UNCHANGED req PROVE Explained(h)'
    BY <2>2, <2>3, <2>6 DEF Explained, Promised, WillDelete, Late
  <2> QED BY <1>12, <2>4, <2>5, <2>6 DEF Ending, Expire
<1>13. CASE UNCHANGED vars
  BY <1>13 DEF vars, Explanation, Stale, Explained, Promised, WillDelete, Late, Live
<1> QED
  BY <1>3, <1>4, <1>5, <1>6, <1>7, <1>8, <1>9, <1>10, <1>11, <1>12, <1>13
  DEF Next, Proceed, Ending

-----------------------------------------------------------------------------
\* The inductive invariant holds in every state.
LEMMA Invariance == Spec => []IInv
<1>1. IInv /\ [Next]_vars => IInv'
  BY TypeStep, RowsStep, ProvenanceStep, IndexedStep, CoveredStep, ExplanationStep DEF IInv
<1> QED BY InitInv, <1>1, PTL DEF Spec

\* Every variable keeps its type.
THEOREM TypeCorrect == Spec => []TypeOK
  BY Invariance, PTL DEF IInv

\* A session opened under an old password is live only while its revocation is
\* on its way, or because its login overtook the write, it was stored inside a
\* reset's revocation, or that was cut short.
THEOREM Stales == Spec => []StaleSessionExplained
<1>1. IInv => StaleSessionExplained
  BY DEF IInv, Explanation, Explained, Promised, StaleSessionExplained
<1> QED BY <1>1, Invariance, PTL
=============================================================================

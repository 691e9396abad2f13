---------------------------- MODULE SessionBook ----------------------------
(***************************************************************************)
(* What the rest of the server may assume of the login sessions kept in    *)
(* Redis (internal/platform/cache/redis.go): a book of live sessions and,  *)
(* for every user, the set of session hashes that a bulk revocation of     *)
(* that user will find.  Time to live, commands and callers in flight are  *)
(* abstracted away; SessionStore describes them and implements this book.  *)
(***************************************************************************)
CONSTANTS User,   \* ids of user rows
          Hash,   \* SHA-256 hashes of session tokens
          None    \* absence of a user or of a hash, in neither set

VARIABLES owner,   \* the user of a session, None when the session is not live
          index,   \* the user-sessions set of each user
          issued   \* every hash a session was ever stored under

vars == <<owner, index, issued>>

Live == {h \in Hash : owner[h] # None}

\* A session that ended and one that never was look the same to a reader.
OwnedOrGone(h, u) == owner[h] \in {u, None}

Init ==
  /\ owner = [h \in Hash |-> None]
  /\ index = [u \in User |-> {}]
  /\ issued = {}

\* RandomToken draws 256 bits, so the hash of a new session was never used.
PutSession(h, u) ==
  /\ h \notin issued
  /\ owner' = [owner EXCEPT ![h] = u]
  /\ index' = [index EXCEPT ![u] = @ \cup {h}]
  /\ issued' = issued \cup {h}

DeleteSession(h, u) ==
  /\ OwnedOrGone(h, u)
  /\ owner' = [owner EXCEPT ![h] = None]
  /\ index' = [index EXCEPT ![u] = @ \ {h}]
  /\ UNCHANGED issued

\* End every session of u in members except keep.  Without one to keep the
\* whole index of u goes too, whatever it lists by now.
DropSessions(u, members, keep) ==
  /\ \A h \in members : OwnedOrGone(h, u)
  /\ owner' = [h \in Hash |-> IF h \in members \ {keep} THEN None ELSE owner[h]]
  /\ index' = [index EXCEPT ![u] = IF keep = None THEN {} ELSE @ \ (members \ {keep})]
  /\ UNCHANGED issued

\* Time ends the sessions H and the indexes of the users U: an index never
\* goes before the last live session it lists.
Expire(H, U) ==
  /\ \A u \in U : index[u] \cap Live \subseteq H
  /\ owner' = [h \in Hash |-> IF h \in H THEN None ELSE owner[h]]
  /\ index' = [u \in User |-> IF u \in U THEN {} ELSE index[u]]
  /\ UNCHANGED issued

Next ==
  \/ \E h \in Hash, u \in User : PutSession(h, u)
  \/ \E h \in Hash, u \in User : DeleteSession(h, u)
  \/ \E u \in User, members \in SUBSET Hash, keep \in Hash \cup {None} :
       DropSessions(u, members, keep)
  \/ \E H \in SUBSET Hash, U \in SUBSET User : Expire(H, U)

Spec == Init /\ [][Next]_vars
=============================================================================

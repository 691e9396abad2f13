---------------------------- MODULE SessionStore ----------------------------
(***************************************************************************)
(* The session half of internal/platform/cache/redis.go.                   *)
(*                                                                         *)
(* Redis holds prefix:session:<hash> -> user id and the set                *)
(* prefix:user-sessions:<id> -> hashes, both with a time to live.  A       *)
(* MULTI/EXEC pipeline is one step; a method that needs two round trips is *)
(* two steps, and the requests of other clients interleave between them.   *)
(* A client is one HTTP request: it looks its session up, touches it, and  *)
(* may then log out or revoke; a password reset revokes without a session. *)
(***************************************************************************)
EXTENDS Naturals

CONSTANTS User, Hash, None,
          Client,  \* HTTP requests in flight
          TTL      \* session_ttl_hours, in ticks

ASSUME NoneAssumption == None \notin User \cup Hash
ASSUME TTLAssumption == TTL \in Nat \ {0}

VARIABLES owner,     \* value of the session key of each hash, None if missing
          ttl,       \* its remaining time to live, 0 if missing
          index,     \* members of the user-sessions key of each user
          indexTtl,  \* its remaining time to live, 0 if missing
          call,      \* what each client is in the middle of
          issued,    \* history: hashes ever stored
          raced      \* history: sessions stored while a whole-index
                     \* revocation of their user was between its two trips

store == <<owner, ttl, index, indexTtl>>
vars == <<store, call, issued, raced>>

Idle == [at |-> "idle"]
Found(h, u) == [at |-> "found", hash |-> h, user |-> u]
Authed(h, u) == [at |-> "authed", hash |-> h, user |-> u]
Revoking(u, members, keep) ==
  [at |-> "revoking", user |-> u, members |-> members, keep |-> keep]

CallType ==
  {Idle}
    \cup [at : {"found", "authed"}, hash : Hash, user : User]
    \cup [at : {"revoking"}, user : User, members : SUBSET Hash,
          keep : Hash \cup {None}]

TypeOK ==
  /\ owner \in [Hash -> User \cup {None}]
  /\ ttl \in [Hash -> 0..TTL]
  /\ index \in [User -> SUBSET Hash]
  /\ indexTtl \in [User -> 0..TTL]
  /\ call \in [Client -> CallType]
  /\ issued \subseteq Hash
  /\ raced \subseteq Hash
  /\ \A h \in Hash : owner[h] = None <=> ttl[h] = 0
  /\ \A u \in User : index[u] # {} <=> indexTtl[u] > 0

Live == {h \in Hash : owner[h] # None}

RevokingAll(c, u) ==
  call[c].at = "revoking" /\ call[c].user = u /\ call[c].keep = None

Init ==
  /\ owner = [h \in Hash |-> None]
  /\ ttl = [h \in Hash |-> 0]
  /\ index = [u \in User |-> {}]
  /\ indexTtl = [u \in User |-> 0]
  /\ call = [c \in Client |-> Idle]
  /\ issued = {}
  /\ raced = {}

-----------------------------------------------------------------------------
\* The three ways a key of the store changes its time to live.

\* Redis drops a set with its last member, and its time to live with it.
SetIndex(u, members, t) ==
  /\ index' = [index EXCEPT ![u] = members]
  /\ indexTtl' = [indexTtl EXCEPT ![u] = IF members = {} THEN 0 ELSE t]

\* EXPIRE does nothing to a missing key.
Refresh(left) == IF left = 0 THEN 0 ELSE TTL

\* One tick of the clock for a key.
Sooner(left) == IF left = 0 THEN 0 ELSE left - 1

-----------------------------------------------------------------------------
\* Mutant of PutSession: no EXPIRE for the index.
PutSessionNoExpire(h, u) ==
  /\ h \notin issued
  /\ owner' = [owner EXCEPT ![h] = u]
  /\ ttl' = [ttl EXCEPT ![h] = TTL]
  /\ SetIndex(u, index[u] \cup {h}, indexTtl[u])
  /\ issued' = issued \cup {h}
  /\ raced' = IF \E c \in Client : RevokingAll(c, u) THEN raced \cup {h} ELSE raced
  /\ UNCHANGED call

\* startSession: SET, SADD, EXPIRE in one transaction, with a fresh hash.
PutSession(h, u) ==
  /\ h \notin issued
  /\ owner' = [owner EXCEPT ![h] = u]
  /\ ttl' = [ttl EXCEPT ![h] = TTL]
  /\ SetIndex(u, index[u] \cup {h}, TTL)
  /\ issued' = issued \cup {h}
  /\ raced' = IF \E c \in Client : RevokingAll(c, u) THEN raced \cup {h} ELSE raced
  /\ UNCHANGED call

\* GET of the session key of the cookie; a missing key ends the request.
SessionUserID(c, h) ==
  /\ call[c] = Idle
  /\ h \in Live
  /\ call' = [call EXCEPT ![c] = Found(h, owner[h])]
  /\ UNCHANGED <<store, issued, raced>>

\* Mutants of TouchSession: it forgets the index; it stores the session anew.
TouchOnlySession(c) ==
  /\ call[c].at = "found"
  /\ ttl' = [ttl EXCEPT ![call[c].hash] = Refresh(@)]
  /\ call' = [call EXCEPT ![c] = Authed(call[c].hash, call[c].user)]
  /\ UNCHANGED <<owner, index, indexTtl, issued, raced>>
TouchBySet(c) ==
  /\ call[c].at = "found"
  /\ owner' = [owner EXCEPT ![call[c].hash] = call[c].user]
  /\ ttl' = [ttl EXCEPT ![call[c].hash] = TTL]
  /\ call' = [call EXCEPT ![c] = Authed(call[c].hash, call[c].user)]
  /\ UNCHANGED <<index, indexTtl, issued, raced>>

\* EXPIRE of both keys in one transaction.  Either key may be gone by now.
TouchSession(c) ==
  /\ call[c].at = "found"
  /\ LET h == call[c].hash
         u == call[c].user
     IN /\ ttl' = [ttl EXCEPT ![h] = Refresh(@)]
        /\ indexTtl' = [indexTtl EXCEPT ![u] = Refresh(@)]
        /\ call' = [call EXCEPT ![c] = Authed(h, u)]
  /\ UNCHANGED <<owner, index, issued, raced>>

\* Current ignores an error of the touch and the request goes on.
TouchFails(c) ==
  /\ call[c].at = "found"
  /\ call' = [call EXCEPT ![c] = Authed(call[c].hash, call[c].user)]
  /\ UNCHANGED <<store, issued, raced>>

\* Logout: DEL and SREM in one transaction.
DeleteSession(c) ==
  /\ call[c].at = "authed"
  /\ LET h == call[c].hash
         u == call[c].user
     IN /\ owner' = [owner EXCEPT ![h] = None]
        /\ ttl' = [ttl EXCEPT ![h] = 0]
        /\ SetIndex(u, index[u] \ {h}, indexTtl[u])
  /\ call' = [call EXCEPT ![c] = Idle]
  /\ UNCHANGED <<issued, raced>>

\* First trip of deleteUserSessions, for DeleteOtherSessions ...
ListOthers(c) ==
  /\ call[c].at = "authed"
  /\ LET u == call[c].user
     IN call' = [call EXCEPT ![c] = Revoking(u, index[u], call[c].hash)]
  /\ UNCHANGED <<store, issued, raced>>

\* ... and for DeleteUserSessions, which a password reset calls.
ListAll(c, u) ==
  /\ call[c] = Idle
  /\ call' = [call EXCEPT ![c] = Revoking(u, index[u], None)]
  /\ UNCHANGED <<store, issued, raced>>

\* Mutant of DeleteListed: the index goes although a session is kept.
DeleteListedAndIndex(c) ==
  /\ call[c].at = "revoking"
  /\ LET gone == call[c].members \ {call[c].keep}
     IN /\ owner' = [h \in Hash |-> IF h \in gone THEN None ELSE owner[h]]
        /\ ttl' = [h \in Hash |-> IF h \in gone THEN 0 ELSE ttl[h]]
        /\ SetIndex(call[c].user, {}, 0)
  /\ call' = [call EXCEPT ![c] = Idle]
  /\ UNCHANGED <<issued, raced>>

\* Second trip: DEL and SREM every member read but keep; DEL the index itself
\* when there is nothing to keep.
DeleteListed(c) ==
  /\ call[c].at = "revoking"
  /\ LET u == call[c].user
         gone == call[c].members \ {call[c].keep}
     IN /\ owner' = [h \in Hash |-> IF h \in gone THEN None ELSE owner[h]]
        /\ ttl' = [h \in Hash |-> IF h \in gone THEN 0 ELSE ttl[h]]
        /\ SetIndex(u, IF call[c].keep = None THEN {} ELSE index[u] \ gone,
                    indexTtl[u])
  /\ call' = [call EXCEPT ![c] = Idle]
  /\ UNCHANGED <<issued, raced>>

\* The request ends, is cancelled by its client, or fails between two trips.
Leave(c) ==
  /\ call[c] # Idle
  /\ call' = [call EXCEPT ![c] = Idle]
  /\ UNCHANGED <<store, issued, raced>>

\* Time passes for every key at once.
Tick ==
  /\ ttl' = [h \in Hash |-> Sooner(ttl[h])]
  /\ owner' = [h \in Hash |-> IF ttl[h] <= 1 THEN None ELSE owner[h]]
  /\ indexTtl' = [u \in User |-> Sooner(indexTtl[u])]
  /\ index' = [u \in User |-> IF indexTtl[u] <= 1 THEN {} ELSE index[u]]
  /\ UNCHANGED <<call, issued, raced>>

Next ==
  \/ \E h \in Hash, u \in User : PutSession(h, u)
  \/ \E c \in Client, h \in Hash : SessionUserID(c, h)
  \/ \E c \in Client : TouchSession(c) \/ TouchFails(c)
  \/ \E c \in Client : DeleteSession(c)
  \/ \E c \in Client : ListOthers(c)
  \/ \E c \in Client, u \in User : ListAll(c, u)
  \/ \E c \in Client : DeleteListed(c)
  \/ \E c \in Client : Leave(c)
  \/ Tick

Spec == Init /\ [][Next]_vars

-----------------------------------------------------------------------------
\* A session a user index lists ends no later than the index itself, so a
\* revocation that reads the index is not blind to it.  PutSession and
\* TouchSession must refresh both keys, and a touch of one session must not
\* leave the index behind another one.
IndexOutlivesSessions ==
  \A u \in User : \A h \in index[u] : ttl[h] <= indexTtl[u]

\* Every live session is listed by the index of its owner, where the next
\* revocation finds it, except one stored while a whole-index revocation of
\* the same user was between SMEMBERS and DEL.
IndexedUnlessRaced ==
  \A h \in Live : h \in index[owner[h]] \/ h \in raced

\* A session that was logged out, revoked or expired never comes back, though
\* a request that looked it up before may still touch it.
NoResurrection ==
  [][\A h \in issued : owner[h] = None => owner'[h] = None]_vars

\* The store implements the book: a touch is invisible, a revocation ends
\* only sessions of its user, and no index is lost before a session it lists.
Book == INSTANCE SessionBook
BookSpec == Book!Spec
=============================================================================

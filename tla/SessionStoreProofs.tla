------------------------- MODULE SessionStoreProofs -------------------------
(***************************************************************************)
(* Theorems about the session store, for every set of users, hashes and    *)
(* clients and every session time to live.                                 *)
(***************************************************************************)
EXTENDS SessionStore, TLAPS

\* What a request remembers of a session, and what an index lists, is a
\* session that was stored once and has not changed hands since.
Provenance ==
  /\ Live \subseteq issued
  /\ \A u \in User : \A h \in index[u] : h \in issued /\ owner[h] \in {u, None}
  /\ \A c \in Client : call[c].at \in {"found", "authed"} =>
       call[c].hash \in issued /\ owner[call[c].hash] \in {call[c].user, None}
  /\ \A c \in Client : call[c].at = "revoking" =>
       \A h \in call[c].members :
         h \in issued /\ owner[h] \in {call[c].user, None}

\* Whatever a whole-index revocation has not read was stored after it read.
Covered ==
  \A c \in Client, u \in User :
    RevokingAll(c, u) => index[u] \subseteq call[c].members \cup raced

\* The inductive invariant.
IInv == TypeOK /\ Provenance /\ IndexOutlivesSessions /\ Covered /\ IndexedUnlessRaced

-----------------------------------------------------------------------------
\* The shape of the record of a request in each place.
LEMMA CallShape ==
  ASSUME TypeOK, NEW c \in Client
  PROVE  /\ call[c] = Idle \/ call[c].at \in {"found", "authed", "revoking"}
         /\ call[c].at \in {"found", "authed"} =>
              /\ call[c] # Idle
              /\ call[c].hash \in Hash
              /\ call[c].user \in User
         /\ call[c].at = "revoking" =>
              /\ call[c] # Idle
              /\ call[c].user \in User
              /\ call[c].members \subseteq Hash
              /\ call[c].keep \in Hash \cup {None}
         /\ Idle.at = "idle"
  BY DEF TypeOK, CallType, Idle

\* What EXPIRE and the clock do to a time to live.
LEMMA TtlSteps ==
  ASSUME NEW t \in 0..TTL
  PROVE  /\ Refresh(t) \in 0..TTL /\ (Refresh(t) = 0 <=> t = 0)
         /\ Refresh(t) = IF t = 0 THEN 0 ELSE TTL
         /\ Sooner(t) \in 0..TTL /\ (Sooner(t) = 0 <=> t <= 1)
         /\ Sooner(t) = IF t = 0 THEN 0 ELSE t - 1
  BY TTLAssumption DEF Refresh, Sooner

\* The initial state satisfies the invariant.
LEMMA InitInv == Init => IInv
  BY NoneAssumption, TTLAssumption
  DEF Init, IInv, TypeOK, Provenance, IndexOutlivesSessions, Covered,
      IndexedUnlessRaced, Live, RevokingAll, CallType, Idle

\* Every step keeps the types.
LEMMA TypeStep == ASSUME TypeOK, [Next]_vars PROVE TypeOK'
<1> USE NoneAssumption, TTLAssumption
<1>1. ASSUME NEW h \in Hash, NEW u \in User, PutSession(h, u) PROVE TypeOK'
  BY <1>1 DEF TypeOK, PutSession, SetIndex
<1>2. ASSUME NEW c \in Client, NEW h \in Hash, SessionUserID(c, h) PROVE TypeOK'
  <2>1. Found(h, owner[h]) \in CallType
    BY <1>2 DEF SessionUserID, Live, TypeOK, CallType, Found
  <2> QED BY <1>2, <2>1 DEF TypeOK, SessionUserID, store
<1>3. ASSUME NEW c \in Client, TouchSession(c) \/ TouchFails(c) PROVE TypeOK'
  <2>1. Authed(call[c].hash, call[c].user) \in CallType
    BY <1>3, CallShape DEF TouchSession, TouchFails, CallType, Authed
  <2>2. CASE TouchSession(c)
    <3>1. ttl' \in [Hash -> 0..TTL] /\ indexTtl' \in [User -> 0..TTL]
      BY <2>2, CallShape, TtlSteps DEF TouchSession, TypeOK
    <3>2. \A h \in Hash : owner'[h] = None <=> ttl'[h] = 0
      BY <2>2, CallShape, TtlSteps DEF TouchSession, TypeOK
    <3>3. \A u \in User : index'[u] # {} <=> indexTtl'[u] > 0
      BY <2>2, CallShape, TtlSteps DEF TouchSession, TypeOK
    <3> QED BY <2>1, <2>2, <3>1, <3>2, <3>3 DEF TypeOK, TouchSession
  <2>3. CASE TouchFails(c)
    BY <2>1, <2>3 DEF TouchFails, TypeOK, store
  <2> QED BY <1>3, <2>2, <2>3
<1>4. ASSUME NEW c \in Client, DeleteSession(c) PROVE TypeOK'
  <2>1. Idle \in CallType
    BY DEF CallType
  <2> QED BY <1>4, <2>1, CallShape DEF DeleteSession, TypeOK, SetIndex
<1>5. ASSUME NEW c \in Client, ListOthers(c) PROVE TypeOK'
  <2>1. Revoking(call[c].user, index[call[c].user], call[c].hash) \in CallType
    BY <1>5, CallShape DEF ListOthers, CallType, Revoking, TypeOK
  <2> QED BY <1>5, <2>1 DEF ListOthers, TypeOK, store
<1>6. ASSUME NEW c \in Client, NEW u \in User, ListAll(c, u) PROVE TypeOK'
  <2>1. Revoking(u, index[u], None) \in CallType
    BY DEF CallType, Revoking, TypeOK
  <2> QED BY <1>6, <2>1 DEF ListAll, TypeOK, store
<1>7. ASSUME NEW c \in Client, DeleteListed(c) PROVE TypeOK'
  <2>1. Idle \in CallType
    BY DEF CallType
  <2> QED BY <1>7, <2>1, CallShape DEF DeleteListed, TypeOK, SetIndex
<1>8. ASSUME NEW c \in Client, Leave(c) PROVE TypeOK'
  <2>1. Idle \in CallType
    BY DEF CallType
  <2> QED BY <1>8, <2>1 DEF Leave, TypeOK, store
<1>9. CASE Tick
  <2>1. ttl' \in [Hash -> 0..TTL] /\ indexTtl' \in [User -> 0..TTL]
    BY <1>9, TtlSteps DEF Tick, TypeOK
  <2>2. \A h \in Hash : owner'[h] = None <=> ttl'[h] = 0
    BY <1>9, TtlSteps DEF Tick, TypeOK
  <2>3. \A u \in User : index'[u] # {} <=> indexTtl'[u] > 0
    BY <1>9, TtlSteps DEF Tick, TypeOK
  <2> QED BY <1>9, <2>1, <2>2, <2>3 DEF Tick, TypeOK
<1>10. CASE UNCHANGED vars
  BY <1>10 DEF vars, store, TypeOK
<1> QED BY <1>1, <1>2, <1>3, <1>4, <1>5, <1>6, <1>7, <1>8, <1>9, <1>10 DEF Next

\* Every step keeps what requests and indexes know of sessions true.
LEMMA ProvenanceStep == ASSUME IInv, [Next]_vars PROVE Provenance'
<1> USE NoneAssumption DEF IInv
<1>1. ASSUME NEW h \in Hash, NEW u \in User, PutSession(h, u) PROVE Provenance'
  BY <1>1, CallShape DEF PutSession, SetIndex, Provenance, Live, TypeOK
<1>2. ASSUME NEW c \in Client, NEW h \in Hash, SessionUserID(c, h) PROVE Provenance'
  BY <1>2, CallShape DEF SessionUserID, Provenance, Live, TypeOK, Found, store
<1>3. ASSUME NEW c \in Client, TouchSession(c) \/ TouchFails(c) PROVE Provenance'
  BY <1>3, CallShape
  DEF TouchSession, TouchFails, Provenance, Live, TypeOK, Authed, store
<1>4. ASSUME NEW c \in Client, DeleteSession(c) PROVE Provenance'
  BY <1>4, CallShape DEF DeleteSession, SetIndex, Provenance, Live, TypeOK
<1>5. ASSUME NEW c \in Client, ListOthers(c) PROVE Provenance'
  BY <1>5, CallShape DEF ListOthers, Provenance, Live, TypeOK, Revoking, store
<1>6. ASSUME NEW c \in Client, NEW u \in User, ListAll(c, u) PROVE Provenance'
  BY <1>6, CallShape DEF ListAll, Provenance, Live, TypeOK, Revoking, store
<1>7. ASSUME NEW c \in Client, DeleteListed(c) PROVE Provenance'
  BY <1>7, CallShape DEF DeleteListed, SetIndex, Provenance, Live, TypeOK
<1>8. ASSUME NEW c \in Client, Leave(c) PROVE Provenance'
  BY <1>8, CallShape DEF Leave, Provenance, Live, TypeOK, store
<1>9. CASE Tick
  BY <1>9, CallShape DEF Tick, Provenance, Live, TypeOK
<1>10. CASE UNCHANGED vars
  BY <1>10 DEF vars, store, Provenance, Live
<1> QED BY <1>1, <1>2, <1>3, <1>4, <1>5, <1>6, <1>7, <1>8, <1>9, <1>10 DEF Next

\* No step leaves an index behind a session it lists.
LEMMA IndexOutlivesStep ==
  ASSUME IInv, [Next]_vars PROVE IndexOutlivesSessions'
<1> USE NoneAssumption, TTLAssumption DEF IInv
<1>1. ASSUME NEW h \in Hash, NEW u \in User, PutSession(h, u)
      PROVE  IndexOutlivesSessions'
  <2> SUFFICES ASSUME NEW w \in User, NEW k \in index'[w]
               PROVE  ttl'[k] <= indexTtl'[w]
    BY DEF IndexOutlivesSessions
  <2>1. CASE w = u
    <3>1. k \in Hash /\ ttl'[k] \in 0..TTL
      BY <1>1, <2>1 DEF PutSession, SetIndex, TypeOK
    <3>2. indexTtl'[w] = TTL
      BY <1>1, <2>1 DEF PutSession, SetIndex, TypeOK
    <3> QED BY <3>1, <3>2
  \* No other index can list a hash that was never issued.
  <2>2. CASE w # u
    <3>1. k \in index[w] /\ k # h /\ k \in Hash
      BY <1>1, <2>2 DEF PutSession, SetIndex, TypeOK, Provenance
    <3> QED BY <1>1, <2>2, <3>1
            DEF PutSession, SetIndex, IndexOutlivesSessions, TypeOK
  <2> QED BY <2>1, <2>2
<1>2. ASSUME NEW c \in Client, TouchSession(c) PROVE IndexOutlivesSessions'
  <2> DEFINE k == call[c].hash
             w == call[c].user
  <2> SUFFICES ASSUME NEW u \in User, NEW h \in index[u]
               PROVE  ttl'[h] <= indexTtl'[u]
    BY <1>2 DEF TouchSession, IndexOutlivesSessions
  <2>1. k \in Hash /\ w \in User /\ h \in Hash
    BY <1>2, CallShape DEF TouchSession, TypeOK
  <2>2. ttl[h] <= indexTtl[u] /\ ttl[h] \in 0..TTL /\ indexTtl[u] \in 1..TTL
    BY <2>1 DEF IndexOutlivesSessions, TypeOK
  <2>3. /\ ttl' = [ttl EXCEPT ![k] = Refresh(@)]
        /\ indexTtl' = [indexTtl EXCEPT ![w] = Refresh(@)]
    BY <1>2 DEF TouchSession
  <2>4. CASE u = w
    BY <2>1, <2>2, <2>3, <2>4, TtlSteps DEF TypeOK
  <2>5. CASE u # w /\ h # k
    BY <2>1, <2>2, <2>3, <2>5 DEF TypeOK
  \* An index of another user can list the touched hash only once it is dead.
  <2>6. CASE u # w /\ h = k
    <3>1. owner[k] = None
      BY <1>2, <2>1, <2>6 DEF Provenance, TouchSession
    <3>2. ttl'[h] = 0
      BY <2>1, <2>3, <2>6, <3>1, TtlSteps DEF TypeOK
    <3> QED BY <2>1, <2>2, <2>3, <2>6, <3>2 DEF TypeOK
  <2> QED BY <2>4, <2>5, <2>6
<1>3. ASSUME NEW c \in Client, DeleteSession(c) PROVE IndexOutlivesSessions'
  BY <1>3, CallShape DEF DeleteSession, SetIndex, IndexOutlivesSessions, TypeOK
<1>4. ASSUME NEW c \in Client, DeleteListed(c) PROVE IndexOutlivesSessions'
  BY <1>4, CallShape DEF DeleteListed, SetIndex, IndexOutlivesSessions, TypeOK
<1>5. CASE Tick
  <2> SUFFICES ASSUME NEW u \in User, NEW h \in index'[u]
               PROVE  ttl'[h] <= indexTtl'[u]
    BY DEF IndexOutlivesSessions
  <2>1. h \in index[u] /\ h \in Hash
    BY <1>5 DEF Tick, TypeOK
  <2>2. ttl[h] <= indexTtl[u] /\ ttl[h] \in 0..TTL /\ indexTtl[u] \in 0..TTL
    BY <2>1 DEF IndexOutlivesSessions, TypeOK
  <2>3. ttl'[h] = Sooner(ttl[h]) /\ indexTtl'[u] = Sooner(indexTtl[u])
    BY <1>5, <2>1 DEF Tick
  <2> QED BY <2>2, <2>3, TtlSteps
\* The other steps leave the store alone.
<1>6. ASSUME UNCHANGED store PROVE IndexOutlivesSessions'
  BY <1>6 DEF store, IndexOutlivesSessions
<1> QED BY <1>1, <1>2, <1>3, <1>4, <1>5, <1>6
        DEF Next, vars, SessionUserID, TouchFails, ListOthers, ListAll, Leave

\* A whole-index revocation misses only sessions stored after its SMEMBERS.
LEMMA CoveredStep == ASSUME IInv, [Next]_vars PROVE Covered'
<1> USE DEF IInv
<1>1. ASSUME NEW h \in Hash, NEW u \in User, PutSession(h, u) PROVE Covered'
  BY <1>1 DEF PutSession, SetIndex, Covered, RevokingAll, TypeOK
<1>2. ASSUME NEW c \in Client, NEW h \in Hash, SessionUserID(c, h) PROVE Covered'
  BY <1>2, CallShape DEF SessionUserID, Covered, RevokingAll, TypeOK, Found, store
<1>3. ASSUME NEW c \in Client, TouchSession(c) \/ TouchFails(c) PROVE Covered'
  BY <1>3, CallShape
  DEF TouchSession, TouchFails, Covered, RevokingAll, TypeOK, Authed, store
<1>4. ASSUME NEW c \in Client, DeleteSession(c) PROVE Covered'
  BY <1>4, CallShape DEF DeleteSession, SetIndex, Covered, RevokingAll, TypeOK
<1>5. ASSUME NEW c \in Client, ListOthers(c) PROVE Covered'
  BY <1>5, CallShape, NoneAssumption
  DEF ListOthers, Covered, RevokingAll, TypeOK, Revoking, store
<1>6. ASSUME NEW c \in Client, NEW u \in User, ListAll(c, u) PROVE Covered'
  BY <1>6, CallShape DEF ListAll, Covered, RevokingAll, TypeOK, Revoking, store
<1>7. ASSUME NEW c \in Client, DeleteListed(c) PROVE Covered'
  BY <1>7, CallShape DEF DeleteListed, SetIndex, Covered, RevokingAll, TypeOK
<1>8. ASSUME NEW c \in Client, Leave(c) PROVE Covered'
  BY <1>8, CallShape DEF Leave, Covered, RevokingAll, TypeOK, store
<1>9. CASE Tick
  BY <1>9 DEF Tick, Covered, RevokingAll, TypeOK
<1>10. CASE UNCHANGED vars
  BY <1>10 DEF vars, store, Covered, RevokingAll
<1> QED BY <1>1, <1>2, <1>3, <1>4, <1>5, <1>6, <1>7, <1>8, <1>9, <1>10 DEF Next

\* No step loses a live session from its index, but for the race.
LEMMA IndexedStep == ASSUME IInv, [Next]_vars PROVE IndexedUnlessRaced'
<1> USE NoneAssumption, TTLAssumption DEF IInv
<1>1. ASSUME NEW h \in Hash, NEW u \in User, PutSession(h, u)
      PROVE  IndexedUnlessRaced'
  BY <1>1 DEF PutSession, SetIndex, IndexedUnlessRaced, Live, TypeOK
<1>2. ASSUME NEW c \in Client, DeleteSession(c) PROVE IndexedUnlessRaced'
  BY <1>2, CallShape DEF DeleteSession, SetIndex, IndexedUnlessRaced, Live, TypeOK
<1>3. ASSUME NEW c \in Client, DeleteListed(c) PROVE IndexedUnlessRaced'
  <2> DEFINE u == call[c].user
             gone == call[c].members \ {call[c].keep}
  <2>1. u \in User /\ call[c].members \subseteq Hash
    BY <1>3, CallShape DEF DeleteListed
  <2> SUFFICES ASSUME NEW h \in Hash, owner'[h] # None
               PROVE  h \in index'[owner'[h]] \/ h \in raced'
    BY DEF IndexedUnlessRaced, Live
  <2>2. h \notin gone /\ owner'[h] = owner[h] /\ owner[h] \in User
    BY <1>3 DEF DeleteListed, TypeOK
  <2>3. h \in index[owner[h]] \/ h \in raced
    BY <2>2 DEF IndexedUnlessRaced, Live
  <2>4. CASE owner[h] # u
    BY <1>3, <2>1, <2>2, <2>3, <2>4 DEF DeleteListed, SetIndex, TypeOK
  <2>5. CASE owner[h] = u /\ call[c].keep # None
    BY <1>3, <2>1, <2>2, <2>3, <2>5 DEF DeleteListed, SetIndex, TypeOK
  <2>6. CASE owner[h] = u /\ call[c].keep = None
    BY <1>3, <2>1, <2>2, <2>3, <2>6 DEF DeleteListed, Covered, RevokingAll
  <2> QED BY <2>4, <2>5, <2>6
<1>4. CASE Tick
  <2> SUFFICES ASSUME NEW h \in Hash, owner'[h] # None
               PROVE  h \in index'[owner'[h]] \/ h \in raced'
    BY DEF IndexedUnlessRaced, Live
  <2>1. ttl[h] > 1 /\ owner'[h] = owner[h] /\ owner[h] \in User
    BY <1>4 DEF Tick, TypeOK
  <2>2. h \in index[owner[h]] \/ h \in raced
    BY <2>1 DEF IndexedUnlessRaced, Live
  <2>3. h \in index[owner[h]] => ~(indexTtl[owner[h]] <= 1)
    BY <2>1 DEF IndexOutlivesSessions, TypeOK
  <2> QED BY <1>4, <2>1, <2>2, <2>3 DEF Tick
<1>5. ASSUME UNCHANGED <<owner, index, raced>> PROVE IndexedUnlessRaced'
  BY <1>5 DEF IndexedUnlessRaced, Live
<1> QED BY <1>1, <1>2, <1>3, <1>4, <1>5
        DEF Next, vars, store, SessionUserID, TouchSession, TouchFails,
            ListOthers, ListAll, Leave

-----------------------------------------------------------------------------
\* The invariant holds in every reachable state.
THEOREM Invariance == Spec => []IInv
<1>1. IInv /\ [Next]_vars => IInv'
  BY TypeStep, ProvenanceStep, IndexOutlivesStep, CoveredStep, IndexedStep DEF IInv
<1> QED BY InitInv, <1>1, PTL DEF Spec

\* The variables keep their types whatever the requests and the clock do.
THEOREM TypeCorrect == Spec => []TypeOK
  BY Invariance, PTL DEF IInv

\* An index never expires before a session it lists.
THEOREM IndexOutlives == Spec => []IndexOutlivesSessions
  BY Invariance, PTL DEF IInv

\* A revocation finds every live session of its user, but for the race.
THEOREM Indexed == Spec => []IndexedUnlessRaced
  BY Invariance, PTL DEF IInv

\* A session that ended is never live again.
THEOREM NeverBack == Spec => NoResurrection
<1>1. ASSUME IInv, [Next]_vars, NEW h \in issued, owner[h] = None
      PROVE  owner'[h] = None
  <2>1. h \in Hash
    BY <1>1 DEF IInv, TypeOK
  <2> QED
    BY <1>1, <2>1, CallShape
    DEF IInv, TypeOK, Next, vars, store, PutSession, SessionUserID, TouchSession,
        TouchFails, DeleteSession, ListOthers, ListAll, DeleteListed, Leave, Tick
<1>2. IInv /\ [Next]_vars
        => [\A h \in issued : owner[h] = None => owner'[h] = None]_vars
  BY <1>1
<1> QED BY <1>2, Invariance, PTL DEF Spec, NoResurrection

-----------------------------------------------------------------------------
\* Every step of the store is a step of the book or leaves the book alone.
LEMMA BookStep == ASSUME IInv, [Next]_vars PROVE [Book!Next]_(Book!vars)
<1> USE DEF IInv
<1> SUFFICES Book!Next \/ UNCHANGED Book!vars
  OBVIOUS
<1>1. ASSUME NEW h \in Hash, NEW u \in User, PutSession(h, u) PROVE Book!Next
  BY <1>1 DEF PutSession, SetIndex, Book!PutSession, Book!Next
<1>2. ASSUME NEW c \in Client, DeleteSession(c) PROVE Book!Next
  <2>1. call[c].hash \in Hash /\ call[c].user \in User
    BY <1>2, CallShape DEF DeleteSession
  <2>2. Book!DeleteSession(call[c].hash, call[c].user)
    BY <1>2, <2>1
    DEF DeleteSession, SetIndex, Provenance, Book!DeleteSession, Book!OwnedOrGone
  <2> QED BY <2>1, <2>2 DEF Book!Next
<1>3. ASSUME NEW c \in Client, DeleteListed(c) PROVE Book!Next
  <2> DEFINE u == call[c].user
             members == call[c].members
             keep == call[c].keep
  <2>1. u \in User /\ members \in SUBSET Hash /\ keep \in Hash \cup {None}
    BY <1>3, CallShape DEF DeleteListed
  <2>2. \A h \in members : Book!OwnedOrGone(h, u)
    BY <1>3 DEF DeleteListed, Provenance, Book!OwnedOrGone
  <2>3. index' = [index EXCEPT ![u] =
                    IF keep = None THEN {} ELSE @ \ (members \ {keep})]
    BY <1>3 DEF DeleteListed, SetIndex
  <2>4. Book!DropSessions(u, members, keep)
    BY <1>3, <2>2, <2>3 DEF DeleteListed, Book!DropSessions
  <2> QED BY <2>1, <2>4 DEF Book!Next
<1>4. CASE Tick
  <2> DEFINE H == {h \in Hash : ttl[h] <= 1}
             U == {u \in User : indexTtl[u] <= 1}
  <2>1. \A u \in U : index[u] \cap Book!Live \subseteq H
    <3> SUFFICES ASSUME NEW u \in U, NEW h \in index[u] PROVE h \in H
      OBVIOUS
    <3>1. h \in Hash /\ ttl[h] \in 0..TTL /\ indexTtl[u] \in 0..TTL
      BY DEF TypeOK
    <3> QED BY <3>1, TTLAssumption DEF IndexOutlivesSessions
  <2>2. /\ owner' = [h \in Hash |-> IF h \in H THEN None ELSE owner[h]]
        /\ index' = [u \in User |-> IF u \in U THEN {} ELSE index[u]]
        /\ issued' = issued
    BY <1>4 DEF Tick
  <2>3. Book!Expire(H, U)
    BY <2>1, <2>2 DEF Book!Expire
  <2> QED BY <2>3 DEF Book!Next
<1>5. ASSUME UNCHANGED <<owner, index, issued>> PROVE UNCHANGED Book!vars
  BY <1>5 DEF Book!vars
<1> QED BY <1>1, <1>2, <1>3, <1>4, <1>5
        DEF Next, vars, store, SessionUserID, TouchSession, TouchFails,
            ListOthers, ListAll, Leave

\* The Redis commands implement the book of sessions.
THEOREM ImplementsBook == Spec => BookSpec
<1>1. Init => Book!Init
  BY DEF Init, Book!Init
<1> QED BY <1>1, BookStep, Invariance, PTL DEF Spec, BookSpec, Book!Spec
=============================================================================

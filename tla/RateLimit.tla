----------------------------- MODULE RateLimit -----------------------------
(***************************************************************************)
(* One bucket of Redis.Allow (internal/platform/cache/redis.go), which     *)
(* Register, Login, BindEmail and ForgotPassword ask before anything else. *)
(* INCR and EXPIRE are two round trips: the request that creates the key   *)
(* gives it its time to live, while others already count on it.            *)
(***************************************************************************)
EXTENDS Naturals

CONSTANTS Client,   \* requests in flight
          Limit,    \* requests the bucket admits in a window
          Window,   \* length of the window, in ticks
          Losses    \* may the second trip fail or its client leave?

ASSUME LimitAssumption == Limit \in Nat \ {0} /\ Window \in Nat \ {0}
ASSUME LossesAssumption == Losses \in BOOLEAN

VARIABLES count,    \* value of the key, 0 if missing
          ttl,      \* its remaining time to live, NoTTL if it has none
          req,      \* the clients between INCR and EXPIRE
          granted,  \* history: requests of this window that were admitted
          cut       \* history: the EXPIRE of this key was lost

bucketVars == <<count, ttl, req, granted, cut>>

NoTTL == Window + 1
\* Bound: above the limit the exact count decides nothing.
Top == Limit + 1

BucketTypeOK ==
  /\ count \in 0..Top
  /\ ttl \in 0..NoTTL
  /\ req \in [Client -> {"idle", "first"}]
  /\ granted \in Nat
  /\ cut \in BOOLEAN
  /\ count = 0 <=> ttl = 0

BucketInit ==
  /\ count = 0
  /\ ttl = 0
  /\ req = [c \in Client |-> "idle"]
  /\ granted = 0
  /\ cut = FALSE

\* Mutants of Incr: one request too many; the first request is not told apart;
\* every request restarts the window.
IncrOffByOne(c) ==
  /\ req[c] = "idle"
  /\ count' = IF count = Top THEN Top ELSE count + 1
  /\ IF count = 0
       THEN ttl' = NoTTL /\ req' = [req EXCEPT ![c] = "first"] /\ UNCHANGED granted
       ELSE /\ granted' = IF count <= Limit THEN granted + 1 ELSE granted
            /\ UNCHANGED <<ttl, req>>
  /\ UNCHANGED cut
IncrNeverFirst(c) ==
  /\ req[c] = "idle"
  /\ count' = IF count = Top THEN Top ELSE count + 1
  /\ ttl' = IF count = 0 THEN NoTTL ELSE ttl
  /\ granted' = IF count' <= Limit THEN granted + 1 ELSE granted
  /\ UNCHANGED <<req, cut>>
IncrSlides(c) ==
  /\ req[c] = "idle"
  /\ count' = IF count = Top THEN Top ELSE count + 1
  /\ ttl' = Window
  /\ granted' = IF count' <= Limit THEN granted + 1 ELSE granted
  /\ UNCHANGED <<req, cut>>

\* INCR creates a missing key without a time to live.  Any count but the first
\* is decided at once.
Incr(c) ==
  /\ req[c] = "idle"
  /\ count' = IF count = Top THEN Top ELSE count + 1
  /\ IF count = 0
       THEN /\ ttl' = NoTTL
            /\ req' = [req EXCEPT ![c] = "first"]
            /\ UNCHANGED granted
       ELSE /\ granted' = IF count' <= Limit THEN granted + 1 ELSE granted
            /\ UNCHANGED <<ttl, req>>
  /\ UNCHANGED cut

\* EXPIRE by the request that counted to one, which is then admitted.
SetExpire(c) ==
  /\ req[c] = "first"
  /\ ttl' = IF count = 0 THEN 0 ELSE Window
  /\ granted' = granted + 1
  /\ req' = [req EXCEPT ![c] = "idle"]
  /\ UNCHANGED <<count, cut>>

\* Mutant of ExpireFails: the refused request takes its count back with a DECR,
\* which leaves a key that counts nothing and never ends.
ExpireFailsRefunds(c) ==
  /\ Losses
  /\ req[c] = "first"
  /\ count' = count - 1
  /\ req' = [req EXCEPT ![c] = "idle"]
  /\ cut' = TRUE
  /\ UNCHANGED <<ttl, granted>>

\* The EXPIRE is lost; Allow returns the error and the request is refused.
ExpireFails(c) ==
  /\ Losses
  /\ req[c] = "first"
  /\ req' = [req EXCEPT ![c] = "idle"]
  /\ cut' = TRUE
  /\ UNCHANGED <<count, ttl, granted>>

\* Time passes; the key goes with its last tick, and the window with it.
Tick ==
  /\ ttl \in 1..Window
  /\ ttl' = ttl - 1
  /\ IF ttl = 1
       THEN count' = 0 /\ granted' = 0 /\ cut' = FALSE
       ELSE UNCHANGED <<count, granted, cut>>
  /\ UNCHANGED req

BucketNext ==
  \/ \E c \in Client : Incr(c) \/ SetExpire(c) \/ ExpireFails(c)
  \/ Tick

BucketSpec == BucketInit /\ [][BucketNext]_bucketVars

\* The server runs every goroutine and time passes.
BucketFairSpec ==
  BucketSpec /\ WF_bucketVars(Tick) /\ \A c \in Client : WF_bucketVars(SetExpire(c))

-----------------------------------------------------------------------------
\* No window admits more than the limit, whoever counts between the INCR and
\* the EXPIRE of the request that opened it.
WithinLimit == granted <= Limit

\* A key without a time to live has exactly one request about to give it one,
\* unless that request was lost.
WindowOpened ==
  /\ ttl = NoTTL /\ ~cut => \E c \in Client : req[c] = "first"
  /\ \A c, d \in Client : req[c] = "first" /\ req[d] = "first" => c = d

\* The second trip never shortens or extends a window that is running.
WindowKept == [][(ttl \in 1..Window) => ttl' \in {ttl, ttl - 1}]_bucketVars

\* A full bucket empties again, unless its EXPIRE was lost.
ReopensUnlessCut == (count > Limit) ~> (count = 0 \/ cut)
=============================================================================

---------------------------- MODULE ServerProofs ----------------------------
(***************************************************************************)
(* Theorems about three small parts of the system that have at most the    *)
(* settings row in common: one bucket of the rate limiter, the start of a  *)
(* process, and the settings with the panels in front of them.             *)
(***************************************************************************)
EXTENDS RateLimit, Startup, AdminPanel, TLAPS

-----------------------------------------------------------------------------
(***************************************************************************)
(* RateLimit, for every limit, window and set of requests.                 *)
(***************************************************************************)

\* What was admitted was counted.  The request that is about to open the window
\* is counted and not yet admitted, and until it does the key cannot expire.
Counted ==
  /\ granted <= count
  /\ \A c \in Client : req[c] = "first" =>
       ttl = NoTTL /\ granted + 1 <= count /\ granted + 1 <= Limit

\* The inductive invariant.
BucketInv == BucketTypeOK /\ WithinLimit /\ WindowOpened /\ Counted

-----------------------------------------------------------------------------
\* The initial state satisfies the invariant.
LEMMA BucketInitInv == BucketInit => BucketInv
<1> SUFFICES ASSUME BucketInit PROVE BucketInv
  OBVIOUS
<1> USE LimitAssumption DEF BucketInit
<1>1. BucketTypeOK
  <2>1. cut \in BOOLEAN
    BY Zenon
  <2>2. req \in [Client -> {"idle", "first"}]
    OBVIOUS
  <2>3. /\ count \in 0..Top /\ ttl \in 0..NoTTL /\ granted \in Nat
        /\ count = 0 <=> ttl = 0
    BY DEF Top, NoTTL
  <2> QED BY <2>1, <2>2, <2>3, Zenon DEF BucketTypeOK
<1>2. \A c \in Client : req[c] # "first"
  OBVIOUS
<1>3. ttl # NoTTL
  BY DEF NoTTL
<1>4. WithinLimit
  BY DEF WithinLimit
<1> QED BY <1>1, <1>2, <1>3, <1>4 DEF BucketInv, WindowOpened, Counted

\* INCR keeps the invariant: it creates a missing key, or counts on one.
LEMMA IncrStep ==
  ASSUME BucketInv, NEW c \in Client, Incr(c)
  PROVE  BucketInv'
<1> USE LimitAssumption DEF BucketInv, Top, NoTTL
<1>1. BucketTypeOK'
  BY DEF Incr, BucketTypeOK
<1>2. CASE count = 0
  <2>1. granted = 0 /\ \A d \in Client : req[d] # "first"
    BY <1>2 DEF BucketTypeOK, Counted
  <2>2. /\ \A d \in Client : req'[d] = "first" <=> d = c
        /\ ttl' = NoTTL /\ granted' = 0 /\ count' = 1
    BY <1>2, <2>1 DEF Incr, BucketTypeOK
  <2> QED BY <1>1, <1>2, <2>1, <2>2 DEF WithinLimit, WindowOpened, Counted
<1>3. CASE count # 0
  <2>1. UNCHANGED <<ttl, req, cut>>
    BY <1>3 DEF Incr
  <2>2. granted' <= Limit /\ granted' <= count'
    BY <1>3 DEF Incr, BucketTypeOK, WithinLimit, Counted
  <2>3. ASSUME NEW d \in Client, req[d] = "first"
        PROVE  granted' + 1 <= count' /\ granted' + 1 <= Limit
    BY <1>3, <2>3 DEF Incr, BucketTypeOK, WithinLimit, Counted
  <2> QED BY <1>1, <2>1, <2>2, <2>3 DEF WithinLimit, WindowOpened, Counted
<1> QED BY <1>2, <1>3

\* Every step keeps the invariant.
LEMMA BucketStep == ASSUME BucketInv, [BucketNext]_bucketVars PROVE BucketInv'
<1> USE LimitAssumption DEF BucketInv
<1>1. ASSUME NEW c \in Client, SetExpire(c) PROVE BucketInv'
  <2> USE <1>1
  <2>1. ttl = NoTTL /\ granted + 1 <= count /\ granted + 1 <= Limit /\ count # 0
    BY DEF SetExpire, Counted, BucketTypeOK
  <2>2. \A d \in Client : req'[d] # "first"
    BY DEF SetExpire, BucketTypeOK, WindowOpened
  <2>3. /\ ttl' = Window /\ granted' = granted + 1
        /\ UNCHANGED <<count, cut>> /\ req' \in [Client -> {"idle", "first"}]
    BY <2>1 DEF SetExpire, BucketTypeOK
  <2> QED BY <2>1, <2>2, <2>3
          DEF BucketTypeOK, WithinLimit, WindowOpened, Counted, Top, NoTTL
<1>2. ASSUME NEW c \in Client, ExpireFails(c) PROVE BucketInv'
  BY <1>2 DEF ExpireFails, BucketTypeOK, WithinLimit, WindowOpened, Counted
<1>3. ASSUME Tick PROVE BucketInv'
  <2>1. \A d \in Client : req[d] # "first"
    BY <1>3 DEF Tick, Counted, NoTTL
  <2>2. UNCHANGED req /\ ttl' # NoTTL
    BY <1>3 DEF Tick, NoTTL
  <2>3. BucketTypeOK'
    <3>1. cut' \in BOOLEAN
      BY <1>3, Zenon DEF Tick, BucketTypeOK
    <3>2. /\ count' \in 0..Top /\ ttl' \in 0..NoTTL /\ granted' \in Nat
          /\ count' = 0 <=> ttl' = 0
      BY <1>3 DEF Tick, BucketTypeOK, Top, NoTTL
    <3> QED BY <2>2, <3>1, <3>2, Zenon DEF BucketTypeOK
  <2>4. WithinLimit' /\ granted' <= count'
    BY <1>3 DEF Tick, BucketTypeOK, WithinLimit, Counted
  <2> QED BY <2>1, <2>2, <2>3, <2>4 DEF WindowOpened, Counted
<1>4. CASE UNCHANGED bucketVars
  BY <1>4 DEF bucketVars, BucketTypeOK, WithinLimit, WindowOpened, Counted
<1> QED BY <1>1, <1>2, <1>3, <1>4, IncrStep DEF BucketNext

\* The invariant holds in every state.
LEMMA BucketInvariance == BucketSpec => []BucketInv
  BY BucketInitInv, BucketStep, PTL DEF BucketSpec

\* Every variable keeps its type.
THEOREM BucketTypes == BucketSpec => []BucketTypeOK
  BY BucketInvariance, PTL DEF BucketInv

\* No window admits more requests than the limit, whoever counts between the
\* INCR and the EXPIRE that opens it.
THEOREM BucketBounded == BucketSpec => []WithinLimit
  BY BucketInvariance, PTL DEF BucketInv

\* A key without a time to live has one request about to give it one.
THEOREM BucketOpened == BucketSpec => []WindowOpened
  BY BucketInvariance, PTL DEF BucketInv

\* A window that runs is neither shortened nor extended.
THEOREM BucketKept == BucketSpec => WindowKept
<1>1. ASSUME BucketInv, [BucketNext]_bucketVars, ttl \in 1..Window PROVE ttl' \in {ttl, ttl - 1}
  <2> USE <1>1, LimitAssumption DEF BucketInv
  <2>1. ASSUME NEW c \in Client, Incr(c) PROVE UNCHANGED ttl
    BY <2>1 DEF Incr, BucketTypeOK
  <2>2. ASSUME NEW c \in Client, SetExpire(c) PROVE FALSE
    BY <2>2 DEF SetExpire, Counted, NoTTL
  <2> QED BY <2>1, <2>2 DEF BucketNext, ExpireFails, Tick, bucketVars
<1> QED BY <1>1, BucketInvariance, PTL DEF BucketSpec, WindowKept

-----------------------------------------------------------------------------
(***************************************************************************)
(* Startup, for every set of processes, account names and memos.           *)
(***************************************************************************)

\* What a process that is past a statement knows.
Known(s) ==
  /\ proc[s].at \in {"settled", "inserting", "found", "inserted", "serving"} => row.exists
  /\ proc[s].at = "found" => role[proc[s].name] = "admin"
  /\ proc[s].at = "inserted" => role[proc[s].name] = "none"

\* The inductive invariant.
StartInv == StartupTypeOK /\ ReadyToServe /\ \A s \in Server : Known(s)

LEMMA StartInitInv == StartupInit => StartInv
<1> SUFFICES ASSUME StartupInit PROVE StartInv
  OBVIOUS
<1>1. \A s \in Server : proc[s].at = "off"
  BY DEF StartupInit, Off
<1>2. StartupTypeOK
  BY <1>1 DEF StartupInit, StartupTypeOK, Holds
<1> QED BY <1>1, <1>2 DEF StartInv, ReadyToServe, Known

\* A process is off, or has the fields of one that runs.
LEMMA ProcShape ==
  ASSUME StartupTypeOK, NEW s \in Server
  PROVE  /\ proc[s].at \in {"off", "started", "settled", "inserting", "found", "inserted", "serving"}
         /\ proc[s].at = "off" <=> proc[s] = Off
         /\ proc[s].at # "off" => /\ proc[s] \in Running /\ proc[s].name \in Name
                                  /\ proc[s].given \in BOOLEAN
<1>1. \A r \in Running :
        /\ r.at \in {"started", "settled", "inserting", "found", "inserted", "serving"}
        /\ r.name \in Name /\ r.given \in BOOLEAN
  BY DEF Running
<1>2. Off.at = "off"
  BY DEF Off
<1>3. proc[s] \in Running \/ proc[s] = Off
  BY DEF StartupTypeOK
<1> QED BY <1>1, <1>2, <1>3

\* A process goes on to its next statement.
LEMMA Going ==
  ASSUME StartupTypeOK, NEW s \in Server, proc[s].at # "off",
         NEW at \in {"settled", "inserting", "found", "inserted", "serving"}, Goto(s, at)
  PROVE  /\ proc'[s].at = at /\ proc'[s].name = proc[s].name
         /\ \A r \in Server \ {s} : proc'[r] = proc[r]
         /\ proc' \in [Server -> Running \cup {Off}]
<1>1. proc[s] \in Running
  BY ProcShape
<1> DEFINE new == [proc[s] EXCEPT !.at = at]
<1>2. new \in Running /\ new.at = at /\ new.name = proc[s].name
  BY <1>1 DEF Running
<1>3. proc' = [proc EXCEPT ![s] = new]
  BY DEF Goto
<1> HIDE DEF new
<1> QED BY <1>2, <1>3 DEF StartupTypeOK

\* A process ends, and its transaction with it.
LEMMA Exiting ==
  ASSUME StartupTypeOK, NEW s \in Server, Exit(s)
  PROVE  /\ proc'[s].at = "off" /\ \A r \in Server \ {s} : proc'[r] = proc[r]
         /\ proc' \in [Server -> Running \cup {Off}]
BY DEF Exit, StartupTypeOK, Off

\* A step that leaves the database alone and changes one process, as long as
\* that one takes no lock another has.
LEMMA OneProcess ==
  ASSUME StartInv, NEW s \in Server, UNCHANGED db,
         proc' \in [Server -> Running \cup {Off}],
         \A r \in Server \ {s} : proc'[r] = proc[r],
         proc'[s].at # "serving",
         proc'[s].at \in {"settled", "inserting", "found", "inserted"} => row.exists,
         proc'[s].at = "found" => role[proc'[s].name] = "admin",
         proc'[s].at = "inserted" => role[proc'[s].name] = "none",
         \A r \in Server \ {s} : proc'[s].at \in {"found", "inserted"} => ~Holds(r, proc'[s].name)
  PROVE  StartInv'
<1>1. UNCHANGED <<role, owner, row>>
  BY DEF db
<1>2. StartupTypeOK'
  BY <1>1 DEF StartInv, StartupTypeOK, Holds
<1>3. ReadyToServe'
  <2> SUFFICES ASSUME NEW r \in Server, proc'[r].at = "serving"
               PROVE  /\ row.exists /\ role[proc'[r].name] = "admin"
                      /\ \A m \in Memo : owner[m] # None
    BY <1>1 DEF ReadyToServe
  <2>1. r # s /\ proc'[r] = proc[r]
    OBVIOUS
  <2> QED BY <2>1 DEF StartInv, ReadyToServe
<1>4. ASSUME NEW r \in Server PROVE Known(r)'
  BY <1>1 DEF StartInv, Known
<1> QED BY <1>2, <1>3, <1>4 DEF StartInv

\* What each statement of a start, and everything beside it, keeps.
LEMMA StartStep ==
  ASSUME StartInv, [StartupNext]_<<db, proc>>
  PROVE  StartInv'
<1>0. StartupTypeOK /\ ReadyToServe /\ \A s \in Server : Known(s)
  BY DEF StartInv
<1>1. ASSUME NEW s \in Server, NEW n \in Name, NEW given \in BOOLEAN, Start(s, n, given)
      PROVE  StartInv'
  <2> DEFINE new == Process("started", n, given)
  <2>1. new \in Running /\ new.at = "started"
    BY DEF Process, Running
  <2>2. proc' = [proc EXCEPT ![s] = new] /\ UNCHANGED db
    BY <1>1 DEF Start
  <2> HIDE DEF new
  <2>3. /\ proc'[s].at = "started" /\ \A r \in Server \ {s} : proc'[r] = proc[r]
        /\ proc' \in [Server -> Running \cup {Off}]
    BY <1>0, <2>1, <2>2 DEF StartupTypeOK
  <2> QED BY <2>2, <2>3, OneProcess
<1>2. ASSUME NEW s \in Server, EnsureSettings(s)
      PROVE  StartInv'
  <2>1. /\ proc[s].at = "started" /\ Goto(s, "settled") /\ UNCHANGED <<role, owner>>
        /\ row' = IF row.exists THEN row ELSE Defaults
    BY <1>2 DEF EnsureSettings
  <2>2. /\ proc'[s].at = "settled" /\ \A r \in Server \ {s} : proc'[r] = proc[r]
        /\ proc' \in [Server -> Running \cup {Off}]
    BY <1>0, <2>1, Going
  <2>3. row' \in Rows \cup {NoRow} /\ row'.exists
    <3>1. Defaults \in Rows /\ Defaults.exists
      BY DEF Defaults, Row, Rows
    <3> QED BY <1>0, <2>1, <3>1 DEF StartupTypeOK
  <2>4. StartupTypeOK'
    BY <1>0, <2>1, <2>2, <2>3 DEF StartupTypeOK, Holds
  <2>5. ReadyToServe' /\ \A r \in Server : Known(r)'
    BY <1>0, <2>1, <2>2, <2>3 DEF ReadyToServe, Known
  <2> QED BY <2>4, <2>5 DEF StartInv
<1>3. ASSUME NEW s \in Server, LookUp(s)
      PROVE  StartInv'
  <2>1. /\ proc[s].at = "settled" /\ UNCHANGED db /\ row.exists
        /\ \A r \in Server : Holds(r, proc[s].name) => role[proc[s].name] = "none"
    BY <1>0, <1>3 DEF LookUp, Known
  <2>2. CASE role[proc[s].name] = "admin"
    <3>1. Goto(s, "found")
      BY <1>3, <2>2 DEF LookUp
    <3>2. /\ proc'[s].at = "found" /\ proc'[s].name = proc[s].name
          /\ \A r \in Server \ {s} : proc'[r] = proc[r]
          /\ proc' \in [Server -> Running \cup {Off}]
      BY <1>0, <2>1, <3>1, Going
    <3> QED BY <2>1, <2>2, <3>2, OneProcess
  <2>3. CASE Goto(s, "inserting")
    <3>1. /\ proc'[s].at = "inserting" /\ \A r \in Server \ {s} : proc'[r] = proc[r]
          /\ proc' \in [Server -> Running \cup {Off}]
      BY <1>0, <2>1, <2>3, Going
    <3> QED BY <2>1, <3>1, OneProcess
  <2>4. CASE Exit(s)
    <3>1. /\ proc'[s].at = "off" /\ \A r \in Server \ {s} : proc'[r] = proc[r]
          /\ proc' \in [Server -> Running \cup {Off}]
      BY <1>0, <2>4, Exiting
    <3> QED BY <2>1, <3>1, OneProcess
  <2> QED BY <1>3, <2>2, <2>3, <2>4 DEF LookUp
<1>4. ASSUME NEW s \in Server, InsertAdmin(s)
      PROVE  StartInv'
  <2>1. /\ proc[s].at = "inserting" /\ UNCHANGED db /\ row.exists
        /\ \A r \in Server : ~Inserted(r, proc[s].name)
    BY <1>0, <1>4 DEF InsertAdmin, Known
  <2>2. CASE role[proc[s].name] = "none"
    <3>1. Goto(s, "inserted")
      BY <1>4, <2>2 DEF InsertAdmin
    <3>2. /\ proc'[s].at = "inserted" /\ proc'[s].name = proc[s].name
          /\ \A r \in Server \ {s} : proc'[r] = proc[r]
          /\ proc' \in [Server -> Running \cup {Off}]
      BY <1>0, <2>1, <3>1, Going
    <3>3. \A r \in Server : ~Holds(r, proc[s].name)
      BY <1>0, <2>1, <2>2 DEF Holds, Inserted, Known
    <3> QED BY <2>1, <2>2, <3>2, <3>3, OneProcess
  <2>3. CASE role[proc[s].name] # "none"
    <3>1. Exit(s)
      BY <1>4, <2>3 DEF InsertAdmin
    <3>2. /\ proc'[s].at = "off" /\ \A r \in Server \ {s} : proc'[r] = proc[r]
          /\ proc' \in [Server -> Running \cup {Off}]
      BY <1>0, <3>1, Exiting
    <3> QED BY <2>1, <3>2, OneProcess
  <2> QED BY <2>2, <2>3
<1>5. ASSUME NEW s \in Server, Adopt(s)
      PROVE  StartInv'
  <2>1. PICK n : n = proc[s].name
    OBVIOUS
  <2>2. /\ proc[s].at \in {"found", "inserted"} /\ Goto(s, "serving") /\ row' = row
        /\ role' = IF Inserted(s, n) THEN [role EXCEPT ![n] = "admin"] ELSE role
        /\ owner' = [m \in Memo |-> IF owner[m] = None THEN n ELSE owner[m]]
    BY <1>5, <2>1 DEF Adopt
  <2>3. n \in Name
    BY <1>0, <2>1, <2>2, ProcShape
  <2>4. /\ proc'[s].at = "serving" /\ proc'[s].name = n
        /\ \A r \in Server \ {s} : proc'[r] = proc[r]
        /\ proc' \in [Server -> Running \cup {Off}]
    BY <1>0, <2>1, <2>2, Going
  <2>5. /\ role'[n] = "admin" /\ \A k \in Name \ {n} : role'[k] = role[k]
        /\ role' \in [Name -> {"none", "user", "admin"}]
    BY <1>0, <2>1, <2>2, <2>3 DEF StartupTypeOK, Known, Inserted
  <2>6. /\ owner' \in [Memo -> Name \cup {None}] /\ \A m \in Memo : owner'[m] # None
    BY <1>0, <2>2, <2>3, NameAssumption DEF StartupTypeOK
  <2>7. \A r \in Server \ {s} : ~Holds(r, n)
    BY <1>0, <2>1, <2>2, <2>3 DEF StartupTypeOK, Holds
  <2>8. StartupTypeOK'
    BY <1>0, <2>2, <2>4, <2>5, <2>6 DEF StartupTypeOK, Holds
  <2>9. row.exists
    BY <1>0, <2>2 DEF Known
  <2>10. ASSUME NEW r \in Server, proc'[r].at = "serving"
         PROVE  role'[proc'[r].name] = "admin"
    <3>1. CASE r = s
      BY <2>4, <2>5, <3>1
    <3>2. CASE r # s
      <4>1. proc'[r] = proc[r] /\ proc[r].name \in Name
        BY <1>0, <2>4, <2>10, <3>2, ProcShape
      <4> QED BY <1>0, <2>5, <2>10, <4>1 DEF ReadyToServe
    <3> QED BY <3>1, <3>2
  <2>11. ASSUME NEW r \in Server
         PROVE  Known(r)'
    <3>1. CASE r = s
      BY <2>2, <2>4, <2>9, <3>1 DEF Known
    <3>2. CASE r # s /\ proc[r].at # "off"
      <4>1. proc'[r] = proc[r] /\ proc[r].name \in Name
        BY <1>0, <2>4, <3>2, ProcShape
      <4>2. proc[r].at \in {"found", "inserted"} => proc[r].name # n
        BY <2>7, <3>2 DEF Holds
      <4> QED BY <1>0, <2>2, <2>5, <4>1, <4>2 DEF Known
    <3>3. CASE r # s /\ proc[r].at = "off"
      BY <2>4, <3>3 DEF Known
    <3> QED BY <3>1, <3>2, <3>3
  <2> QED BY <2>2, <2>6, <2>8, <2>9, <2>10, <2>11 DEF StartInv, ReadyToServe
<1>6. ASSUME NEW s \in Server, Stop(s)
      PROVE  StartInv'
  <2>1. /\ proc'[s].at = "off" /\ \A r \in Server \ {s} : proc'[r] = proc[r]
        /\ proc' \in [Server -> Running \cup {Off}] /\ UNCHANGED db
    BY <1>0, <1>6, Exiting DEF Stop
  <2> QED BY <2>1, OneProcess
<1>7. ASSUME NEW n \in Name, Register(n)
      PROVE  StartInv'
  <2>1. /\ role[n] = "none" /\ UNCHANGED <<owner, row, proc>>
        /\ role'[n] = "user" /\ \A k \in Name \ {n} : role'[k] = role[k]
        /\ role' \in [Name -> {"none", "user", "admin"}]
        /\ \A r \in Server : ~Inserted(r, n)
    BY <1>0, <1>7 DEF Register, StartupTypeOK
  <2>2. StartupTypeOK'
    BY <1>0, <2>1 DEF StartupTypeOK, Holds
  <2>3. ASSUME NEW r \in Server, proc[r].at \in {"found", "inserted", "serving"}
        PROVE  role'[proc[r].name] = role[proc[r].name]
    <3>1. proc[r].name \in Name
      BY <1>0, <2>3, ProcShape
    <3>2. proc[r].name # n
      BY <1>0, <2>1, <2>3 DEF Known, Inserted, ReadyToServe
    <3> QED BY <2>1, <3>1, <3>2
  <2> QED BY <1>0, <2>1, <2>2, <2>3 DEF StartInv, ReadyToServe, Known
<1>8. ASSUME NEW on \in SUBSET Switch, NEW password \in Password \cup {None},
             Configure(on, password)
      PROVE  StartInv'
  <2>1. row' \in Rows /\ row'.exists /\ UNCHANGED <<role, owner, proc>>
    BY <1>8 DEF Configure, Row, Rows
  <2>2. StartupTypeOK'
    BY <1>0, <2>1 DEF StartupTypeOK, Holds
  <2> QED BY <1>0, <2>1, <2>2 DEF StartInv, ReadyToServe, Known
<1>9. CASE UNCHANGED <<db, proc>>
  <2>1. UNCHANGED <<role, owner, row, proc>>
    BY <1>9 DEF db
  <2> QED BY <1>0, <2>1 DEF StartInv, StartupTypeOK, Holds, ReadyToServe, Known
<1> QED BY <1>1, <1>2, <1>3, <1>4, <1>5, <1>6, <1>7, <1>8, <1>9 DEF StartupNext

LEMMA StartInvariance == StartupSpec => []StartInv
BY StartInitInv, StartStep, PTL DEF StartupSpec

\* Roles, owners, the settings and the processes keep their types, and no two
\* transactions hold the row of one account.
THEOREM StartTypes == StartupSpec => []StartupTypeOK
<1>1. StartInv => StartupTypeOK
  BY DEF StartInv
<1> QED BY <1>1, StartInvariance, PTL

\* Whichever process serves has its settings and its administrator, and no memo
\* is without an owner.
THEOREM Ready == StartupSpec => []ReadyToServe
<1>1. StartInv => ReadyToServe
  BY DEF StartInv
<1> QED BY <1>1, StartInvariance, PTL

\* No start promotes a user, demotes an administrator, takes a memo or resets
\* settings.
THEOREM Untouched == StartupSpec => NothingTaken
<1> DEFINE Kept == /\ \A n \in Name : role[n] # "none" => role'[n] = role[n]
                   /\ \A m \in Memo : owner[m] # None => owner'[m] = owner[m]
                   /\ row.exists /\ proc' # proc => row' = row
<1>1. ASSUME StartInv, [StartupNext]_<<db, proc>>
      PROVE  Kept
  <2>0. StartupTypeOK /\ \A s \in Server : Known(s)
    BY <1>1 DEF StartInv
  <2>1. ASSUME NEW s \in Server, Adopt(s)
        PROVE  Kept
    <3>1. PICK n : n = proc[s].name
      OBVIOUS
    <3>2. /\ row' = row
          /\ role' = IF Inserted(s, n) THEN [role EXCEPT ![n] = "admin"] ELSE role
          /\ owner' = [m \in Memo |-> IF owner[m] = None THEN n ELSE owner[m]]
      BY <2>1, <3>1 DEF Adopt
    <3>3. Inserted(s, n) => role[n] = "none"
      BY <2>0, <3>1 DEF Known, Inserted
    <3> QED BY <2>0, <3>2, <3>3 DEF StartupTypeOK
  <2>2. ASSUME NEW s \in Server, EnsureSettings(s)
        PROVE  Kept
    BY <2>2 DEF EnsureSettings
  <2>3. ASSUME UNCHANGED db
        PROVE  Kept
    BY <2>3 DEF db
  <2>4. ASSUME NEW n \in Name, Register(n)
        PROVE  Kept
    BY <2>0, <2>4 DEF Register, StartupTypeOK
  <2>5. ASSUME NEW on \in SUBSET Switch, NEW password \in Password \cup {None},
               Configure(on, password)
        PROVE  Kept
    BY <2>5 DEF Configure
  <2> QED BY <1>1, <2>1, <2>2, <2>3, <2>4, <2>5 DEF StartupNext, Start, LookUp, InsertAdmin, Stop
<1> QED BY <1>1, StartInvariance, PTL DEF StartupSpec, NothingTaken

-----------------------------------------------------------------------------
(***************************************************************************)
(* AdminPanel, for every set of panels, calls, switches and passwords.     *)
(***************************************************************************)

\* A copy differs from the row only where its administrator changed it.
Differs(on, changed) == \A x \in Switch : (x \in on) # (x \in row.on) => x \in changed

\* Unless a save has overtaken them: a form, a save that is on its way with one,
\* and an answer.
CopyKept(p) == form[p].open /\ p \notin stale => Differs(form[p].on, edits[p])
CallKept(c) ==
  /\ call[c].at = "save" /\ ~call[c].stale => Differs(call[c].on, call[c].edits)
  /\ call[c].at \in {"loaded", "answered"} /\ ~call[c].stale => Differs(call[c].on, {})

\* The inductive invariant.
PanelInv ==
  /\ TypeOK
  /\ \A p \in Panel : CopyKept(p)
  /\ \A c \in Request : CallKept(c)

LEMMA PanelInitInv == Init => PanelInv
<1> SUFFICES ASSUME Init PROVE PanelInv
  OBVIOUS
<1>1. Defaults \in Rows
  BY DEF Defaults, Row, Rows
<1>2. TypeOK
  BY <1>1 DEF Init, TypeOK, Form, Call
<1>3. \A p \in Panel : ~form[p].open
  BY DEF Init, NoForm
<1>4. \A c \in Request : call[c].at = "none"
  BY DEF Init, NoCall
<1> QED BY <1>2, <1>3, <1>4 DEF PanelInv, CopyKept, CallKept

\* What a call has at each of its stages.
SaveCall == [at : {"save"}, from : Panel \cup {None}, on : SUBSET Switch,
             typed : Password \cup {None}, edits : SUBSET Switch, stale : BOOLEAN]
AnswerCall == [at : {"loaded", "answered"}, from : Panel \cup {None}, on : SUBSET Switch,
               stale : BOOLEAN]
TripCall == [at : {"load", "saved"}, from : Panel \cup {None}]

LEMMA CallKinds ==
  /\ Call = {NoCall} \cup TripCall \cup SaveCall \cup AnswerCall
  /\ NoCall.at = "none"
  /\ \A x \in TripCall : x.at \in {"load", "saved"}
  /\ \A x \in SaveCall : x.at = "save"
  /\ \A x \in AnswerCall : x.at \in {"loaded", "answered"}
BY DEF Call, NoCall, TripCall, SaveCall, AnswerCall

LEMMA CallShape ==
  ASSUME TypeOK, NEW c \in Request
  PROVE  /\ call[c].at \in {"none", "load", "saved", "save", "loaded", "answered"}
         /\ call[c].at = "none" <=> call[c] = NoCall
         /\ call[c].at \in {"load", "saved"} => call[c] \in TripCall
         /\ call[c].at = "save" => call[c] \in SaveCall
         /\ call[c].at \in {"loaded", "answered"} => call[c] \in AnswerCall
<1>1. call[c] \in Call
  BY DEF TypeOK
<1> QED BY <1>1, CallKinds

\* A form is open or blank.
LEMMA FormShape ==
  ASSUME TypeOK, NEW p \in Panel
  PROVE  form[p] \in [on : SUBSET Switch, typed : Password \cup {None}, open : BOOLEAN]
<1>1. form[p] \in Form
  BY DEF TypeOK
<1>2. NoForm \in [on : SUBSET Switch, typed : Password \cup {None}, open : BOOLEAN]
  BY DEF NoForm
<1> QED BY <1>1, <1>2 DEF Form

\* One call goes on, with what it takes along; the row and the forms stay.
LEMMA OneCall ==
  ASSUME PanelInv, NEW c \in Request, NEW x \in Call, Step(c, x),
         UNCHANGED <<row, form, edits, stale>>,
         x.at = "save" /\ ~x.stale => Differs(x.on, x.edits),
         x.at \in {"loaded", "answered"} /\ ~x.stale => Differs(x.on, {})
  PROVE  PanelInv'
<1>1. /\ call'[c] = x /\ \A d \in Request \ {c} : call'[d] = call[d]
      /\ call' \in [Request -> Call]
  BY DEF Step, PanelInv, TypeOK
<1>2. TypeOK'
  BY <1>1 DEF PanelInv, TypeOK
<1>3. ASSUME NEW p \in Panel PROVE CopyKept(p)'
  BY DEF PanelInv, CopyKept, Differs
<1>4. ASSUME NEW d \in Request PROVE CallKept(d)'
  BY <1>1 DEF PanelInv, CallKept, Differs
<1> QED BY <1>2, <1>3, <1>4 DEF PanelInv

\* A save overtakes every copy on the panels and on the way.
LEMMA SaveStep ==
  ASSUME PanelInv, row' \in Rows, UNCHANGED <<form, edits>>, Overtake,
         call' \in [Request -> Call],
         \A d \in Request : call'[d] = Overtaken[d] \/ call'[d].at = "saved"
  PROVE  PanelInv'
<1>1. TypeOK'
  BY DEF PanelInv, TypeOK, Overtake
<1>2. ASSUME NEW p \in Panel PROVE CopyKept(p)'
  BY DEF CopyKept, Overtake
<1>3. ASSUME NEW d \in Request PROVE CallKept(d)'
  <2>1. CASE call[d].at = "save"
    <3>1. call[d] \in SaveCall
      BY <2>1, CallShape DEF PanelInv
    <3>2. Overtaken[d].stale = TRUE
      BY <2>1, <3>1 DEF Overtaken, SaveCall
    <3> QED BY <3>2 DEF CallKept
  <2>2. CASE call[d].at \in {"loaded", "answered"}
    <3>1. call[d] \in AnswerCall
      BY <2>2, CallShape DEF PanelInv
    <3>2. Overtaken[d].stale = TRUE
      BY <2>2, <3>1 DEF Overtaken, AnswerCall
    <3> QED BY <3>2 DEF CallKept
  <2>3. CASE call[d].at \notin {"save", "loaded", "answered"}
    BY <2>3 DEF Overtaken, CallKept
  <2> QED BY <2>1, <2>2, <2>3
<1> QED BY <1>1, <1>2, <1>3 DEF PanelInv

\* What was overtaken is still a call.
LEMMA OvertakenTyped ==
  ASSUME TypeOK
  PROVE  Overtaken \in [Request -> Call]
<1> SUFFICES ASSUME NEW d \in Request PROVE Overtaken[d] \in Call
  BY DEF Overtaken
<1>1. CASE call[d].at = "save"
  <2>1. [call[d] EXCEPT !.stale = TRUE] \in SaveCall
    BY <1>1, CallShape DEF SaveCall
  <2> QED BY <1>1, <2>1, CallKinds DEF Overtaken
<1>2. CASE call[d].at \in {"loaded", "answered"}
  <2>1. [call[d] EXCEPT !.stale = TRUE] \in AnswerCall
    BY <1>2, CallShape DEF AnswerCall
  <2> QED BY <1>2, <2>1, CallKinds DEF Overtaken
<1>3. CASE call[d].at \notin {"save", "loaded", "answered"}
  BY <1>3 DEF Overtaken, TypeOK
<1> QED BY <1>1, <1>2, <1>3

\* The panel goes, and its calls go on without it.
LEMMA LeaveStep ==
  ASSUME PanelInv, NEW p \in Panel, NEW calls \in [Request -> Call], Leave(p, calls),
         \A d \in Request : calls[d] = call[d] \/ calls[d] = NoCall
  PROVE  PanelInv'
<1>1. /\ form' = [form EXCEPT ![p] = NoForm] /\ edits' = [edits EXCEPT ![p] = {}]
      /\ stale' = stale \ {p} /\ row' = row
      /\ call' = [c \in Request |-> IF calls[c] # NoCall /\ calls[c].from = p
                                    THEN [calls[c] EXCEPT !.from = None] ELSE calls[c]]
  BY DEF Leave
<1>2. ASSUME NEW d \in Request
      PROVE  call'[d] \in Call /\ CallKept(d)'
  <2>0. TypeOK /\ CallKept(d)
    BY DEF PanelInv
  <2>1. CASE call'[d] = NoCall
    BY <2>1, CallKinds DEF CallKept
  <2>2. CASE call'[d] = call[d]
    BY <1>1, <2>0, <2>2 DEF TypeOK, CallKept, Differs
  <2>3. CASE call'[d] = [call[d] EXCEPT !.from = None] /\ call[d] # NoCall
    <3>1. CASE call[d].at \in {"load", "saved"}
      <4>1. call'[d] \in TripCall
        BY <2>0, <2>3, <3>1, CallShape DEF TripCall
      <4> QED BY <4>1, CallKinds DEF CallKept
    <3>2. CASE call[d].at = "save"
      <4>1. /\ call'[d] \in SaveCall /\ call'[d].at = "save"
            /\ call'[d].on = call[d].on /\ call'[d].edits = call[d].edits
            /\ call'[d].stale = call[d].stale
        BY <2>0, <2>3, <3>2, CallShape DEF SaveCall
      <4> QED BY <1>1, <2>0, <3>2, <4>1, CallKinds DEF CallKept, Differs
    <3>3. CASE call[d].at \in {"loaded", "answered"}
      <4>1. /\ call'[d] \in AnswerCall /\ call'[d].at = call[d].at
            /\ call'[d].on = call[d].on /\ call'[d].stale = call[d].stale
        BY <2>0, <2>3, <3>3, CallShape DEF AnswerCall
      <4> QED BY <1>1, <2>0, <3>3, <4>1, CallKinds DEF CallKept, Differs
    <3> QED BY <2>0, <2>3, <3>1, <3>2, <3>3, CallShape
  <2> QED BY <1>1, <2>1, <2>2, <2>3
<1>3. call' \in [Request -> Call]
  <2>1. call' = [c \in Request |-> call'[c]]
    BY <1>1
  <2> QED BY <1>2, <2>1
<1>4. TypeOK'
  BY <1>1, <1>3 DEF PanelInv, TypeOK, Form
<1>5. ASSUME NEW q \in Panel PROVE CopyKept(q)'
  <2>1. CASE q = p
    BY <1>1, <2>1 DEF PanelInv, TypeOK, CopyKept, NoForm
  <2>2. CASE q # p
    BY <1>1, <2>2 DEF PanelInv, TypeOK, CopyKept, Differs
  <2> QED BY <2>1, <2>2
<1> QED BY <1>2, <1>4, <1>5 DEF PanelInv

\* What each action keeps.
LEMMA PanelStep ==
  ASSUME PanelInv, [Next]_vars
  PROVE  PanelInv'
<1>0. TypeOK /\ (\A p \in Panel : CopyKept(p)) /\ (\A c \in Request : CallKept(c))
  BY DEF PanelInv
<1>1. ASSUME NEW c \in Request, NEW p \in Panel, Load(c, p)
      PROVE  PanelInv'
  <2> DEFINE x == Loading(p)
  <2>1. x \in TripCall /\ x.at = "load"
    BY DEF Loading, TripCall
  <2>2. x \in Call /\ Step(c, x) /\ UNCHANGED <<row, form, edits, stale>>
    BY <1>1, <2>1, CallKinds DEF Load
  <2> HIDE DEF x
  <2> QED BY <2>1, <2>2, OneCall
<1>2. ASSUME NEW c \in Request, NEW p \in Panel, Submit(c, p)
      PROVE  PanelInv'
  <2> DEFINE x == Saving(p)
  <2>1. /\ x \in SaveCall /\ x.at = "save" /\ x.on = form[p].on /\ x.edits = edits[p]
        /\ x.stale <=> p \in stale
    <3>1. /\ form[p].on \in SUBSET Switch /\ form[p].typed \in Password \cup {None}
          /\ edits[p] \in SUBSET Switch
      BY <1>0, FormShape DEF TypeOK
    <3>2. x \in SaveCall
      BY <3>1 DEF Saving, SaveCall
    <3> QED BY <3>2 DEF Saving
  <2>2. /\ x \in Call /\ Step(c, x) /\ UNCHANGED <<row, form, edits, stale>> /\ form[p].open
    BY <1>2, <2>1, CallKinds DEF Submit
  <2> HIDE DEF x
  <2>3. x.at = "save" /\ ~x.stale => Differs(x.on, x.edits)
    BY <1>0, <2>1, <2>2 DEF CopyKept
  <2> QED BY <2>1, <2>2, <2>3, OneCall
<1>3. ASSUME NEW c \in Request, ReadSystem(c) \/ ReadBack(c)
      PROVE  PanelInv'
  <2> DEFINE at == IF call[c].at = "load" THEN "loaded" ELSE "answered"
             x == Answer(at, call[c].from, row.on)
  <2>1. call[c] \in TripCall /\ row.on \in SUBSET Switch
    BY <1>0, <1>3, CallShape DEF ReadSystem, ReadBack, TypeOK, Rows
  <2>2. x \in AnswerCall /\ x.at \in {"loaded", "answered"} /\ x.on = row.on
    BY <2>1 DEF Answer, AnswerCall, TripCall
  <2>3. x \in Call /\ Step(c, x) /\ UNCHANGED <<row, form, edits, stale>>
    BY <1>3, <2>2, CallKinds DEF ReadSystem, ReadBack
  <2> HIDE DEF x
  <2> QED BY <2>2, <2>3, OneCall DEF Differs
<1>4. ASSUME NEW c \in Request, FailCall(c)
      PROVE  PanelInv'
  <2>1. NoCall \in Call /\ NoCall.at = "none"
    BY CallKinds
  <2> QED BY <1>4, <2>1, OneCall DEF FailCall
<1>5. ASSUME NEW p \in Panel, NEW x \in Switch, Edit(p, x)
      PROVE  PanelInv'
  <2> DEFINE f == [form[p] EXCEPT !.on = IF x \in @ THEN @ \ {x} ELSE @ \cup {x}]
  <2>1. /\ form' = [form EXCEPT ![p] = f] /\ edits' = [edits EXCEPT ![p] = @ \cup {x}]
        /\ UNCHANGED <<row, call, stale>> /\ form[p].open
    BY <1>5 DEF Edit
  <2>2. form[p] \in [on : SUBSET Switch, typed : Password \cup {None}, open : {TRUE}]
    BY <1>0, <2>1, FormShape
  <2>3. /\ f \in Form
        /\ f.on = IF x \in form[p].on THEN form[p].on \ {x} ELSE form[p].on \cup {x}
    BY <2>2 DEF Form
  <2> HIDE DEF f
  <2>4. TypeOK'
    BY <1>0, <2>1, <2>3 DEF TypeOK
  <2>5. ASSUME NEW q \in Panel PROVE CopyKept(q)'
    <3>1. CASE q = p
      BY <1>0, <2>1, <2>3, <3>1 DEF TypeOK, CopyKept, Differs
    <3>2. CASE q # p
      BY <1>0, <2>1, <3>2 DEF TypeOK, CopyKept, Differs
    <3> QED BY <3>1, <3>2
  <2>6. ASSUME NEW c \in Request PROVE CallKept(c)'
    BY <1>0, <2>1 DEF CallKept, Differs
  <2> QED BY <2>4, <2>5, <2>6 DEF PanelInv
<1>6. ASSUME NEW p \in Panel, NEW password \in Password \cup {None}, Type(p, password)
      PROVE  PanelInv'
  <2> DEFINE f == [form[p] EXCEPT !.typed = password]
  <2>1. /\ form' = [form EXCEPT ![p] = f] /\ UNCHANGED <<row, call, edits, stale>> /\ form[p].open
    BY <1>6 DEF Type
  <2>2. form[p] \in [on : SUBSET Switch, typed : Password \cup {None}, open : {TRUE}]
    BY <1>0, <2>1, FormShape
  <2>3. f \in Form /\ f.on = form[p].on
    BY <2>2 DEF Form
  <2> HIDE DEF f
  <2>4. TypeOK'
    BY <1>0, <2>1, <2>3 DEF TypeOK
  <2>5. ASSUME NEW q \in Panel PROVE CopyKept(q)'
    <3>1. form'[q].on = form[q].on /\ (form'[q].open => form[q].open)
      BY <1>0, <2>1, <2>3 DEF TypeOK
    <3> QED BY <1>0, <2>1, <3>1 DEF CopyKept, Differs
  <2>6. ASSUME NEW c \in Request PROVE CallKept(c)'
    BY <1>0, <2>1 DEF CallKept, Differs
  <2> QED BY <2>4, <2>5, <2>6 DEF PanelInv
<1>7. ASSUME NEW on \in SUBSET Switch, NEW typed \in Password \cup {None}
      PROVE  Written(on, typed) \in Rows /\ Written(on, typed).on = on
  BY <1>0 DEF Written, Row, Rows, TypeOK
<1>8. ASSUME NEW c \in Request, Save(c)
      PROVE  PanelInv'
  <2>1. /\ call[c] \in SaveCall /\ row' = Written(call[c].on, call[c].typed) /\ Overtake
        /\ call' = [Overtaken EXCEPT ![c] = Saved(call[c].from)] /\ UNCHANGED <<form, edits>>
    BY <1>0, <1>8, CallShape DEF Save
  <2>2. row' \in Rows /\ call[c].from \in Panel \cup {None}
    BY <1>7, <2>1 DEF SaveCall
  <2>3. Saved(call[c].from) \in TripCall /\ Saved(call[c].from).at = "saved"
    BY <2>2 DEF Saved, TripCall
  <2>4. /\ call' \in [Request -> Call]
        /\ \A d \in Request : call'[d] = Overtaken[d] \/ call'[d].at = "saved"
    BY <1>0, <2>1, <2>3, OvertakenTyped, CallKinds
  <2> QED BY <2>1, <2>2, <2>4, SaveStep
<1>9. ASSUME NEW on \in SUBSET Switch, NEW typed \in Password \cup {None}, SaveElsewhere(on, typed)
      PROVE  PanelInv'
  BY <1>0, <1>7, <1>9, OvertakenTyped, SaveStep DEF SaveElsewhere
<1>10. ASSUME NEW c \in Request, Arrive(c)
       PROVE  PanelInv'
  <2>1. PICK p : p = call[c].from
    OBVIOUS
  <2>2. /\ call[c] \in AnswerCall /\ call[c].at \in {"loaded", "answered"} /\ Step(c, NoCall)
        /\ row' = row /\ p \in Panel \cup {None} /\ call[c].on \in SUBSET Switch
    BY <1>0, <1>10, <2>1, CallShape DEF Arrive, AnswerCall
  <2>3. CASE p # None /\ (call[c].at = "answered" => form[p].open)
    <3> DEFINE f == [form[p] EXCEPT !.on = call[c].on, !.open = TRUE]
    <3>1. /\ edits' = [edits EXCEPT ![p] = {}] /\ p \in Panel
          /\ stale' = IF call[c].stale THEN stale \cup {p} ELSE stale \ {p}
      BY <1>10, <2>1, <2>2, <2>3 DEF Arrive
    <3>2. form[p] \in [on : SUBSET Switch, typed : Password \cup {None}, open : BOOLEAN]
      BY <1>0, <3>1, FormShape
    <3>3. form' = [form EXCEPT ![p] = f]
      BY <1>0, <1>10, <2>1, <2>3, <3>1, <3>2 DEF Arrive, TypeOK
    <3>4. f \in Form /\ f.on = call[c].on
      BY <2>2, <3>2 DEF Form
    <3> HIDE DEF f
    <3>5. /\ call'[c].at = "none" /\ \A d \in Request \ {c} : call'[d] = call[d]
          /\ call' \in [Request -> Call]
      BY <1>0, <2>2, CallKinds DEF Step, TypeOK
    <3>6. TypeOK'
      BY <1>0, <2>2, <3>1, <3>3, <3>4, <3>5 DEF TypeOK
    <3>7. ASSUME NEW q \in Panel PROVE CopyKept(q)'
      <4>1. CASE q = p
        <5>1. form'[q].on = call[c].on /\ edits'[q] = {} /\ (q \notin stale' => ~call[c].stale)
          BY <1>0, <3>1, <3>3, <3>4, <4>1 DEF TypeOK
        <5> QED BY <1>0, <2>2, <5>1 DEF CallKept, CopyKept, Differs
      <4>2. CASE q # p
        BY <1>0, <2>2, <3>1, <3>3, <4>2 DEF TypeOK, CopyKept, Differs
      <4> QED BY <4>1, <4>2
    <3>8. ASSUME NEW d \in Request PROVE CallKept(d)'
      BY <1>0, <2>2, <3>5 DEF CallKept, Differs
    <3> QED BY <3>6, <3>7, <3>8 DEF PanelInv
  <2>4. CASE ~(p # None /\ (call[c].at = "answered" => form[p].open))
    <3>1. UNCHANGED <<row, form, edits, stale>>
      BY <1>10, <2>1, <2>2, <2>4 DEF Arrive
    <3> QED BY <2>2, <3>1, OneCall, CallKinds
  <2> QED BY <2>3, <2>4
<1>11. ASSUME NEW c \in Request, EmptyArrives(c)
       PROVE  PanelInv'
  <2>1. /\ call[c] \in AnswerCall /\ call[c].from # None
        /\ Leave(call[c].from, [call EXCEPT ![c] = NoCall])
    BY <1>0, <1>11, CallShape DEF EmptyArrives
  <2>2. PICK p \in Panel : p = call[c].from
    BY <2>1 DEF AnswerCall
  <2> DEFINE calls == [call EXCEPT ![c] = NoCall]
  <2>3. /\ calls \in [Request -> Call]
        /\ \A d \in Request : calls[d] = call[d] \/ calls[d] = NoCall
    BY <1>0, CallKinds DEF TypeOK
  <2>4. Leave(p, calls)
    BY <2>1, <2>2
  <2> HIDE DEF calls
  <2> QED BY <2>3, <2>4, LeaveStep
<1>12. ASSUME NEW p \in Panel, ClosePanel(p)
       PROVE  PanelInv'
  BY <1>0, <1>12, LeaveStep DEF ClosePanel, TypeOK
<1>13. CASE UNCHANGED vars
  BY <1>0, <1>13 DEF vars, PanelInv, TypeOK, CopyKept, CallKept, Differs
<1> QED BY <1>1, <1>2, <1>3, <1>4, <1>5, <1>6, <1>8, <1>9, <1>10, <1>11, <1>12, <1>13 DEF Next

LEMMA PanelInvariance == Spec => []PanelInv
BY PanelInitInv, PanelStep, PTL DEF Spec

\* The row, the forms and the calls keep their types.
THEOREM PanelTypes == Spec => []TypeOK
<1>1. PanelInv => TypeOK
  BY DEF PanelInv
<1> QED BY <1>1, PanelInvariance, PTL

\* A panel with no edits that no save has overtaken shows what is in force.
THEOREM Current == Spec => []PanelCurrent
<1>1. PanelInv => PanelCurrent
  <2> SUFFICES ASSUME PanelInv, NEW p \in Panel, form[p].open, edits[p] = {}, p \notin stale
               PROVE  form[p].on = row.on
    BY DEF PanelCurrent
  <2>1. Differs(form[p].on, {})
    BY DEF PanelInv, CopyKept
  <2>2. form[p].on \in SUBSET Switch /\ row.on \in SUBSET Switch
    BY FormShape DEF PanelInv, TypeOK, Rows
  <2> QED BY <2>1, <2>2 DEF Differs
<1> QED BY <1>1, PanelInvariance, PTL

\* A save changes what its administrator changed, unless another save has
\* overtaken the copy it was made from.
THEOREM OnlyEdits == Spec => OnlyEditsSaved
<1> DEFINE Good(c) == call[c].at = "save" /\ call'[c].at = "saved" /\ ~call[c].stale =>
                        \A x \in Switch : (x \in row.on) # (x \in row'.on) => x \in call[c].edits
<1>1. ASSUME PanelInv, [Next]_vars, NEW c \in Request
      PROVE  Good(c)
  <2>0. TypeOK /\ CallKept(c)
    BY <1>1 DEF PanelInv
  <2> SUFFICES ASSUME call[c].at = "save", call'[c].at = "saved", ~call[c].stale
               PROVE  \A x \in Switch : (x \in row.on) # (x \in row'.on) => x \in call[c].edits
    OBVIOUS
  <2>1. ASSUME NEW d \in Request, NEW x, Step(d, x), d # c \/ x.at # "saved"
        PROVE  FALSE
    BY <2>0, <2>1 DEF Step, TypeOK
  <2>2. call[c] \in SaveCall /\ Overtaken[c].at = "save"
    BY <2>0, CallShape DEF Overtaken, SaveCall
  <2>3. ASSUME NEW d \in Request, Save(d)
        PROVE  d = c /\ row'.on = call[c].on
    <3>1. d = c
      BY <2>0, <2>2, <2>3, OvertakenTyped DEF Save
    <3>2. row' = Written(call[c].on, call[c].typed)
      BY <2>3, <3>1 DEF Save
    <3> QED BY <3>1, <3>2 DEF Written, Row
  <2>4. ASSUME NEW on, NEW typed, SaveElsewhere(on, typed)
        PROVE  FALSE
    BY <2>2, <2>4 DEF SaveElsewhere
  <2>5. ASSUME NEW p, NEW calls, Leave(p, calls), calls[c] = call[c] \/ calls[c] = NoCall
        PROVE  FALSE
    <3>1. call'[c] \in {call[c], NoCall, [call[c] EXCEPT !.from = None]}
      BY <2>5, <2>2 DEF Leave
    <3>2. [call[c] EXCEPT !.from = None].at = "save"
      BY <2>2 DEF SaveCall
    <3> QED BY <3>1, <3>2, CallKinds
  <2>6. ASSUME NEW d \in Request, NEW p \in Panel, Load(d, p) \/ Submit(d, p)
        PROVE  FALSE
    BY <2>1, <2>6 DEF Load, Submit, Loading, Saving
  <2>7. ASSUME NEW d \in Request, ReadSystem(d) \/ ReadBack(d) \/ Arrive(d) \/ FailCall(d)
        PROVE  FALSE
    BY <2>1, <2>7, CallKinds DEF ReadSystem, ReadBack, Arrive, FailCall, Answer
  <2>8. ASSUME NEW d \in Request, EmptyArrives(d)
        PROVE  FALSE
    BY <2>0, <2>5, <2>8 DEF EmptyArrives, TypeOK
  <2>9. ASSUME NEW p \in Panel, ClosePanel(p)
        PROVE  FALSE
    BY <2>5, <2>9 DEF ClosePanel
  <2>10. ASSUME UNCHANGED call
         PROVE  FALSE
    BY <2>10
  <2>11. ASSUME NEW p \in Panel, NEW x, Edit(p, x) \/ Type(p, x)
         PROVE  FALSE
    BY <2>10, <2>11 DEF Edit, Type
  <2>12. ASSUME UNCHANGED vars
         PROVE  FALSE
    BY <2>10, <2>12 DEF vars
  <2>13. \E d \in Request : Save(d)
    BY <1>1, <2>4, <2>6, <2>7, <2>8, <2>9, <2>11, <2>12 DEF Next
  <2>14. row'.on = call[c].on
    BY <2>3, <2>13
  <2>15. Differs(call[c].on, call[c].edits)
    BY <2>0 DEF CallKept
  <2>16. ASSUME NEW x \in Switch, (x \in row.on) # (x \in row'.on)
         PROVE  x \in call[c].edits
    <3>1. (x \in call[c].on) # (x \in row.on)
      BY <2>14, <2>16
    <3> QED BY <2>15, <3>1 DEF Differs
  <2> QED BY <2>16
<1>2. PanelInv /\ [Next]_vars => [\A c \in Request : Good(c)]_vars
  BY <1>1
<1> QED BY <1>2, PanelInvariance, PTL DEF Spec, OnlyEditsSaved
=============================================================================

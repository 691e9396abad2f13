------------------------------ MODULE Startup ------------------------------
(***************************************************************************)
(* How a server process comes up: main.go with Ensure of the settings and  *)
(* EnsureBootstrapAdmin of internal/repository, on a database that other   *)
(* processes, or an older version of the program, use or have used.        *)
(*                                                                         *)
(* EnsureBootstrapAdmin is one transaction of three statements: a locking  *)
(* look-up of the account, an insert when it is missing, and the adoption  *)
(* of memos without an owner, with which it commits.  Any error ends the   *)
(* process; the container is started again.                                *)
(***************************************************************************)
EXTENDS Settings

CONSTANTS Server,  \* processes
          Name,    \* account names
          Memo

ASSUME NameAssumption == None \notin Name

VARIABLES role,   \* role of the row of each account name, or "none"
          owner,  \* user_id of each memo
          proc    \* where each process is

db == <<role, owner, row>>

Off == [at |-> "off"]
\* name and given: admin.username and whether a password is configured.
Process(at, n, given) == [at |-> at, name |-> n, given |-> given]
Running == [at : {"started", "settled", "inserting", "found", "inserted", "serving"},
            name : Name, given : BOOLEAN]

\* A process that has inserted the row of n and not committed; or has locked it.
Inserted(s, n) == proc[s].at = "inserted" /\ proc[s].name = n
Holds(s, n) == proc[s].at \in {"found", "inserted"} /\ proc[s].name = n

\* No two transactions hold the row of one account.
StartupTypeOK ==
  /\ role \in [Name -> {"none", "user", "admin"}]
  /\ owner \in [Memo -> Name \cup {None}]
  /\ row \in Rows \cup {NoRow}
  /\ proc \in [Server -> Running \cup {Off}]
  /\ \A s, r \in Server, n \in Name : Holds(s, n) /\ Holds(r, n) => s = r

Goto(s, at) == proc' = [proc EXCEPT ![s].at = at]
Exit(s) == proc' = [proc EXCEPT ![s] = Off]

\* The database is new, or an older version left it: that one knew neither
\* settings nor owners of memos.
StartupInit ==
  /\ role \in [Name -> {"none", "user"}]
  /\ owner = [m \in Memo |-> None]
  /\ row = NoRow
  /\ proc = [s \in Server |-> Off]

-----------------------------------------------------------------------------
\* Load the configuration, connect and migrate.
Start(s, n, given) ==
  /\ proc[s] = Off
  /\ proc' = [proc EXCEPT ![s] = Process("started", n, given)]
  /\ UNCHANGED db

\* Mutant of EnsureSettings: the defaults replace what was saved.
ResetSettings(s) ==
  /\ proc[s].at = "started"
  /\ row' = Defaults
  /\ Goto(s, "settled")
  /\ UNCHANGED <<role, owner>>

\* Ensure: the defaults are inserted, or there is a row already.
EnsureSettings(s) ==
  /\ proc[s].at = "started"
  /\ row' = IF row.exists THEN row ELSE Defaults
  /\ Goto(s, "settled")
  /\ UNCHANGED <<role, owner>>

\* Mutant of LookUp: whoever has the name.
LookUpAnyRole(s) ==
  /\ proc[s].at = "settled"
  /\ LET n == proc[s].name
     IN /\ \A r \in Server : Holds(r, n) => role[n] = "none"
        /\ CASE role[n] # "none" -> Goto(s, "found")
             [] role[n] = "none" /\ proc[s].given -> Goto(s, "inserting")
             [] OTHER -> Exit(s)
  /\ UNCHANGED db

\* SELECT ... FOR UPDATE waits for a row that is locked and does not see one
\* that is not committed.  Without an account a password is needed, and the
\* account of an ordinary user is refused.
LookUp(s) ==
  /\ proc[s].at = "settled"
  /\ LET n == proc[s].name
     IN /\ \A r \in Server : Holds(r, n) => role[n] = "none"
        /\ CASE role[n] = "admin" -> Goto(s, "found")
             [] role[n] = "none" /\ proc[s].given -> Goto(s, "inserting")
             [] OTHER -> Exit(s)
  /\ UNCHANGED db

\* Mutant of InsertAdmin: no unique index to wait at.
InsertAdminAnyway(s) ==
  /\ proc[s].at = "inserting"
  /\ Goto(s, "inserted")
  /\ UNCHANGED db

\* The INSERT waits for another one of the same name and fails if that one, or
\* a registration, was first.
InsertAdmin(s) ==
  /\ proc[s].at = "inserting"
  /\ LET n == proc[s].name
     IN /\ \A r \in Server : ~Inserted(r, n)
        /\ IF role[n] = "none" THEN Goto(s, "inserted") ELSE Exit(s)
  /\ UNCHANGED db

\* Mutant of Adopt: no condition on the owner.
AdoptAll(s) ==
  /\ proc[s].at \in {"found", "inserted"}
  /\ LET n == proc[s].name
     IN /\ role' = IF Inserted(s, n) THEN [role EXCEPT ![n] = "admin"] ELSE role
        /\ owner' = [m \in Memo |-> n]
  /\ Goto(s, "serving")
  /\ UNCHANGED row

\* Memos of nobody become the administrator's; the transaction commits and the
\* process listens.
Adopt(s) ==
  /\ proc[s].at \in {"found", "inserted"}
  /\ LET n == proc[s].name
     IN /\ role' = IF Inserted(s, n) THEN [role EXCEPT ![n] = "admin"] ELSE role
        /\ owner' = [m \in Memo |-> IF owner[m] = None THEN n ELSE owner[m]]
  /\ Goto(s, "serving")
  /\ UNCHANGED row

\* A process ends at any moment; an open transaction is rolled back.
Stop(s) ==
  /\ Failures
  /\ proc[s] # Off
  /\ Exit(s)
  /\ UNCHANGED db

Serving == \E s \in Server : proc[s].at = "serving"

\* An administrator saves the settings: the AdminPanel module has the steps.
Configure(on, password) ==
  /\ Serving
  /\ row' = Row(on, password)
  /\ UNCHANGED <<role, owner, proc>>

\* Register, on a process that serves, under the registration switch it read
\* earlier: its INSERT waits like InsertAdmin's.
Register(n) ==
  /\ Serving
  /\ role[n] = "none"
  /\ \A r \in Server : ~Inserted(r, n)
  /\ role' = [role EXCEPT ![n] = "user"]
  /\ UNCHANGED <<owner, row, proc>>

StartupNext ==
  \/ \E s \in Server, n \in Name, given \in BOOLEAN : Start(s, n, given)
  \/ \E s \in Server :
       EnsureSettings(s) \/ LookUp(s) \/ InsertAdmin(s) \/ Adopt(s) \/ Stop(s)
  \/ \E n \in Name : Register(n)
  \/ \E on \in SUBSET Switch, password \in Password \cup {None} : Configure(on, password)

StartupSpec == StartupInit /\ [][StartupNext]_<<db, proc>>

-----------------------------------------------------------------------------
\* A process that takes requests has its settings and its administrator, who
\* owns what nobody owned, whatever starts, registers or stops beside it.
ReadyToServe ==
  \A s \in Server : proc[s].at = "serving" =>
    /\ row.exists
    /\ role[proc[s].name] = "admin"
    /\ \A m \in Memo : owner[m] # None

\* A start never makes an administrator of an ordinary user, takes the role
\* from one, takes a memo from its owner or resets settings that were saved.
NothingTaken ==
  [][/\ \A n \in Name : role[n] # "none" => role'[n] = role[n]
     /\ \A m \in Memo : owner[m] # None => owner'[m] = owner[m]
     /\ row.exists /\ proc' # proc => row' = row]_<<db, proc>>
=============================================================================

------------------------------ MODULE Settings ------------------------------
(***************************************************************************)
(* The one row of system_settings: what the processes of the server and    *)
(* the panels of its administrators have in common.                        *)
(***************************************************************************)
CONSTANTS Switch,    \* switches of the row that are looked at
          Password,  \* SMTP passwords
          None,
          Failures   \* may an I/O fail, a client leave, a process stop?

ASSUME SwitchAssumption == Switch \subseteq {"registration", "confirm", "recovery", "smtp"}
ASSUME PasswordAssumption == None \notin Password
ASSUME FailuresAssumption == Failures \in BOOLEAN

VARIABLE row  \* the row of system_settings, or NoRow

NoRow == [on |-> {}, password |-> None, exists |-> FALSE]
Row(on, password) == [on |-> on, password |-> password, exists |-> TRUE]
Rows == [on : SUBSET Switch, password : Password \cup {None}, exists : {TRUE}]

\* What Ensure inserts.
Defaults == Row({"registration"} \cap Switch, None)
=============================================================================

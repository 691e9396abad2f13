----------------------------- MODULE AdminPanel -----------------------------
(***************************************************************************)
(* The system settings: settings_handlers.go on the one row of             *)
(* repository/settings.go, edited through AccountPanel.tsx by several      *)
(* administrators.                                                         *)
(*                                                                         *)
(* A panel holds a copy of the row, the administrator changes the copy,    *)
(* and a save sends all of it back.  Nothing disables the form meanwhile   *)
(* and no call is cancelled.                                               *)
(***************************************************************************)
EXTENDS Settings

CONSTANTS Panel,   \* panels that are looked at
          Request  \* their calls in flight

ASSUME PanelAssumption == None \notin Panel

VARIABLES form,   \* what each panel shows: its copy of the switches, and the
                  \* text of its password field
          call,   \* the calls of the panels
          edits,  \* history: switches changed on a panel since its copy was taken
          stale   \* history: panels whose copy a save has overtaken

vars == <<row, form, call, edits, stale>>

NoForm == [on |-> {}, typed |-> None, open |-> FALSE]
Form == {NoForm} \cup [on : SUBSET Switch, typed : Password \cup {None}, open : {TRUE}]

\* A load or a save on its way, a save that is committed, and an answer: the
\* switches to show.  from: the panel, or None after it was closed.
NoCall == [at |-> "none"]
Loading(p) == [at |-> "load", from |-> p]
Saving(p) == [at |-> "save", from |-> p, on |-> form[p].on, typed |-> form[p].typed,
              edits |-> edits[p], stale |-> p \in stale]
Saved(p) == [at |-> "saved", from |-> p]
Answer(at, p, on) == [at |-> at, from |-> p, on |-> on, stale |-> FALSE]

Call ==
  {NoCall}
    \cup [at : {"load", "saved"}, from : Panel \cup {None}]
    \cup [at : {"save"}, from : Panel \cup {None}, on : SUBSET Switch,
          typed : Password \cup {None}, edits : SUBSET Switch, stale : BOOLEAN]
    \cup [at : {"loaded", "answered"}, from : Panel \cup {None}, on : SUBSET Switch,
          stale : BOOLEAN]

TypeOK ==
  /\ row \in Rows
  /\ form \in [Panel -> Form]
  /\ call \in [Request -> Call]
  /\ edits \in [Panel -> SUBSET Switch]
  /\ stale \subseteq Panel

\* The row is as Ensure inserted it, and no page is open.
Init ==
  /\ row = Defaults
  /\ form = [p \in Panel |-> NoForm]
  /\ call = [c \in Request |-> NoCall]
  /\ edits = [p \in Panel |-> {}]
  /\ stale = {}

Step(c, x) == call' = [call EXCEPT ![c] = x]

-----------------------------------------------------------------------------
\* loadSystem: the button is there as long as nothing is loaded.
Load(c, p) ==
  /\ call[c] = NoCall
  /\ ~form[p].open
  /\ Step(c, Loading(p))
  /\ UNCHANGED <<row, form, edits, stale>>

\* Mutant of ReadSystem: the answer leaves a column out.
ReadSystemPart(c) ==
  /\ call[c].at = "load"
  /\ Step(c, Answer("loaded", call[c].from, row.on \ {"smtp"}))
  /\ UNCHANGED <<row, form, edits, stale>>

\* handleSystemInfo reads the row.
ReadSystem(c) ==
  /\ call[c].at = "load"
  /\ Step(c, Answer("loaded", call[c].from, row.on))
  /\ UNCHANGED <<row, form, edits, stale>>

Edit(p, x) ==
  /\ form[p].open
  /\ form' = [form EXCEPT ![p].on = IF x \in @ THEN @ \ {x} ELSE @ \cup {x}]
  /\ edits' = [edits EXCEPT ![p] = @ \cup {x}]
  /\ UNCHANGED <<row, call, stale>>

Type(p, password) ==
  /\ form[p].open
  /\ form' = [form EXCEPT ![p].typed = password]
  /\ UNCHANGED <<row, call, edits, stale>>

\* saveSystem sends the whole form.
Submit(c, p) ==
  /\ call[c] = NoCall
  /\ form[p].open
  /\ Step(c, Saving(p))
  /\ UNCHANGED <<row, form, edits, stale>>

\* validateSystemSettings: mails must be sendable when a mail is required.
Valid(on) == on \cap {"confirm", "recovery"} # {} => "smtp" \in on

\* What is written for a save of these switches and this password field.
Written(on, typed) == Row(on, IF typed = None THEN row.password ELSE typed)

\* A save overtakes every copy taken before, until its own answer arrives.
Overtaken ==
  [d \in Request |-> IF call[d].at \in {"save", "loaded", "answered"}
                    THEN [call[d] EXCEPT !.stale = TRUE] ELSE call[d]]
Overtake == stale' = stale \cup {p \in Panel : form[p].open}

\* handleUpdateSystem and Save: every switch is written, the password only if
\* one was typed.
Save(c) ==
  /\ call[c].at = "save"
  /\ Valid(call[c].on)
  /\ row' = Written(call[c].on, call[c].typed)
  /\ call' = [Overtaken EXCEPT ![c] = Saved(call[c].from)]
  /\ Overtake
  /\ UNCHANGED <<form, edits>>

\* The save of an administrator whose panel is not looked at.
SaveElsewhere(on, typed) ==
  /\ Valid(on)
  /\ row' = Written(on, typed)
  /\ call' = Overtaken
  /\ Overtake
  /\ UNCHANGED <<form, edits>>

\* handleUpdateSystem reads the row again, whoever saved last.
ReadBack(c) ==
  /\ call[c].at = "saved"
  /\ Step(c, Answer("answered", call[c].from, row.on))
  /\ UNCHANGED <<row, form, edits, stale>>

\* Mutant of Arrive: answers are applied on a page that was left.
ArriveAnyway(c) ==
  /\ call[c].at \in {"loaded", "answered"}
  /\ LET p == call[c].from
     IN /\ form' = [form EXCEPT ![p].on = call[c].on, ![p].open = TRUE]
        /\ edits' = [edits EXCEPT ![p] = {}]
        /\ stale' = IF call[c].stale THEN stale \cup {p} ELSE stale \ {p}
  /\ Step(c, NoCall)
  /\ UNCHANGED row

\* Mutant of Arrive: a save is answered with a message only.
ArriveKeepsCopy(c) ==
  /\ call[c].at \in {"loaded", "answered"}
  /\ LET p == call[c].from
     IN IF p # None /\ (call[c].at = "answered" => form[p].open)
        THEN /\ form' = IF call[c].at = "answered" THEN form
                        ELSE [form EXCEPT ![p].on = call[c].on, ![p].open = TRUE]
             /\ edits' = [edits EXCEPT ![p] = {}]
             /\ stale' = IF call[c].stale THEN stale \cup {p} ELSE stale \ {p}
        ELSE UNCHANGED <<form, edits, stale>>
  /\ Step(c, NoCall)
  /\ UNCHANGED row

\* The panel shows the answer instead of its copy.  The password field keeps
\* its text: React does not control it.
Arrive(c) ==
  /\ call[c].at \in {"loaded", "answered"}
  /\ LET p == call[c].from
     IN IF p # None /\ (call[c].at = "answered" => form[p].open)
        THEN /\ form' = [form EXCEPT ![p].on = call[c].on, ![p].open = TRUE]
             /\ edits' = [edits EXCEPT ![p] = {}]
             /\ stale' = IF call[c].stale THEN stale \cup {p} ELSE stale \ {p}
        ELSE UNCHANGED <<form, edits, stale>>
  /\ Step(c, NoCall)
  /\ UNCHANGED row

\* The settings are refused, a trip fails, or no process answers: the panel
\* shows an error and stays as it is.
FailCall(c) ==
  /\ call[c].at \in {"load", "save", "saved"}
  /\ Failures \/ (call[c].at = "save" /\ ~Valid(call[c].on))
  /\ Step(c, NoCall)
  /\ UNCHANGED <<row, form, edits, stale>>

\* The copy of panel p is gone; its calls are not cancelled.
Leave(p, calls) ==
  /\ form' = [form EXCEPT ![p] = NoForm]
  /\ call' = [c \in Request |-> IF calls[c] # NoCall /\ calls[c].from = p
                               THEN [calls[c] EXCEPT !.from = None] ELSE calls[c]]
  /\ edits' = [edits EXCEPT ![p] = {}]
  /\ stale' = stale \ {p}
  /\ UNCHANGED row

ClosePanel(p) == form[p].open /\ Leave(p, call)

\* An answer without a body that can be read is an empty success for request:
\* there are no settings to render, and the page goes down.
EmptyArrives(c) ==
  /\ Failures
  /\ call[c].at \in {"loaded", "answered"} /\ call[c].from # None
  /\ call[c].at = "answered" => form[call[c].from].open
  /\ Leave(call[c].from, [call EXCEPT ![c] = NoCall])

Next ==
  \/ \E c \in Request, p \in Panel : Load(c, p) \/ Submit(c, p)
  \/ \E p \in Panel, x \in Switch : Edit(p, x)
  \/ \E p \in Panel, password \in Password \cup {None} : Type(p, password)
  \/ \E c \in Request : ReadSystem(c) \/ Save(c) \/ ReadBack(c) \/ Arrive(c) \/ EmptyArrives(c) \/ FailCall(c)
  \/ \E p \in Panel : ClosePanel(p)
  \/ \E on \in SUBSET Switch, typed \in Password \cup {None} : SaveElsewhere(on, typed)

Spec == Init /\ [][Next]_vars

-----------------------------------------------------------------------------
\* A save of a panel changes a switch only if its administrator did, unless
\* another save has overtaken the copy it was made from.
OnlyEditsSaved ==
  [][\A c \in Request : call[c].at = "save" /\ call'[c].at = "saved" /\ ~call[c].stale =>
       \A x \in Switch : (x \in row.on) # (x \in row'.on) => x \in call[c].edits]_vars

\* A panel whose copy was not edited, and was not overtaken by a save, shows what
\* is in force.
PanelCurrent ==
  \A p \in Panel :
    form[p].open /\ edits[p] = {} /\ p \notin stale => form[p].on = row.on
=============================================================================

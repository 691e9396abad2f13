------------------------------ MODULE MemoPage ------------------------------
(***************************************************************************)
(* The page of memos, web/src/features/memos/MemoPage.tsx, over the rows   *)
(* of internal/service/memo.go; the files of a memo are in the module      *)
(* Memos.                                                                  *)
(*                                                                         *)
(* The page fetches the list once, when it is mounted.  After that it only *)
(* applies the answers of its own calls, in the order in which they        *)
(* arrive.  Other devices work on the same rows.                           *)
(***************************************************************************)
EXTENDS Sequences

CONSTANTS Memo,   \* ids of memos
          Call,   \* calls in flight
          None

ASSUME NoneAssumption == None \notin Memo \cup {"open", "done"}

VARIABLES row,      \* server: the status of each memo, or None
          page,     \* the state of the component
          call,     \* the calls in flight, of the page and of other devices
          blurred,  \* history: memos two calls were about at once, or one that
                    \* failed, whose answer was lost, or of another device
          deleted,  \* history: memos that were deleted
          copied    \* history: memos an update held a copy of when they were

history == <<blurred, deleted, copied>>
vars == <<row, page, call, history>>

Status == {"open", "done"}
Flip(status) == IF status = "done" THEN "open" ELSE "done"

\* The status on each card the list has of a memo; the order of the memos and
\* the filter are left out.
List == [Memo -> Seq(Status)]
Card(status) == IF status = None THEN <<>> ELSE <<status>>

Closed == [open |-> FALSE]
Page == [open : {TRUE}, list : List, busy : BOOLEAN]

\* memo: the memo of the call, None while it has no id yet.  status: what an
\* update sends, then what the answer shows.  list: the answer of a load.
\* here: is the page that made the call still there?
NoCall == [kind |-> "none"]
PageCall == [kind : {"load", "create", "toggle", "remove"}, memo : Memo \cup {None},
             status : Status, list : List, here : BOOLEAN,
             at : {"sent", "read", "saved", "done", "cut", "failed"}]

TypeOK ==
  /\ row \in [Memo -> Status \cup {None}]
  /\ page = Closed \/ page \in Page
  /\ call \in [Call -> {NoCall} \cup PageCall]
  /\ blurred \subseteq Memo
  /\ copied \subseteq deleted /\ deleted \subseteq Memo

Init ==
  /\ row = [m \in Memo |-> None]
  /\ page = Closed
  /\ call = [c \in Call |-> NoCall]
  /\ blurred = {}
  /\ deleted = {}
  /\ copied = {}

NoCards == [m \in Memo |-> <<>>]
Used == deleted \cup {m \in Memo : row[m] # None}

About(m) == {c \in Call : call[c] # NoCall /\ call[c].memo = m}
Loading == \E c \in Call : call[c].kind = "load" /\ call[c].here

NewCall(kind, m, status, here) ==
  [kind |-> kind, memo |-> m, status |-> status, list |-> NoCards, here |-> here, at |-> "sent"]
Begin(c, kind, m, status, here) ==
  /\ call[c] = NoCall
  /\ call' = [call EXCEPT ![c] = NewCall(kind, m, status, here)]

\* The calls once the page that made them is gone.
Orphaned == [c \in Call |-> IF call[c] = NoCall THEN NoCall ELSE [call[c] EXCEPT !.here = FALSE]]

\* Call c, which the page hears of or not, is now about memo m.
Blur(m, here) ==
  blurred' = IF here /\ About(m) = {} /\ ~Loading THEN blurred ELSE blurred \cup {m}

-----------------------------------------------------------------------------
\* The page is mounted and its effect fetches the list.
Open(c) ==
  /\ page = Closed
  /\ page' = [open |-> TRUE, list |-> NoCards, busy |-> FALSE]
  /\ Begin(c, "load", None, "open", TRUE)
  /\ blurred' = {m \in Memo : About(m) # {}}
  /\ UNCHANGED <<row, deleted, copied>>

\* Another page takes its place; or the page goes down, when a change of the
\* filter shows the card of no memo that EmptyArrives may leave in the list.
Close ==
  /\ page.open
  /\ page' = Closed
  /\ call' = Orphaned
  /\ UNCHANGED <<row, history>>

\* The button of the composer is disabled while busy.
Composer == page.open /\ ~page.busy

\* The cards of memo m, under a filter that shows them, with a button each to
\* toggle and to delete it.
Cards(m) == IF page.open THEN page.list[m] ELSE <<>>

\* create of the composer.
CreateMemo(c) ==
  /\ Composer
  /\ page' = [page EXCEPT !.busy = TRUE]
  /\ Begin(c, "create", None, "open", TRUE)
  /\ UNCHANGED <<row, history>>

\* toggle sends the other status than its copy has.
ToggleMemo(c) ==
  /\ \E m \in Memo : \E i \in DOMAIN Cards(m) :
       Begin(c, "toggle", m, Flip(Cards(m)[i]), TRUE) /\ Blur(m, TRUE)
  /\ UNCHANGED <<row, page, deleted, copied>>

\* remove, confirmed.
RemoveMemo(c) ==
  /\ \E m \in Memo :
       /\ Cards(m) # <<>>
       /\ Begin(c, "remove", m, "open", TRUE) /\ Blur(m, TRUE)
  /\ UNCHANGED <<row, page, deleted, copied>>

\* Another device creates, updates or deletes a memo.
Elsewhere(c) ==
  /\ \/ Begin(c, "create", None, "open", FALSE) /\ UNCHANGED blurred
     \/ \E m \in Used, status \in Status :
          /\ \/ Begin(c, "toggle", m, status, FALSE)
             \/ Begin(c, "remove", m, "open", FALSE)
          /\ Blur(m, FALSE)
  /\ UNCHANGED <<row, page, deleted, copied>>

-----------------------------------------------------------------------------
Arrives(c, kind) == call[c].kind = kind /\ call[c].here /\ call[c].at = "done"
Is(c, kind, at) == call[c].kind = kind /\ call[c].at = at
Goto(c, at) == call' = [call EXCEPT ![c].at = at]

\* List.
ReadList(c) ==
  /\ Is(c, "load", "sent")
  /\ call' = [call EXCEPT ![c].at = "done",
                ![c].list = [m \in Memo |-> Card(row[m])]]
  /\ UNCHANGED <<row, page, history>>

\* The INSERT of Create.
InsertRow(c, m) ==
  /\ Is(c, "create", "sent")
  /\ m \notin Used
  /\ row' = [row EXCEPT ![m] = "open"]
  /\ call' = [call EXCEPT ![c].memo = m, ![c].at = "saved"]
  /\ Blur(m, call[c].here)
  /\ UNCHANGED <<page, deleted, copied>>

\* Mutant of ReadRow: the memo is not looked up.
ReadNothing(c) ==
  /\ Is(c, "toggle", "sent")
  /\ Goto(c, "read")
  /\ UNCHANGED <<row, page, history>>

\* The FindOwned of Update.
ReadRow(c) ==
  /\ Is(c, "toggle", "sent")
  /\ Goto(c, IF row[call[c].memo] = None THEN "failed" ELSE "read")
  /\ UNCHANGED <<row, page, history>>

\* Save updates the row, or inserts it when it is gone.
SaveRow(c) ==
  /\ Is(c, "toggle", "read")
  /\ row' = [row EXCEPT ![call[c].memo] = call[c].status]
  /\ Goto(c, "saved")
  /\ UNCHANGED <<page, history>>

\* Mutant of ReadBack: the error of FindOwned is not looked at.
ReadBackAnyway(c) ==
  /\ call[c].kind \in {"create", "toggle"} /\ call[c].at = "saved"
  /\ call' = [call EXCEPT ![c].at = "done", ![c].status = row[call[c].memo]]
  /\ UNCHANGED <<row, page, history>>

\* The FindOwned that ends Create and Update.
ReadBack(c) ==
  /\ call[c].kind \in {"create", "toggle"} /\ call[c].at = "saved"
  /\ LET status == row[call[c].memo]
     IN call' = IF status = None THEN [call EXCEPT ![c].at = "failed"]
                ELSE [call EXCEPT ![c].at = "done", ![c].status = status]
  /\ UNCHANGED <<row, page, history>>

\* The row of memo m goes.
Drop(m) ==
  /\ row' = [row EXCEPT ![m] = None]
  /\ deleted' = deleted \cup {m}
  /\ copied' = IF \E c \in About(m) : Is(c, "toggle", "read") THEN copied \cup {m} ELSE copied
  /\ UNCHANGED <<page, blurred>>

\* Delete, which finds the row or not.
DeleteRow(c) ==
  /\ Is(c, "remove", "sent")
  /\ IF row[call[c].memo] = None
     THEN Goto(c, "failed") /\ UNCHANGED <<row, page, history>>
     ELSE Goto(c, "done") /\ Drop(call[c].memo)

\* Create could not store its files: it deletes the row, if it can.
UndoCreate(c) ==
  /\ Is(c, "create", "saved")
  /\ row[call[c].memo] # None
  /\ Goto(c, "failed")
  /\ Drop(call[c].memo)

\* The server refuses or fails, or the request or its answer is lost.
Fail(c) ==
  /\ call[c] # NoCall
  /\ call[c].at \in {"sent", "read", "saved"} \/ Arrives(c, call[c].kind)
  /\ Goto(c, "failed")
  /\ UNCHANGED <<row, page, history>>

\* An answer arrives without a body that can be read: request makes an empty
\* success of it.
CutBody(c) ==
  /\ call[c].kind \in {"load", "create", "toggle"} /\ Arrives(c, call[c].kind)
  /\ Goto(c, "cut")
  /\ UNCHANGED <<row, page, history>>

-----------------------------------------------------------------------------
End(c) == call' = [call EXCEPT ![c] = NoCall]

\* setMemos replaces the list.
ListArrives(c) ==
  /\ Arrives(c, "load")
  /\ page' = [page EXCEPT !.list = call[c].list]
  /\ End(c)
  /\ UNCHANGED <<row, history>>

\* Mutant of CreateArrives: the new memo takes the place of the list.
CreateArrivesAlone(c) ==
  /\ Arrives(c, "create")
  /\ page' = [page EXCEPT !.busy = FALSE,
                !.list = [NoCards EXCEPT ![call[c].memo] = <<call[c].status>>]]
  /\ End(c)
  /\ UNCHANGED <<row, history>>

\* The new memo comes first, and the form is emptied.
CreateArrives(c) ==
  /\ Arrives(c, "create")
  /\ page' = [page EXCEPT !.busy = FALSE,
                !.list[call[c].memo] = <<call[c].status>> \o @]
  /\ End(c)
  /\ UNCHANGED <<row, history>>

\* The answer takes the place of every card of the memo.
ToggleArrives(c) ==
  /\ Arrives(c, "toggle")
  /\ page' = [page EXCEPT !.list[call[c].memo] = [i \in DOMAIN @ |-> call[c].status]]
  /\ End(c)
  /\ UNCHANGED <<row, history>>

\* The memo is filtered out.
RemoveArrives(c) ==
  /\ Arrives(c, "remove")
  /\ page' = [page EXCEPT !.list[call[c].memo] = <<>>]
  /\ End(c)
  /\ UNCHANGED <<row, history>>

\* What the page cannot know after a call that told it nothing.
Untold(c) ==
  blurred' = IF call[c].kind = "load" THEN Used
             ELSE blurred \cup ({call[c].memo} \ {None})

\* An error is shown; the list stays, the button of a create is enabled again.
ErrorArrives(c) ==
  /\ call[c] # NoCall /\ call[c].here /\ call[c].at = "failed"
  /\ page' = IF call[c].kind = "create" THEN [page EXCEPT !.busy = FALSE] ELSE page
  /\ Untold(c)
  /\ End(c)
  /\ UNCHANGED <<row, deleted, copied>>

\* The empty success: no list, or a card of no memo, which replaces the cards
\* of the memo after an update, if there are any.  Here the filter hides it.
EmptyArrives(c) ==
  /\ call[c] # NoCall /\ call[c].here /\ call[c].at = "cut"
  /\ page' = CASE call[c].kind = "load" -> [page EXCEPT !.list = NoCards]
              [] call[c].kind = "create" -> [page EXCEPT !.busy = FALSE]
              [] call[c].kind = "toggle" -> [page EXCEPT !.list[call[c].memo] = <<>>]
  /\ Untold(c)
  /\ End(c)
  /\ UNCHANGED <<row, deleted, copied>>

\* A card of no memo is shown: it has no date to format, and the exception takes
\* the page down.
EmptyShown(c) ==
  /\ call[c] # NoCall /\ call[c].here /\ call[c].at = "cut"
  /\ \/ call[c].kind = "create"
     \/ call[c].kind = "toggle" /\ Cards(call[c].memo) # <<>>
  /\ page' = Closed
  /\ call' = [Orphaned EXCEPT ![c] = NoCall]
  /\ Untold(c)
  /\ UNCHANGED <<row, deleted, copied>>

\* The page that asked is gone.
Ignored(c) ==
  /\ call[c] # NoCall /\ ~call[c].here /\ call[c].at \in {"done", "cut", "failed"}
  /\ End(c)
  /\ UNCHANGED <<row, page, history>>

Click(c) == Open(c) \/ CreateMemo(c) \/ ToggleMemo(c) \/ RemoveMemo(c) \/ Elsewhere(c)

Serve(c) ==
  \/ ReadList(c)
  \/ \E m \in Memo : InsertRow(c, m)
  \/ ReadRow(c) \/ SaveRow(c) \/ ReadBack(c) \/ DeleteRow(c) \/ UndoCreate(c) \/ Fail(c) \/ CutBody(c)

Deliver(c) ==
  \/ ListArrives(c) \/ CreateArrives(c) \/ ToggleArrives(c) \/ RemoveArrives(c)
  \/ ErrorArrives(c) \/ EmptyArrives(c) \/ Ignored(c)

Next == Close \/ \E c \in Call : Click(c) \/ Serve(c) \/ Deliver(c) \/ EmptyShown(c)

Spec == Init /\ [][Next]_vars

-----------------------------------------------------------------------------
\* Once the list is there, a memo that is left to one call at a time is shown
\* as it is on the server, once, or not at all if it is not there; whatever the
\* calls about other memos do, in whatever order their answers arrive.
ListSettles ==
  page.open /\ ~Loading =>
    \A m \in Memo \ blurred : About(m) = {} => page.list[m] = Card(row[m])

\* A deleted memo stays deleted, unless an update had read it before.
DeletedUnlessCopied == \A m \in deleted \ copied : row[m] = None
=============================================================================

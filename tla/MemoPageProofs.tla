--------------------------- MODULE MemoPageProofs ---------------------------
(***************************************************************************)
(* What TLAPS proves of MemoPage, for every set of memos and of calls.     *)
(***************************************************************************)
EXTENDS MemoPage, Naturals, TLAPS

\* A call of the page implies the page; a call that reads, writes or shows a
\* memo has its id; the answer to a delete has no body to lose.
Named(c) ==
  call[c] # NoCall =>
    /\ call[c].here => page.open
    /\ call[c].kind \in {"toggle", "remove"} => call[c].memo \in Memo
    /\ call[c].kind = "create" /\ call[c].at \in {"saved", "done", "cut"} => call[c].memo \in Memo
    /\ call[c].at = "cut" => call[c].kind # "remove"

\* A deleted memo has no row, and no update is about to write one.
Gone(m) ==
  /\ row[m] = None
  /\ \A c \in Call : Is(c, "toggle", "read") => call[c].memo # m

Typed == TypeOK /\ \A c \in Call : Named(c)

Deleted == deleted \ copied
AllGone == \A m \in Deleted : Gone(m)

\* The types of all but the calls.
RestTyped ==
  /\ row \in [Memo -> Status \cup {None}]
  /\ page = Closed \/ page \in Page
  /\ blurred \subseteq Memo
  /\ copied \subseteq deleted /\ deleted \subseteq Memo

\* The initial states satisfy the invariant.
LEMMA InitOK == Init => Typed /\ AllGone
  BY DEF Init, AllGone, Deleted, Typed, TypeOK, Named, NoCall

\* An empty list of cards is a list.
LEMMA ContentsOK == NoCards \in List
  BY DEF NoCards, List

\* A new call is a call.
LEMMA NewCallOK ==
  ASSUME NEW kind \in {"load", "create", "toggle", "remove"}, NEW m \in Memo \cup {None},
         NEW status \in Status, NEW here \in BOOLEAN
  PROVE  /\ NewCall(kind, m, status, here) \in PageCall
         /\ NewCall(kind, m, status, here).kind = kind
         /\ NewCall(kind, m, status, here).memo = m
         /\ NewCall(kind, m, status, here).here = here
         /\ NewCall(kind, m, status, here).at = "sent"
  BY ContentsOK DEF NewCall, PageCall

\* A step that changes one call keeps the types of all of them.
LEMMA OneCall ==
  ASSUME Typed, NEW c \in Call, call' = [call EXCEPT ![c] = call'[c]],
         call'[c] \in {NoCall} \cup PageCall, Named(c)', RestTyped', page.open => page'.open
  PROVE  Typed'
<1>1. call' \in [Call -> {NoCall} \cup PageCall]
  BY DEF Typed, TypeOK
<1>2. ASSUME NEW d \in Call
      PROVE  Named(d)'
  <2>1. CASE d = c
    BY <2>1
  <2>2. CASE d # c
    <3>1. call'[d] = call[d]
      BY <2>2 DEF Typed, TypeOK
    <3> QED BY <3>1 DEF Typed, Named
  <2> QED BY <2>1, <2>2
<1> QED BY <1>1, <1>2 DEF Typed, TypeOK, RestTyped

\* A step that begins a call keeps the types.
LEMMA BeginTyped ==
  ASSUME Typed, NEW c \in Call, NEW kind \in {"load", "create", "toggle", "remove"},
         NEW m \in Memo \cup {None}, NEW status \in Status, NEW here \in BOOLEAN,
         Begin(c, kind, m, status, here), kind \in {"toggle", "remove"} => m \in Memo,
         RestTyped', page.open => page'.open, here => page'.open
  PROVE  Typed'
<1>1. call'[c] = NewCall(kind, m, status, here) /\ call' = [call EXCEPT ![c] = call'[c]]
  BY DEF Begin, Typed, TypeOK
<1>2. Named(c)'
  BY <1>1, NewCallOK DEF Named
<1> QED BY <1>1, <1>2, NewCallOK, OneCall

\* A step that moves a call on keeps the types.
LEMMA GotoTyped ==
  ASSUME Typed, NEW c \in Call, call[c] # NoCall,
         NEW at \in {"sent", "read", "saved", "done", "cut", "failed"}, Goto(c, at),
         call[c].kind = "create" /\ at \in {"saved", "done", "cut"} => call[c].memo \in Memo,
         at = "cut" => call[c].kind # "remove",
         RestTyped', page' = page
  PROVE  Typed'
<1>1. call[c] \in PageCall /\ Named(c)
  BY DEF Typed, TypeOK
<1>2. call'[c] = [call[c] EXCEPT !.at = at] /\ call' = [call EXCEPT ![c] = call'[c]]
  BY DEF Goto, Typed, TypeOK
<1>3. call'[c] \in PageCall
  BY <1>1, <1>2 DEF PageCall
<1>4. Named(c)'
  BY <1>1, <1>2 DEF Named, PageCall
<1> QED BY <1>2, <1>3, <1>4, OneCall

\* A step that ends a call keeps the types.
LEMMA EndTyped ==
  ASSUME Typed, NEW c \in Call, End(c), RestTyped', page.open => page'.open
  PROVE  Typed'
<1>1. call'[c] = NoCall /\ call' = [call EXCEPT ![c] = call'[c]]
  BY DEF End, Typed, TypeOK
<1>2. Named(c)'
  BY <1>1 DEF Named
<1> QED BY <1>1, <1>2, OneCall

\* A button, or another device, begins a call.
LEMMA ClickTyped ==
  ASSUME Typed, NEW c \in Call, Click(c)
  PROVE  Typed'
<1> USE DEF RestTyped
<1>0. RestTyped
  BY DEF Typed, TypeOK
<1>1. CASE Open(c)
  <2>1. page' \in Page /\ page'.open
    BY <1>1, ContentsOK DEF Open, Page
  <2>2. RestTyped'
    BY <1>0, <1>1, <2>1 DEF Open
  <2>3. Begin(c, "load", None, "open", TRUE)
    BY <1>1 DEF Open
  <2> QED BY <2>1, <2>2, <2>3, BeginTyped DEF Status
<1>2. CASE CreateMemo(c)
  <2>1. page \in Page /\ page' = [page EXCEPT !.busy = TRUE]
    BY <1>0, <1>2 DEF CreateMemo, Composer, Closed
  <2>2. page' \in Page /\ page'.open
    BY <2>1 DEF Page
  <2>3. RestTyped'
    BY <1>0, <1>2, <2>2 DEF CreateMemo, history
  <2>4. Begin(c, "create", None, "open", TRUE)
    BY <1>2 DEF CreateMemo
  <2> QED BY <2>2, <2>3, <2>4, BeginTyped DEF Status
<1>3. CASE ToggleMemo(c)
  <2>1. PICK m \in Memo : \E i \in DOMAIN Cards(m) :
               Begin(c, "toggle", m, Flip(Cards(m)[i]), TRUE) /\ Blur(m, TRUE)
    BY <1>3 DEF ToggleMemo
  <2>2. PICK i \in DOMAIN Cards(m) :
               Begin(c, "toggle", m, Flip(Cards(m)[i]), TRUE) /\ Blur(m, TRUE)
    BY <2>1
  <2>3. page.open /\ page' = page
    BY <1>3, <2>2 DEF ToggleMemo, Cards
  <2>4. Flip(Cards(m)[i]) \in Status
    BY DEF Flip, Status
  <2>5. RestTyped'
    BY <1>0, <1>3, <2>2 DEF ToggleMemo, Blur
  <2> QED BY <2>2, <2>3, <2>4, <2>5, BeginTyped
<1>4. CASE RemoveMemo(c)
  <2>1. PICK m \in Memo : Cards(m) # <<>> /\ Begin(c, "remove", m, "open", TRUE) /\ Blur(m, TRUE)
    BY <1>4 DEF RemoveMemo
  <2>2. page.open /\ page' = page
    BY <1>4, <2>1 DEF RemoveMemo, Cards
  <2>3. RestTyped'
    BY <1>0, <1>4, <2>1 DEF RemoveMemo, Blur
  <2> QED BY <2>1, <2>2, <2>3, BeginTyped DEF Status
<1>5. CASE Elsewhere(c)
  <2>1. page' = page
    BY <1>5 DEF Elsewhere
  <2>2. CASE Begin(c, "create", None, "open", FALSE) /\ UNCHANGED blurred
    <3>1. RestTyped'
      BY <1>0, <1>5, <2>2 DEF Elsewhere
    <3> QED BY <2>1, <2>2, <3>1, BeginTyped DEF Status
  <2>3. ASSUME NEW m \in Used, NEW status \in Status,
               \/ Begin(c, "toggle", m, status, FALSE)
               \/ Begin(c, "remove", m, "open", FALSE),
               Blur(m, FALSE)
        PROVE  Typed'
    <3>1. m \in Memo
      BY <1>0 DEF Used
    <3>2. RestTyped'
      BY <1>0, <1>5, <2>3, <3>1 DEF Elsewhere, Blur
    <3> QED BY <2>1, <2>3, <3>1, <3>2, BeginTyped DEF Status
  <2> QED BY <1>5, <2>2, <2>3 DEF Elsewhere
<1> QED BY <1>1, <1>2, <1>3, <1>4, <1>5 DEF Click

\* The row of a memo goes.
LEMMA DropTyped ==
  ASSUME RestTyped, NEW m \in Memo, Drop(m)
  PROVE  RestTyped' /\ page' = page
  BY DEF RestTyped, Drop

\* The server, or the network, moves a call on.
LEMMA ServeTyped ==
  ASSUME Typed, NEW c \in Call, Serve(c)
  PROVE  Typed'
<1>0. RestTyped /\ Named(c) /\ call[c] \in {NoCall} \cup PageCall
  BY DEF Typed, TypeOK, RestTyped
<1>1. CASE ReadList(c)
  <2>1. call[c] \in PageCall
    BY <1>0, <1>1 DEF ReadList, Is, NoCall
  <2> DEFINE answer == [m \in Memo |-> Card(row[m])]
  <2>2. answer \in List
    BY <1>0 DEF List, Card, RestTyped
  <2>3. /\ call'[c] = [call[c] EXCEPT !.at = "done", !.list = answer]
        /\ call' = [call EXCEPT ![c] = call'[c]]
    BY <1>1 DEF ReadList, Typed, TypeOK
  <2> HIDE DEF answer
  <2>4. call'[c] \in PageCall
    BY <2>1, <2>2, <2>3 DEF PageCall
  <2>5. call[c].kind = "load" /\ UNCHANGED <<row, page, history>>
    BY <1>1 DEF ReadList, Is
  <2>6. Named(c)'
    BY <1>0, <2>1, <2>3, <2>5 DEF Named, PageCall, NoCall
  <2> QED BY <1>0, <2>3, <2>4, <2>5, <2>6, OneCall DEF RestTyped, history
<1>2. ASSUME NEW m \in Memo, InsertRow(c, m)
      PROVE  Typed'
  <2>1. call[c] \in PageCall /\ call[c] # NoCall /\ page' = page
    BY <1>0, <1>2 DEF InsertRow, Is, NoCall
  <2>2. /\ call'[c] = [call[c] EXCEPT !.memo = m, !.at = "saved"]
        /\ call' = [call EXCEPT ![c] = call'[c]]
    BY <1>2 DEF InsertRow, Typed, TypeOK
  <2>3. call'[c] \in PageCall
    BY <2>1, <2>2 DEF PageCall
  <2>4. Named(c)'
    BY <1>0, <2>1, <2>2 DEF Named, PageCall
  <2>5. RestTyped'
    BY <1>0, <1>2 DEF InsertRow, Blur, RestTyped, Status
  <2> QED BY <2>1, <2>2, <2>3, <2>4, <2>5, OneCall
<1>3. CASE ReadRow(c)
  <2>1. PICK at \in {"read", "failed"} : Goto(c, at)
    BY <1>3 DEF ReadRow
  <2>2. call[c] # NoCall /\ call[c].kind = "toggle" /\ page' = page /\ RestTyped'
    BY <1>0, <1>3 DEF ReadRow, Is, NoCall, RestTyped, history
  <2> QED BY <2>1, <2>2, GotoTyped
<1>4. CASE SaveRow(c)
  <2>1. call[c] \in PageCall /\ call[c].kind = "toggle" /\ page' = page /\ Goto(c, "saved")
    BY <1>0, <1>4 DEF SaveRow, Is, NoCall
  <2>2. call[c].status \in Status
    BY <2>1 DEF PageCall
  <2>3. RestTyped'
    BY <1>0, <1>4, <2>2 DEF SaveRow, RestTyped, history
  <2> QED BY <1>0, <2>1, <2>3, GotoTyped DEF NoCall
<1>5. CASE ReadBack(c)
  <2>1. call[c] \in PageCall /\ call[c].memo \in Memo /\ page' = page /\ RestTyped'
    BY <1>0, <1>5 DEF ReadBack, NoCall, Named, RestTyped, history
  <2>2. call[c] # NoCall
    BY <1>5 DEF ReadBack, NoCall
  <2>3. CASE row[call[c].memo] = None
    <3>1. Goto(c, "failed")
      BY <1>5, <2>3 DEF ReadBack, Goto
    <3> QED BY <2>1, <2>2, <3>1, GotoTyped
  <2>4. CASE row[call[c].memo] # None
    <3> DEFINE status == row[call[c].memo]
    <3>1. status \in Status
      BY <1>0, <2>1, <2>4 DEF RestTyped
    <3>2. /\ call'[c] = [call[c] EXCEPT !.at = "done", !.status = status]
          /\ call' = [call EXCEPT ![c] = call'[c]]
      BY <1>5, <2>4 DEF ReadBack, Typed, TypeOK
    <3> HIDE DEF status
    <3>3. call'[c] \in PageCall
      BY <2>1, <3>1, <3>2 DEF PageCall
    <3>4. Named(c)'
      BY <1>0, <2>1, <2>2, <3>2 DEF Named, PageCall
    <3> QED BY <2>1, <3>2, <3>3, <3>4, OneCall
  <2> QED BY <2>3, <2>4
<1>6. CASE DeleteRow(c)
  <2>1. call[c] # NoCall /\ call[c].kind = "remove" /\ call[c].memo \in Memo
    BY <1>0, <1>6 DEF DeleteRow, Is, NoCall, Named
  <2>2. PICK at \in {"failed", "done"} : Goto(c, at)
    BY <1>6 DEF DeleteRow
  <2>3. Drop(call[c].memo) \/ UNCHANGED <<row, page, history>>
    BY <1>6 DEF DeleteRow
  <2>4. page' = page /\ RestTyped'
    <3>1. CASE Drop(call[c].memo)
      BY <1>0, <2>1, <3>1, DropTyped
    <3>2. CASE UNCHANGED <<row, page, history>>
      BY <1>0, <3>2 DEF RestTyped, history
    <3> QED BY <2>3, <3>1, <3>2
  <2> QED BY <2>1, <2>2, <2>4, GotoTyped
<1>7. CASE UndoCreate(c)
  <2>1. call[c] # NoCall /\ call[c].memo \in Memo /\ Goto(c, "failed")
    BY <1>0, <1>7 DEF UndoCreate, Is, NoCall, Named
  <2>2. page' = page /\ RestTyped'
    BY <1>0, <1>7, <2>1, DropTyped DEF UndoCreate
  <2> QED BY <2>1, <2>2, GotoTyped
<1>8. CASE Fail(c)
  <2>1. call[c] # NoCall /\ Goto(c, "failed") /\ page' = page /\ RestTyped'
    BY <1>0, <1>8 DEF Fail, RestTyped, history
  <2> QED BY <2>1, GotoTyped
<1>9. CASE CutBody(c)
  <2>1. call[c] # NoCall /\ call[c].at = "done" /\ call[c].kind # "remove"
    BY <1>9 DEF CutBody, Arrives, NoCall
  <2>2. Goto(c, "cut") /\ page' = page /\ RestTyped'
    BY <1>0, <1>9 DEF CutBody, RestTyped, history
  <2> QED BY <1>0, <2>1, <2>2, GotoTyped DEF Named
<1> QED BY <1>1, <1>2, <1>3, <1>4, <1>5, <1>6, <1>7, <1>8, <1>9 DEF Serve

\* An answer reaches the page, or nobody.
LEMMA DeliverTyped ==
  ASSUME Typed, NEW c \in Call, Deliver(c)
  PROVE  Typed'
<1>0. RestTyped /\ Named(c) /\ call[c] \in {NoCall} \cup PageCall
  BY DEF Typed, TypeOK, RestTyped
\* An answer that only sets the list, or the flag of the form.
<1>1. ASSUME call[c] # NoCall, call[c].here, End(c), RestTyped => RestTyped', page'.open
      PROVE  Typed'
  BY <1>0, <1>1, EndTyped
<1>2. ASSUME call[c] # NoCall, call[c].here
      PROVE  page \in Page /\ page.open /\ page.list \in List /\ call[c] \in PageCall
  <2>1. page.open /\ call[c] \in PageCall
    BY <1>0, <1>2 DEF Named
  <2>2. page \in Page
    BY <1>0, <2>1 DEF RestTyped, Closed
  <2> QED BY <2>1, <2>2 DEF Page
<1>3. ASSUME NEW kind \in {"load", "create", "toggle", "remove"}, Arrives(c, kind)
      PROVE  /\ call[c] # NoCall /\ call[c].here /\ call[c].at = "done"
             /\ call[c].kind = kind
             /\ page \in Page /\ page.list \in List /\ call[c] \in PageCall
             /\ call[c].list \in List /\ call[c].status \in Status
             /\ kind # "load" => call[c].memo \in Memo
  <2>1. call[c] # NoCall /\ call[c].here /\ call[c].at = "done" /\ call[c].kind = kind
    BY <1>3 DEF Arrives, NoCall
  <2>2. page \in Page /\ page.list \in List /\ call[c] \in PageCall
    BY <1>2, <2>1
  <2> QED BY <1>0, <2>1, <2>2 DEF Named, PageCall
\* A list, and a flag, that fit the page.
<1>4. ASSUME NEW list \in List, NEW busy \in BOOLEAN
      PROVE  [open |-> TRUE, list |-> list, busy |-> busy] \in Page
  BY DEF Page
<1>5. CASE ListArrives(c)
  <2>1. page' \in Page /\ page'.open /\ UNCHANGED <<row, history>>
    BY <1>3, <1>5 DEF ListArrives, Page
  <2> QED BY <1>1, <1>3, <1>5, <2>1 DEF ListArrives, RestTyped, history
<1>6. CASE CreateArrives(c)
  <2>1. <<call[c].status>> \o page.list[call[c].memo] \in Seq(Status)
    BY <1>3, <1>6 DEF CreateArrives, List
  <2>2. [page.list EXCEPT ![call[c].memo] = <<call[c].status>> \o @] \in List
    BY <1>3, <1>6, <2>1 DEF CreateArrives, List
  <2>3. page' = [page EXCEPT !.busy = FALSE,
                   !.list = [page.list EXCEPT ![call[c].memo] = <<call[c].status>> \o @]]
    BY <1>6 DEF CreateArrives
  <2>4. page' \in Page /\ page'.open /\ UNCHANGED <<row, history>>
    BY <1>3, <1>6, <2>2, <2>3 DEF CreateArrives, Page
  <2> QED BY <1>1, <1>3, <1>6, <2>4 DEF CreateArrives, RestTyped, history
<1>7. CASE ToggleArrives(c)
  <2> DEFINE old == page.list[call[c].memo]
  <2>1. old \in Seq(Status)
    BY <1>3, <1>7 DEF ToggleArrives, List
  <2>2. [i \in DOMAIN old |-> call[c].status] \in Seq(Status)
    <3>1. Len(old) \in Nat /\ DOMAIN old = 1 .. Len(old)
      BY <2>1
    <3> QED BY <1>3, <1>7, <3>1 DEF ToggleArrives
  <2>3. [page.list EXCEPT ![call[c].memo] = [i \in DOMAIN old |-> call[c].status]] \in List
    BY <1>3, <1>7, <2>2 DEF ToggleArrives, List
  <2>4. page' = [page EXCEPT !.list =
                   [page.list EXCEPT ![call[c].memo] = [i \in DOMAIN old |-> call[c].status]]]
    BY <1>3, <1>7 DEF ToggleArrives, Page
  <2>5. page' \in Page /\ page'.open /\ UNCHANGED <<row, history>>
    BY <1>3, <1>7, <2>3, <2>4 DEF ToggleArrives, Page
  <2> QED BY <1>1, <1>3, <1>7, <2>5 DEF ToggleArrives, RestTyped, history
<1>8. CASE RemoveArrives(c)
  <2>1. [page.list EXCEPT ![call[c].memo] = <<>>] \in List
    BY <1>3, <1>8 DEF RemoveArrives, List
  <2>2. page' = [page EXCEPT !.list = [page.list EXCEPT ![call[c].memo] = <<>>]]
    BY <1>3, <1>8 DEF RemoveArrives, Page
  <2>3. page' \in Page /\ page'.open /\ UNCHANGED <<row, history>>
    BY <1>3, <1>8, <2>1, <2>2 DEF RemoveArrives, Page
  <2> QED BY <1>1, <1>3, <1>8, <2>3 DEF RemoveArrives, RestTyped, history
<1>9. ASSUME call[c] # NoCall, call[c].here, Untold(c)
      PROVE  blurred' \subseteq Memo
  BY <1>0, <1>2, <1>9 DEF Untold, Used, RestTyped, PageCall
<1>10. CASE ErrorArrives(c)
  <2>1. page' \in Page /\ page'.open
    BY <1>2, <1>10 DEF ErrorArrives, Page
  <2> QED BY <1>1, <1>9, <1>10, <2>1 DEF ErrorArrives, RestTyped
<1>11. CASE EmptyArrives(c)
  <2>1. call[c] # NoCall /\ call[c].here /\ call[c].at = "cut"
    BY <1>11 DEF EmptyArrives
  <2>2. page' \in Page /\ page'.open
    <3>1. CASE call[c].kind = "load"
      <4>1. page' = [page EXCEPT !.list = NoCards]
        BY <1>11, <3>1 DEF EmptyArrives
      <4> QED BY <1>2, <2>1, <4>1, ContentsOK DEF Page
    <3>2. CASE call[c].kind = "create"
      <4>1. page' = [page EXCEPT !.busy = FALSE]
        BY <1>11, <3>2 DEF EmptyArrives
      <4> QED BY <1>2, <2>1, <4>1 DEF Page
    <3>3. CASE call[c].kind = "toggle"
      <4>1. page' = [page EXCEPT !.list = [page.list EXCEPT ![call[c].memo] = <<>>]]
        BY <1>11, <3>3 DEF EmptyArrives
      <4>2. [page.list EXCEPT ![call[c].memo] = <<>>] \in List
        BY <1>0, <1>2, <2>1, <3>3 DEF List, Named
      <4> QED BY <1>2, <2>1, <4>1, <4>2 DEF Page
    <3> QED BY <1>0, <1>2, <2>1, <3>1, <3>2, <3>3 DEF Named, PageCall
  <2> QED BY <1>1, <1>9, <1>11, <2>1, <2>2 DEF EmptyArrives, RestTyped
<1>12. CASE Ignored(c)
  BY <1>0, <1>12, EndTyped DEF Ignored, RestTyped, history
<1> QED BY <1>5, <1>6, <1>7, <1>8, <1>10, <1>11, <1>12 DEF Deliver

\* The page is left, or goes down.
Leaves == Close \/ \E c \in Call : EmptyShown(c)

\* The calls of a page that is gone end, or go on unheard.
LEMMA Left ==
  ASSUME Typed, Leaves
  PROVE  /\ page' = Closed /\ UNCHANGED <<row, deleted, copied>> /\ blurred' \subseteq Memo
         /\ call' = [d \in Call |-> call'[d]]
         /\ \A d \in Call :
              \/ call'[d] = NoCall
              \/ /\ call[d] # NoCall /\ call[d] \in PageCall /\ call'[d] \in PageCall
                 /\ call'[d] # NoCall /\ ~call'[d].here
                 /\ call'[d].memo = call[d].memo /\ call'[d].list = call[d].list
                 /\ call'[d].kind = call[d].kind /\ call'[d].at = call[d].at
<1>1. ASSUME NEW d \in Call
      PROVE  \/ Orphaned[d] = NoCall
             \/ /\ call[d] # NoCall /\ call[d] \in PageCall /\ Orphaned[d] \in PageCall
                /\ Orphaned[d] # NoCall /\ ~Orphaned[d].here
                /\ Orphaned[d].memo = call[d].memo /\ Orphaned[d].list = call[d].list
                /\ Orphaned[d].kind = call[d].kind /\ Orphaned[d].at = call[d].at
  <2>1. CASE call[d] = NoCall
    BY <2>1 DEF Orphaned
  <2>2. CASE call[d] # NoCall
    <3>1. call[d] \in PageCall /\ Orphaned[d] = [call[d] EXCEPT !.here = FALSE]
      BY <2>2 DEF Orphaned, Typed, TypeOK
    <3>2. Orphaned[d] \in PageCall
      BY <3>1 DEF PageCall
    <3> QED BY <2>2, <3>1, <3>2 DEF PageCall, NoCall
  <2> QED BY <2>1, <2>2
<1>2. Orphaned = [d \in Call |-> Orphaned[d]]
  BY DEF Orphaned
<1>3. CASE Close
  <2>1. call' = Orphaned
    BY <1>3 DEF Close
  <2>2. page' = Closed /\ UNCHANGED <<row, history>> /\ blurred \subseteq Memo
    BY <1>3 DEF Close, Typed, TypeOK
  <2> HIDE DEF Orphaned
  <2> QED BY <1>1, <1>2, <2>1, <2>2 DEF history
<1>4. ASSUME NEW c \in Call, EmptyShown(c)
      PROVE  /\ page' = Closed /\ UNCHANGED <<row, deleted, copied>> /\ blurred' \subseteq Memo
             /\ call' = [Orphaned EXCEPT ![c] = NoCall]
  <2>1. call[c] \in PageCall
    BY <1>4 DEF EmptyShown, Typed, TypeOK
  <2>2. blurred' \subseteq Memo
    BY <1>4, <2>1 DEF EmptyShown, Untold, Used, Typed, TypeOK, PageCall
  <2> QED BY <1>4, <2>2 DEF EmptyShown
<1>5. CASE \E c \in Call : EmptyShown(c)
  <2>1. PICK c \in Call : EmptyShown(c)
    BY <1>5
  <2>2. call' = [Orphaned EXCEPT ![c] = NoCall]
    BY <1>4, <2>1
  <2>3. call' = [d \in Call |-> call'[d]]
    BY <1>2, <2>2
  <2>4. \A d \in Call : call'[d] = NoCall \/ call'[d] = Orphaned[d]
    BY <1>2, <2>2
  <2> QED BY <1>1, <1>4, <2>1, <2>3, <2>4
<1> QED BY <1>3, <1>5 DEF Leaves

\* Every step keeps the types.
LEMMA TypedStep ==
  ASSUME Typed, [Next]_vars
  PROVE  Typed'
<1>1. CASE Leaves
  <2>1. RestTyped'
    BY <1>1, Left DEF Typed, TypeOK, RestTyped
  <2>2. call' \in [Call -> {NoCall} \cup PageCall]
    <3>1. \A d \in Call : call'[d] \in {NoCall} \cup PageCall
      BY <1>1, Left
    <3> QED BY <1>1, <3>1, Left
  <2>3. ASSUME NEW d \in Call
        PROVE  Named(d)'
    <3>1. CASE call'[d] = NoCall
      BY <3>1 DEF Named
    <3>2. CASE call'[d] # NoCall
      BY <1>1, <3>2, Left DEF Typed, Named
    <3> QED BY <3>1, <3>2
  <2> QED BY <2>1, <2>2, <2>3 DEF Typed, TypeOK, RestTyped
<1>2. CASE UNCHANGED vars
  BY <1>2 DEF vars, history, Typed, TypeOK, Named
<1> QED BY <1>1, <1>2, ClickTyped, ServeTyped, DeliverTyped DEF Next, Leaves

\* A step after which no row is back and no update is ahead of more than it was.
LEMMA StillGone ==
  ASSUME AllGone, UNCHANGED <<row, deleted, copied>>,
         \A d \in Call : Is(d, "toggle", "read")' =>
            Is(d, "toggle", "read") /\ call'[d].memo = call[d].memo
  PROVE  AllGone'
  BY DEF AllGone, Deleted, Gone

\* The same of a step that changes one call.
LEMMA OneStillGone ==
  ASSUME Typed, AllGone, UNCHANGED <<row, deleted, copied>>, NEW c \in Call,
         call' = [call EXCEPT ![c] = call'[c]], ~Is(c, "toggle", "read")'
  PROVE  AllGone'
<1>1. ASSUME NEW d \in Call, Is(d, "toggle", "read")'
      PROVE  Is(d, "toggle", "read") /\ call'[d].memo = call[d].memo
  <2>1. d # c
    BY <1>1
  <2>2. call'[d] = call[d]
    BY <2>1 DEF Typed, TypeOK
  <2> QED BY <1>1, <2>2 DEF Is
<1> QED BY <1>1, StillGone

\* The same of a step after which the call is somewhere else.
LEMMA GotoStillGone ==
  ASSUME Typed, AllGone, UNCHANGED <<row, deleted, copied>>, NEW c \in Call, call[c] # NoCall,
         NEW at, at # "read", Goto(c, at)
  PROVE  AllGone'
<1>1. call'[c].at = at /\ call' = [call EXCEPT ![c] = call'[c]]
  BY DEF Goto, Typed, TypeOK, PageCall
<1> QED BY <1>1, OneStillGone DEF Is

\* A row goes: unless an update has a copy, none is about to write it.
LEMMA DropGone ==
  ASSUME Typed, AllGone, NEW c \in Call, call[c] # NoCall, NEW m \in Memo, Drop(m),
         NEW at, at # "read", Goto(c, at)
  PROVE  AllGone'
<1>1. call'[c].at = at /\ call' = [call EXCEPT ![c] = call'[c]]
  BY DEF Goto, Typed, TypeOK, PageCall
<1> SUFFICES ASSUME NEW k \in Deleted'
             PROVE  Gone(k)'
  BY DEF AllGone
<1>2. row'[k] = None
  BY DEF Drop, Deleted, AllGone, Gone, Typed, TypeOK
<1>3. ASSUME NEW d \in Call, Is(d, "toggle", "read")', call'[d].memo = k
      PROVE  FALSE
  <2>1. call'[d] = call[d] /\ call[d] # NoCall
    BY <1>1, <1>3 DEF Is, Typed, TypeOK, NoCall
  <2>2. Is(d, "toggle", "read") /\ d \in About(k)
    BY <1>3, <2>1 DEF Is, About
  <2>3. CASE k = m
    BY <2>2, <2>3 DEF Drop, Deleted
  <2>4. CASE k # m
    BY <2>2, <2>4 DEF Drop, Deleted, AllGone, Gone, About
  <2> QED BY <2>3, <2>4
<1> QED BY <1>2, <1>3 DEF Gone

\* A step of the server keeps what is gone away.
LEMMA ServeGone ==
  ASSUME Typed, AllGone, NEW c \in Call, Serve(c)
  PROVE  AllGone'
<1>0. call[c] # NoCall => call[c] \in PageCall
  BY DEF Typed, TypeOK
<1>1. CASE ReadList(c)
  <2>1. call[c] \in PageCall
    BY <1>0, <1>1 DEF ReadList, Is, NoCall
  <2> DEFINE answer == [m \in Memo |-> Card(row[m])]
  <2>2. /\ call'[c] = [call[c] EXCEPT !.at = "done", !.list = answer]
        /\ call' = [call EXCEPT ![c] = call'[c]]
    BY <1>1 DEF ReadList, Typed, TypeOK
  <2> HIDE DEF answer
  <2>3. call'[c].at = "done" /\ call' = [call EXCEPT ![c] = call'[c]]
    BY <2>1, <2>2 DEF PageCall
  <2> QED BY <1>1, <2>3, OneStillGone DEF ReadList, Is, history
<1>2. ASSUME NEW m \in Memo, InsertRow(c, m)
      PROVE  AllGone'
  <2>1. call'[c].at = "saved" /\ call' = [call EXCEPT ![c] = call'[c]]
    BY <1>0, <1>2 DEF InsertRow, Is, NoCall, PageCall, Typed, TypeOK
  <2> SUFFICES ASSUME NEW k \in Deleted'
               PROVE  Gone(k)'
    BY DEF AllGone
  <2>2. Gone(k) /\ row'[k] = None
    BY <1>2 DEF InsertRow, Used, Deleted, AllGone, Gone, Typed, TypeOK
  <2>3. ASSUME NEW d \in Call, Is(d, "toggle", "read")'
        PROVE  call'[d].memo # k
    <3>1. call'[d] = call[d]
      BY <2>1, <2>3 DEF Is, Typed, TypeOK
    <3> QED BY <2>2, <2>3, <3>1 DEF Is, Gone
  <2> QED BY <2>2, <2>3 DEF Gone
<1>3. CASE ReadRow(c)
  <2>1. call[c] # NoCall /\ UNCHANGED <<row, deleted, copied>>
    BY <1>3 DEF ReadRow, Is, NoCall, history
  <2>2. CASE row[call[c].memo] = None
    <3>1. Goto(c, "failed")
      BY <1>3, <2>2 DEF ReadRow
    <3> QED BY <2>1, <3>1, GotoStillGone
  <2>3. CASE row[call[c].memo] # None
    <3>1. call'[c].memo = call[c].memo /\ call' = [call EXCEPT ![c] = call'[c]]
      BY <1>0, <1>3, <2>1 DEF ReadRow, Goto, PageCall, Typed, TypeOK
    <3> SUFFICES ASSUME NEW k \in Deleted'
                 PROVE  Gone(k)'
      BY DEF AllGone
    <3>2. Gone(k) /\ row'[k] = None /\ call[c].memo # k
      BY <2>1, <2>3 DEF Deleted, AllGone, Gone
    <3>3. ASSUME NEW d \in Call, Is(d, "toggle", "read")'
          PROVE  call'[d].memo # k
      <4>1. CASE d = c
        BY <3>1, <3>2, <4>1
      <4>2. CASE d # c
        <5>1. call'[d] = call[d]
          BY <3>1, <4>2 DEF Typed, TypeOK
        <5> QED BY <3>2, <3>3, <5>1 DEF Is, Gone
      <4> QED BY <4>1, <4>2
    <3> QED BY <3>2, <3>3 DEF Gone
  <2> QED BY <2>2, <2>3
<1>4. CASE SaveRow(c)
  <2>1. call[c] # NoCall /\ Is(c, "toggle", "read") /\ UNCHANGED <<deleted, copied>>
    BY <1>4 DEF SaveRow, Is, NoCall, history
  <2>2. call'[c].at = "saved" /\ call' = [call EXCEPT ![c] = call'[c]]
    BY <1>0, <1>4, <2>1 DEF SaveRow, Goto, PageCall, Typed, TypeOK
  <2> SUFFICES ASSUME NEW k \in Deleted'
               PROVE  Gone(k)'
    BY DEF AllGone
  <2>3. Gone(k) /\ k # call[c].memo
    BY <2>1 DEF Deleted, AllGone, Gone
  <2>4. row'[k] = None
    BY <1>4, <2>1, <2>3 DEF SaveRow, Gone, Deleted, Typed, TypeOK
  <2>5. ASSUME NEW d \in Call, Is(d, "toggle", "read")'
        PROVE  call'[d].memo # k
    <3>1. call'[d] = call[d]
      BY <2>2, <2>5 DEF Is, Typed, TypeOK
    <3> QED BY <2>3, <2>5, <3>1 DEF Is, Gone
  <2> QED BY <2>4, <2>5 DEF Gone
<1>5. CASE ReadBack(c)
  <2>1. call[c] \in PageCall
    BY <1>0, <1>5 DEF ReadBack, NoCall
  <2> DEFINE status == row[call[c].memo]
  <2>2. /\ call'[c] = [call[c] EXCEPT !.at = "failed"]
           \/ call'[c] = [call[c] EXCEPT !.at = "done", !.status = status]
        /\ call' = [call EXCEPT ![c] = call'[c]]
    BY <1>5 DEF ReadBack, Typed, TypeOK
  <2> HIDE DEF status
  <2>3. call'[c].at \in {"failed", "done"} /\ call' = [call EXCEPT ![c] = call'[c]]
    BY <2>1, <2>2 DEF PageCall
  <2> QED BY <1>5, <2>3, OneStillGone DEF ReadBack, Is, history
<1>6. CASE DeleteRow(c)
  <2>1. call[c] # NoCall /\ call[c].memo \in Memo
    BY <1>6 DEF DeleteRow, Is, NoCall, Typed, Named
  <2>2. CASE row[call[c].memo] = None
    BY <1>6, <2>1, <2>2, GotoStillGone DEF DeleteRow, history
  <2>3. CASE row[call[c].memo] # None
    BY <1>6, <2>1, <2>3, DropGone DEF DeleteRow
  <2> QED BY <2>2, <2>3
<1>7. CASE UndoCreate(c)
  <2>1. call[c] # NoCall /\ call[c].memo \in Memo
    BY <1>7 DEF UndoCreate, Is, NoCall, Typed, Named
  <2> QED BY <1>7, <2>1, DropGone DEF UndoCreate
<1>8. CASE Fail(c)
  BY <1>8, GotoStillGone DEF Fail, history
<1>9. CASE CutBody(c)
  BY <1>9, GotoStillGone DEF CutBody, NoCall, history
<1> QED BY <1>1, <1>2, <1>3, <1>4, <1>5, <1>6, <1>7, <1>8, <1>9 DEF Serve

\* So does every step.
LEMMA GoneStep ==
  ASSUME Typed, AllGone, [Next]_vars
  PROVE  AllGone'
<1>1. ASSUME NEW c \in Call, Click(c)
      PROVE  AllGone'
  <2>1. UNCHANGED <<row, deleted, copied>>
    BY <1>1 DEF Click, Open, CreateMemo, ToggleMemo, RemoveMemo, Elsewhere, history
  <2>2. \E kind, m, status, here : Begin(c, kind, m, status, here)
    BY <1>1 DEF Click, Open, CreateMemo, ToggleMemo, RemoveMemo, Elsewhere
  <2>3. call'[c].at = "sent" /\ call' = [call EXCEPT ![c] = call'[c]]
    BY <2>2 DEF Begin, NewCall, Typed, TypeOK
  <2> QED BY <2>1, <2>3, OneStillGone DEF Is
<1>2. ASSUME NEW c \in Call, Deliver(c)
      PROVE  AllGone'
  <2>1. UNCHANGED <<row, deleted, copied>> /\ End(c)
    BY <1>2 DEF Deliver, ListArrives, CreateArrives, ToggleArrives, RemoveArrives,
                ErrorArrives, EmptyArrives, Ignored, history
  <2>2. call'[c].kind = "none" /\ call' = [call EXCEPT ![c] = call'[c]]
    BY <2>1 DEF End, NoCall, Typed, TypeOK
  <2> QED BY <2>1, <2>2, OneStillGone DEF Is
<1>3. CASE Leaves
  <2>1. ASSUME NEW d \in Call, Is(d, "toggle", "read")'
        PROVE  Is(d, "toggle", "read") /\ call'[d].memo = call[d].memo
    <3>1. call'[d] # NoCall
      BY <2>1 DEF Is, NoCall
    <3> QED BY <1>3, <2>1, <3>1, Left DEF Is
  <2> QED BY <1>3, <2>1, Left, StillGone
<1>4. CASE UNCHANGED vars
  BY <1>4 DEF vars, history, AllGone, Deleted, Gone, Is
<1> QED BY <1>1, <1>2, <1>3, <1>4, ServeGone DEF Next, Leaves

-----------------------------------------------------------------------------
\* What the list says of a memo that is left to one call at a time.  While there
\* is such a call the page knows of it, and its list is what the answer needs:
\* no card for a new memo, one card for an update; an answer says what the row
\* holds.
Alone(c, m) ==
  /\ call[c].here /\ ~Loading /\ About(m) = {c}
  /\ call[c].kind = "create" /\ call[c].at \in {"saved", "done"} => page.list[m] = <<>>
  /\ call[c].kind = "toggle" /\ call[c].at \in {"sent", "read", "saved", "done"} =>
       \E s \in Status : page.list[m] = <<s>>
  /\ call[c].at = "done" =>
       Card(row[m]) = IF call[c].kind = "remove" THEN <<>> ELSE <<call[c].status>>
Settling(m) ==
  /\ \A c \in About(m) : Alone(c, m)
  /\ \A c \in Call : Arrives(c, "load") => call[c].list[m] = Card(row[m])
  /\ About(m) = {} /\ ~Loading => page.list[m] = Card(row[m])
Settled == page.open => \A m \in Memo \ blurred : Settling(m)

\* Nothing knows of an id before a row has it.
Clear(m) ==
  /\ page.open => page.list[m] = <<>>
  /\ \A c \in Call : call[c] # NoCall => call[c].memo # m /\ call[c].list[m] = <<>>
Unused == \A m \in Memo \ Used : Clear(m)
Nameless == \A c \in Call : Is(c, "create", "sent") => call[c].memo = None

\* The other calls of a step that changes one.
Others(c) == \A d \in Call \ {c} : call'[d] = call[d]

\* A call that begins.
LEMMA Begun ==
  ASSUME Typed, NEW c \in Call, NEW kind \in {"load", "create", "toggle", "remove"},
         NEW m \in Memo \cup {None}, NEW status \in Status, NEW here \in BOOLEAN,
         Begin(c, kind, m, status, here)
  PROVE  /\ call[c] = NoCall /\ call'[c] \in PageCall /\ call'[c] # NoCall
         /\ call'[c].kind = kind /\ call'[c].memo = m /\ call'[c].here = here
         /\ call'[c].at = "sent" /\ call'[c].list = NoCards
         /\ Others(c)
<1>1. call[c] = NoCall /\ call'[c] = NewCall(kind, m, status, here) /\ Others(c)
  BY DEF Begin, Typed, TypeOK, Others
<1>2. NewCall(kind, m, status, here).list = NoCards
  BY DEF NewCall
<1> QED BY <1>1, <1>2, NewCallOK DEF PageCall, NoCall

\* A call that moves on and stays what it is.
LEMMA Went ==
  ASSUME Typed, NEW c \in Call, call[c] # NoCall,
         NEW at \in {"sent", "read", "saved", "done", "cut", "failed"}, Goto(c, at)
  PROVE  /\ call[c] \in PageCall /\ call'[c] \in PageCall /\ call'[c] # NoCall
         /\ call'[c].kind = call[c].kind /\ call'[c].here = call[c].here
         /\ call'[c].memo = call[c].memo /\ call'[c].list = call[c].list
         /\ call'[c].status = call[c].status /\ call'[c].at = at
         /\ Others(c)
<1>1. call[c] \in PageCall /\ call'[c] = [call[c] EXCEPT !.at = at] /\ Others(c)
  BY DEF Goto, Typed, TypeOK, Others
<1>2. call'[c] \in PageCall /\ call'[c].at = at
  BY <1>1 DEF PageCall
<1> QED BY <1>1, <1>2 DEF PageCall, NoCall

\* A call that the server, or the network, moves on.
LEMMA Served ==
  ASSUME Typed, NEW c \in Call, Serve(c)
  PROVE  /\ call[c] \in PageCall /\ call[c] # NoCall /\ call'[c] \in PageCall /\ call'[c] # NoCall
         /\ call'[c].kind = call[c].kind /\ call'[c].here = call[c].here
         /\ call'[c].at # "sent"
         /\ \/ call'[c].memo = call[c].memo
            \/ \E m \in Memo : InsertRow(c, m) /\ call'[c].memo = m
         /\ \/ call'[c].list = call[c].list
            \/ ReadList(c) /\ call'[c].list = [m \in Memo |-> Card(row[m])]
         /\ Others(c) /\ page' = page
<1>1. call[c] \in PageCall /\ call[c] # NoCall /\ page' = page
  <2>1. call[c] # NoCall
    <3>1. call[c].kind \in {"load", "create", "toggle", "remove"} => call[c] # NoCall
      BY DEF NoCall
    <3> QED BY <3>1 DEF Serve, ReadList, InsertRow, ReadRow, SaveRow, ReadBack, DeleteRow,
                        UndoCreate, Fail, CutBody, Is
  <2>2. page' = page
    BY DEF Serve, ReadList, InsertRow, ReadRow, SaveRow, ReadBack, DeleteRow, UndoCreate, Fail,
           CutBody, Drop
  <2> QED BY <2>1, <2>2 DEF Typed, TypeOK
<1>2. ASSUME NEW at \in {"read", "saved", "done", "cut", "failed"}, Goto(c, at)
      PROVE  /\ call'[c] \in PageCall /\ call'[c] # NoCall
             /\ call'[c].kind = call[c].kind /\ call'[c].here = call[c].here
             /\ call'[c].memo = call[c].memo /\ call'[c].list = call[c].list
             /\ call'[c].at # "sent" /\ Others(c)
  BY <1>1, <1>2, Went
<1>3. CASE ReadList(c)
  <2> DEFINE answer == [m \in Memo |-> Card(row[m])]
  <2>1. answer \in List
    BY DEF List, Card, Typed, TypeOK
  <2>2. call'[c] = [call[c] EXCEPT !.at = "done", !.list = answer] /\ Others(c)
    BY <1>3 DEF ReadList, Typed, TypeOK, Others
  <2> HIDE DEF answer
  <2>3. /\ call'[c].kind = call[c].kind /\ call'[c].here = call[c].here
        /\ call'[c].memo = call[c].memo /\ call'[c].list = answer /\ call'[c].at = "done"
    BY <1>1, <2>2 DEF PageCall
  <2>4. call'[c] \in PageCall
    BY <1>1, <2>1, <2>2 DEF PageCall
  <2>5. call'[c] # NoCall
    BY <2>4 DEF PageCall, NoCall
  <2> QED BY <1>1, <1>3, <2>2, <2>3, <2>4, <2>5 DEF answer
<1>4. ASSUME NEW m \in Memo, InsertRow(c, m)
      PROVE  /\ call'[c] \in PageCall /\ call'[c] # NoCall
             /\ call'[c].kind = call[c].kind /\ call'[c].here = call[c].here
             /\ call'[c].memo = m /\ call'[c].list = call[c].list /\ call'[c].at = "saved"
             /\ Others(c)
  <2>1. call'[c] = [call[c] EXCEPT !.memo = m, !.at = "saved"] /\ Others(c)
    BY <1>4 DEF InsertRow, Typed, TypeOK, Others
  <2>2. call'[c] \in PageCall /\ call'[c].memo = m /\ call'[c].at = "saved"
    BY <1>1, <2>1 DEF PageCall
  <2> QED BY <1>1, <2>1, <2>2 DEF PageCall, NoCall
<1>5. CASE ReadBack(c)
  <2> DEFINE status == row[call[c].memo]
  <2>1. CASE status = None
    <3>1. Goto(c, "failed")
      BY <1>5, <2>1 DEF ReadBack, Goto
    <3> QED BY <1>1, <1>2, <3>1
  <2>2. CASE status # None
    <3>1. call'[c] = [call[c] EXCEPT !.at = "done", !.status = status] /\ Others(c)
      BY <1>5, <2>2 DEF ReadBack, Typed, TypeOK, Others
    <3>2. status \in Status
      BY <1>1, <1>5, <2>2 DEF ReadBack, Typed, TypeOK, Named
    <3> HIDE DEF status
    <3>3. call'[c] \in PageCall /\ call'[c].at = "done"
      BY <1>1, <3>1, <3>2 DEF PageCall
    <3>4. /\ call'[c].kind = call[c].kind /\ call'[c].here = call[c].here
          /\ call'[c].memo = call[c].memo /\ call'[c].list = call[c].list
      BY <1>1, <3>1 DEF PageCall
    <3> QED BY <1>1, <3>1, <3>3, <3>4 DEF PageCall, NoCall
  <2> QED BY <2>1, <2>2
<1>6. CASE ReadRow(c) \/ SaveRow(c) \/ DeleteRow(c) \/ UndoCreate(c) \/ Fail(c) \/ CutBody(c)
  <2>1. \E at \in {"read", "saved", "done", "cut", "failed"} : Goto(c, at)
    BY <1>6 DEF ReadRow, SaveRow, DeleteRow, UndoCreate, Fail, CutBody
  <2> QED BY <1>1, <1>2, <2>1
<1> QED BY <1>1, <1>3, <1>4, <1>5, <1>6 DEF Serve

\* A call whose answer has been dealt with.
LEMMA Ended ==
  ASSUME Typed, NEW c \in Call, Deliver(c)
  PROVE  /\ call[c] \in PageCall /\ call[c] # NoCall /\ call'[c] = NoCall /\ Others(c)
         /\ UNCHANGED <<row, deleted, copied>>
<1>1. End(c) /\ UNCHANGED <<row, deleted, copied>>
  BY DEF Deliver, ListArrives, CreateArrives, ToggleArrives, RemoveArrives, ErrorArrives,
         EmptyArrives, Ignored, history
<1>2. call[c] # NoCall
  BY DEF Deliver, ListArrives, CreateArrives, ToggleArrives, RemoveArrives, ErrorArrives,
         EmptyArrives, Ignored, Arrives, NoCall
<1> QED BY <1>1, <1>2 DEF End, Typed, TypeOK, Others

\* What the list shows of a memo after an answer.
LEMMA Shown ==
  ASSUME Typed, NEW c \in Call, Deliver(c), NEW m \in Memo, page.open
  PROVE  /\ page'.open
         /\ ~call[c].here => page' = page
         /\ call[c].at \in {"done", "cut", "failed"}
         /\ call[c].here /\ call[c].kind = "load" =>
              page'.list[m] = CASE call[c].at = "done" -> call[c].list[m]
                                [] call[c].at = "cut" -> <<>>
                                [] call[c].at = "failed" -> page.list[m]
         /\ call[c].here /\ call[c].kind # "load" /\ (call[c].memo # m \/ call[c].at = "failed") =>
              page'.list[m] = page.list[m]
         /\ call[c].here /\ call[c].memo = m /\ call[c].at = "done" =>
              /\ call[c].kind = "create" =>
                   page'.list[m] = <<call[c].status>> \o page.list[m]
              /\ call[c].kind = "toggle" =>
                   page'.list[m] = [i \in DOMAIN page.list[m] |-> call[c].status]
              /\ call[c].kind = "remove" => page'.list[m] = <<>>
         /\ call[c].here /\ call[c].at \in {"cut", "failed"} => Untold(c)
         /\ ~(call[c].here /\ call[c].at \in {"cut", "failed"}) => blurred' = blurred
<1>1. page \in Page /\ page.list \in List
  <2>1. page \in Page
    BY DEF Typed, TypeOK, Closed
  <2> QED BY <2>1 DEF Page
<1>2. call[c] \in PageCall /\ Named(c)
  BY Ended DEF Typed
<1>3. CASE ListArrives(c)
  BY <1>1, <1>2, <1>3 DEF ListArrives, Arrives, Page, history
<1>4. CASE CreateArrives(c)
  <2>1. page' = [page EXCEPT !.busy = FALSE,
                   !.list = [page.list EXCEPT ![call[c].memo] = <<call[c].status>> \o @]]
    BY <1>4 DEF CreateArrives
  <2>2. /\ page'.open
        /\ page'.list = [page.list EXCEPT ![call[c].memo] = <<call[c].status>> \o @]
    BY <1>1, <2>1 DEF Page
  <2>3. /\ call[c].memo # m => page'.list[m] = page.list[m]
        /\ call[c].memo = m => page'.list[m] = <<call[c].status>> \o page.list[m]
    BY <1>1, <2>2 DEF List
  <2> QED BY <1>2, <1>4, <2>2, <2>3 DEF CreateArrives, Arrives, history
<1>5. CASE ToggleArrives(c)
  <2>1. page' = [page EXCEPT !.list = [page.list EXCEPT ![call[c].memo] =
                                         [i \in DOMAIN @ |-> call[c].status]]]
    BY <1>5 DEF ToggleArrives
  <2>2. /\ page'.open
        /\ page'.list = [page.list EXCEPT ![call[c].memo] = [i \in DOMAIN @ |-> call[c].status]]
    BY <1>1, <2>1 DEF Page
  <2>3. /\ call[c].memo # m => page'.list[m] = page.list[m]
        /\ call[c].memo = m => page'.list[m] = [i \in DOMAIN page.list[m] |-> call[c].status]
    BY <1>1, <2>2 DEF List
  <2> QED BY <1>2, <1>5, <2>2, <2>3 DEF ToggleArrives, Arrives, history
<1>6. CASE RemoveArrives(c)
  <2>1. page' = [page EXCEPT !.list = [page.list EXCEPT ![call[c].memo] = <<>>]]
    BY <1>6 DEF RemoveArrives
  <2>2. page'.open /\ page'.list = [page.list EXCEPT ![call[c].memo] = <<>>]
    BY <1>1, <2>1 DEF Page
  <2>3. /\ call[c].memo # m => page'.list[m] = page.list[m]
        /\ call[c].memo = m => page'.list[m] = <<>>
    BY <1>1, <2>2 DEF List
  <2> QED BY <1>2, <1>6, <2>2, <2>3 DEF RemoveArrives, Arrives, history
<1>7. CASE ErrorArrives(c)
  <2>1. page'.open /\ page'.list = page.list
    BY <1>1, <1>7 DEF ErrorArrives, Page
  <2> QED BY <1>2, <1>7, <2>1 DEF ErrorArrives
<1>8. CASE EmptyArrives(c)
  <2>1. call[c].here /\ call[c].at = "cut" /\ Untold(c) /\ call[c].kind \in {"load", "create", "toggle"}
    BY <1>2, <1>8 DEF EmptyArrives, Named, PageCall
  <2>2. CASE call[c].kind = "load"
    <3>1. page'.open /\ page'.list = NoCards
      BY <1>1, <1>8, <2>2 DEF EmptyArrives, Page
    <3> QED BY <2>1, <2>2, <3>1 DEF NoCards
  <2>3. CASE call[c].kind = "create"
    <3>1. page'.open /\ page'.list = page.list
      BY <1>1, <1>8, <2>3 DEF EmptyArrives, Page
    <3> QED BY <2>1, <2>3, <3>1
  <2>4. CASE call[c].kind = "toggle"
    <3>1. page' = [page EXCEPT !.list = [page.list EXCEPT ![call[c].memo] = <<>>]]
      BY <1>8, <2>4 DEF EmptyArrives
    <3>2. page'.open /\ page'.list = [page.list EXCEPT ![call[c].memo] = <<>>]
      BY <1>1, <3>1 DEF Page
    <3>3. call[c].memo # m => page'.list[m] = page.list[m]
      BY <1>1, <3>2 DEF List
    <3> QED BY <2>1, <2>4, <3>2, <3>3
  <2> QED BY <2>1, <2>2, <2>3, <2>4
<1>9. CASE Ignored(c)
  BY <1>9 DEF Ignored, history
<1> QED BY <1>3, <1>4, <1>5, <1>6, <1>7, <1>8, <1>9 DEF Deliver

\* An id that was used stays used.
LEMMA UsedGrows ==
  ASSUME Typed, [Next]_vars
  PROVE  Used \subseteq Used'
<1>1. ASSUME UNCHANGED <<row, deleted>> PROVE Used' = Used
  BY <1>1 DEF Used
<1>2. ASSUME NEW m \in Memo, NEW s \in Status, row' = [row EXCEPT ![m] = s], UNCHANGED deleted
      PROVE  Used \subseteq Used'
  BY <1>2, NoneAssumption DEF Used, Status, Typed, TypeOK
<1>3. ASSUME NEW m \in Memo, Drop(m) PROVE Used \subseteq Used'
  BY <1>3 DEF Drop, Used, Typed, TypeOK
<1>4. ASSUME NEW c \in Call, Serve(c) PROVE Used \subseteq Used'
  <2>1. call[c] \in PageCall /\ Named(c)
    BY <1>4, Served DEF Typed
  <2>2. CASE SaveRow(c)
    <3>1. call[c].memo \in Memo /\ call[c].status \in Status
      BY <2>1, <2>2 DEF SaveRow, Is, Named, PageCall, NoCall
    <3> QED BY <1>2, <2>2, <3>1 DEF SaveRow, history
  <2>3. CASE \E m \in Memo : InsertRow(c, m)
    BY <1>2, <2>3 DEF InsertRow, Status
  <2>4. CASE DeleteRow(c) \/ UndoCreate(c)
    BY <1>1, <1>3, <2>1, <2>4 DEF DeleteRow, UndoCreate, Is, Named, history, PageCall, NoCall
  <2>5. CASE ReadList(c) \/ ReadRow(c) \/ ReadBack(c) \/ Fail(c) \/ CutBody(c)
    BY <1>1, <2>5 DEF ReadList, ReadRow, ReadBack, Fail, CutBody, history
  <2> QED BY <1>4, <2>2, <2>3, <2>4, <2>5 DEF Serve
<1>5. ASSUME NEW c \in Call, Deliver(c) PROVE Used \subseteq Used'
  BY <1>1, <1>5, Ended
<1>6. CASE UNCHANGED vars \/ \E c \in Call : Click(c)
  BY <1>1, <1>6 DEF vars, Click, Open, CreateMemo, ToggleMemo, RemoveMemo, Elsewhere, history
<1>7. CASE Leaves
  BY <1>1, <1>7, Left
<1> QED BY <1>4, <1>5, <1>6, <1>7 DEF Next, Leaves

\* A memo without a row or a card keeps being unknown as long as it is unused.
LEMMA UnusedStep ==
  ASSUME Typed, Unused, [Next]_vars
  PROVE  Unused'
<1> SUFFICES ASSUME NEW m \in Memo \ Used'
             PROVE  Clear(m)'
  BY DEF Unused
<1>0. m \in Memo \ Used /\ Clear(m) /\ row[m] = None
  BY UsedGrows DEF Unused, Used
<1>1. ASSUME NEW c \in Call, Click(c)
      PROVE  Clear(m)'
  <2>1. ASSUME NEW kind \in {"load", "create", "toggle", "remove"}, NEW k \in Used \cup {None},
               NEW status \in Status, NEW here \in BOOLEAN, Begin(c, kind, k, status, here),
               page'.open => page'.list[m] = <<>>
        PROVE  Clear(m)'
    <3>1. k \in Memo \cup {None} /\ k # m
      BY <1>0, <2>1, NoneAssumption DEF Used, Typed, TypeOK
    <3>2. call'[c].memo # m /\ call'[c].list = NoCards /\ Others(c)
      BY <2>1, <3>1, Begun
    <3>3. \A d \in Call \ {c} : call'[d] = call[d]
      BY <3>2 DEF Others
    <3> QED BY <1>0, <2>1, <3>2, <3>3 DEF Clear, NoCards
  <2>2. CASE Open(c)
    BY <2>1, <2>2 DEF Open, NoCards, Status
  <2>3. CASE CreateMemo(c)
    <3>1. page \in Page /\ page' = [page EXCEPT !.busy = TRUE]
      BY <2>3 DEF CreateMemo, Composer, Closed, Typed, TypeOK
    <3>2. page'.open => page'.list[m] = <<>>
      BY <1>0, <3>1 DEF Clear, Page
    <3> QED BY <2>1, <2>3, <3>2 DEF CreateMemo, Status
  <2>4. CASE ToggleMemo(c)
    <3>1. PICK k \in Memo : \E i \in DOMAIN Cards(k) : Begin(c, "toggle", k, Flip(Cards(k)[i]), TRUE)
      BY <2>4 DEF ToggleMemo
    <3>2. PICK i \in DOMAIN Cards(k) : Begin(c, "toggle", k, Flip(Cards(k)[i]), TRUE)
      BY <3>1
    <3>3. k \in Used
      BY <3>2 DEF Cards, Unused, Clear
    <3>4. page' = page /\ Flip(Cards(k)[i]) \in Status
      BY <2>4 DEF ToggleMemo, Flip, Status
    <3> QED BY <1>0, <2>1, <3>2, <3>3, <3>4 DEF Clear
  <2>5. CASE RemoveMemo(c)
    <3>1. PICK k \in Memo : Cards(k) # <<>> /\ Begin(c, "remove", k, "open", TRUE)
      BY <2>5 DEF RemoveMemo
    <3>2. k \in Used /\ page' = page
      BY <2>5, <3>1 DEF RemoveMemo, Cards, Unused, Clear
    <3> QED BY <1>0, <2>1, <3>1, <3>2 DEF Clear, Status
  <2>6. CASE Elsewhere(c)
    <3>1. page' = page
      BY <2>6 DEF Elsewhere
    <3>2. CASE Begin(c, "create", None, "open", FALSE)
      BY <1>0, <2>1, <3>1, <3>2 DEF Clear, Status
    <3>3. CASE \E k \in Used, status \in Status :
                 Begin(c, "toggle", k, status, FALSE) \/ Begin(c, "remove", k, "open", FALSE)
      BY <1>0, <2>1, <3>1, <3>3 DEF Clear, Status
    <3> QED BY <2>6, <3>2, <3>3 DEF Elsewhere
  <2> QED BY <1>1, <2>2, <2>3, <2>4, <2>5, <2>6 DEF Click
<1>2. ASSUME NEW c \in Call, Serve(c)
      PROVE  Clear(m)'
  <2>1. call'[c].memo # m
    <3>1. ASSUME NEW k \in Memo, InsertRow(c, k)
          PROVE  k \in Used'
      BY <3>1, NoneAssumption DEF InsertRow, Used, Typed, TypeOK
    <3> QED BY <1>0, <1>2, <3>1, Served DEF Clear
  <2>2. call'[c].list[m] = <<>>
    BY <1>0, <1>2, Served DEF Clear, Card
  <2>3. \A d \in Call \ {c} : call'[d] = call[d]
    BY <1>2, Served DEF Others
  <2>4. page' = page
    BY <1>2, Served
  <2> QED BY <1>0, <2>1, <2>2, <2>3, <2>4 DEF Clear
<1>3. ASSUME NEW c \in Call, Deliver(c)
      PROVE  Clear(m)'
  <2>1. call[c] \in PageCall /\ call[c] # NoCall /\ call'[c] = NoCall
    BY <1>3, Ended
  <2>2. \A d \in Call \ {c} : call'[d] = call[d]
    BY <1>3, Ended DEF Others
  <2>3. call[c].memo # m /\ call[c].list[m] = <<>>
    BY <1>0, <2>1 DEF Clear
  <2>4. CASE page.open
    <3>1. page'.list[m] = <<>>
      BY <1>0, <1>3, <2>1, <2>3, <2>4, Shown DEF Clear, PageCall
    <3> QED BY <1>0, <2>1, <2>2, <3>1 DEF Clear
  <2>5. CASE ~page.open
    <3>1. ~call[c].here
      BY <2>1, <2>5 DEF Typed, Named
    <3>2. page' = page
      BY <1>3, <3>1 DEF Deliver, ListArrives, CreateArrives, ToggleArrives, RemoveArrives,
                        ErrorArrives, EmptyArrives, Arrives, Ignored
    <3> QED BY <1>0, <2>1, <2>2, <3>2 DEF Clear
  <2> QED BY <2>4, <2>5
<1>4. CASE Leaves
  <2>1. ~page'.open
    BY <1>4, Left DEF Closed
  <2> QED BY <1>0, <1>4, <2>1, Left DEF Clear
<1>5. CASE UNCHANGED vars
  BY <1>0, <1>5 DEF vars, Clear
<1> QED BY <1>1, <1>2, <1>3, <1>4, <1>5 DEF Next, Leaves

\* A create has no id before its row is there.
LEMMA NamelessStep ==
  ASSUME Typed, Nameless, [Next]_vars
  PROVE  Nameless'
<1>1. ASSUME NEW c \in Call, Click(c)
      PROVE  Nameless'
  <2>1. ASSUME NEW kind \in {"load", "create", "toggle", "remove"}, NEW k \in Memo \cup {None},
               NEW status \in Status, NEW here \in BOOLEAN, Begin(c, kind, k, status, here),
               kind = "create" => k = None
        PROVE  Nameless'
    <3>1. call'[c].kind = kind /\ call'[c].memo = k /\ Others(c)
      BY <2>1, Begun
    <3> QED BY <2>1, <3>1 DEF Others, Nameless, Is
  <2>2. \A i : Flip(i) \in Status
    BY DEF Flip, Status
  <2>3. Used \subseteq Memo /\ "open" \in Status
    BY DEF Used, Status, Typed, TypeOK
  <2>4. CASE Open(c) \/ CreateMemo(c) \/ RemoveMemo(c)
    BY <2>1, <2>3, <2>4 DEF Open, CreateMemo, RemoveMemo
  <2>5. CASE ToggleMemo(c)
    BY <2>1, <2>2, <2>5 DEF ToggleMemo
  <2>6. CASE Elsewhere(c)
    <3>1. \/ Begin(c, "create", None, "open", FALSE)
          \/ \E k \in Used, status \in Status :
               Begin(c, "toggle", k, status, FALSE) \/ Begin(c, "remove", k, "open", FALSE)
      BY <2>6 DEF Elsewhere
    <3> QED BY <2>1, <2>3, <3>1
  <2> QED BY <1>1, <2>4, <2>5, <2>6 DEF Click
<1>2. ASSUME NEW c \in Call, Serve(c)
      PROVE  Nameless'
  BY <1>2, Served DEF Others, Nameless, Is
<1>3. ASSUME NEW c \in Call, Deliver(c)
      PROVE  Nameless'
  BY <1>3, Ended DEF Others, Nameless, Is, NoCall
<1>4. CASE Leaves
  BY <1>4, Left DEF Nameless, Is, NoCall
<1>5. CASE UNCHANGED vars
  BY <1>5 DEF vars, Nameless, Is
<1> QED BY <1>1, <1>2, <1>3, <1>4, <1>5 DEF Next, Leaves

\* The loads after a step that changes one call and begins or ends no load.
LEMMA LoadingStays ==
  ASSUME Typed, NEW c \in Call, Others(c),
         (call[c].kind = "load" /\ call[c].here) <=> (call'[c].kind = "load" /\ call'[c].here)
  PROVE  Loading' <=> Loading
  BY DEF Others, Loading

\* A step about another memo.
LEMMA Apart ==
  ASSUME Typed, NEW m \in Memo, Settling(m), NEW c \in Call, Others(c),
         call[c] # NoCall => call[c].memo # m, call'[c] # NoCall => call'[c].memo # m,
         Loading' <=> Loading, row'[m] = row[m], page'.list[m] = page.list[m],
         Arrives(c, "load")' => \/ Arrives(c, "load") /\ call'[c].list[m] = call[c].list[m]
                                \/ call'[c].list[m] = Card(row[m])
  PROVE  Settling(m)'
<1>1. \A d \in Call \ {c} : call'[d] = call[d]
  BY DEF Others
<1>2. About(m)' = About(m) /\ c \notin About(m)
  BY <1>1 DEF About
<1>3. ASSUME NEW d \in About(m) PROVE Alone(d, m)'
  <2>1. Alone(d, m) /\ call'[d] = call[d]
    BY <1>1, <1>2, <1>3 DEF Settling, About
  <2> QED BY <1>2, <2>1 DEF Alone
<1>4. ASSUME NEW d \in Call, Arrives(d, "load")' PROVE call'[d].list[m] = Card(row[m])
  <2>1. CASE d = c
    BY <1>4, <2>1 DEF Settling
  <2>2. CASE d # c
    BY <1>1, <1>4, <2>2 DEF Settling, Arrives
  <2> QED BY <2>1, <2>2
<1> QED BY <1>2, <1>3, <1>4 DEF Settling

\* A step of the one call about the memo.
LEMMA Along ==
  ASSUME Typed, NEW m \in Memo, Settling(m), NEW c \in About(m), Others(c), call'[c] # NoCall,
         call'[c].memo = m, call'[c].here = call[c].here, call'[c].kind = call[c].kind,
         Alone(c, m) /\ ~Loading' /\ About(m)' = {c} => Alone(c, m)'
  PROVE  Settling(m)'
<1>1. Alone(c, m) /\ c \in Call
  BY DEF Settling, About
<1>2. ~Loading'
  BY <1>1, LoadingStays DEF Alone
<1>3. About(m)' = {c}
  BY <1>1 DEF Alone, About, Others
<1>4. \A d \in Call : ~Arrives(d, "load")'
  BY <1>2 DEF Arrives, Loading
<1> QED BY <1>1, <1>2, <1>3, <1>4 DEF Settling

\* A click on a card of memo k, or another device.
LEMMA ClickSettles ==
  ASSUME Typed, NEW c \in Call, NEW kind \in {"toggle", "remove"}, NEW k \in Memo,
         NEW status \in Status, NEW here \in BOOLEAN, Begin(c, kind, k, status, here),
         Blur(k, here), row' = row, page' = page, page.open, Settled,
         here => page.list[k] # <<>>, NEW m \in Memo \ blurred'
  PROVE  Settling(m)'
<1>1. /\ call[c] = NoCall /\ call'[c] # NoCall /\ Others(c)
      /\ call'[c].kind = kind /\ call'[c].memo = k /\ call'[c].here = here /\ call'[c].at = "sent"
  BY Begun
<1>2. m \notin blurred /\ Settling(m)
  BY DEF Blur, Settled
<1>3. Loading' <=> Loading
  BY <1>1, LoadingStays DEF NoCall
<1>4. CASE k # m
  <2>1. ~Arrives(c, "load")'
    BY <1>1 DEF Arrives
  <2> QED BY <1>1, <1>2, <1>3, <1>4, <2>1, Apart
<1>5. CASE k = m
  <2>1. here /\ About(m) = {} /\ ~Loading
    BY <1>5 DEF Blur
  <2>2. About(m)' = {c}
    BY <1>1, <1>5, <2>1 DEF About, Others
  <2>3. \E s \in Status : page.list[m] = <<s>>
    BY <1>2, <1>5, <2>1 DEF Settling, Card, Typed, TypeOK
  <2>4. Alone(c, m)'
    BY <1>1, <1>3, <2>1, <2>2, <2>3 DEF Alone
  <2>5. \A d \in Call : ~Arrives(d, "load")'
    BY <1>3, <2>1 DEF Arrives, Loading
  <2> QED BY <2>2, <2>4, <2>5 DEF Settling
<1> QED BY <1>4, <1>5

\* A step of the server, or of the network.
LEMMA ServeSettles ==
  ASSUME Typed, Unused, Nameless, Settled, NEW c \in Call, Serve(c), page.open,
         NEW m \in Memo \ blurred'
  PROVE  Settling(m)'
<1>1. /\ call[c] \in PageCall /\ call[c] # NoCall /\ call'[c] # NoCall /\ Others(c)
      /\ call'[c].kind = call[c].kind /\ call'[c].here = call[c].here /\ page' = page
      /\ Named(c)
  BY Served DEF Typed
<1>2. Loading' <=> Loading
  BY <1>1, LoadingStays
<1>3. ASSUME NEW k \in Memo, InsertRow(c, k)
      PROVE  Settling(m)'
  <2>1. m \notin blurred /\ Settling(m) /\ call[c].kind = "create" /\ call[c].memo = None
    BY <1>3 DEF InsertRow, Blur, Settled, Nameless, Is
  <2>2. call'[c].memo = k /\ call'[c].at = "saved"
    BY <1>1, <1>3 DEF InsertRow, PageCall, Typed, TypeOK
  <2>3. CASE k # m
    <3>1. row'[m] = row[m] /\ m # None
      BY <1>3, <2>3, NoneAssumption DEF InsertRow, Typed, TypeOK
    <3>2. ~Arrives(c, "load")'
      BY <2>2 DEF Arrives
    <3> QED BY <1>1, <1>2, <2>1, <2>2, <2>3, <3>1, <3>2, Apart
  <2>4. CASE k = m
    <3>1. call[c].here /\ About(m) = {} /\ ~Loading
      BY <1>3, <2>4 DEF InsertRow, Blur
    <3>2. page.list[m] = <<>>
      BY <1>3, <2>4 DEF InsertRow, Unused, Clear
    <3>3. About(m)' = {c}
      BY <1>1, <2>2, <2>4, <3>1 DEF About, Others
    <3>4. Alone(c, m)'
      BY <1>1, <1>2, <2>1, <2>2, <3>1, <3>2, <3>3 DEF Alone
    <3>5. \A d \in Call : ~Arrives(d, "load")'
      BY <1>2, <3>1 DEF Arrives, Loading
    <3> QED BY <3>3, <3>4, <3>5 DEF Settling
  <2> QED BY <2>3, <2>4
<1>4. ASSUME ~\E k \in Memo : InsertRow(c, k)
      PROVE  Settling(m)'
  <2>1. call'[c].memo = call[c].memo
    BY <1>4, Served
  <2>2. m \notin blurred /\ Settling(m)
    BY <1>4 DEF Serve, ReadList, ReadRow, SaveRow, ReadBack, DeleteRow, UndoCreate, Fail,
                CutBody, Drop, history, Settled
  <2>3. CASE call[c].memo # m
    <3>1. row'[m] = row[m]
      BY <1>4, <2>3 DEF Serve, ReadList, ReadRow, SaveRow, ReadBack, DeleteRow, UndoCreate, Fail,
                        CutBody, Drop, Typed, TypeOK
    <3>2. ASSUME Arrives(c, "load")' PROVE call'[c].list[m] = Card(row[m])
      <4>1. call[c].kind = "load" /\ call'[c].at = "done"
        BY <1>1, <3>2 DEF Arrives
      <4>2. ~(Fail(c) \/ CutBody(c))
        BY <1>1, <4>1, Went DEF Fail, CutBody
      <4>3. ReadList(c)
        BY <1>4, <4>1, <4>2 DEF Serve, ReadRow, SaveRow, ReadBack, DeleteRow, UndoCreate, Is
      <4>4. call'[c].list = [k \in Memo |-> Card(row[k])]
        BY <1>1, <4>3 DEF ReadList, PageCall, Typed, TypeOK
      <4> QED BY <4>4
    <3> QED BY <1>1, <1>2, <2>1, <2>2, <2>3, <3>1, <3>2, Apart
  <2>4. CASE call[c].memo = m
    <3> SUFFICES ASSUME Alone(c, m), ~Loading', About(m)' = {c}
                 PROVE  Alone(c, m)'
      BY <1>1, <2>1, <2>2, <2>4, Along DEF About
    <3>1. page'.list[m] = page.list[m] /\ call'[c].here /\ call[c].kind # "load"
      BY <1>1 DEF Alone, Loading
    <3>2. CASE ReadRow(c)
      <4>1. call'[c].at \in {"read", "failed"} /\ call[c].kind = "toggle" /\ call[c].at = "sent"
        BY <1>1, <3>2, Went DEF ReadRow, Is
      <4> QED BY <1>1, <3>1, <4>1 DEF Alone
    <3>3. CASE SaveRow(c)
      <4>1. call'[c].at = "saved" /\ call[c].kind = "toggle" /\ call[c].at = "read"
        BY <1>1, <3>3, Went DEF SaveRow, Is
      <4> QED BY <1>1, <3>1, <4>1 DEF Alone
    <3>4. CASE ReadBack(c)
      <4>1. CASE row[m] = None
        <5>1. Goto(c, "failed")
          BY <2>4, <3>4, <4>1 DEF ReadBack, Goto
        <5>2. call'[c].at = "failed"
          BY <1>1, <5>1, Went
        <5> QED BY <1>1, <3>1, <5>2 DEF Alone
      <4>2. CASE row[m] # None
        <5>1. call'[c] = [call[c] EXCEPT !.at = "done", !.status = row[m]] /\ row' = row
          BY <2>4, <3>4, <4>2 DEF ReadBack, Typed, TypeOK
        <5>2. call'[c].at = "done" /\ call'[c].status = row[m]
          BY <1>1, <5>1 DEF PageCall
        <5>3. call[c].at = "saved" /\ call[c].kind \in {"create", "toggle"}
          BY <3>4 DEF ReadBack
        <5>4. Card(row'[m]) = <<call'[c].status>>
          BY <4>2, <5>1, <5>2 DEF Card
        <5> QED BY <1>1, <3>1, <5>2, <5>3, <5>4 DEF Alone
      <4> QED BY <4>1, <4>2
    <3>5. CASE DeleteRow(c)
      <4>1. call[c].kind = "remove" /\ call[c].at = "sent"
        BY <3>5 DEF DeleteRow, Is
      <4>2. CASE row[m] = None
        <5>1. call'[c].at = "failed"
          BY <1>1, <2>4, <3>5, <4>2, Went DEF DeleteRow
        <5> QED BY <1>1, <3>1, <4>1, <5>1 DEF Alone
      <4>3. CASE row[m] # None
        <5>1. Card(row'[m]) = <<>>
          BY <2>4, <3>5, <4>3 DEF DeleteRow, Drop, Card, Typed, TypeOK
        <5> QED BY <1>1, <3>1, <4>1, <5>1 DEF Alone
      <4> QED BY <4>2, <4>3
    <3>6. CASE UndoCreate(c) \/ Fail(c) \/ CutBody(c)
      <4>1. call'[c].at \in {"failed", "cut"}
        BY <1>1, <3>6, Went DEF UndoCreate, Fail, CutBody
      <4> QED BY <1>1, <3>1, <4>1 DEF Alone
    <3>7. ~ReadList(c)
      BY <3>1 DEF ReadList, Is
    <3> QED BY <1>4, <3>2, <3>3, <3>4, <3>5, <3>6, <3>7 DEF Serve
  <2> QED BY <2>3, <2>4
<1> QED BY <1>3, <1>4

\* An answer.
LEMMA DeliverSettles ==
  ASSUME Typed, Unused, Settled, NEW c \in Call, Deliver(c), page.open, NEW m \in Memo \ blurred'
  PROVE  Settling(m)'
<1>1. /\ call[c] \in PageCall /\ call[c] # NoCall /\ call'[c] = NoCall /\ Others(c)
      /\ row' = row
  BY Ended
<1>2. ~Arrives(c, "load")' /\ call'[c].kind # "load"
  BY <1>1 DEF Arrives, NoCall
<1>3. CASE call[c].kind = "load" /\ call[c].here
  <2>1. CASE call[c].at = "done"
    <3>1. blurred' = blurred /\ page'.list[m] = call[c].list[m]
      BY <1>1, <1>3, <2>1, Shown
    <3>2. Settling(m) /\ Loading /\ Arrives(c, "load")
      BY <1>3, <2>1, <3>1 DEF Settled, Loading, Arrives
    <3>3. About(m) = {} /\ page'.list[m] = Card(row[m])
      BY <3>1, <3>2 DEF Settling, Alone
    <3>4. About(m)' = {}
      BY <1>1, <3>3 DEF About, Others
    <3>5. \A d \in Call : Arrives(d, "load")' => call'[d].list[m] = Card(row[m])
      BY <1>1, <1>2, <3>2 DEF Settling, Arrives, Others
    <3> QED BY <1>1, <3>3, <3>4, <3>5 DEF Settling
  <2>2. CASE call[c].at \in {"cut", "failed"}
    <3>1. m \notin Used
      BY <1>3, <2>2, Shown DEF Untold
    <3>2. Clear(m) /\ row[m] = None
      BY <3>1 DEF Unused, Used
    <3>3. page'.list[m] = <<>>
      BY <1>3, <2>2, <3>2, Shown DEF Clear
    <3>4. About(m)' = {}
      BY <1>1, <3>2 DEF About, Others, Clear
    <3>5. \A d \in Call : Arrives(d, "load")' => call'[d].list[m] = <<>>
      BY <1>1, <1>2, <3>2 DEF Clear, Arrives, Others, NoCall
    <3> QED BY <1>1, <3>2, <3>3, <3>4, <3>5 DEF Settling, Card
  <2> QED BY <1>1, <2>1, <2>2, Shown
<1>4. CASE ~(call[c].kind = "load" /\ call[c].here)
  <2>1. blurred \subseteq blurred' /\ Settling(m)
    BY <1>1, <1>4, Shown DEF Untold, Settled
  <2>2. Loading' <=> Loading
    BY <1>1, <1>2, <1>4, LoadingStays
  <2>3. CASE call[c].memo # m
    <3>1. page'.list[m] = page.list[m]
      BY <1>1, <1>4, <2>3, Shown
    <3> QED BY <1>1, <1>2, <2>1, <2>2, <2>3, <3>1, Apart
  <2>4. CASE call[c].memo = m
    <3>1. Alone(c, m) /\ About(m) = {c}
      BY <1>1, <2>1, <2>4 DEF Settling, Alone, About
    <3>2. ~Loading' /\ call[c].here
      BY <2>2, <3>1 DEF Alone
    <3>3. call[c].at = "done"
      BY <1>4, <2>4, <3>2, NoneAssumption, Shown DEF Untold
    <3>4. page'.list[m] = Card(row[m])
      <4>1. CASE call[c].kind = "create"
        <5>1. page'.list[m] = <<call[c].status>> \o page.list[m]
          BY <2>4, <3>2, <3>3, <4>1, Shown
        <5>2. page.list[m] = <<>> /\ Card(row[m]) = <<call[c].status>>
          BY <3>1, <3>3, <4>1 DEF Alone
        <5>3. call[c].status \in Status
          BY <1>1 DEF PageCall
        <5> QED BY <5>1, <5>2, <5>3
      <4>2. CASE call[c].kind = "toggle"
        <5>1. PICK s \in Status : page.list[m] = <<s>>
          BY <3>1, <3>3, <4>2 DEF Alone
        <5>2. page'.list[m] = [i \in DOMAIN <<s>> |-> call[c].status]
          BY <2>4, <3>2, <3>3, <4>2, <5>1, Shown
        <5>3. page'.list[m] = <<call[c].status>>
          BY <5>2
        <5> QED BY <3>1, <3>3, <4>2, <5>3 DEF Alone
      <4>3. CASE call[c].kind = "remove"
        BY <2>4, <3>1, <3>2, <3>3, <4>3, Shown DEF Alone
      <4> QED BY <1>1, <1>4, <3>2, <4>1, <4>2, <4>3 DEF PageCall
    <3>5. About(m)' = {}
      BY <1>1, <3>1 DEF About, Others
    <3>6. \A d \in Call : ~Arrives(d, "load")'
      BY <3>2 DEF Arrives, Loading
    <3> QED BY <1>1, <3>4, <3>5, <3>6 DEF Settling
  <2> QED BY <2>3, <2>4
<1> QED BY <1>3, <1>4

\* Every step keeps the list up with the server.
LEMMA SettledStep ==
  ASSUME Typed, Unused, Nameless, Settled, [Next]_vars
  PROVE  Settled'
<1> SUFFICES ASSUME page'.open, NEW m \in Memo \ blurred'
             PROVE  Settling(m)'
  BY DEF Settled
<1>1. ASSUME NEW c \in Call, Open(c)
      PROVE  Settling(m)'
  <2>1. /\ call'[c] # NoCall /\ Others(c) /\ call'[c].kind = "load" /\ call'[c].memo = None
        /\ call'[c].here /\ call'[c].at = "sent"
    BY <1>1, Begun DEF Open, Status
  <2>2. About(m) = {} /\ ~page.open
    BY <1>1 DEF Open, Closed
  <2>3. About(m)' = {} /\ Loading'
    BY <2>1, <2>2, NoneAssumption DEF About, Others, Loading
  <2>4. \A d \in Call : ~Arrives(d, "load")'
    <3>1. \A d \in Call : call[d] # NoCall => ~call[d].here
      BY <2>2 DEF Typed, Named
    <3> QED BY <2>1, <3>1 DEF Arrives, Others, NoCall
  <2> QED BY <2>3, <2>4 DEF Settling
<1>2. ASSUME NEW c \in Call, Begin(c, "create", None, "open", TRUE) \/ Begin(c, "create", None, "open", FALSE),
             UNCHANGED <<row, blurred>>, page.open, page'.list = page.list
      PROVE  Settling(m)'
  <2>1. /\ call[c] = NoCall /\ call'[c] # NoCall /\ Others(c) /\ call'[c].kind = "create"
        /\ call'[c].memo = None
    BY <1>2, Begun DEF Status
  <2>2. Loading' <=> Loading
    BY <2>1, LoadingStays DEF NoCall
  <2>3. Settling(m) /\ m # None /\ ~Arrives(c, "load")'
    BY <1>2, <2>1, NoneAssumption DEF Settled, Arrives
  <2> QED BY <1>2, <2>1, <2>2, <2>3, Apart
<1>3. ASSUME NEW c \in Call, CreateMemo(c)
      PROVE  Settling(m)'
  <2>1. page \in Page /\ page' = [page EXCEPT !.busy = TRUE]
    BY <1>3 DEF CreateMemo, Composer, Closed, Typed, TypeOK
  <2>2. page'.list = page.list
    BY <2>1 DEF Page
  <2> QED BY <1>2, <1>3, <2>2 DEF CreateMemo, Composer, history
<1>4. ASSUME NEW c \in Call, ToggleMemo(c)
      PROVE  Settling(m)'
  <2>1. PICK k \in Memo : \E i \in DOMAIN Cards(k) :
               Begin(c, "toggle", k, Flip(Cards(k)[i]), TRUE) /\ Blur(k, TRUE)
    BY <1>4 DEF ToggleMemo
  <2>2. PICK i \in DOMAIN Cards(k) :
               Begin(c, "toggle", k, Flip(Cards(k)[i]), TRUE) /\ Blur(k, TRUE)
    BY <2>1
  <2>3. Flip(Cards(k)[i]) \in Status
    BY DEF Flip, Status
  <2>4. page.open /\ page.list[k] # <<>> /\ row' = row /\ page' = page
    BY <1>4, <2>2 DEF ToggleMemo, Cards
  <2> QED BY <2>2, <2>3, <2>4, ClickSettles
<1>5. ASSUME NEW c \in Call, RemoveMemo(c)
      PROVE  Settling(m)'
  <2>1. PICK k \in Memo : Cards(k) # <<>> /\ Begin(c, "remove", k, "open", TRUE) /\ Blur(k, TRUE)
    BY <1>5 DEF RemoveMemo
  <2>2. page.open /\ page.list[k] # <<>> /\ row' = row /\ page' = page
    BY <1>5, <2>1 DEF RemoveMemo, Cards
  <2> QED BY <2>1, <2>2, ClickSettles DEF Status
<1>6. ASSUME NEW c \in Call, Elsewhere(c)
      PROVE  Settling(m)'
  <2>1. page.open /\ row' = row /\ page' = page
    BY <1>6 DEF Elsewhere
  <2>2. CASE Begin(c, "create", None, "open", FALSE) /\ UNCHANGED blurred
    BY <1>2, <2>1, <2>2
  <2>3. ASSUME NEW k \in Used, NEW status \in Status, Blur(k, FALSE),
               Begin(c, "toggle", k, status, FALSE) \/ Begin(c, "remove", k, "open", FALSE)
        PROVE  Settling(m)'
    <3>1. k \in Memo /\ "open" \in Status
      BY DEF Used, Status, Typed, TypeOK
    <3> QED BY <2>1, <2>3, <3>1, ClickSettles
  <2> QED BY <1>6, <2>2, <2>3 DEF Elsewhere
<1>7. ASSUME NEW c \in Call, Serve(c)
      PROVE  Settling(m)'
  BY <1>7, Served, ServeSettles
<1>8. ASSUME NEW c \in Call, Deliver(c)
      PROVE  Settling(m)'
  <2>1. page.open
    BY <1>8, Ended DEF Typed, Named, Deliver, ListArrives, CreateArrives, ToggleArrives,
       RemoveArrives, ErrorArrives, EmptyArrives, Arrives, Ignored
  <2> QED BY <1>8, <2>1, DeliverSettles
<1>9. ~Leaves
  BY Left DEF Closed
<1>10. CASE UNCHANGED vars
  BY <1>10 DEF vars, history, Settled, Settling, Alone, About, Loading, Arrives
<1> QED BY <1>1, <1>3, <1>4, <1>5, <1>6, <1>7, <1>8, <1>9, <1>10
       DEF Next, Click, Leaves

-----------------------------------------------------------------------------
\* The inductive invariant.
IInv == Typed /\ AllGone /\ Unused /\ Nameless /\ Settled

LEMMA Invariance == Spec => []IInv
<1>1. Init => IInv
  <2>1. Init => Unused /\ Nameless /\ Settled
    BY DEF Init, Unused, Clear, Nameless, Settled, Is, NoCall, Closed
  <2> QED BY <2>1, InitOK DEF IInv
<1>2. IInv /\ [Next]_vars => IInv'
  BY TypedStep, GoneStep, UnusedStep, NamelessStep, SettledStep DEF IInv
<1> QED BY <1>1, <1>2, PTL DEF Spec

\* The types hold in every state.
THEOREM Types == Spec => []TypeOK
<1>1. IInv => TypeOK
  BY DEF IInv, Typed
<1> QED BY <1>1, Invariance, PTL

\* A memo that was deleted while no update had read it never comes back, by
\* whatever calls of this page or of another device.
THEOREM StaysDeleted == Spec => []DeletedUnlessCopied
<1>1. IInv => DeletedUnlessCopied
  BY DEF IInv, AllGone, Deleted, Gone, DeletedUnlessCopied
<1> QED BY <1>1, Invariance, PTL

\* Once the list is there, every memo that was left to one call at a time is
\* shown as the server has it, once, in whatever order the answers about the
\* others arrive.
THEOREM Settles == Spec => []ListSettles
<1>1. IInv => ListSettles
  BY DEF IInv, Settled, Settling, ListSettles
<1> QED BY <1>1, Invariance, PTL
=============================================================================

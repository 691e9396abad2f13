----------------------------- MODULE PeoplePage -----------------------------
(***************************************************************************)
(* The page of follows and friends and the profiles it opens: PeoplePage   *)
(* and ProfilePage of web/src/features/social in web/src/app/App.tsx, over *)
(* the server of the Social module.                                        *)
(*                                                                         *)
(* Every click starts a call of its own and none is cancelled.  The server *)
(* works on it, its reply travels, and the page applies replies in the     *)
(* order in which they happen to arrive.  A viewer has one page; what he   *)
(* does from another device is a call that belongs to no page.             *)
(***************************************************************************)
EXTENDS Social

CONSTANT Viewer  \* users who have the page, or may open it

ASSUME ViewerAssumption == Viewer \subseteq User

VARIABLES page,       \* the state of each viewer's page
          call,       \* what each call was made for
          reply,      \* reply that travels to the page, or NoReply
          shown,      \* history: what the list on each page was fetched for
          muddled,    \* history: viewers whose calls overlapped or failed since
                      \* a list was last fetched alone
          relabelled  \* history: pages whose search results became a tab's list

history == <<shown, muddled, relabelled>>
vars == <<socialVars, page, call, reply, history>>

Tab == {"following", "friends"}
\* Rows of the page: the people it lists, and whether it shows each as followed.
Rows == UNION {[P -> BOOLEAN] : P \in SUBSET User}
NoRows == [t \in {} |-> FALSE]

Closed == [open |-> FALSE]
Page == [open : {TRUE}, initial : Tab, tab : Tab, searching : BOOLEAN,
         loading : BOOLEAN, rows : Rows]
\* The profile of somebody else; no rows as long as it shows a skeleton.
Profile == [open : {FALSE}, uid : User, rows : Rows]

NoCall == [kind |-> "none"]
\* page: is the page that made the call still there?
\* alone: was no other call of the user in flight together with this one?
\* of: whose profile, or the caller.
PageCall == [kind : {"following", "friends", "search", "follow", "person"},
             user : User, of : User, page : BOOLEAN, alone : BOOLEAN]
\* empty: the answer lost its body, which would have had these rows.
NoReply == [at |-> "none"]
Reply == [at : {"rows", "empty"}, rows : Rows] \cup [at : {"error"}]

TypeOK ==
  /\ SocialTypeOK
  /\ page \in [Viewer -> Page \cup Profile \cup {Closed}]
  /\ call \in [Client -> PageCall \cup {NoCall}]
  /\ reply \in [Client -> Reply \cup {NoReply}]
  /\ shown \in [Viewer -> Tab \cup {"search", "nothing"}]
  /\ muddled \subseteq Viewer
  /\ relabelled \subseteq Viewer

Init ==
  /\ SocialInit
  /\ page = [u \in Viewer |-> Closed]
  /\ call = [c \in Client |-> NoCall]
  /\ reply = [c \in Client |-> NoReply]
  /\ shown = [u \in Viewer |-> "nothing"]
  /\ muddled = {}
  /\ relabelled = {}

Calls(u) == {c \in Client : call[c] # NoCall /\ call[c].user = u}

\* User u makes a call; whatever else he has in flight is no longer alone.
Begin(c, u, kind, fromPage) ==
  /\ call[c] = NoCall
  /\ call' = [d \in Client |->
                IF d = c
                THEN [kind |-> kind, user |-> u, of |-> u, page |-> fromPage,
                      alone |-> Calls(u) = {}]
                ELSE IF d \in Calls(u) THEN [call[d] EXCEPT !.alone = FALSE]
                ELSE call[d]]

\* The effects of call c may be missing from the page of the user.
Muddle(c) == muddled' = muddled \cup ({call[c].user} \cap Viewer)

\* The call is over, with or without an answer.
End(c) ==
  /\ call' = [call EXCEPT ![c] = NoCall]
  /\ reply' = [reply EXCEPT ![c] = NoReply]

-----------------------------------------------------------------------------
\* The page is mounted and its effect loads the tab it was opened for.
Open(c, u, t) ==
  /\ page[u] = Closed
  /\ Begin(c, u, t, TRUE)
  /\ page' = [page EXCEPT ![u] = [open |-> TRUE, initial |-> t, tab |-> t,
                                  searching |-> FALSE, loading |-> TRUE, rows |-> NoRows]]
  /\ shown' = [shown EXCEPT ![u] = "nothing"]
  /\ relabelled' = relabelled \ {u}
  /\ UNCHANGED <<socialVars, reply, muddled>>

\* A name in the list: the profile of that person is mounted and loaded, and
\* takes the place of the list.
OpenProfile(c, u, t) ==
  /\ page[u].open /\ ~page[u].loading
  /\ t \in DOMAIN page[u].rows
  /\ call[c] = NoCall
  /\ page' = [page EXCEPT ![u] = [open |-> FALSE, uid |-> t, rows |-> NoRows]]
  /\ call' = [d \in Client |->
                IF d = c
                THEN [kind |-> "person", user |-> u, of |-> t, page |-> TRUE,
                      alone |-> Calls(u) = {}]
                ELSE IF d \in Calls(u) THEN [call[d] EXCEPT !.alone = FALSE, !.page = FALSE]
                ELSE call[d]]
  /\ UNCHANGED <<socialVars, reply, history>>

\* Another page takes its place; replies on the way are ignored.
Close(u) ==
  /\ page[u] # Closed
  /\ page' = [page EXCEPT ![u] = Closed]
  /\ call' = [c \in Client |-> IF c \in Calls(u) THEN [call[c] EXCEPT !.page = FALSE]
                                                ELSE call[c]]
  /\ UNCHANGED <<socialVars, reply, history>>

\* A tab button: only a change of tab makes the effect load.
SetTab(c, u, t) ==
  /\ page[u].open /\ page[u].tab # t
  /\ Begin(c, u, t, TRUE)
  /\ page' = [page EXCEPT ![u].tab = t, ![u].loading = TRUE]
  /\ UNCHANGED <<socialVars, reply, history>>

\* The menu opens the page it is on: the effect of initialTab resets the tab
\* and leaves the search, and the list is fetched if the tab changed.
OpenSocial(c, u, t) ==
  /\ page[u].open /\ page[u].initial # t
  /\ IF page[u].tab = t
     THEN /\ page' = [page EXCEPT ![u].initial = t, ![u].searching = FALSE]
          /\ relabelled' = IF page[u].searching THEN relabelled \cup {u} ELSE relabelled
          /\ UNCHANGED call
     ELSE /\ Begin(c, u, t, TRUE)
          /\ page' = [page EXCEPT ![u].initial = t, ![u].tab = t,
                                  ![u].searching = FALSE, ![u].loading = TRUE]
          /\ UNCHANGED relabelled
  /\ UNCHANGED <<socialVars, reply, shown, muddled>>

\* The search button is disabled while a list loads.
Search(c, u) ==
  /\ page[u].open /\ ~page[u].loading
  /\ Begin(c, u, "search", TRUE)
  /\ page' = [page EXCEPT ![u].loading = TRUE]
  /\ UNCHANGED <<socialVars, reply, history>>

\* The button of the search results calls load again, for the tab.
Reload(c, u) ==
  /\ page[u].open /\ page[u].searching
  /\ Begin(c, u, page[u].tab, TRUE)
  /\ page' = [page EXCEPT ![u].loading = TRUE]
  /\ UNCHANGED <<socialVars, reply, history>>

\* The button of a row, or of a profile, follows or unfollows, as it shows it.
Toggle(c, u, t) ==
  /\ page[u].open => ~page[u].loading
  /\ page[u] # Closed
  /\ t \in DOMAIN page[u].rows
  /\ Begin(c, u, "follow", TRUE)
  /\ IF page[u].rows[t] THEN Unfollow(c, <<u, t>>) ELSE Follow(c, <<u, t>>)
  /\ UNCHANGED <<page, reply, history>>

\* The same from another device.
Elsewhere(c, e) ==
  /\ Begin(c, e[1], "follow", FALSE)
  /\ Follow(c, e) \/ Unfollow(c, e)
  /\ UNCHANGED <<page, reply, history>>

-----------------------------------------------------------------------------
\* Mutant of RowsOf: a list of nobody is null.
RowsOfNull(u, P) == IF P = {} THEN NoReply ELSE [t \in P |-> Following(<<u, t>>)]
RowsOf(u, P) == [t \in P |-> Following(<<u, t>>)]

\* Following, Friends or Search: one query each.  A search may find anybody; his
\* own row, which has no button, is left out.
ReadList(c, P) ==
  /\ call[c].kind \in Tab \cup {"search"} /\ reply[c] = NoReply
  /\ LET u == call[c].user
     IN /\ u \notin P
        /\ call[c].kind = "following" => P = {t \in User \ {u} : Following(<<u, t>>)}
        /\ call[c].kind = "friends" => P = {t \in User \ {u} : Friend(<<u, t>>)}
        /\ reply' = [reply EXCEPT ![c] = [at |-> "rows", rows |-> RowsOf(u, P)]]
  /\ UNCHANGED <<socialVars, page, call, history>>

\* The person a profile is of.
ReadPerson(c) ==
  /\ call[c].kind = "person" /\ reply[c] = NoReply
  /\ reply' = [reply EXCEPT ![c] = [at |-> "rows",
                                    rows |-> RowsOf(call[c].user, {call[c].of})]]
  /\ UNCHANGED <<socialVars, page, call, history>>

\* The write of a Toggle.
WriteFollow(c) ==
  /\ Insert(c) \/ Remove(c)
  /\ UNCHANGED <<page, call, reply, history>>

\* The read that ends it.
ReadFollow(c) ==
  /\ Answer(c)
  /\ reply' = [reply EXCEPT ![c] = [at |-> "rows",
                                    rows |-> RowsOf(call[c].user, {req[c].pair[2]})]]
  /\ UNCHANGED <<page, call, history>>

\* The call fails before, between or after its trips; a page hears of it.
FailCall(c) ==
  /\ Failures
  /\ call[c] # NoCall /\ reply[c] = NoReply
  /\ Fail(c) \/ (req[c] = Idle /\ UNCHANGED socialVars)
  /\ reply' = [reply EXCEPT ![c] = [at |-> "error"]]
  /\ UNCHANGED <<page, call, history>>

\* The answer arrives without a body that can be read: request makes an empty
\* success of it.
CutBody(c) ==
  /\ Failures
  /\ reply[c].at = "rows" /\ call[c].page
  /\ reply' = [reply EXCEPT ![c].at = "empty"]
  /\ UNCHANGED <<socialVars, page, call, history>>

-----------------------------------------------------------------------------
\* Mutant of ListArrives: the search is not left.
ListArrivesInSearch(c) ==
  /\ call[c].kind \in Tab \cup {"search"} /\ call[c].page /\ reply[c].at = "rows"
  /\ LET u == call[c].user
     IN /\ page' = [page EXCEPT ![u].rows = reply[c].rows, ![u].loading = FALSE,
                                ![u].searching = @ \/ call[c].kind = "search"]
        /\ shown' = [shown EXCEPT ![u] = call[c].kind]
        /\ muddled' = IF call[c].alone THEN muddled \ {u} ELSE muddled \cup {u}
        /\ relabelled' = relabelled \ {u}
  /\ End(c)
  /\ UNCHANGED socialVars

\* setUsers, setSearching and, at last, setLoading(false).
ListArrives(c) ==
  /\ call[c].kind \in Tab \cup {"search"} /\ call[c].page /\ reply[c].at = "rows"
  /\ LET u == call[c].user
     IN /\ page' = [page EXCEPT ![u].rows = reply[c].rows, ![u].loading = FALSE,
                                ![u].searching = call[c].kind = "search"]
        /\ shown' = [shown EXCEPT ![u] = call[c].kind]
        /\ muddled' = IF call[c].alone THEN muddled \ {u} ELSE muddled \cup {u}
        /\ relabelled' = relabelled \ {u}
  /\ End(c)
  /\ UNCHANGED socialVars

\* Mutant of Merged: the answer is not looked at.
MergedNothing(rows, news) == rows
\* The row of the person is replaced, if the list still has it.
Merged(rows, news) ==
  [t \in DOMAIN rows |-> IF t \in DOMAIN news THEN news[t] ELSE rows[t]]

RowArrives(c) ==
  /\ call[c].kind = "follow" /\ call[c].page /\ reply[c].at = "rows"
  /\ LET u == call[c].user
     IN /\ page' = [page EXCEPT ![u].rows = Merged(@, reply[c].rows)]
  /\ IF call[c].alone THEN UNCHANGED muddled ELSE Muddle(c)
  /\ End(c)
  /\ UNCHANGED <<socialVars, shown, relabelled>>

\* setPerson of the profile.
PersonArrives(c) ==
  /\ call[c].kind = "person" /\ call[c].page /\ reply[c].at = "rows"
  /\ page' = [page EXCEPT ![call[c].user].rows = reply[c].rows]
  /\ IF call[c].alone THEN muddled' = muddled \ {call[c].user} ELSE Muddle(c)
  /\ End(c)
  /\ UNCHANGED <<socialVars, shown, relabelled>>

\* An error is shown, and a list is no longer loading; a profile keeps its
\* skeleton.
ErrorArrives(c) ==
  /\ reply[c].at = "error"
  /\ LET u == call[c].user
     IN /\ page' = IF call[c].page /\ page[u].open /\ call[c].kind # "follow"
                   THEN [page EXCEPT ![u].loading = FALSE] ELSE page
  /\ Muddle(c)
  /\ End(c)
  /\ UNCHANGED <<socialVars, shown, relabelled>>

\* The empty success: a list of nobody, a profile with its skeleton; a row that
\* is nobody cannot be rendered, and takes the page down.
EmptyArrives(c) ==
  /\ reply[c].at = "empty" /\ call[c].page
  /\ LET u == call[c].user
         crash == call[c].kind = "follow" /\ page[u].open
                  /\ DOMAIN reply[c].rows \subseteq DOMAIN page[u].rows
     IN /\ IF crash THEN page' = [page EXCEPT ![u] = Closed]
           ELSE IF call[c].kind \in Tab \cup {"search"}
           THEN page' = [page EXCEPT ![u].rows = NoRows, ![u].loading = FALSE,
                                     ![u].searching = call[c].kind = "search"]
           ELSE page' = IF page[u].open THEN page ELSE [page EXCEPT ![u].rows = NoRows]
        /\ call' = [d \in Client |->
                      IF d = c THEN NoCall
                      ELSE IF crash /\ d \in Calls(u) THEN [call[d] EXCEPT !.page = FALSE]
                      ELSE call[d]]
  /\ reply' = [reply EXCEPT ![c] = NoReply]
  /\ Muddle(c)
  /\ UNCHANGED <<socialVars, shown, relabelled>>

\* Nobody waits for the reply any more, but what it did may not be on the page.
Ignored(c) ==
  /\ reply[c].at \in {"rows", "empty"} /\ ~call[c].page
  /\ IF call[c].kind = "follow" THEN Muddle(c) ELSE UNCHANGED muddled
  /\ End(c)
  /\ UNCHANGED <<socialVars, page, shown, relabelled>>

\* The steps a call that was made takes on its own.
Deliver(c) ==
  \/ \E P \in SUBSET User : ReadList(c, P)
  \/ ReadPerson(c)
  \/ PersonArrives(c)
  \/ WriteFollow(c)
  \/ ReadFollow(c)
  \/ ListArrives(c)
  \/ RowArrives(c)
  \/ ErrorArrives(c)
  \/ EmptyArrives(c)
  \/ Ignored(c)

\* One step that starts or changes what viewer u looks at.
Click(c, u) ==
  \/ \E t \in Tab : Open(c, u, t) \/ SetTab(c, u, t) \/ OpenSocial(c, u, t)
  \/ Search(c, u)
  \/ Reload(c, u)
  \/ \E t \in User : Toggle(c, u, t) \/ OpenProfile(c, u, t)

Next ==
  \/ \E c \in Client, u \in Viewer : Click(c, u)
  \/ \E c \in Client, e \in Pair : Elsewhere(c, e)
  \/ \E u \in Viewer : Close(u)
  \/ \E c \in Client : Deliver(c) \/ FailCall(c) \/ CutBody(c)

Spec == Init /\ [][Next]_vars

-----------------------------------------------------------------------------
\* What user u did has run its course.
Quiet(u) == page[u] # Closed /\ Calls(u) = {}

\* Whoever waits for one click before the next sees on his page whom he
\* follows, whatever others do; and after a muddle one reload is enough.
RowsSettle ==
  \A u \in Viewer : Quiet(u) /\ u \notin muddled =>
    \A t \in DOMAIN page[u].rows : page[u].rows[t] = Following(<<u, t>>)

\* Then the list is also the one its heading promises, except after the menu
\* opened the tab that had been searched from.
ListMatchesTab ==
  \A u \in Viewer : Quiet(u) /\ page[u].open /\ u \notin muddled \cup relabelled =>
    shown[u] = IF page[u].searching THEN "search" ELSE page[u].tab
=============================================================================

------------------------------- MODULE Shell -------------------------------
(***************************************************************************)
(* Who is signed in, as one tab of a browser sees it: web/src/app/App.tsx, *)
(* AppShell.tsx and features/auth/AuthScreen.tsx, with the calls of the    *)
(* pages that can end or replace a session, over the cookie of the browser *)
(* and the sessions of the server (cmd/server/http.go, auth_handlers.go).  *)
(*                                                                         *)
(* A call takes the cookie along when it is made.  The server works on it  *)
(* once; its answer then sets or clears the cookie and runs the            *)
(* continuation, in one step, in whatever order the answers arrive, also   *)
(* after the component that made the call is gone.                         *)
(***************************************************************************)
EXTENDS Naturals

CONSTANTS User, Session,
          Call,       \* calls in flight of the tab
          None,
          MaxVisits   \* how often the document is loaded

ASSUME NoneAssumption == None \notin User \cup Session
ASSUME SessionAssumption == Session \cap {"keep", "clear"} = {}
ASSUME MaxVisitsAssumption == MaxVisits \in Nat

VARIABLES owner,    \* server: the user of each live session
          issued,   \* server: sessions that were handed out
          cookie,   \* browser: the session cookie
          link,     \* the token in the address of the document
          app,      \* the state of App
          auth,     \* the state of AuthScreen, while it is mounted
          call,     \* the calls in flight
          visits,   \* how often the document was loaded
          entered,  \* history: the session the user was let in with
          odd,      \* history: what keeps App and cookie apart since then
          posted    \* history: what became of the confirmation in the address

history == <<entered, odd, posted>>
server == <<owner, issued>>
vars == <<owner, issued, cookie, link, app, auth, call, visits, history>>

View == {"memos", "people", "profile", "account"}
ASSUME ContentAssumption == User \cap (View \cup {"auth"}) = {}

Closed == [open |-> FALSE]
App == [open : {TRUE}, checking : BOOLEAN, user : User \cup {None},
        view : View, profile : User \cup {None}]

Link == {"none", "verify", "reset"}
NoAuth == [mode |-> "none", busy |-> FALSE, reset |-> FALSE]
\* The mode login stands for register, too: the call of either lets a user in.
Auth == [mode : {"login", "forgot"}, busy : BOOLEAN, reset : BOOLEAN]

\* from: is the component that made the call still mounted, or left (where the
\* continuation asks for it), or was the whole document closed?  user: who wants
\* to sign in, or whom the answer names.
\* set: what the answer does to the cookie.
NoCall == [kind |-> "none"]
AuthKind == {"login", "forgot", "reset"}
Protected == {"me", "logout", "save", "password", "page"}
Kind == AuthKind \cup Protected \cup {"verify"}
TabCall == [kind : Kind, user : User \cup {None}, cookie : Session \cup {None},
            from : {"mounted", "left", "closed"}, at : {"sent", "done", "failed"},
            set : Session \cup {"keep", "clear"}]

\* tab: another tab changed the cookie.  late: the answer of an earlier save
\* named the user.  swept: the answer of an earlier call cleared the cookie.
\* kept: a check or a logout failed and left a cookie.  cut: an answer that
\* names the user lost its body.
Oddity == {"tab", "late", "swept", "kept", "cut"}

\* A call that the form waits for.
Waits(c) == call[c].kind \in AuthKind /\ call[c].from = "mounted"

\* The button of the form is disabled exactly while a call of it is under way,
\* so that it makes one at a time.
FormBusy ==
  /\ auth.busy <=> \E c \in Call : Waits(c)
  /\ \A c, d \in Call : Waits(c) /\ Waits(d) => c = d

Typed ==
  /\ owner \in [Session -> User \cup {None}]
  /\ issued \subseteq Session
  /\ cookie \in Session \cup {None}
  /\ link \in Link
  /\ app \in App \cup {Closed}
  /\ auth \in Auth \cup {NoAuth}
  /\ call \in [Call -> TabCall \cup {NoCall}]
  /\ visits \in 0..MaxVisits
  /\ entered \in Session \cup {None}
  /\ odd \subseteq Oddity
  /\ posted \in {"none", "due", "posted", "again"}

TypeOK == Typed /\ FormBusy

Init ==
  /\ owner = [s \in Session |-> None]
  /\ issued = {}
  /\ cookie = None
  /\ link = "none"
  /\ app = Closed
  /\ auth = NoAuth
  /\ call = [c \in Call |-> NoCall]
  /\ visits = 0
  /\ entered = None
  /\ odd = {}
  /\ posted = "none"

\* The causes in why and more; another tab is cause enough.
Also(why, causes) == IF "tab" \in why THEN why ELSE why \cup causes

\* The user of a cookie.
Who(s) == IF s = None THEN None ELSE owner[s]

NewCall(kind, u) == [kind |-> kind, user |-> u, cookie |-> cookie, from |-> "mounted",
                     at |-> "sent", set |-> "keep"]
Begin(c, kind, u) ==
  /\ call[c] = NoCall
  /\ call' = [call EXCEPT ![c] = NewCall(kind, u)]

-----------------------------------------------------------------------------
\* The document is loaded, with or without a mailed link in its address, and
\* App asks who is signed in.  What the previous document waited for is dropped.
Visit(c, l) ==
  /\ visits < MaxVisits
  /\ call[c] = NoCall
  /\ visits' = visits + 1
  /\ app' = [open |-> TRUE, checking |-> TRUE, user |-> None, view |-> "memos",
             profile |-> None]
  /\ auth' = NoAuth
  /\ link' = l
  /\ call' = [d \in Call |-> IF d = c THEN NewCall("me", None)
                             ELSE IF call[d] = NoCall \/ call[d].at # "sent" THEN NoCall
                             ELSE [call[d] EXCEPT !.from = "closed"]]
  /\ entered' = None
  /\ odd' = {}
  /\ posted' = IF l = "verify" THEN "due" ELSE "none"
  /\ UNCHANGED <<server, cookie>>

SignedIn == app.open /\ app.user # None
AskedToSignIn == app.open /\ ~app.checking /\ app.user = None

\* The confirmation goes to the server.
Post(c) ==
  /\ Begin(c, "verify", None)
  /\ posted' = IF posted = "due" THEN "posted" ELSE "again"

\* Mutant of Mount: the address is cleaned before it is read.
MountCleansFirst(c) ==
  /\ AskedToSignIn /\ auth = NoAuth
  /\ auth' = [mode |-> "login", busy |-> FALSE, reset |-> FALSE]
  /\ link' = "none"
  /\ UNCHANGED <<server, cookie, app, call, visits, history>>

\* AuthScreen is mounted and its effect looks at the address: a confirmation is
\* posted, a reset token opens the form for the password, the address is cleaned.
Mount(c) ==
  /\ AskedToSignIn /\ auth = NoAuth
  /\ auth' = [mode |-> "login", busy |-> FALSE, reset |-> link = "reset"]
  /\ link' = "none"
  /\ IF link = "verify" THEN Post(c) ELSE UNCHANGED <<call, posted>>
  /\ UNCHANGED <<server, cookie, app, visits, entered, odd>>

\* With a reset token there is only the form for the new password.
AuthShown == AskedToSignIn /\ auth # NoAuth
SignInForm == AuthShown /\ ~auth.reset
ResetForm == AuthShown /\ auth.reset

\* The links below the form are there while a call is under way, too.
SetMode ==
  /\ SignInForm
  /\ auth' = [auth EXCEPT !.mode = IF @ = "login" THEN "forgot" ELSE "login"]
  /\ UNCHANGED <<server, cookie, link, app, call, visits, history>>

\* submit: the button is disabled while busy.  u: whose account name is typed.
Submit(c, u) ==
  /\ SignInForm /\ ~auth.busy
  /\ auth' = [auth EXCEPT !.busy = TRUE]
  /\ IF auth.mode = "forgot" THEN Begin(c, "forgot", None) ELSE Begin(c, "login", u)
  /\ UNCHANGED <<server, cookie, link, app, visits, history>>

\* submitReset of the form for a new password, which has no other button.
SubmitReset(c) ==
  /\ ResetForm /\ ~auth.busy
  /\ auth' = [auth EXCEPT !.busy = TRUE]
  /\ Begin(c, "reset", None)
  /\ UNCHANGED <<server, cookie, link, app, visits, history>>

\* What App renders; another content unmounts what was there.
Content(a) == IF a.user = None THEN "auth"
              ELSE IF a.profile # None THEN a.profile ELSE a.view
Left(calls) == [c \in Call |->
                  IF calls[c].kind \in AuthKind \cup {"save"} /\ calls[c].from = "mounted"
                  THEN [calls[c] EXCEPT !.from = "left"] ELSE calls[c]]
Render(a, calls) ==
  /\ app' = a
  /\ call' = IF Content(a) = Content(app) THEN calls ELSE Left(calls)

\* navigate: the navigation, the menu of the shell, and the buttons of a profile.
Navigate(v) ==
  /\ SignedIn
  /\ Render([app EXCEPT !.view = v, !.profile = None], call)
  /\ UNCHANGED <<server, cookie, link, auth, visits, history>>

\* A row of the page of people.
OpenProfile(u) ==
  /\ SignedIn /\ Content(app) = "people"
  /\ Render(IF u = app.user THEN [app EXCEPT !.view = "profile"]
                            ELSE [app EXCEPT !.profile = u], call)
  /\ UNCHANGED <<server, cookie, link, auth, visits, history>>

\* onBack of somebody's profile.
Back ==
  /\ SignedIn /\ app.profile # None
  /\ Render([app EXCEPT !.profile = None], call)
  /\ UNCHANGED <<server, cookie, link, auth, visits, history>>

Ask(c, kind) ==
  /\ SignedIn
  /\ Begin(c, kind, None)
  /\ UNCHANGED <<server, cookie, link, app, auth, visits, history>>

\* The last button of the menu, which stays there until the answer.
Logout(c) == Ask(c, "logout")

\* saveProfile: the editor is there on a profile that the server says is one's
\* own, and its button is disabled while saving.
SaveProfile(c) ==
  /\ SignedIn
  /\ LET shown == IF Content(app) = "profile" THEN app.user ELSE app.profile
     IN shown \in {app.user, Who(cookie)} \ {None}
  /\ \A d \in Call : call[d].kind = "save" => call[d].from # "mounted"
  /\ Ask(c, "save")

\* changePassword of the account page.
ChangePassword(c) == SignedIn /\ Content(app) = "account" /\ Ask(c, "password")

\* Whatever else a page or the menu asks of the server.
Use(c) == Ask(c, "page")

-----------------------------------------------------------------------------
Answered(c, at, u, set) ==
  call' = [call EXCEPT ![c].at = at, ![c].user = u, ![c].set = set]

\* A new session of user u takes effect.
Issue(s, u) ==
  /\ s \notin issued
  /\ issued' = issued \cup {s}
  /\ owner' = [owner EXCEPT ![s] = u]

\* Sessions end.
Revoke(S) ==
  /\ owner' = [s \in Session |-> IF s \in S THEN None ELSE owner[s]]
  /\ UNCHANGED issued

Local == <<cookie, link, app, auth, visits, history>>

\* Register or Login, and setCookie.
HandleLogin(c, s) ==
  /\ call[c].kind = "login" /\ call[c].at = "sent"
  /\ Issue(s, call[c].user)
  /\ Answered(c, "done", call[c].user, s)
  /\ UNCHANGED Local

\* Calls that need no session: a reset ends every session of its user.
HandleOpen(c) ==
  /\ call[c].kind \in {"forgot", "reset", "verify"} /\ call[c].at = "sent"
  /\ IF call[c].kind = "reset"
     THEN \E u \in User : Revoke({s \in Session : owner[s] = u})
     ELSE UNCHANGED server
  /\ Answered(c, "done", None, "keep")
  /\ UNCHANGED Local

\* withAuth: without a session 401, and a cookie that names none is cleared.
Unauthorized(c) ==
  /\ call[c].kind \in Protected /\ call[c].at = "sent"
  /\ Who(call[c].cookie) = None
  /\ Answered(c, "failed", call[c].user, IF call[c].cookie = None THEN "keep" ELSE "clear")
  /\ UNCHANGED <<server, Local>>

\* The handlers behind withAuth.
Handle(c) ==
  /\ call[c].kind \in Protected /\ call[c].at = "sent"
  /\ LET s == call[c].cookie
     IN /\ Who(s) # None
        /\ CASE call[c].kind = "logout" -> Revoke({s})
             [] call[c].kind = "password" -> Revoke({r \in Session \ {s} : owner[r] = Who(s)})
             [] OTHER -> UNCHANGED server
        /\ Answered(c, "done", IF call[c].kind \in {"me", "save"} THEN Who(s) ELSE None,
                    IF call[c].kind = "logout" THEN "clear" ELSE "keep")
  /\ UNCHANGED Local

\* Mutant of Fail: any error signs out.
FailClears(c) ==
  /\ call[c] # NoCall /\ call[c].at # "failed"
  /\ Answered(c, "failed", call[c].user, "clear")
  /\ UNCHANGED <<server, Local>>

\* The server refuses or fails, or the request or its answer is lost.
Fail(c) ==
  /\ call[c] # NoCall /\ call[c].at # "failed"
  /\ Answered(c, "failed", call[c].user, "keep")
  /\ UNCHANGED <<server, Local>>

\* The answer arrives without a body that can be read: request makes an empty
\* success of it, which names nobody.
CutBody(c) ==
  /\ call[c].kind \in {"me", "login", "save"} /\ call[c].at = "done"
  /\ call[c].user # None
  /\ Answered(c, "done", None, call[c].set)
  /\ UNCHANGED <<server, Local>>

\* Nobody waits for the answer.
Drop(c) ==
  /\ call[c] # NoCall /\ call[c].from = "closed"
  /\ call' = [call EXCEPT ![c] = NoCall]
  /\ UNCHANGED <<server, Local>>

\* Sessions run out, or are revoked from another device.
SessionEnds(s) ==
  /\ owner[s] # None
  /\ Revoke({s})
  /\ UNCHANGED <<call, Local>>

\* Another tab signs somebody in, or out.
OtherTab(s, u) ==
  /\ IF u = None THEN s = cookie /\ s # None /\ Revoke({s}) /\ cookie' = None
                 ELSE Issue(s, u) /\ cookie' = s
  /\ odd' = {"tab"}
  /\ UNCHANGED <<link, app, auth, call, visits, entered, posted>>

-----------------------------------------------------------------------------
Ready(c, kinds) ==
  call[c].kind \in kinds /\ call[c].from # "closed" /\ call[c].at \in {"done", "failed"}
Done(c) == call[c].at = "done"
Over(c) == [call EXCEPT ![c] = NoCall]

\* What the answer of call c does to the cookie.
Cookie(c) ==
  cookie' = CASE call[c].set = "keep" -> cookie
              [] call[c].set = "clear" -> None
              [] OTHER -> call[c].set
Swept(c) == IF call[c].set = "clear" /\ cookie \notin {None, call[c].cookie}
            THEN {"swept"} ELSE {}
\* The check or the logout got an error and left the cookie that is there now.
Kept(c) == IF ~Done(c) /\ call[c].set = "keep" /\ cookie # None THEN {"kept"} ELSE {}

\* setBusy(false) of the form that made the call, if it is still there.
Enable(c, form) == IF Waits(c) THEN [form EXCEPT !.busy = FALSE] ELSE form

\* setUser: AuthScreen, if it is there, is unmounted, unless the answer names
\* nobody.
Enter(c, s, why) ==
  /\ Render([app EXCEPT !.user = call[c].user, !.checking = FALSE], Over(c))
  /\ IF call[c].user # None
     THEN auth' = NoAuth /\ entered' = s /\ odd' = why
     ELSE auth' = Enable(c, auth) /\ entered' = None /\ odd' = Also(why, {"cut"})
  /\ Cookie(c)

\* then, catch and finally of the session check.
MeArrives(c) ==
  /\ Ready(c, {"me"})
  /\ IF Done(c) THEN Enter(c, call[c].cookie, odd)
     ELSE /\ Render([app EXCEPT !.checking = FALSE], Over(c))
          /\ odd' = Also(odd, Kept(c) \cup Swept(c))
          /\ Cookie(c)
          /\ UNCHANGED <<auth, entered>>
  /\ UNCHANGED <<server, link, visits, posted>>

\* Mutant of SubmitArrives: a form that is gone lets nobody in.
SubmitArrivesMounted(c) ==
  /\ Ready(c, {"login", "forgot"})
  /\ IF call[c].kind = "login" /\ Done(c) /\ call[c].from = "mounted"
     THEN Enter(c, call[c].set, {})
     ELSE /\ auth' = Enable(c, auth)
          /\ call' = Over(c)
          /\ Cookie(c)
          /\ UNCHANGED <<app, entered, odd>>
  /\ UNCHANGED <<server, link, visits, posted>>

\* Mutant of SubmitArrives: after an error the form stays disabled.
SubmitArrivesBusy(c) ==
  /\ Ready(c, {"login", "forgot"})
  /\ IF call[c].kind = "login" /\ Done(c) THEN Enter(c, call[c].set, {})
     ELSE /\ auth' = IF Done(c) THEN Enable(c, auth) ELSE auth
          /\ call' = Over(c)
          /\ UNCHANGED <<cookie, app, entered, odd>>
  /\ UNCHANGED <<server, link, visits, posted>>

\* submit goes on: onAuth lets the user in; otherwise a message is shown.
SubmitArrives(c) ==
  /\ Ready(c, {"login", "forgot"})
  /\ IF call[c].kind = "login" /\ Done(c) THEN Enter(c, call[c].set, {})
     ELSE /\ auth' = Enable(c, auth)
          /\ call' = Over(c)
          /\ UNCHANGED <<cookie, app, entered, odd>>
  /\ UNCHANGED <<server, link, visits, posted>>

\* submitReset goes on: after an error the form for the password stays.
ResetArrives(c) ==
  /\ Ready(c, {"reset"})
  /\ auth' = IF Done(c) /\ call[c].from = "mounted"
             THEN [Enable(c, auth) EXCEPT !.reset = FALSE] ELSE Enable(c, auth)
  /\ call' = Over(c)
  /\ UNCHANGED <<server, cookie, link, app, visits, history>>

\* logout goes on whatever became of the call; an open profile stays chosen.
LogoutArrives(c) ==
  /\ Ready(c, {"logout"})
  /\ Render([app EXCEPT !.user = None, !.view = "memos"], Over(c))
  /\ odd' = Also(odd, Kept(c) \cup Swept(c))
  /\ Cookie(c)
  /\ UNCHANGED <<server, link, auth, visits, entered, posted>>

\* saveProfile goes on, mounted or not: onUser is setUser of App.
SaveArrives(c) ==
  /\ Ready(c, {"save"})
  /\ IF Done(c)
     THEN IF call[c].user \in {app.user, None} THEN Enter(c, entered, odd)
          ELSE Enter(c, call[c].cookie, Also(odd, {"late"}))
     ELSE /\ call' = Over(c)
          /\ odd' = Also(odd, Swept(c))
          /\ Cookie(c)
          /\ UNCHANGED <<app, auth, entered>>
  /\ UNCHANGED <<server, link, visits, posted>>

\* Any other answer leaves App alone, but not the cookie.
PageArrives(c) ==
  /\ Ready(c, {"password", "page", "verify"})
  /\ call' = Over(c)
  /\ odd' = Also(odd, Swept(c))
  /\ Cookie(c)
  /\ UNCHANGED <<server, link, app, auth, visits, entered, posted>>

Click(c) ==
  \/ \E l \in Link : Visit(c, l)
  \/ \E u \in User : Submit(c, u)
  \/ SubmitReset(c)
  \/ Logout(c) \/ SaveProfile(c) \/ ChangePassword(c) \/ Use(c)

\* What a call that was made, and App, do on their own.
Deliver(c) ==
  \/ Mount(c)
  \/ \E s \in Session : HandleLogin(c, s)
  \/ HandleOpen(c) \/ Unauthorized(c) \/ Handle(c) \/ Fail(c) \/ CutBody(c) \/ Drop(c)
  \/ MeArrives(c) \/ SubmitArrives(c) \/ ResetArrives(c) \/ LogoutArrives(c)
  \/ SaveArrives(c) \/ PageArrives(c)

Next ==
  \/ \E c \in Call : Click(c) \/ Deliver(c)
  \/ SetMode
  \/ \E v \in View : Navigate(v)
  \/ \E u \in User : OpenProfile(u)
  \/ Back
  \/ \E s \in Session : SessionEnds(s) \/ \E u \in User \cup {None} : OtherTab(s, u)

Spec == Init /\ [][Next]_vars

-----------------------------------------------------------------------------
\* As long as the session a user was let in with is live, his calls carry it,
\* unless the answer of an older call cleared the cookie; and they are never
\* made in the name of somebody else, unless another tab or the late answer of
\* a save came between.
ShellMatchesSession ==
  SignedIn /\ odd \cap {"tab", "late"} = {} =>
    /\ Who(entered) \in {app.user, None}
    /\ Who(cookie) \in {app.user, None}
    /\ Who(entered) = app.user /\ "swept" \notin odd => cookie = entered

\* Whoever is asked to sign in is signed out: no call of this browser finds a
\* session, unless a check or a logout failed, another tab has signed in, or an
\* answer lost its body.
SignedOutIsOut ==
  AskedToSignIn /\ odd \cap {"tab", "kept", "cut"} = {} => Who(cookie) = None

\* A confirmation stays in the address until it is posted, whatever is shown
\* meanwhile; it is posted once, however often the form is shown again, and not
\* passed over when it is shown.
LinkPostedOnce ==
  /\ posted # "again"
  /\ posted = "due" => link = "verify"
  /\ AuthShown => link = "none"
=============================================================================

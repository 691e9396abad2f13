----------------------------- MODULE ShellProofs -----------------------------
(***************************************************************************)
(* Theorems about who is signed in in a tab, for every set of users,       *)
(* sessions and calls and every number of visits.                          *)
(***************************************************************************)
EXTENDS Shell, TLAPS

\* A session that somebody knows was handed out.
Given(s) == s \in issued \cup {None}
Handed ==
  /\ \A s \in Session : owner[s] # None => s \in issued
  /\ Given(cookie) /\ Given(entered)

\* The calls whose answers will still reach the document.
Pending(c) == call[c] # NoCall /\ call[c].from # "closed"

\* Nobody calls before a document is loaded, and while App checks the session
\* there is that one call, with the cookie of the moment.
Loaded == app = Closed => \A c \in Call : call[c] = NoCall
Checking ==
  /\ app.open /\ app.checking => app.user = None
  /\ \A c \in Call : Pending(c) =>
       /\ app.checking <=> call[c].kind = "me"
       /\ call[c].kind = "me" /\ "tab" \notin odd => cookie = call[c].cookie
  /\ \A c, d \in Call :
       Pending(c) /\ Pending(d) /\ call[c].kind = "me" /\ call[d].kind = "me" => c = d

\* What an answer says was true when it was given, and a session does not come
\* back: it clears a cookie that is dead, and whom it names was behind the
\* cookie of the call, or is behind the one it sets.
Answer(c) ==
  /\ Given(call[c].cookie)
  /\ call[c].set = "clear" => Who(call[c].cookie) = None
  /\ call[c].set \in Session =>
       /\ call[c].kind = "login" /\ call[c].at = "done" /\ Given(call[c].set)
       /\ call[c].user # None => Who(call[c].set) \in {call[c].user, None}
  /\ call[c].at = "done" =>
       /\ call[c].kind = "login" => call[c].set \in Session
       /\ call[c].kind = "logout" => call[c].set = "clear"
       /\ call[c].kind \in {"me", "save"} =>
            /\ call[c].set = "keep"
            /\ call[c].user # None => Who(call[c].cookie) \in {call[c].user, None}
Answers == \A c \in Call : call[c] # NoCall => Answer(c)

\* The address of a document that shows the form is clean, and a confirmation in
\* the address was not posted.
Links ==
  /\ auth # NoAuth => link = "none"
  /\ posted # "again"
  /\ link = "verify" <=> posted = "due"

\* The form is there only for whoever is asked to sign in.
Form == FormBusy /\ (auth # NoAuth => app.open /\ ~app.checking /\ app.user = None)

\* The inductive invariant.
IInv == /\ Typed /\ Handed /\ Loaded /\ Checking /\ Answers /\ Links /\ Form
        /\ ShellMatchesSession /\ SignedOutIsOut

-----------------------------------------------------------------------------
Calls == [Call -> TabCall \cup {NoCall}]

\* A call is one of none, or a record with all its fields.
LEMMA CallShape ==
  /\ NoCall.kind = "none" /\ NoCall \notin TabCall
  /\ \A r \in TabCall :
       /\ r # NoCall /\ r.kind \in Kind
       /\ r.user \in User \cup {None} /\ r.cookie \in Session \cup {None}
       /\ r.from \in {"mounted", "left", "closed"} /\ r.at \in {"sent", "done", "failed"}
       /\ r.set \in Session \cup {"keep", "clear"}
<1>1. NoCall.kind = "none" /\ "none" \notin Kind
  BY DEF NoCall, Kind, AuthKind, Protected
<1>2. \A r \in TabCall :
        /\ r.kind \in Kind
        /\ r.user \in User \cup {None} /\ r.cookie \in Session \cup {None}
        /\ r.from \in {"mounted", "left", "closed"} /\ r.at \in {"sent", "done", "failed"}
        /\ r.set \in Session \cup {"keep", "clear"}
  BY DEF TabCall
<1> QED BY <1>1, <1>2

\* A record of a kind is a call.
LEMMA KindCall ==
  ASSUME Typed, NEW c \in Call
  PROVE  call[c].kind # "none" => call[c] \in TabCall
  BY DEF Typed, NoCall

\* The App of a loaded document.
LEMMA AppShape ==
  ASSUME Typed
  PROVE  /\ app = Closed <=> ~app.open
         /\ app # Closed => /\ app \in App /\ app.open = TRUE /\ app.checking \in BOOLEAN
                            /\ app.user \in User \cup {None} /\ app.view \in View
                            /\ app.profile \in User \cup {None}
<1>1. ASSUME NEW a \in App
      PROVE  /\ a.open = TRUE /\ a.checking \in BOOLEAN /\ a.user \in User \cup {None}
             /\ a.view \in View /\ a.profile \in User \cup {None}
  BY DEF App
<1>2. Closed.open = FALSE
  BY DEF Closed
<1>3. app \in App \/ app = Closed
  BY DEF Typed
<1> QED BY <1>1, <1>2, <1>3

\* The call of a component that is gone is the same call.
Same(x, y) ==
  /\ x = NoCall <=> y = NoCall
  /\ y # NoCall =>
       /\ x.kind = y.kind /\ x.user = y.user /\ x.cookie = y.cookie
       /\ x.at = y.at /\ x.set = y.set
       /\ x.from = "closed" <=> y.from = "closed"

LEMMA Leaving ==
  ASSUME NEW calls \in Calls
  PROVE  Left(calls) \in Calls /\ \A c \in Call : Same(Left(calls)[c], calls[c])
<1> SUFFICES ASSUME NEW c \in Call
             PROVE  Left(calls)[c] \in TabCall \cup {NoCall} /\ Same(Left(calls)[c], calls[c])
  BY DEF Left, Calls
<1>1. CASE calls[c] \in TabCall /\ Left(calls)[c] = [calls[c] EXCEPT !.from = "left"]
           /\ calls[c].from = "mounted"
  <2>1. [calls[c] EXCEPT !.from = "left"] \in TabCall
    BY <1>1 DEF TabCall
  <2>2. /\ [calls[c] EXCEPT !.from = "left"].kind = calls[c].kind
        /\ [calls[c] EXCEPT !.from = "left"].user = calls[c].user
        /\ [calls[c] EXCEPT !.from = "left"].cookie = calls[c].cookie
        /\ [calls[c] EXCEPT !.from = "left"].at = calls[c].at
        /\ [calls[c] EXCEPT !.from = "left"].set = calls[c].set
        /\ [calls[c] EXCEPT !.from = "left"].from = "left"
    BY <1>1 DEF TabCall
  <2> QED BY <1>1, <2>1, <2>2, CallShape DEF Same
<1>2. CASE Left(calls)[c] = calls[c]
  BY <1>2 DEF Same, Calls
<1>3. calls[c] = NoCall => Left(calls)[c] = calls[c]
  BY DEF Left, NoCall, AuthKind
<1> QED BY <1>1, <1>2, <1>3 DEF Left, Calls

\* Rendering leaves the calls the same.
LEMMA Rendered ==
  ASSUME NEW a, NEW calls \in Calls, Render(a, calls)
  PROVE  app' = a /\ call' \in Calls /\ \A c \in Call : Same(call'[c], calls[c])
  BY Leaving DEF Render, Same

\* A call begins, and the others stay.
LEMMA Begun ==
  ASSUME Typed, NEW c \in Call, NEW kind \in Kind, NEW u \in User \cup {None}, Begin(c, kind, u)
  PROVE  /\ call[c] = NoCall /\ call' \in Calls
         /\ \A d \in Call \ {c} : call'[d] = call[d]
         /\ call'[c] \in TabCall
         /\ call'[c].kind = kind /\ call'[c].cookie = cookie /\ call'[c].set = "keep"
         /\ call'[c].from = "mounted" /\ call'[c].at = "sent"
<1>1. NewCall(kind, u) \in TabCall /\ call' = [call EXCEPT ![c] = NewCall(kind, u)]
  BY DEF Begin, NewCall, TabCall, Typed
<1> QED BY <1>1 DEF Typed, Calls, Begin, NewCall

\* The server works on a call, and the others stay.
LEMMA Served ==
  ASSUME Typed, NEW c \in Call, call[c] \in TabCall, NEW at \in {"sent", "done", "failed"},
         NEW u \in User \cup {None}, NEW set \in Session \cup {"keep", "clear"},
         Answered(c, at, u, set)
  PROVE  /\ call' \in Calls
         /\ \A d \in Call \ {c} : call'[d] = call[d]
         /\ call'[c] \in TabCall
         /\ call'[c].at = at /\ call'[c].user = u /\ call'[c].set = set
         /\ call'[c].kind = call[c].kind /\ call'[c].cookie = call[c].cookie
         /\ call'[c].from = call[c].from
<1> DEFINE r == [call[c] EXCEPT !.at = at, !.user = u, !.set = set]
<1>1. call' = [call EXCEPT ![c] = r]
  BY DEF Answered, Typed
<1>2. r \in TabCall
  BY DEF TabCall
<1>3. /\ r.at = at /\ r.user = u /\ r.set = set /\ r.kind = call[c].kind
      /\ r.cookie = call[c].cookie /\ r.from = call[c].from
  BY DEF TabCall
<1> HIDE DEF r
<1> QED BY <1>1, <1>2, <1>3 DEF Typed, Calls

\* A call is over, and the others stay.
LEMMA Ended ==
  ASSUME Typed, NEW c \in Call
  PROVE  /\ Over(c) \in Calls /\ Over(c)[c] = NoCall
         /\ \A d \in Call \ {c} : Over(c)[d] = call[d]
  BY DEF Typed, Over, Calls

-----------------------------------------------------------------------------
\* What renders and forms are set to.
LEMMA Forms ==
  /\ NoAuth.mode = "none" /\ NoAuth.busy = FALSE /\ NoAuth.reset = FALSE
  /\ NoAuth \notin Auth
  /\ \A b, r \in BOOLEAN : [mode |-> "login", busy |-> b, reset |-> r] \in Auth
  /\ \A f \in Auth \cup {NoAuth} :
       /\ [f EXCEPT !.busy = FALSE] \in Auth \cup {NoAuth}
       /\ [f EXCEPT !.reset = FALSE] \in Auth \cup {NoAuth}
       /\ f = NoAuth => [f EXCEPT !.busy = FALSE] = NoAuth /\ [f EXCEPT !.reset = FALSE] = NoAuth
<1>1. NoAuth \notin Auth /\ NoAuth.mode = "none" /\ NoAuth.busy = FALSE /\ NoAuth.reset = FALSE
  BY DEF NoAuth, Auth
<1>2. \A b, r \in BOOLEAN : [mode |-> "login", busy |-> b, reset |-> r] \in Auth
  BY DEF Auth
<1>3. \A f \in Auth : [f EXCEPT !.busy = FALSE] \in Auth /\ [f EXCEPT !.reset = FALSE] \in Auth
  BY DEF Auth
<1>4. [NoAuth EXCEPT !.busy = FALSE] = NoAuth /\ [NoAuth EXCEPT !.reset = FALSE] = NoAuth
  <2>1. NoAuth = [x \in DOMAIN NoAuth |-> NoAuth[x]]
    BY DEF NoAuth
  <2> QED BY <1>1, <2>1
<1> QED BY <1>1, <1>2, <1>3, <1>4

\* The initial states satisfy the invariant.
LEMMA InitInv == Init => IInv
<1> SUFFICES ASSUME Init PROVE IInv
  OBVIOUS
<1> USE DEF Init
<1>1. Typed
  BY MaxVisitsAssumption DEF Typed, Link
<1>2. app = Closed /\ app.open = FALSE /\ Given(None) /\ Who(None) = None
  BY DEF Closed, Given, Who
<1>3. Form
  BY CallShape, Forms DEF Form, FormBusy, Waits, AuthKind
<1> QED
  BY <1>1, <1>2, <1>3
  DEF IInv, Handed, Loaded, Checking, Pending, Answers, Links, ShellMatchesSession, SignedIn,
      SignedOutIsOut, AskedToSignIn

\* A form that is enabled again is still the form, and none is still none.
LEMMA Enabled ==
  ASSUME Typed, NEW c \in Call
  PROVE  /\ Enable(c, auth) \in Auth \cup {NoAuth}
         /\ [Enable(c, auth) EXCEPT !.reset = FALSE] \in Auth \cup {NoAuth}
         /\ auth = NoAuth => /\ Enable(c, auth) = NoAuth
                             /\ [Enable(c, auth) EXCEPT !.reset = FALSE] = NoAuth
  BY Forms DEF Enable, Typed

\* The fields of an App that is rendered with another user, view or profile.
LEMMA AppFields ==
  ASSUME Typed, app.open, NEW u \in User \cup {None}, NEW v \in View, NEW p \in User \cup {None}
  PROVE  /\ [app EXCEPT !.user = u, !.checking = FALSE] \in App
         /\ [app EXCEPT !.user = u, !.checking = FALSE].user = u
         /\ [app EXCEPT !.user = u, !.checking = FALSE].checking = FALSE
         /\ [app EXCEPT !.user = u, !.checking = FALSE].open = TRUE
         /\ [app EXCEPT !.checking = FALSE] \in App
         /\ [app EXCEPT !.checking = FALSE].user = app.user
         /\ [app EXCEPT !.checking = FALSE].checking = FALSE
         /\ [app EXCEPT !.checking = FALSE].open = TRUE
         /\ [app EXCEPT !.user = None, !.view = v] \in App
         /\ [app EXCEPT !.user = None, !.view = v].user = None
         /\ [app EXCEPT !.user = None, !.view = v].checking = app.checking
         /\ [app EXCEPT !.user = None, !.view = v].open = TRUE
         /\ [app EXCEPT !.view = v, !.profile = p] \in App
         /\ [app EXCEPT !.view = v, !.profile = p].user = app.user
         /\ [app EXCEPT !.view = v, !.profile = p].checking = app.checking
         /\ [app EXCEPT !.view = v, !.profile = p].open = TRUE
         /\ [app EXCEPT !.view = v] \in App
         /\ [app EXCEPT !.view = v].user = app.user
         /\ [app EXCEPT !.view = v].checking = app.checking
         /\ [app EXCEPT !.view = v].open = TRUE
         /\ [app EXCEPT !.profile = p] \in App
         /\ [app EXCEPT !.profile = p].user = app.user
         /\ [app EXCEPT !.profile = p].checking = app.checking
         /\ [app EXCEPT !.profile = p].open = TRUE
<1>1. app \in App
  BY AppShape
<1> QED BY <1>1 DEF App

-----------------------------------------------------------------------------
\* The pages and the form: steps that ask nothing of the server.
Turn == \/ SetMode \/ Back
        \/ \E v \in View : Navigate(v)
        \/ \E u \in User : OpenProfile(u)

LEMMA Turns ==
  ASSUME Typed, Turn
  PROVE  /\ app' \in App /\ app.open /\ app'.open = app.open
         /\ app'.checking = app.checking /\ app'.user = app.user
         /\ call' \in Calls /\ \A c \in Call : Same(call'[c], call[c])
         /\ auth' \in Auth \cup {NoAuth} /\ (auth' # NoAuth => auth # NoAuth)
         /\ UNCHANGED <<server, cookie, link, visits, history>>
<1>1. call \in Calls /\ \A c \in Call : Same(call[c], call[c])
  BY DEF Typed, Calls, Same
<1>2. CASE SetMode
  <2>1. auth \in Auth /\ app.open
    BY <1>2 DEF SetMode, SignInForm, AuthShown, AskedToSignIn, Typed
  <2>2. [auth EXCEPT !.mode = IF @ = "login" THEN "forgot" ELSE "login"] \in Auth
    BY <2>1 DEF Auth
  <2> QED BY <1>1, <1>2, <2>1, <2>2, Forms, AppShape DEF SetMode
<1>a. ASSUME SignedIn, NEW a \in App, Render(a, call), a.open = TRUE,
             a.checking = app.checking, a.user = app.user,
             UNCHANGED <<server, cookie, link, auth, visits, history>>
      PROVE  /\ app' \in App /\ app.open /\ app'.open = app.open
             /\ app'.checking = app.checking /\ app'.user = app.user
             /\ call' \in Calls /\ \A c \in Call : Same(call'[c], call[c])
             /\ UNCHANGED <<server, cookie, link, auth, visits, history>>
  <2>1. app.open = TRUE /\ app' = a
    BY <1>a, <1>1, Rendered, AppShape DEF SignedIn
  <2> QED BY <1>a, <1>1, <2>1, Rendered
<1>3. ASSUME NEW v \in View, Navigate(v)
      PROVE  /\ app' \in App /\ app.open /\ app'.open = app.open
             /\ app'.checking = app.checking /\ app'.user = app.user
             /\ call' \in Calls /\ \A c \in Call : Same(call'[c], call[c])
             /\ UNCHANGED <<server, cookie, link, auth, visits, history>>
  <2> DEFINE a == [app EXCEPT !.view = v, !.profile = None]
  <2>1. app.open /\ SignedIn
    BY <1>3 DEF Navigate, SignedIn
  <2>2. a \in App /\ a.open = TRUE /\ a.checking = app.checking /\ a.user = app.user
    BY <2>1, AppShape DEF App
  <2>3. Render(a, call) /\ UNCHANGED <<server, cookie, link, auth, visits, history>>
    BY <1>3 DEF Navigate
  <2> QED BY <1>a, <2>1, <2>2, <2>3
<1>4. ASSUME NEW u \in User, OpenProfile(u)
      PROVE  /\ app' \in App /\ app.open /\ app'.open = app.open
             /\ app'.checking = app.checking /\ app'.user = app.user
             /\ call' \in Calls /\ \A c \in Call : Same(call'[c], call[c])
             /\ UNCHANGED <<server, cookie, link, auth, visits, history>>
  <2> DEFINE a == IF u = app.user THEN [app EXCEPT !.view = "profile"]
                  ELSE [app EXCEPT !.profile = u]
  <2>1. app.open /\ SignedIn /\ "profile" \in View
    BY <1>4 DEF OpenProfile, SignedIn, View
  <2>2. a \in App /\ a.open = TRUE /\ a.checking = app.checking /\ a.user = app.user
    BY <2>1, AppShape DEF App
  <2>3. Render(a, call) /\ UNCHANGED <<server, cookie, link, auth, visits, history>>
    BY <1>4 DEF OpenProfile
  <2> QED BY <1>a, <2>1, <2>2, <2>3
<1>5. ASSUME Back
      PROVE  /\ app' \in App /\ app.open /\ app'.open = app.open
             /\ app'.checking = app.checking /\ app'.user = app.user
             /\ call' \in Calls /\ \A c \in Call : Same(call'[c], call[c])
             /\ UNCHANGED <<server, cookie, link, auth, visits, history>>
  <2> DEFINE a == [app EXCEPT !.profile = None]
  <2>1. app.open /\ SignedIn
    BY <1>5 DEF Back, SignedIn
  <2>2. a \in App /\ a.open = TRUE /\ a.checking = app.checking /\ a.user = app.user
    BY <2>1, AppShape DEF App
  <2>3. Render(a, call) /\ UNCHANGED <<server, cookie, link, auth, visits, history>>
    BY <1>5 DEF Back
  <2> QED BY <1>a, <2>1, <2>2, <2>3
<1> QED BY <1>2, <1>3, <1>4, <1>5 DEF Turn, Typed

\* Whatever begins a call of a document that shows the form or a page.
Sending(c) ==
  \/ \E u \in User : Submit(c, u)
  \/ SubmitReset(c) \/ Logout(c) \/ SaveProfile(c) \/ ChangePassword(c) \/ Use(c)
  \/ Mount(c) /\ link = "verify"

LEMMA Sends ==
  ASSUME Typed, app.open => (app.checking => app.user = None), NEW c \in Call, Sending(c)
  PROVE  /\ app.open /\ ~app.checking
         /\ call[c] = NoCall /\ call' \in Calls
         /\ \A d \in Call \ {c} : call'[d] = call[d]
         /\ call'[c] \in TabCall /\ call'[c].kind # "me"
         /\ call'[c].cookie = cookie /\ call'[c].set = "keep" /\ call'[c].at = "sent"
         /\ auth' \in Auth \cup {NoAuth}
         /\ \/ UNCHANGED <<link, posted>> /\ (auth' # NoAuth => auth # NoAuth)
            \/ /\ link = "verify" /\ link' = "none"
               /\ posted' = IF posted = "due" THEN "posted" ELSE "again"
         /\ UNCHANGED <<server, cookie, app, visits, entered, odd>>
<1>1. ASSUME (\E u \in User : Submit(c, u)) \/ SubmitReset(c)
      PROVE  /\ app.open /\ ~app.checking /\ auth # NoAuth /\ auth' \in Auth
             /\ \E kind \in {"forgot", "login", "reset"}, w \in User \cup {None} : Begin(c, kind, w)
             /\ UNCHANGED <<server, cookie, link, app, visits, history>>
  <2>1. app.open /\ ~app.checking /\ auth # NoAuth /\ auth \in Auth
    BY <1>1 DEF Submit, SubmitReset, SignInForm, ResetForm, AuthShown, AskedToSignIn, Typed
  <2>2. [auth EXCEPT !.busy = TRUE] \in Auth
    BY <2>1 DEF Auth
  <2> QED BY <1>1, <2>1, <2>2 DEF Submit, SubmitReset
<1>3. ASSUME Logout(c) \/ SaveProfile(c) \/ ChangePassword(c) \/ Use(c)
      PROVE  /\ app.open /\ ~app.checking
             /\ \E kind \in {"logout", "save", "password", "page"} : Begin(c, kind, None)
             /\ UNCHANGED <<server, cookie, link, app, auth, visits, history>>
  <2>1. \E kind \in {"logout", "save", "password", "page"} : Ask(c, kind)
    BY <1>3 DEF Logout, SaveProfile, ChangePassword, Use
  <2> QED BY <2>1 DEF Ask, SignedIn
<1>4. ASSUME Mount(c), link = "verify"
      PROVE  /\ app.open /\ ~app.checking /\ auth' \in Auth /\ link' = "none"
             /\ Begin(c, "verify", None)
             /\ posted' = IF posted = "due" THEN "posted" ELSE "again"
             /\ UNCHANGED <<server, cookie, app, visits, entered, odd>>
  BY <1>4, Forms DEF Mount, Post, AskedToSignIn
<1>5. {"forgot", "login", "reset", "logout", "save", "password", "page", "verify"} \subseteq Kind
  BY DEF Kind, AuthKind, Protected
<1>6. ASSUME NEW kind \in Kind \ {"me"}, NEW w \in User \cup {None}, Begin(c, kind, w)
      PROVE  /\ call[c] = NoCall /\ call' \in Calls
             /\ \A d \in Call \ {c} : call'[d] = call[d]
             /\ call'[c] \in TabCall /\ call'[c].kind # "me"
             /\ call'[c].cookie = cookie /\ call'[c].set = "keep" /\ call'[c].at = "sent"
  BY <1>6, Begun
<1>7. CASE \/ \E u \in User : Submit(c, u)
           \/ SubmitReset(c)
  BY <1>1, <1>5, <1>6, <1>7 DEF history
<1>8. CASE Logout(c) \/ SaveProfile(c) \/ ChangePassword(c) \/ Use(c)
  BY <1>3, <1>5, <1>6, <1>8 DEF history, Typed
<1>9. CASE Mount(c) /\ link = "verify"
  BY <1>4, <1>5, <1>6, <1>9
<1> QED BY <1>7, <1>8, <1>9 DEF Sending

-----------------------------------------------------------------------------
\* What a step may do to the sessions: new ones are handed out, old ones end.
Advance ==
  /\ owner' \in [Session -> User \cup {None}]
  /\ issued \subseteq issued' /\ issued' \subseteq Session
  /\ \A s \in issued : owner'[s] \in {owner[s], None}
  /\ \A s \in Session : owner'[s] # None => owner[s] # None \/ s \in issued'

LEMMA Issues ==
  ASSUME Typed, NEW s \in Session, NEW u \in User \cup {None}, Issue(s, u)
  PROVE  Advance /\ owner'[s] = u /\ s \in issued'
  BY DEF Typed, Issue, Advance

LEMMA Revokes ==
  ASSUME Typed, NEW S \in SUBSET Session, Revoke(S)
  PROVE  Advance /\ \A s \in S : owner'[s] = None
  BY DEF Typed, Revoke, Advance

\* The server works on a call, or gives up on it.
Serving(c) ==
  \/ \E s \in Session : HandleLogin(c, s)
  \/ HandleOpen(c) \/ Unauthorized(c) \/ Handle(c) \/ Fail(c) \/ CutBody(c)

LEMMA Serves ==
  ASSUME Typed, NEW c \in Call, Serving(c)
  PROVE  /\ Advance
         /\ call[c] \in TabCall /\ call' \in Calls
         /\ \A d \in Call \ {c} : call'[d] = call[d]
         /\ call'[c] \in TabCall
         /\ call'[c].kind = call[c].kind /\ call'[c].cookie = call[c].cookie
         /\ call'[c].from = call[c].from
         /\ UNCHANGED Local
<1>0. /\ call[c].kind # "none" => call[c] \in TabCall
      /\ call[c] # NoCall => call[c] \in TabCall
  BY KindCall DEF Typed
<1>1. call[c] \in TabCall /\ UNCHANGED Local
  BY <1>0
  DEF Serving, HandleLogin, HandleOpen, Unauthorized, Handle, Fail, CutBody, AuthKind, Protected
<1>2. call[c].user \in User \cup {None} /\ call[c].set \in Session \cup {"keep", "clear"}
  BY <1>1, CallShape
<1>3. Who(call[c].cookie) \in User \cup {None}
  BY <1>1, CallShape DEF Typed, Who
<1>4. \E at \in {"sent", "done", "failed"}, u \in User \cup {None},
         set \in Session \cup {"keep", "clear"} : Answered(c, at, u, set)
  <2>1. ASSUME NEW s \in Session, HandleLogin(c, s)
        PROVE  Answered(c, "done", call[c].user, s)
    BY <2>1 DEF HandleLogin
  <2>2. ASSUME HandleOpen(c) PROVE Answered(c, "done", None, "keep")
    BY <2>2 DEF HandleOpen
  <2>3. ASSUME Unauthorized(c)
        PROVE  \E set \in {"keep", "clear"} : Answered(c, "failed", call[c].user, set)
    BY <2>3 DEF Unauthorized
  <2>4. ASSUME Handle(c)
        PROVE  \E u \in User \cup {None}, set \in {"keep", "clear"} : Answered(c, "done", u, set)
    BY <1>3, <2>4 DEF Handle
  <2>5. ASSUME Fail(c) PROVE Answered(c, "failed", call[c].user, "keep")
    BY <2>5 DEF Fail
  <2>6. ASSUME CutBody(c) PROVE Answered(c, "done", None, call[c].set)
    BY <2>6 DEF CutBody
  <2> QED BY <1>2, <2>1, <2>2, <2>3, <2>4, <2>5, <2>6 DEF Serving
<1>5. Advance
  <2>1. CASE UNCHANGED server
    BY <2>1 DEF server, Advance, Typed
  <2>2. ASSUME NEW s \in Session, HandleLogin(c, s) PROVE Advance
    BY <1>2, <2>2, Issues DEF HandleLogin
  <2>3. ASSUME NEW S \in SUBSET Session, Revoke(S) PROVE Advance
    BY <2>3, Revokes
  <2>4. CASE HandleOpen(c)
    <3>1. UNCHANGED server \/ \E u \in User : Revoke({s \in Session : owner[s] = u})
      BY <2>4 DEF HandleOpen
    <3> QED BY <2>1, <2>3, <3>1
  <2>5. CASE Handle(c)
    <3>1. call[c].cookie \in Session
      BY <1>1, <2>5, CallShape DEF Handle, Who
    <3>2. \/ UNCHANGED server \/ Revoke({call[c].cookie})
          \/ Revoke({r \in Session \ {call[c].cookie} : owner[r] = Who(call[c].cookie)})
      BY <2>5 DEF Handle
    <3> QED BY <2>1, <2>3, <3>1, <3>2
  <2> QED BY <2>1, <2>2, <2>4, <2>5 DEF Serving, Unauthorized, Fail, CutBody
<1> QED BY <1>1, <1>4, <1>5, Served

\* Every step advances the sessions, so that what was handed out stays so and
\* whoever is behind a session is so until it ends.
LEMMA Advances == ASSUME Typed, [Next]_vars PROVE Advance
<1>1. CASE UNCHANGED server
  BY <1>1 DEF server, Advance, Typed
<1>2. ASSUME NEW c \in Call, Serving(c) PROVE Advance
  BY <1>2, Serves
<1>3. ASSUME NEW s \in Session, SessionEnds(s) PROVE Advance
  BY <1>3, Revokes DEF SessionEnds
<1>4. ASSUME NEW s \in Session, NEW u \in User \cup {None}, OtherTab(s, u) PROVE Advance
  BY <1>4, Issues, Revokes DEF OtherTab
<1> QED
  BY <1>1, <1>2, <1>3, <1>4
  DEF Next, Click, Deliver, Serving, vars, server, Local, Visit, Submit, SubmitReset, Logout,
      SaveProfile, ChangePassword, Use, Ask, Mount, Drop, MeArrives, SubmitArrives, ResetArrives,
      LogoutArrives, SaveArrives, PageArrives, SetMode, Navigate, OpenProfile, Back

LEMMA Dying ==
  ASSUME Typed, Advance
  PROVE  \A s \in Session \cup {None} :
           Given(s) => s \in issued' \cup {None} /\ Who(s)' \in {Who(s), None}
  BY DEF Advance, Given, Who, Typed

-----------------------------------------------------------------------------
\* The answer of a call reaches its continuation.
Arriving(c) == MeArrives(c) \/ SubmitArrives(c) \/ ResetArrives(c) \/ LogoutArrives(c)
                 \/ SaveArrives(c) \/ PageArrives(c)

\* The calls after an answer has arrived.
Arrived(c) == /\ call' \in Calls /\ call'[c] = NoCall
              /\ \A d \in Call \ {c} : Same(call'[d], call[d])

LEMMA Enters ==
  ASSUME Typed, app.open, NEW c \in Call, call[c] \in TabCall, NEW s, NEW why, Enter(c, s, why)
  PROVE  /\ Arrived(c) /\ app' \in App /\ app'.open = TRUE
         /\ app'.user = call[c].user /\ app'.checking = FALSE
         /\ auth' \in Auth \cup {NoAuth} /\ (auth' # NoAuth => auth # NoAuth)
         /\ IF call[c].user # None THEN entered' = s /\ odd' = why
            ELSE entered' = None /\ odd' = Also(why, {"cut"})
         /\ Cookie(c)
<1> DEFINE a == [app EXCEPT !.user = call[c].user, !.checking = FALSE]
<1>1. a \in App /\ a.open = TRUE /\ a.user = call[c].user /\ a.checking = FALSE
  BY CallShape, AppShape DEF App
<1>2. Render(a, Over(c))
  BY DEF Enter
<1>3. Over(c) \in Calls
  BY Ended
<1> HIDE DEF a
<1>4. app' = a /\ Arrived(c)
  BY <1>2, <1>3, Rendered, Ended DEF Arrived, Same
<1> QED BY <1>1, <1>4, Enabled DEF Enter

\* The cookie after an answer.
LEMMA CookieSet ==
  ASSUME Typed, NEW c \in Call, call[c] \in TabCall, Cookie(c)
  PROVE  \/ call[c].set = "keep" /\ cookie' = cookie
         \/ call[c].set = "clear" /\ cookie' = None
         \/ call[c].set \in Session /\ cookie' = call[c].set
<1>1. call[c].set \in Session \cup {"keep", "clear"}
  BY CallShape
<1> QED BY <1>1, SessionAssumption DEF Cookie

\* What every answer that arrives has in common.
LEMMA Arrives ==
  ASSUME Typed, Loaded, NEW c \in Call, Arriving(c)
  PROVE  /\ call[c] \in TabCall /\ Pending(c) /\ app.open /\ app.checking \in BOOLEAN
         /\ call[c].at \in {"done", "failed"}
         /\ Arrived(c) /\ app' \in App /\ app'.open = TRUE
         /\ auth' \in Auth \cup {NoAuth} /\ (auth' # NoAuth => auth # NoAuth)
         /\ UNCHANGED <<owner, issued, link, visits, posted>>
         /\ \/ cookie' = cookie
            \/ call[c].set = "clear" /\ cookie' = None
            \/ call[c].set \in Session /\ cookie' = call[c].set
         /\ \/ app'.checking = FALSE
            \/ call[c].kind # "me" /\ app'.checking = app.checking
         /\ app'.user \in {app.user, call[c].user, None}
<1>0. /\ call[c] \in TabCall /\ Pending(c) /\ call[c].at \in {"done", "failed"}
      /\ UNCHANGED <<owner, issued, link, visits, posted>>
  <2>1. /\ call[c].kind # "none" /\ call[c].from # "closed" /\ call[c].at \in {"done", "failed"}
        /\ UNCHANGED <<owner, issued, link, visits, posted>>
    BY DEF Arriving, MeArrives, SubmitArrives, ResetArrives, LogoutArrives, SaveArrives,
           PageArrives, Ready, server, history
  <2> QED BY <2>1, KindCall, CallShape DEF Pending
<1>1. app.open /\ app \in App /\ app.open = TRUE /\ app.checking \in BOOLEAN
  BY <1>0, AppShape DEF Loaded, Pending
<1>2. auth \in Auth \cup {NoAuth} /\ call \in Calls /\ Over(c) \in Calls
  BY Ended DEF Typed, Calls
<1>3. call' = Over(c) => Arrived(c)
  BY Ended DEF Arrived, Same
\* The answer enters a user, or leaves App to the rest.
<1>a. ASSUME NEW s, NEW why, Enter(c, s, why)
      PROVE  /\ Arrived(c) /\ app' \in App /\ app'.open = TRUE /\ app'.checking = FALSE
             /\ app'.user = call[c].user
             /\ auth' \in Auth \cup {NoAuth} /\ (auth' # NoAuth => auth # NoAuth)
             /\ Cookie(c)
  BY <1>0, <1>1, <1>a, Enters
<1>4. CASE MeArrives(c)
  <2>1. CASE Done(c)
    <3>1. Enter(c, call[c].cookie, odd)
      BY <1>4, <2>1 DEF MeArrives
    <3> QED BY <1>0, <1>1, <1>a, <3>1, CookieSet
  <2>2. CASE ~Done(c)
    <3> DEFINE a == [app EXCEPT !.checking = FALSE]
    <3>1. Render(a, Over(c)) /\ Cookie(c) /\ UNCHANGED auth
      BY <1>4, <2>2 DEF MeArrives
    <3>2. a \in App /\ a.open = TRUE /\ a.checking = FALSE /\ a.user = app.user
      BY <1>1 DEF App
    <3> HIDE DEF a
    <3>3. app' = a /\ Arrived(c)
      BY <1>2, <3>1, Rendered, Ended DEF Arrived, Same
    <3> QED BY <1>0, <1>1, <1>2, <3>1, <3>2, <3>3, CookieSet
  <2> QED BY <2>1, <2>2
<1>5. CASE SubmitArrives(c)
  <2>1. CASE call[c].kind = "login" /\ Done(c)
    <3>1. Enter(c, call[c].set, {})
      BY <1>5, <2>1 DEF SubmitArrives
    <3> QED BY <1>0, <1>1, <1>a, <3>1, CookieSet
  <2>2. CASE ~(call[c].kind = "login" /\ Done(c))
    <3>1. /\ call' = Over(c) /\ UNCHANGED <<cookie, app>> /\ auth' = Enable(c, auth)
          /\ call[c].kind # "me"
      BY <1>5, <2>2 DEF SubmitArrives, Ready
    <3> QED BY <1>0, <1>1, <1>3, <3>1, Enabled
  <2> QED BY <2>1, <2>2
<1>6. CASE ResetArrives(c)
  <2>1. /\ call' = Over(c) /\ UNCHANGED <<cookie, app>> /\ call[c].kind # "me"
        /\ auth' \in {Enable(c, auth), [Enable(c, auth) EXCEPT !.reset = FALSE]}
    BY <1>6 DEF ResetArrives, Ready
  <2> QED BY <1>0, <1>1, <1>3, <2>1, Enabled
<1>7. CASE LogoutArrives(c)
  <2> DEFINE a == [app EXCEPT !.user = None, !.view = "memos"]
  <2>1. Render(a, Over(c)) /\ Cookie(c) /\ UNCHANGED auth /\ call[c].kind # "me"
    BY <1>7 DEF LogoutArrives, Ready
  <2>2. a \in App /\ a.open = TRUE /\ a.checking = app.checking /\ a.user = None
    BY <1>1 DEF App, View
  <2> HIDE DEF a
  <2>3. app' = a /\ Arrived(c)
    BY <1>2, <2>1, Rendered, Ended DEF Arrived, Same
  <2> QED BY <1>0, <1>1, <1>2, <2>1, <2>2, <2>3, CookieSet
<1>8. CASE SaveArrives(c)
  <2>1. CASE Done(c)
    <3>1. \E s, why : Enter(c, s, why)
      BY <1>8, <2>1 DEF SaveArrives
    <3> QED BY <1>0, <1>1, <1>a, <3>1, CookieSet
  <2>2. CASE ~Done(c)
    <3>1. call' = Over(c) /\ UNCHANGED <<app, auth>> /\ Cookie(c) /\ call[c].kind # "me"
      BY <1>8, <2>2 DEF SaveArrives, Ready
    <3> QED BY <1>0, <1>1, <1>2, <1>3, <3>1, CookieSet
  <2> QED BY <2>1, <2>2
<1>9. CASE PageArrives(c)
  <2>1. call' = Over(c) /\ UNCHANGED <<app, auth>> /\ Cookie(c) /\ call[c].kind # "me"
    BY <1>9 DEF PageArrives, Ready
  <2> QED BY <1>0, <1>1, <1>2, <1>3, <2>1, CookieSet
<1> QED BY <1>4, <1>5, <1>6, <1>7, <1>8, <1>9 DEF Arriving

\* The history after an answer.
LEMMA ArrivesHistory ==
  ASSUME Typed, NEW c \in Call, call[c] \in TabCall, Arriving(c)
  PROVE  /\ odd' \subseteq Oddity
         /\ entered' \in {entered, None, call[c].cookie}
              \/ (call[c].kind = "login" /\ Done(c) /\ entered' = call[c].set)
  BY DEF Arriving, MeArrives, SubmitArrives, ResetArrives, LogoutArrives, SaveArrives, PageArrives,
         Ready, Enter, Also, Kept, Swept, history, Typed, Oddity

-----------------------------------------------------------------------------
\* A document is loaded: its check is the only call that it waits for.
LEMMA Visits ==
  ASSUME Typed, NEW c \in Call, NEW l \in Link, Visit(c, l)
  PROVE  /\ app' \in App /\ app'.open = TRUE /\ app'.checking = TRUE /\ app'.user = None
         /\ call[c] = NoCall /\ call' \in Calls
         /\ call'[c] \in TabCall /\ call'[c].kind = "me" /\ call'[c].cookie = cookie
         /\ call'[c].from = "mounted" /\ call'[c].at = "sent" /\ call'[c].set = "keep"
         /\ \A d \in Call \ {c} : call'[d] # NoCall =>
              /\ call[d] # NoCall /\ call'[d].from = "closed"
              /\ call'[d].kind = call[d].kind /\ call'[d].cookie = call[d].cookie
              /\ call'[d].at = call[d].at /\ call'[d].set = call[d].set
              /\ call'[d].user = call[d].user
         /\ visits' \in 0..MaxVisits
         /\ auth' = NoAuth /\ link' = l /\ entered' = None /\ odd' = {} 
         /\ posted' = (IF l = "verify" THEN "due" ELSE "none")
         /\ UNCHANGED <<owner, issued, cookie>>
<1>1. NewCall("me", None) \in TabCall
  BY DEF NewCall, TabCall, Kind, Protected, Typed
<1>2. \A r \in TabCall :
        /\ [r EXCEPT !.from = "closed"] \in TabCall
        /\ [r EXCEPT !.from = "closed"].from = "closed"
        /\ [r EXCEPT !.from = "closed"].kind = r.kind
        /\ [r EXCEPT !.from = "closed"].cookie = r.cookie
        /\ [r EXCEPT !.from = "closed"].at = r.at /\ [r EXCEPT !.from = "closed"].set = r.set
        /\ [r EXCEPT !.from = "closed"].user = r.user
  BY DEF TabCall
<1>3. call[c] = NoCall /\ call' = [d \in Call |->
        IF d = c THEN NewCall("me", None)
        ELSE IF call[d] = NoCall \/ call[d].at # "sent" THEN NoCall
        ELSE [call[d] EXCEPT !.from = "closed"]]
  BY DEF Visit
<1>4. call'[c] = NewCall("me", None)
  BY <1>3
<1>5. ASSUME NEW d \in Call \ {c}
      PROVE  call'[d] = NoCall \/ (call[d] \in TabCall /\ call'[d] = [call[d] EXCEPT !.from = "closed"])
  BY <1>3 DEF Typed
<1>6. call' \in Calls
  BY <1>1, <1>2, <1>3, <1>4, <1>5 DEF Calls
<1>7. visits' \in 0..MaxVisits
  BY MaxVisitsAssumption DEF Visit, Typed
<1>8. /\ app' \in App /\ app'.open = TRUE /\ app'.checking = TRUE /\ app'.user = None
  BY DEF Visit, App, View
<1> QED BY <1>1, <1>2, <1>3, <1>4, <1>5, <1>6, <1>7, <1>8, CallShape DEF Visit, NewCall, server

\* The form is mounted with nothing to confirm.
MountQuiet(c) == Mount(c) /\ link # "verify"

\* The form is mounted only once the check is over.
LEMMA Mounts ==
  ASSUME Typed, NEW c \in Call, MountQuiet(c)
  PROVE  /\ auth' \in Auth /\ link' = "none"
         /\ UNCHANGED <<owner, issued, cookie, app, call, visits, entered, odd, posted>>
  BY Forms DEF MountQuiet, Mount, server

\* Nobody waits for a call any more.
LEMMA Drops ==
  ASSUME Typed, NEW c \in Call, Drop(c)
  PROVE  /\ call' \in Calls /\ call'[c] = NoCall
         /\ \A d \in Call \ {c} : call'[d] = call[d]
         /\ UNCHANGED <<server, cookie, link, app, auth, visits, history>>
  BY DEF Drop, Typed, Calls, Local

\* The steps, in groups.
LEMMA Steps ==
  Next =>
    \/ Turn
    \/ \E c \in Call : Sending(c) \/ MountQuiet(c) \/ Serving(c) \/ Drop(c) \/ Arriving(c)
    \/ \E c \in Call, l \in Link : Visit(c, l)
    \/ \E s \in Session : SessionEnds(s)
    \/ \E s \in Session, u \in User \cup {None} : OtherTab(s, u)
  BY DEF Next, Click, Deliver, Turn, Sending, MountQuiet, Serving, Arriving

-----------------------------------------------------------------------------
\* Every step keeps the types, and no call is made before a document is loaded.
LEMMA TypeStep ==
  ASSUME Typed, Loaded, Checking, Answers, [Next]_vars
  PROVE  Typed' /\ Loaded'
<1> USE DEF server, history
<1>0. owner' \in [Session -> User \cup {None}] /\ issued' \subseteq Session
  BY Advances DEF Advance
<1>b. ASSUME app' \in App PROVE Loaded'
  <2>1. app' # Closed
    BY <1>b DEF App, Closed
  <2> QED BY <2>1 DEF Loaded
<1>1. CASE Turn
  BY <1>0, <1>b, <1>1, Turns DEF Typed, Calls
<1>2. ASSUME NEW c \in Call, Sending(c) PROVE Typed' /\ Loaded'
  <2>1. /\ app.open /\ call' \in Calls /\ auth' \in Auth \cup {NoAuth}
        /\ \/ UNCHANGED <<link, posted>>
           \/ /\ link = "verify" /\ link' = "none"
              /\ posted' = IF posted = "due" THEN "posted" ELSE "again"
        /\ UNCHANGED <<server, cookie, app, visits, entered, odd>>
    BY <1>2, Sends DEF Checking
  <2>2. posted' \in {"none", "due", "posted", "again"} /\ link' \in Link
    BY <2>1 DEF Typed, Link
  <2>3. app' \in App
    BY <2>1, AppShape
  <2> QED BY <1>0, <1>b, <2>1, <2>2, <2>3 DEF Typed, Calls
<1>3. ASSUME NEW c \in Call, MountQuiet(c) PROVE Typed' /\ Loaded'
  <2>1. "none" \in Link
    BY DEF Link
  <2> QED BY <1>3, <2>1, Mounts DEF Typed, Loaded
<1>4. ASSUME NEW c \in Call, Serving(c) PROVE Typed' /\ Loaded'
  <2>1. call[c] \in TabCall /\ call' \in Calls /\ UNCHANGED Local
    BY <1>4, Serves
  <2>2. app \in App
    BY <2>1, AppShape, CallShape DEF Loaded
  <2> QED BY <1>0, <1>b, <2>1, <2>2 DEF Typed, Calls, Local
<1>5. ASSUME NEW c \in Call, Drop(c) PROVE Typed' /\ Loaded'
  BY <1>5, Drops DEF Typed, Loaded, Calls
<1>6. ASSUME NEW c \in Call, Arriving(c) PROVE Typed' /\ Loaded'
  <2>1. /\ call[c] \in TabCall /\ Arrived(c) /\ app' \in App /\ auth' \in Auth \cup {NoAuth}
        /\ UNCHANGED <<link, visits, posted>>
        /\ cookie' \in Session \cup {None}
    BY <1>6, Arrives DEF Typed
  <2>2. call[c].cookie \in Session \cup {None} /\ (Done(c) => call[c].at = "done")
    BY <2>1, CallShape DEF Done
  <2>3. odd' \subseteq Oddity
    BY <1>6, <2>1, ArrivesHistory
  <2>4. entered' \in Session \cup {None}
    <3>1. entered' \in {entered, None, call[c].cookie}
            \/ (call[c].kind = "login" /\ Done(c) /\ entered' = call[c].set)
      BY <1>6, <2>1, ArrivesHistory
    <3>2. call[c].kind = "login" /\ Done(c) => call[c].set \in Session
      BY <2>1, <2>2, CallShape DEF Answers, Answer
    <3> QED BY <2>2, <3>1, <3>2 DEF Typed
  <2> QED BY <1>0, <1>b, <2>1, <2>2, <2>3, <2>4 DEF Typed, Calls, Arrived
<1>7. ASSUME NEW c \in Call, NEW l \in Link, Visit(c, l) PROVE Typed' /\ Loaded'
  <2>1. /\ app' \in App /\ call' \in Calls /\ visits' \in 0..MaxVisits
        /\ auth' = NoAuth /\ link' = l /\ entered' = None /\ odd' = {} 
         /\ posted' = (IF l = "verify" THEN "due" ELSE "none")
        /\ UNCHANGED cookie
    BY <1>7, Visits
  <2>2. posted' \in {"none", "due", "posted", "again"}
    BY <2>1
  <2> QED BY <1>0, <1>b, <2>1, <2>2 DEF Typed, Calls
<1>8. ASSUME NEW s \in Session, SessionEnds(s) PROVE Typed' /\ Loaded'
  BY <1>0, <1>8 DEF SessionEnds, Local, Typed, Loaded
<1>9. ASSUME NEW s \in Session, NEW u \in User \cup {None}, OtherTab(s, u)
      PROVE  Typed' /\ Loaded'
  BY <1>0, <1>9 DEF OtherTab, Typed, Loaded, Oddity
<1>10. CASE UNCHANGED vars
  BY <1>10 DEF vars, Typed, Loaded
<1> QED BY <1>1, <1>2, <1>3, <1>4, <1>5, <1>6, <1>7, <1>8, <1>9, <1>10, Steps

-----------------------------------------------------------------------------
\* A cookie is set to a session that was handed out, and stays handed out.
LEMMA HandedStep ==
  ASSUME Typed, Handed, Loaded, Checking, Answers, [Next]_vars
  PROVE  Handed'
<1> USE DEF server, history
<1>0. Advance
  BY Advances
<1>1. /\ issued \subseteq issued'
      /\ \A s \in Session : owner'[s] # None => s \in issued'
  BY <1>0 DEF Advance, Handed
<1>a. ASSUME cookie' \in {cookie, None} \/ cookie' \in issued',
             entered' \in {entered, None} \/ entered' \in issued'
      PROVE  Handed'
  BY <1>1, <1>a DEF Handed, Given
<1>2. CASE UNCHANGED <<cookie, entered>>
  BY <1>2, <1>a
<1>3. ASSUME NEW c \in Call, Arriving(c) PROVE Handed'
  <2>1. /\ call[c] \in TabCall /\ cookie' \in {cookie, None, call[c].set}
        /\ cookie' \notin {cookie, None} => call[c].set \in Session
    BY <1>3, Arrives
  <2>2. call[c] # NoCall
    BY <2>1, CallShape
  <2>3. Answer(c) /\ (Done(c) => call[c].at = "done")
    BY <2>2 DEF Answers, Done
  <2>4. /\ Given(call[c].cookie)
        /\ call[c].set \in Session => Given(call[c].set)
        /\ call[c].kind = "login" /\ Done(c) => call[c].set \in Session
    BY <2>3 DEF Answer
  <2>5. entered' \in {entered, None, call[c].cookie}
          \/ (call[c].kind = "login" /\ Done(c) /\ entered' = call[c].set)
    BY <1>3, <2>1, ArrivesHistory
  <2> QED BY <1>1, <1>a, <2>1, <2>4, <2>5 DEF Given
<1>4. ASSUME NEW c \in Call, NEW l \in Link, Visit(c, l) PROVE Handed'
  BY <1>4, <1>a, Visits
<1>5. ASSUME NEW s \in Session, NEW u \in User \cup {None}, OtherTab(s, u) PROVE Handed'
  BY <1>5, <1>a DEF OtherTab, Issue
<1>6. CASE Turn
  BY <1>2, <1>6, Turns
<1>7. ASSUME NEW c \in Call, Sending(c) \/ MountQuiet(c) \/ Serving(c) \/ Drop(c) PROVE Handed'
  BY <1>2, <1>7, Sends, Mounts, Serves, Drops DEF Local, Checking
<1>8. CASE UNCHANGED vars
  BY <1>2, <1>8 DEF vars
<1>9. ASSUME NEW s \in Session, SessionEnds(s) PROVE Handed'
  BY <1>2, <1>9 DEF SessionEnds, Local
<1> QED BY <1>3, <1>4, <1>5, <1>6, <1>7, <1>8, <1>9, Steps

\* While the session is checked the document makes no other call, so that the
\* cookie is the one the check took along.
LEMMA CheckingStep ==
  ASSUME Typed, Loaded, Checking, [Next]_vars
  PROVE  Checking'
<1> USE DEF server, history
<1>a. ASSUME UNCHANGED <<cookie, odd>>, app'.open = app.open, app'.checking = app.checking,
             app'.user = app.user,
             \A c \in Call : Pending(c)' =>
               Pending(c) /\ call'[c].kind = call[c].kind /\ call'[c].cookie = call[c].cookie
      PROVE  Checking'
  BY <1>a DEF Checking
<1>1. CASE Turn
  BY <1>1, <1>a, Turns DEF Same, Pending
<1>2. ASSUME NEW c \in Call, Sending(c) PROVE Checking'
  <2>1. /\ app.open /\ ~app.checking /\ call'[c].kind # "me"
        /\ \A d \in Call \ {c} : call'[d] = call[d]
        /\ UNCHANGED <<cookie, app, odd>>
    BY <1>2, Sends DEF Checking
  <2> QED BY <2>1 DEF Checking, Pending
<1>3. ASSUME NEW c \in Call, MountQuiet(c) PROVE Checking'
  BY <1>3, <1>a, Mounts DEF Pending
<1>4. ASSUME NEW c \in Call, Serving(c) PROVE Checking'
  BY <1>4, <1>a, Serves, CallShape DEF Pending, Local
<1>5. ASSUME NEW c \in Call, Drop(c) PROVE Checking'
  BY <1>5, <1>a, Drops DEF Pending
<1>6. ASSUME NEW c \in Call, Arriving(c) PROVE Checking'
  <2>1. /\ Pending(c) /\ Arrived(c)
        /\ app'.checking = FALSE \/ (call[c].kind # "me" /\ app'.checking = app.checking)
    BY <1>6, Arrives
  <2>2. app'.checking = FALSE \/ ~app'.checking
    BY <2>1 DEF Checking
  <2>3. \A d \in Call : Pending(d)' => d # c /\ Pending(d) /\ call'[d].kind = call[d].kind
    BY <2>1 DEF Arrived, Same, Pending
  <2>4. \A d \in Call : Pending(d)' => call'[d].kind # "me"
    BY <2>1, <2>3 DEF Checking
  <2> QED BY <2>2, <2>4 DEF Checking
<1>7. ASSUME NEW c \in Call, NEW l \in Link, Visit(c, l) PROVE Checking'
  <2>1. /\ app'.checking = TRUE /\ app'.user = None
        /\ call'[c].kind = "me" /\ call'[c].cookie = cookie /\ UNCHANGED cookie
        /\ \A d \in Call \ {c} : call'[d] # NoCall => call'[d].from = "closed"
    BY <1>7, Visits
  <2>2. \A d \in Call : Pending(d)' => d = c
    BY <2>1 DEF Pending
  <2> QED BY <2>1, <2>2 DEF Checking
<1>8. ASSUME NEW s \in Session, SessionEnds(s) PROVE Checking'
  BY <1>8, <1>a DEF SessionEnds, Local, Pending
<1>9. ASSUME NEW s \in Session, NEW u \in User \cup {None}, OtherTab(s, u) PROVE Checking'
  BY <1>9 DEF OtherTab, Checking, Pending
<1>10. CASE UNCHANGED vars
  BY <1>10, <1>a DEF vars, Pending
<1> QED BY <1>1, <1>2, <1>3, <1>4, <1>5, <1>6, <1>7, <1>8, <1>9, <1>10, Steps

\* What an answer says stays true.
LEMMA AnswerStays ==
  ASSUME Typed, Advance, NEW c \in Call, call[c] # NoCall, Answer(c),
         call'[c].kind = call[c].kind, call'[c].user = call[c].user,
         call'[c].cookie = call[c].cookie, call'[c].at = call[c].at, call'[c].set = call[c].set
  PROVE  Answer(c)'
<1>1. call[c].cookie \in Session \cup {None}
  BY CallShape DEF Typed
<1>2. \A s \in Session \cup {None} :
           Given(s) => s \in issued' \cup {None} /\ Who(s)' \in {Who(s), None}
  BY Dying
<1> QED BY <1>1, <1>2 DEF Answer, Given

\* The server names whom it found behind the cookie and clears a cookie only
\* when it has found, or made, it dead.
LEMMA AnswersStep ==
  ASSUME Typed, Handed, Loaded, Checking, Answers, [Next]_vars
  PROVE  Answers'
<1> USE DEF server, history
<1>0. Advance /\ \A s \in Session \cup {None} :
                   Given(s) => s \in issued' \cup {None} /\ Who(s)' \in {Who(s), None}
  BY Advances, Dying
<1>a. ASSUME \A c \in Call : call'[c] # NoCall =>
               \/ /\ call[c] # NoCall
                  /\ call'[c].kind = call[c].kind /\ call'[c].user = call[c].user
                  /\ call'[c].cookie = call[c].cookie /\ call'[c].at = call[c].at
                  /\ call'[c].set = call[c].set
               \/ Answer(c)'
      PROVE  Answers'
  BY <1>0, <1>a, AnswerStays DEF Answers
\* A call that was just made was not answered.
<1>b. ASSUME NEW c \in Call, call'[c].cookie = cookie, call'[c].set = "keep", call'[c].at = "sent"
      PROVE  Answer(c)'
  BY <1>0, <1>b, SessionAssumption DEF Handed, Answer, Given, Typed
<1>1. CASE Turn
  BY <1>1, <1>a, Turns DEF Same
<1>2. ASSUME NEW c \in Call, Sending(c) PROVE Answers'
  BY <1>2, <1>a, <1>b, Sends DEF Checking
<1>3. ASSUME NEW c \in Call, MountQuiet(c) PROVE Answers'
  BY <1>3, <1>a, Mounts
<1>4. ASSUME NEW c \in Call, Serving(c) PROVE Answers'
  <2>0. /\ call[c] \in TabCall /\ \A d \in Call \ {c} : call'[d] = call[d]
        /\ call'[c].kind = call[c].kind /\ call'[c].cookie = call[c].cookie
    BY <1>4, Serves
  <2>1. /\ Answer(c) /\ call[c].cookie \in Session \cup {None}
        /\ Given(call[c].cookie) /\ call[c].cookie \in issued' \cup {None}
    BY <1>0, <2>0, CallShape DEF Answers, Answer
  <2>2. PICK k \in Session \cup {None} :
          k = call[c].cookie /\ Who(k)' \in {Who(k), None}
    BY <1>0, <2>1
  <2>3. call[c].user \in User \cup {None} /\ call[c].set \in Session \cup {"keep", "clear"}
    BY <2>0, CallShape
  <2>a. ASSUME Answer(c)' PROVE Answers'
    BY <1>a, <2>0, <2>a
  \* The answer takes a set of its own, which is no session.
  <2>4. ASSUME NEW s \in Session, HandleLogin(c, s) PROVE Answers'
    <3>1. /\ call[c].kind = "login" /\ Issue(s, call[c].user)
          /\ Answered(c, "done", call[c].user, s)
      BY <2>4 DEF HandleLogin
    <3>2. /\ call'[c].at = "done" /\ call'[c].user = call[c].user /\ call'[c].set = s
      BY <2>0, <2>3, <3>1, Served
    <3>3. owner'[s] = call[c].user /\ s \in issued' /\ s # None
      BY <2>3, <3>1, Issues, NoneAssumption
    <3>4. Answer(c)'
      BY <2>0, <2>1, <3>1, <3>2, <3>3, SessionAssumption DEF Answer, Given, Who
    <3> QED BY <2>a, <3>4
  <2>5. CASE HandleOpen(c)
    <3>1. call'[c].at = "done" /\ call'[c].set = "keep" /\ call[c].kind \in {"forgot", "reset", "verify"}
      BY <2>0, <2>5, Served DEF HandleOpen
    <3>2. Answer(c)'
      BY <2>0, <2>1, <3>1, SessionAssumption DEF Answer, Given
    <3> QED BY <2>a, <3>2
  <2>6. CASE Unauthorized(c)
    <3>1. /\ Who(call[c].cookie) = None /\ call'[c].at = "failed"
          /\ call'[c].set \in {"keep", "clear"}
      BY <2>0, <2>3, <2>6, Served DEF Unauthorized
    <3>2. Who(call[c].cookie)' = None
      BY <2>0, <2>2, <3>1 DEF Who
    <3>3. Answer(c)'
      BY <2>0, <2>1, <3>1, <3>2, SessionAssumption DEF Answer, Given
    <3> QED BY <2>a, <3>3
  <2>7. CASE Handle(c)
    <3> DEFINE u == IF call[c].kind \in {"me", "save"} THEN Who(call[c].cookie) ELSE None
    <3>1. /\ Who(call[c].cookie) # None /\ u \in User \cup {None} /\ call[c].cookie \in Session
      BY <2>1, <2>7 DEF Handle, Who, Typed
    <3>2. /\ Answered(c, "done", u, IF call[c].kind = "logout" THEN "clear" ELSE "keep")
          /\ call[c].kind \in Protected
      BY <2>7 DEF Handle
    <3>3. /\ call'[c].at = "done" /\ call'[c].user = u
          /\ call'[c].set = IF call[c].kind = "logout" THEN "clear" ELSE "keep"
      BY <2>0, <3>1, <3>2, Served
    <3>4. call[c].kind = "logout" => owner'[call[c].cookie] = None
      <4>1. call[c].kind = "logout" => Revoke({call[c].cookie})
        BY <2>7 DEF Handle
      <4> QED BY <3>1, <4>1, Revokes
    <3>5. call[c].kind = "logout" => Who(call[c].cookie)' = None
      BY <2>0, <3>4 DEF Who
    <3>6. call[c].kind \in {"me", "save"} => Who(call[c].cookie)' \in {call'[c].user, None}
      BY <2>0, <2>2, <3>1, <3>3 DEF Who
    <3>7. call[c].kind # "login"
      BY <3>2 DEF Protected
    <3>8. Answer(c)'
      BY <2>0, <2>1, <3>3, <3>5, <3>6, <3>7, SessionAssumption DEF Answer, Given
    <3> QED BY <2>a, <3>8
  <2>8. CASE Fail(c)
    <3>1. call'[c].at = "failed" /\ call'[c].set = "keep"
      BY <2>0, <2>3, <2>8, Served DEF Fail
    <3>2. Answer(c)'
      BY <2>0, <2>1, <3>1, SessionAssumption DEF Answer, Given
    <3> QED BY <2>a, <3>2
  <2>9. CASE CutBody(c)
    <3>1. /\ call[c].at = "done" /\ call'[c].at = "done" /\ call'[c].user = None
          /\ call'[c].set = call[c].set /\ call[c].kind \in {"me", "login", "save"}
      BY <2>0, <2>3, <2>9, Served DEF CutBody
    <3>2. call[c].set # "clear"
      BY <2>1, <3>1, SessionAssumption DEF Answer
    <3>3. call[c].set \in Session => call[c].set \in issued'
      BY <1>0, <2>1, NoneAssumption DEF Answer
    <3>4. Answer(c)'
      BY <2>0, <2>1, <3>1, <3>2, <3>3, SessionAssumption DEF Answer, Given
    <3> QED BY <2>a, <3>4
  <2> QED BY <1>4, <2>4, <2>5, <2>6, <2>7, <2>8, <2>9 DEF Serving
<1>5. ASSUME NEW c \in Call, Drop(c) PROVE Answers'
  BY <1>5, <1>a, Drops
<1>6. ASSUME NEW c \in Call, Arriving(c) PROVE Answers'
  BY <1>6, <1>a, Arrives DEF Arrived, Same
<1>7. ASSUME NEW c \in Call, NEW l \in Link, Visit(c, l) PROVE Answers'
  BY <1>7, <1>a, <1>b, Visits
<1>8. ASSUME NEW s \in Session, SessionEnds(s) PROVE Answers'
  BY <1>8, <1>a DEF SessionEnds
<1>9. ASSUME NEW s \in Session, NEW u \in User \cup {None}, OtherTab(s, u) PROVE Answers'
  BY <1>9, <1>a DEF OtherTab
<1>10. CASE UNCHANGED vars
  BY <1>10, <1>a DEF vars
<1> QED BY <1>1, <1>2, <1>3, <1>4, <1>5, <1>6, <1>7, <1>8, <1>9, <1>10, Steps

\* The address is cleaned when the form is mounted, which is when a link is
\* posted.
LEMMA LinksStep ==
  ASSUME Typed, Loaded, Checking, Links, [Next]_vars
  PROVE  Links'
<1> USE DEF server, history
<1>a. ASSUME UNCHANGED <<link, posted>>, auth' # NoAuth => auth # NoAuth PROVE Links'
  BY <1>a DEF Links
<1>1. CASE Turn
  BY <1>1, <1>a, Turns
<1>2. ASSUME NEW c \in Call, Sending(c) PROVE Links'
  <2>1. \/ UNCHANGED <<link, posted>> /\ (auth' # NoAuth => auth # NoAuth)
        \/ /\ link = "verify" /\ link' = "none"
           /\ posted' = IF posted = "due" THEN "posted" ELSE "again"
    BY <1>2, Sends DEF Checking
  <2> QED BY <1>a, <2>1 DEF Links
<1>3. ASSUME NEW c \in Call, MountQuiet(c) PROVE Links'
  BY <1>3, Mounts DEF Links, MountQuiet
<1>4. ASSUME NEW c \in Call, Serving(c) \/ Drop(c) PROVE Links'
  BY <1>4, <1>a, Serves, Drops DEF Local
<1>5. ASSUME NEW c \in Call, Arriving(c) PROVE Links'
  BY <1>5, <1>a, Arrives
<1>6. ASSUME NEW c \in Call, NEW l \in Link, Visit(c, l) PROVE Links'
  <2>1. auth' = NoAuth /\ link' = l /\ posted' = (IF l = "verify" THEN "due" ELSE "none")
    BY <1>6, Visits
  <2> QED BY <2>1 DEF Links
<1>7. ASSUME NEW s \in Session,
             SessionEnds(s) \/ \E u \in User \cup {None} : OtherTab(s, u)
      PROVE  Links'
  BY <1>7, <1>a DEF SessionEnds, OtherTab, Local
<1>8. CASE UNCHANGED vars
  BY <1>8, <1>a DEF vars
<1> QED BY <1>1, <1>2, <1>3, <1>4, <1>5, <1>6, <1>7, <1>8, Steps

-----------------------------------------------------------------------------
\* Without a form no call waits.
LEMMA NoneWaits ==
  ASSUME Form, auth = NoAuth
  PROVE  \A c \in Call : ~Waits(c)
  BY Forms DEF Form, FormBusy

\* After a render that shows the same the calls are as they were, and none waits
\* when something else is shown.
LEMMA RenderedWaits ==
  ASSUME NEW a, NEW calls \in Calls, Render(a, calls)
  PROVE  IF Content(a) = Content(app) THEN call' = calls
         ELSE \A c \in Call : ~Waits(c)'
<1>1. CASE Content(a) = Content(app)
  BY <1>1 DEF Render
<1>2. ASSUME Content(a) # Content(app), NEW c \in Call
      PROVE  ~Waits(c)'
  <2>1. call' = Left(calls)
    BY <1>2 DEF Render
  <2>2. CASE calls[c].kind \in AuthKind \cup {"save"} /\ calls[c].from = "mounted"
    <3>1. calls[c] \in TabCall /\ call'[c] = [calls[c] EXCEPT !.from = "left"]
      BY <2>1, <2>2, CallShape DEF Left, Calls, AuthKind
    <3>2. call'[c].from = "left"
      BY <3>1 DEF TabCall
    <3> QED BY <3>2 DEF Waits
  <2>3. CASE ~(calls[c].kind \in AuthKind \cup {"save"} /\ calls[c].from = "mounted")
    <3>1. call'[c] = calls[c]
      BY <2>1, <2>3 DEF Left
    <3> QED BY <2>3, <3>1 DEF Waits
  <2> QED BY <2>2, <2>3
<1> QED BY <1>1, <1>2

\* A step after which the form and the calls it waits for are the same.
LEMMA FormStays ==
  ASSUME Form, auth'.busy = auth.busy, \A c \in Call : Waits(c)' <=> Waits(c),
         auth' # NoAuth => app'.open /\ ~app'.checking /\ app'.user = None
  PROVE  Form'
  BY DEF Form, FormBusy

\* A step that unmounts the form, or leaves it away.
LEMMA FormGone ==
  ASSUME auth' = NoAuth, \A c \in Call : ~Waits(c)'
  PROVE  Form'
  BY Forms DEF Form, FormBusy

\* The call that is over was the one the form waited for, or none of its.
LEMMA FormOver ==
  ASSUME Typed, Form, NEW c \in Call, call' = Over(c),
         auth'.busy = Enable(c, auth).busy,
         auth' # NoAuth => app'.open /\ ~app'.checking /\ app'.user = None
  PROVE  Form'
<1>1. /\ ~Waits(c)'
      /\ \A d \in Call \ {c} : Waits(d)' <=> Waits(d)
  BY Ended, CallShape DEF Waits, AuthKind
<1>2. CASE Waits(c)
  <2>1. \A d \in Call : ~Waits(d)'
    BY <1>1, <1>2 DEF Form, FormBusy
  <2>2. auth # NoAuth /\ auth \in Auth
    BY <1>2, NoneWaits DEF Typed
  <2>3. auth'.busy = FALSE
    BY <1>2, <2>2 DEF Enable, Auth
  <2> QED BY <2>1, <2>3 DEF Form, FormBusy
<1>3. CASE ~Waits(c)
  <2>1. auth'.busy = auth.busy /\ \A d \in Call : Waits(d)' <=> Waits(d)
    BY <1>1, <1>3 DEF Enable
  <2> QED BY <2>1, FormStays
<1> QED BY <1>2, <1>3

\* A user who is let in leaves the form, and whoever is not is shown it again.
LEMMA FormEnters ==
  ASSUME Typed, Form, app.open, NEW c \in Call, call[c] \in TabCall, NEW s, NEW why,
         Enter(c, s, why)
  PROVE  Form'
<1> DEFINE a == [app EXCEPT !.user = call[c].user, !.checking = FALSE]
<1>1. /\ a.user = call[c].user /\ a.view = app.view /\ a.profile = app.profile
      /\ a.open = TRUE /\ a.checking = FALSE
      /\ app.view \in View /\ app.profile \in User \cup {None}
  BY CallShape, AppShape DEF App
<1>2. Render(a, Over(c)) /\ Over(c) \in Calls
  BY Ended DEF Enter
<1> HIDE DEF a
<1>3. app' = a
  BY <1>2 DEF Render
<1>4. \A d \in Call : Waits(d)' => call' = Over(c)
  BY <1>2, RenderedWaits
<1>5. auth = NoAuth => \A d \in Call : ~Waits(d)'
  BY <1>4, NoneWaits, Ended, CallShape DEF Waits, AuthKind
<1>6. CASE call[c].user # None
  <2>1. auth' = NoAuth
    BY <1>6 DEF Enter
  <2>2. CASE auth # NoAuth
    <3>1. Content(app) = "auth" /\ Content(a) # "auth"
      BY <1>1, <1>6, <2>2, ContentAssumption DEF Form, Content, View
    <3> QED BY <1>2, <2>1, <3>1, RenderedWaits, FormGone
  <2> QED BY <1>5, <2>1, <2>2, FormGone
<1>7. CASE call[c].user = None
  <2>1. auth' = Enable(c, auth) /\ app'.open = TRUE /\ app'.checking = FALSE /\ app'.user = None
    BY <1>1, <1>3, <1>7 DEF Enter
  <2>2. CASE auth = NoAuth
    <3>1. auth' = NoAuth
      BY <2>1, <2>2, Enabled
    <3> QED BY <1>5, <2>2, <3>1, FormGone
  <2>3. CASE auth # NoAuth
    <3>1. Content(app) = "auth" /\ Content(a) = "auth"
      BY <1>1, <1>7, <2>3 DEF Form, Content
    <3>2. call' = Over(c)
      BY <1>2, <3>1, RenderedWaits
    <3> QED BY <2>1, <3>2, FormOver
  <2> QED BY <2>2, <2>3
<1> QED BY <1>6, <1>7

\* Every step keeps the form and its call together.
LEMMA FormStep ==
  ASSUME Typed, Loaded, Checking, Form, [Next]_vars
  PROVE  Form'
<1> USE DEF server, history
<1>a. ASSUME UNCHANGED <<app, auth>>, \A c \in Call : Waits(c)' <=> Waits(c) PROVE Form'
  BY <1>a, FormStays DEF Form
<1>1. CASE SetMode
  <2>1. auth \in Auth /\ auth # NoAuth
    BY <1>1 DEF SetMode, SignInForm, AuthShown, Typed
  <2>2. auth'.busy = auth.busy
    BY <1>1, <2>1 DEF SetMode, Auth
  <2> QED BY <1>1, <2>1, <2>2, FormStays DEF SetMode, Form, Waits
<1>2. ASSUME Back \/ (\E v \in View : Navigate(v)) \/ (\E u \in User : OpenProfile(u))
      PROVE  Form'
  <2>1. SignedIn /\ (\E a : Render(a, call)) /\ auth' = auth /\ call \in Calls
    BY <1>2 DEF Back, Navigate, OpenProfile, Typed, Calls
  <2>2. auth = NoAuth
    BY <2>1 DEF SignedIn, Form
  <2>3. \A d \in Call : ~Waits(d)
    BY <2>2, NoneWaits
  <2>4. \A d \in Call : ~Waits(d)'
    BY <2>1, <2>3, RenderedWaits DEF Waits
  <2> QED BY <2>1, <2>2, <2>4, FormGone
<1>3. ASSUME NEW c \in Call, (\E u \in User : Submit(c, u)) \/ SubmitReset(c)
      PROVE  Form'
  <2>1. /\ AuthShown /\ ~auth.busy /\ auth' = [auth EXCEPT !.busy = TRUE] /\ app' = app
        /\ \E kind \in AuthKind, u \in User \cup {None} : Begin(c, kind, u)
    BY <1>3 DEF Submit, SubmitReset, SignInForm, ResetForm, AuthKind
  <2>2. auth \in Auth /\ auth'.busy = TRUE
    BY <2>1 DEF AuthShown, Typed, Auth
  <2>3. AuthKind \subseteq Kind
    BY DEF Kind
  <2>4. /\ call'[c].kind \in AuthKind /\ call'[c].from = "mounted"
        /\ \A d \in Call \ {c} : call'[d] = call[d]
    BY <2>1, <2>3, Begun
  <2>5. \A d \in Call : Waits(d)' <=> d = c
    BY <2>1, <2>4 DEF Waits, Form, FormBusy
  <2>6. app'.open /\ ~app'.checking /\ app'.user = None
    BY <2>1 DEF AuthShown, AskedToSignIn
  <2> QED BY <2>2, <2>5, <2>6 DEF Form, FormBusy
<1>4. ASSUME NEW c \in Call, NEW kind \in Kind \ AuthKind, Begin(c, kind, None)
      PROVE  \A d \in Call : Waits(d)' <=> Waits(d)
  <2>1. /\ call[c] = NoCall /\ call'[c].kind = kind /\ \A d \in Call \ {c} : call'[d] = call[d]
    BY <1>4, Begun
  <2> QED BY <1>4, <2>1, CallShape DEF Waits, AuthKind
<1>5. ASSUME NEW c \in Call, Logout(c) \/ SaveProfile(c) \/ ChangePassword(c) \/ Use(c)
      PROVE  Form'
  <2>1. \E kind \in {"logout", "save", "password", "page"} : Ask(c, kind)
    BY <1>5 DEF Logout, SaveProfile, ChangePassword, Use
  <2>2. {"logout", "save", "password", "page"} \subseteq Kind \ AuthKind
    BY DEF Kind, AuthKind, Protected
  <2> QED BY <1>4, <1>a, <2>1, <2>2 DEF Ask
<1>6. ASSUME NEW c \in Call, Mount(c)
      PROVE  Form'
  <2>1. /\ AskedToSignIn /\ auth = NoAuth /\ auth'.busy = FALSE /\ app' = app
        /\ call' = call \/ Begin(c, "verify", None)
    BY <1>6 DEF Mount, Post
  <2>2. "verify" \in Kind \ AuthKind
    BY DEF Kind, AuthKind, Protected
  <2>3. \A d \in Call : Waits(d)' <=> Waits(d)
    <3>1. CASE call' = call
      BY <3>1 DEF Waits
    <3> QED BY <1>4, <2>1, <2>2, <3>1
  <2> QED BY <2>1, <2>3, FormStays, Forms DEF AskedToSignIn
<1>7. ASSUME NEW c \in Call, Serving(c) \/ Drop(c)
      PROVE  Form'
  <2>1. UNCHANGED <<app, auth>>
    BY <1>7, Serves, Drops DEF Local
  <2>2. CASE Serving(c)
    <3>1. /\ call'[c].kind = call[c].kind /\ call'[c].from = call[c].from
          /\ \A d \in Call \ {c} : call'[d] = call[d]
      BY <2>2, Serves
    <3> QED BY <1>a, <2>1, <3>1 DEF Waits
  <2>3. CASE Drop(c)
    <3>1. /\ call[c].from = "closed" /\ call'[c] = NoCall
          /\ \A d \in Call \ {c} : call'[d] = call[d]
      BY <2>3, Drops DEF Drop
    <3> QED BY <1>a, <2>1, <3>1, CallShape DEF Waits, AuthKind
  <2> QED BY <1>7, <2>2, <2>3
<1>8. ASSUME NEW c \in Call, Arriving(c)
      PROVE  Form'
  <2>0. /\ call[c] \in TabCall /\ Pending(c) /\ app.open
    BY <1>8, Arrives
  <2>a. ASSUME NEW s, NEW why, Enter(c, s, why) PROVE Form'
    BY <2>0, <2>a, FormEnters
  <2>b. ASSUME call' = Over(c), UNCHANGED <<app, auth>>, ~Waits(c) PROVE Form'
    BY <2>b, FormOver DEF Enable, Form
  <2>c. ASSUME NEW a, Render(a, Over(c)), UNCHANGED auth, auth = NoAuth PROVE Form'
    <3>1. \A d \in Call : Waits(d)' => call' = Over(c)
      BY <2>c, RenderedWaits, Ended
    <3>2. \A d \in Call : ~Waits(d)'
      BY <2>c, <3>1, NoneWaits, Ended, CallShape DEF Waits, AuthKind
    <3> QED BY <2>c, <3>2, FormGone
  <2>1. CASE MeArrives(c)
    <3>1. CASE Done(c)
      BY <2>1, <2>a, <3>1 DEF MeArrives
    <3>2. CASE ~Done(c)
      <4>1. /\ call[c].kind = "me" /\ UNCHANGED auth
            /\ Render([app EXCEPT !.checking = FALSE], Over(c))
        BY <2>1, <3>2 DEF MeArrives, Ready
      <4>2. auth = NoAuth
        BY <2>0, <4>1 DEF Checking, Form
      <4> QED BY <2>c, <4>1, <4>2
    <3> QED BY <3>1, <3>2
  <2>2. CASE SubmitArrives(c)
    <3>1. CASE call[c].kind = "login" /\ Done(c)
      BY <2>2, <2>a, <3>1 DEF SubmitArrives
    <3>2. CASE ~(call[c].kind = "login" /\ Done(c))
      <4>1. call' = Over(c) /\ auth' = Enable(c, auth) /\ app' = app
        BY <2>2, <3>2 DEF SubmitArrives
      <4>2. auth' # NoAuth => auth # NoAuth
        BY <4>1, Enabled
      <4> QED BY <4>1, <4>2, FormOver DEF Form
    <3> QED BY <3>1, <3>2
  <2>3. CASE ResetArrives(c)
    <3>1. /\ call' = Over(c) /\ app' = app
          /\ auth' \in {Enable(c, auth), [Enable(c, auth) EXCEPT !.reset = FALSE]}
      BY <2>3 DEF ResetArrives
    <3>2. auth' # NoAuth => auth # NoAuth
      BY <3>1, Enabled
    <3>3. \A f \in Auth \cup {NoAuth} : [f EXCEPT !.reset = FALSE].busy = f.busy
      BY Forms DEF Auth
    <3>4. auth'.busy = Enable(c, auth).busy
      BY <3>1, <3>3, Enabled
    <3> QED BY <3>1, <3>2, <3>4, FormOver DEF Form
  <2>4. CASE LogoutArrives(c)
    <3> DEFINE a == [app EXCEPT !.user = None, !.view = "memos"]
    <3>1. Render(a, Over(c)) /\ UNCHANGED auth /\ call[c].kind = "logout" /\ Over(c) \in Calls
      BY <2>4, Ended DEF LogoutArrives, Ready
    <3>2. a.open = app.open /\ a.checking = app.checking /\ a.user = None
      BY <2>0, AppShape DEF App
    <3> HIDE DEF a
    <3>3. app' = a
      BY <3>1 DEF Render
    <3>4. CASE auth # NoAuth
      <4>1. Content(app) = "auth" /\ Content(a) = "auth"
        BY <3>2, <3>4 DEF Form, Content
      <4>2. call' = Over(c) /\ ~Waits(c)
        BY <3>1, <4>1, RenderedWaits DEF Waits, AuthKind
      <4> QED BY <3>1, <3>2, <3>3, <4>2, FormOver DEF Enable, Form
    <3> QED BY <2>c, <3>1, <3>4
  <2>5. CASE SaveArrives(c)
    <3>1. CASE Done(c)
      BY <2>5, <2>a, <3>1 DEF SaveArrives
    <3>2. CASE ~Done(c)
      BY <2>5, <2>b, <3>2 DEF SaveArrives, Ready, Waits, AuthKind
    <3> QED BY <3>1, <3>2
  <2>6. CASE PageArrives(c)
    BY <2>6, <2>b DEF PageArrives, Ready, Waits, AuthKind
  <2> QED BY <1>8, <2>1, <2>2, <2>3, <2>4, <2>5, <2>6 DEF Arriving
<1>9. ASSUME NEW c \in Call, NEW l \in Link, Visit(c, l)
      PROVE  Form'
  <2>1. /\ auth' = NoAuth /\ call'[c].kind = "me"
        /\ \A d \in Call \ {c} : call'[d] # NoCall => call'[d].from = "closed"
    BY <1>9, Visits
  <2>2. \A d \in Call : ~Waits(d)'
    BY <2>1, CallShape DEF Waits, AuthKind
  <2> QED BY <2>1, <2>2, FormGone
<1>10. ASSUME NEW s \in Session,
              SessionEnds(s) \/ \E u \in User \cup {None} : OtherTab(s, u)
       PROVE  Form'
  BY <1>10, <1>a DEF SessionEnds, OtherTab, Local, Waits
<1>11. CASE UNCHANGED vars
  BY <1>11, <1>a DEF vars, Waits
<1>12. ASSUME NEW c \in Call, Sending(c) \/ MountQuiet(c)
       PROVE  Form'
  BY <1>3, <1>5, <1>6, <1>12 DEF Sending, MountQuiet
<1>13. CASE Turn
  BY <1>1, <1>2, <1>13 DEF Turn
<1> QED BY <1>7, <1>8, <1>9, <1>10, <1>11, <1>12, <1>13, Steps

-----------------------------------------------------------------------------
\* A step that leaves the user, the cookie and the history alone: sessions end.
LEMMA MatchStays ==
  ASSUME Typed, Handed, Advance, ShellMatchesSession,
         UNCHANGED <<cookie, entered, odd>>, app'.open = app.open, app'.user = app.user
  PROVE  ShellMatchesSession'
<1>1. PICK k \in Session \cup {None} : k = cookie /\ Who(k)' \in {Who(k), None}
  BY Dying DEF Typed, Handed
<1>2. PICK e \in Session \cup {None} : e = entered /\ Who(e)' \in {Who(e), None}
  BY Dying DEF Typed, Handed
<1>3. Who(cookie)' \in {Who(cookie), None} /\ Who(entered)' \in {Who(entered), None}
  BY <1>1, <1>2 DEF Who
<1> QED BY <1>3 DEF ShellMatchesSession, SignedIn

\* A call that is answered without a session clears the cookie that it took
\* along, which is dead, or is noted to have swept another one.
LEMMA MatchSwept ==
  ASSUME Typed, ShellMatchesSession, NEW c \in Call, call[c] \in TabCall, Answer(c), Cookie(c),
         call[c].kind # "login", odd' = Also(odd, Swept(c)), UNCHANGED <<owner, app, entered>>
  PROVE  ShellMatchesSession'
<1>1. call[c].set \notin Session
  BY DEF Answer
<1>2. CASE call[c].set = "keep" /\ cookie' = cookie
  <2>1. odd' = odd
    BY <1>2 DEF Swept, Also
  <2> QED BY <1>2, <2>1 DEF ShellMatchesSession, SignedIn, Who
<1>3. CASE call[c].set = "clear" /\ cookie' = None
  <2>1. Who(call[c].cookie) = None
    BY <1>3 DEF Answer
  <2>2. "tab" \notin odd' => odd' = odd \cup Swept(c) /\ "tab" \notin odd
    BY DEF Also
  <2>3. "tab" \in odd => "tab" \in odd'
    BY DEF Also
  <2>4. "swept" \notin odd' /\ "tab" \notin odd' => cookie \in {None, call[c].cookie}
    BY <1>3, <2>2 DEF Swept
  <2> QED BY <1>3, <2>1, <2>2, <2>4 DEF ShellMatchesSession, SignedIn, Who
<1> QED BY <1>1, <1>2, <1>3, CookieSet

\* Whoever is let in is behind the cookie, and stays there but for the causes
\* that the property names.
LEMMA MatchStep ==
  ASSUME Typed, Handed, Loaded, Checking, Answers, ShellMatchesSession, [Next]_vars
  PROVE  ShellMatchesSession'
<1> USE DEF server, history
<1>0. Advance
  BY Advances
<1>a. ASSUME UNCHANGED <<cookie, entered, odd>>, app'.open = app.open, app'.user = app.user
      PROVE  ShellMatchesSession'
  BY <1>0, <1>a, MatchStays
<1>b. ASSUME ~app'.open \/ app'.user = None \/ odd' \cap {"tab", "late"} # {}
      PROVE  ShellMatchesSession'
  BY <1>b DEF ShellMatchesSession, SignedIn
<1>1. CASE Turn
  BY <1>1, <1>a, Turns
<1>2. ASSUME NEW c \in Call, Sending(c) \/ MountQuiet(c) \/ Serving(c) \/ Drop(c)
      PROVE  ShellMatchesSession'
  BY <1>2, <1>a, Sends, Mounts, Serves, Drops DEF Local, Checking
<1>3. ASSUME NEW c \in Call, Arriving(c) PROVE ShellMatchesSession'
  <2>0. /\ call[c] \in TabCall /\ Pending(c) /\ app.open
        /\ UNCHANGED owner /\ call[c] # NoCall
    BY <1>3, Arrives, CallShape
  <2>1. Answer(c) /\ (Done(c) <=> call[c].at = "done")
    BY <2>0 DEF Answers, Done
  \* A user is let in with a session: it is his, or ended, and in the cookie.
  <2>a. ASSUME NEW s \in Session \cup {None}, NEW why, Enter(c, s, why),
               why \cap {"tab", "late"} = {} /\ call[c].user # None =>
                 Who(s) \in {call[c].user, None} /\ cookie' = s
        PROVE  ShellMatchesSession'
    <3>1. /\ app'.user = call[c].user
          /\ call[c].user # None => entered' = s /\ odd' = why
      BY <2>0, <2>a, Enters
    <3>2. CASE call[c].user = None
      BY <1>b, <3>1, <3>2
    <3>3. CASE call[c].user # None /\ why \cap {"tab", "late"} # {}
      BY <1>b, <3>1, <3>3
    <3>4. CASE call[c].user # None /\ why \cap {"tab", "late"} = {}
      <4>1. cookie' = s /\ entered' = s /\ Who(s) \in {call[c].user, None}
        BY <2>a, <3>1, <3>4
      <4>2. Who(cookie)' = Who(s) /\ Who(entered)' = Who(s)
        BY <2>0, <4>1 DEF Who
      <4> QED BY <3>1, <4>1, <4>2 DEF ShellMatchesSession, SignedIn
    <3> QED BY <3>2, <3>3, <3>4
  <2>2. CASE MeArrives(c)
    <3>1. /\ call[c].kind = "me" /\ call[c].cookie \in Session \cup {None}
          /\ app.checking /\ app.user = None
          /\ "tab" \notin odd => cookie = call[c].cookie
      <4>1. call[c].kind = "me"
        BY <2>2 DEF MeArrives, Ready
      <4> QED BY <2>0, <4>1, CallShape DEF Checking
    <3>2. CASE Done(c)
      <4>1. Enter(c, call[c].cookie, odd) /\ Cookie(c)
        BY <2>2, <3>2 DEF MeArrives, Enter
      <4>2. /\ call[c].set = "keep"
            /\ call[c].user # None => Who(call[c].cookie) \in {call[c].user, None}
        BY <2>1, <3>1, <3>2 DEF Answer
      <4>3. cookie' = cookie
        BY <4>1, <4>2 DEF Cookie
      <4> QED BY <2>a, <3>1, <4>1, <4>2, <4>3
    <3>3. CASE ~Done(c)
      <4>1. app' = [app EXCEPT !.checking = FALSE] /\ app \in App
        BY <2>0, <2>2, <3>3, AppShape DEF MeArrives, Render
      <4>2. app'.user = None
        BY <3>1, <4>1 DEF App
      <4> QED BY <1>b, <4>2
    <3> QED BY <3>2, <3>3
  <2>3. CASE SubmitArrives(c)
    <3>1. CASE call[c].kind = "login" /\ Done(c)
      <4>1. Enter(c, call[c].set, {}) /\ Cookie(c)
        BY <2>3, <3>1 DEF SubmitArrives, Enter
      <4>2. /\ call[c].set \in Session
            /\ call[c].user # None => Who(call[c].set) \in {call[c].user, None}
        BY <2>1, <3>1 DEF Answer
      <4>3. cookie' = call[c].set
        BY <2>0, <4>1, <4>2, CookieSet, SessionAssumption
      <4> QED BY <2>a, <4>1, <4>2, <4>3
    <3>2. CASE ~(call[c].kind = "login" /\ Done(c))
      BY <1>a, <2>3, <3>2 DEF SubmitArrives
    <3> QED BY <3>1, <3>2
  <2>4. CASE ResetArrives(c)
    BY <1>a, <2>4 DEF ResetArrives
  <2>5. CASE LogoutArrives(c)
    <3>1. app' = [app EXCEPT !.user = None, !.view = "memos"] /\ app \in App
      BY <2>0, <2>5, AppShape DEF LogoutArrives, Render
    <3>2. app'.user = None
      BY <3>1 DEF App
    <3> QED BY <1>b, <3>2
  <2>6. CASE SaveArrives(c)
    <3>1. call[c].kind = "save"
      BY <2>6 DEF SaveArrives, Ready
    <3>2. CASE Done(c) /\ call[c].user \in {app.user, None}
      <4>1. Enter(c, entered, odd) /\ Cookie(c)
        BY <2>6, <3>2 DEF SaveArrives, Enter
      <4>2. app'.user = call[c].user
        BY <2>0, <4>1, Enters DEF Typed
      <4>3. CASE call[c].user = None
        BY <1>b, <4>2, <4>3
      <4>4. CASE call[c].user # None
        <5>1. entered' = entered /\ odd' = odd /\ app'.user = app.user /\ app'.open = app.open
          BY <2>0, <3>2, <4>1, <4>4, Enters, AppShape DEF Typed
        <5>2. cookie' = cookie
          BY <2>1, <3>1, <3>2, <4>1 DEF Answer, Cookie
        <5> QED BY <1>a, <5>1, <5>2
      <4> QED BY <4>3, <4>4
    <3>3. CASE Done(c) /\ call[c].user \notin {app.user, None}
      <4>1. Enter(c, call[c].cookie, Also(odd, {"late"}))
        BY <2>6, <3>3 DEF SaveArrives
      <4>2. odd' = Also(odd, {"late"})
        BY <2>0, <3>3, <4>1, Enters
      <4>3. odd' \cap {"tab", "late"} # {}
        BY <4>2 DEF Also
      <4> QED BY <1>b, <4>3
    <3>4. CASE ~Done(c)
      BY <2>0, <2>1, <2>6, <3>1, <3>4, MatchSwept DEF SaveArrives
    <3> QED BY <3>2, <3>3, <3>4
  <2>7. CASE PageArrives(c)
    <3>1. call[c].kind # "login"
      BY <2>7 DEF PageArrives, Ready
    <3> QED BY <2>0, <2>1, <2>7, <3>1, MatchSwept DEF PageArrives
  <2> QED BY <1>3, <2>2, <2>3, <2>4, <2>5, <2>6, <2>7 DEF Arriving
<1>4. ASSUME NEW c \in Call, NEW l \in Link, Visit(c, l) PROVE ShellMatchesSession'
  <2>1. app'.user = None
    BY <1>4, Visits
  <2> QED BY <1>b, <2>1
<1>5. ASSUME NEW s \in Session, SessionEnds(s) PROVE ShellMatchesSession'
  BY <1>5, <1>a DEF SessionEnds, Local
<1>6. ASSUME NEW s \in Session, NEW u \in User \cup {None}, OtherTab(s, u)
      PROVE  ShellMatchesSession'
  BY <1>6, <1>b DEF OtherTab
<1>7. CASE UNCHANGED vars
  BY <1>7, <1>a DEF vars
<1> QED BY <1>1, <1>2, <1>3, <1>4, <1>5, <1>6, <1>7, Steps

-----------------------------------------------------------------------------
\* A step that lets the form be shown as it was, and leaves the cookie alone or
\* clears it.
LEMMA OutStays ==
  ASSUME Typed, Handed, Advance, SignedOutIsOut,
         cookie' \in {cookie, None}, odd \cap {"tab", "kept", "cut"} \subseteq odd',
         app'.open = app.open, app'.checking = app.checking, app'.user = app.user
  PROVE  SignedOutIsOut'
<1>1. PICK k \in Session \cup {None} : k = cookie /\ Who(k)' \in {Who(k), None}
  BY Dying DEF Typed, Handed
<1>2. Who(cookie)' \in {Who(cookie), None}
  BY <1>1 DEF Who
<1> QED BY <1>2 DEF SignedOutIsOut, AskedToSignIn

\* A check or a logout that is over has left no cookie, or is noted to have
\* kept one.
LEMMA OutKept ==
  ASSUME Typed, NEW c \in Call, call[c] \in TabCall, Answer(c), Cookie(c),
         call[c].kind # "login", odd' = Also(odd, Kept(c) \cup Swept(c)),
         ~Done(c) \/ call[c].kind = "logout"
  PROVE  SignedOutIsOut'
<1>1. call[c].set \notin Session
  BY DEF Answer
<1>2. CASE cookie' = None
  BY <1>2 DEF SignedOutIsOut, Who
<1>3. CASE call[c].set = "keep" /\ cookie' = cookie /\ cookie # None
  <2>1. ~Done(c)
    BY <1>3 DEF Answer, Done
  <2>2. odd' \cap {"tab", "kept", "cut"} # {}
    BY <1>3, <2>1 DEF Kept, Also
  <2> QED BY <2>2 DEF SignedOutIsOut
<1> QED BY <1>1, <1>2, <1>3, CookieSet

\* Whoever leaves, or is not let in, leaves no live session behind, but for the
\* causes that the property names.
LEMMA OutStep ==
  ASSUME Typed, Handed, Loaded, Checking, Answers, SignedOutIsOut, [Next]_vars
  PROVE  SignedOutIsOut'
<1> USE DEF server, history
<1>0. Advance
  BY Advances
<1>a. ASSUME UNCHANGED <<cookie, odd>>, app'.open = app.open, app'.checking = app.checking,
             app'.user = app.user
      PROVE  SignedOutIsOut'
  BY <1>0, <1>a, OutStays
<1>b. ASSUME app'.checking = TRUE \/ app'.user # None \/ odd' \cap {"tab", "kept", "cut"} # {}
      PROVE  SignedOutIsOut'
  BY <1>b DEF SignedOutIsOut, AskedToSignIn
<1>1. CASE Turn
  BY <1>1, <1>a, Turns
<1>2. ASSUME NEW c \in Call, Sending(c) \/ MountQuiet(c) \/ Serving(c) \/ Drop(c)
      PROVE  SignedOutIsOut'
  BY <1>2, <1>a, Sends, Mounts, Serves, Drops DEF Local, Checking
<1>3. ASSUME NEW c \in Call, Arriving(c) PROVE SignedOutIsOut'
  <2>0. /\ call[c] \in TabCall /\ app.open /\ call[c] # NoCall
    BY <1>3, Arrives, CallShape
  <2>1. Answer(c)
    BY <2>0 DEF Answers
  \* A user is let in, or the answer that names nobody is noted.
  <2>a. ASSUME NEW s, NEW why, Enter(c, s, why) PROVE SignedOutIsOut'
    <3>1. /\ app'.user = call[c].user
          /\ call[c].user = None => odd' = Also(why, {"cut"})
      BY <2>0, <2>a, Enters
    <3>2. odd' = Also(why, {"cut"}) => odd' \cap {"tab", "kept", "cut"} # {}
      BY DEF Also
    <3> QED BY <1>b, <3>1, <3>2
  \* An answer that leaves App alone may clear the cookie.
  <2>b. ASSUME call[c].kind # "login", Cookie(c), UNCHANGED app, odd' = Also(odd, Swept(c))
        PROVE  SignedOutIsOut'
    <3>1. cookie' \in {cookie, None}
      BY <2>0, <2>1, <2>b, CookieSet DEF Answer
    <3>2. odd \subseteq odd'
      BY <2>b DEF Also
    <3> QED BY <1>0, <2>b, <3>1, <3>2, OutStays
  <2>2. CASE MeArrives(c)
    <3>1. CASE Done(c)
      BY <2>2, <2>a, <3>1 DEF MeArrives
    <3>2. CASE ~Done(c)
      <4>1. /\ call[c].kind = "me" /\ Cookie(c) /\ odd' = Also(odd, Kept(c) \cup Swept(c))
        BY <2>2, <3>2 DEF MeArrives, Ready
      <4> QED BY <2>0, <2>1, <3>2, <4>1, OutKept
    <3> QED BY <3>1, <3>2
  <2>3. CASE SubmitArrives(c)
    BY <1>a, <2>3, <2>a DEF SubmitArrives
  <2>4. CASE ResetArrives(c)
    BY <1>a, <2>4 DEF ResetArrives
  <2>5. CASE LogoutArrives(c)
    <3>1. call[c].kind = "logout" /\ Cookie(c) /\ odd' = Also(odd, Kept(c) \cup Swept(c))
      BY <2>5 DEF LogoutArrives, Ready
    <3> QED BY <2>0, <2>1, <3>1, OutKept
  <2>6. CASE SaveArrives(c)
    <3>1. CASE Done(c)
      BY <2>6, <2>a, <3>1 DEF SaveArrives
    <3>2. CASE ~Done(c)
      BY <2>6, <2>b, <3>2 DEF SaveArrives, Ready
    <3> QED BY <3>1, <3>2
  <2>7. CASE PageArrives(c)
    BY <2>7, <2>b DEF PageArrives, Ready
  <2> QED BY <1>3, <2>2, <2>3, <2>4, <2>5, <2>6, <2>7 DEF Arriving
<1>4. ASSUME NEW c \in Call, NEW l \in Link, Visit(c, l) PROVE SignedOutIsOut'
  <2>1. app'.checking = TRUE
    BY <1>4, Visits
  <2> QED BY <1>b, <2>1
<1>5. ASSUME NEW s \in Session, SessionEnds(s) PROVE SignedOutIsOut'
  BY <1>5, <1>a DEF SessionEnds, Local
<1>6. ASSUME NEW s \in Session, NEW u \in User \cup {None}, OtherTab(s, u) PROVE SignedOutIsOut'
  BY <1>6, <1>b DEF OtherTab
<1>7. CASE UNCHANGED vars
  BY <1>7, <1>a DEF vars
<1> QED BY <1>1, <1>2, <1>3, <1>4, <1>5, <1>6, <1>7, Steps

-----------------------------------------------------------------------------
\* IInv is inductive.
LEMMA Invariance == Spec => []IInv
<1>1. Init => IInv
  BY InitInv
<1>2. IInv /\ [Next]_vars => IInv'
  BY TypeStep, HandedStep, CheckingStep, AnswersStep, LinksStep, FormStep, MatchStep,
     OutStep DEF IInv
<1> QED BY <1>1, <1>2, PTL DEF Spec

\* The App, the form, the calls and the cookie keep their types, and the form is
\* disabled exactly while a call of it is under way, in whatever order the
\* answers arrive and whatever is shown meanwhile.
THEOREM TypeCorrect == Spec => []TypeOK
<1>1. IInv => TypeOK
  BY DEF IInv, Form, TypeOK
<1> QED BY <1>1, Invariance, PTL

\* The user that App shows is the one behind the cookie, as long as the session
\* he was let in with lives: the answer of an older call neither puts back
\* somebody who has left nor makes a call in the name of somebody else, unless
\* one of the causes that ShellMatchesSession names came between.
THEOREM Matches == Spec => []ShellMatchesSession
<1>1. IInv => ShellMatchesSession
  BY DEF IInv
<1> QED BY <1>1, Invariance, PTL

\* Whoever is asked to sign in is signed out of this browser, but for a check or
\* a logout that failed, another tab, or an answer that lost its body.
THEOREM Out == Spec => []SignedOutIsOut
<1>1. IInv => SignedOutIsOut
  BY DEF IInv
<1> QED BY <1>1, Invariance, PTL

\* A mailed confirmation stays in the address until it is posted, is posted at
\* most once by a document, and is never passed over when the form is shown.
THEOREM Once == Spec => []LinkPostedOnce
<1>1. IInv => LinkPostedOnce
  BY DEF IInv, Links, LinkPostedOnce, AuthShown
<1> QED BY <1>1, Invariance, PTL
=============================================================================

----------------------------- MODULE AuthTokens -----------------------------
(***************************************************************************)
(* Mailed links: internal/service/account.go with the token and email      *)
(* queries of internal/repository (token.go, user.go) on Postgres.         *)
(*                                                                         *)
(* A request is a sequence of statements and transactions.  At the READ    *)
(* COMMITTED level a transaction that reads and then writes is two steps:  *)
(* the snapshot or the row lock it takes, and its writes with the commit.  *)
(* A statement on a row another transaction has locked waits.              *)
(***************************************************************************)
EXTENDS Naturals, FiniteSets

CONSTANTS User, Address, Token, None,
          Client,          \* requests in flight
          SettingsChoice,  \* the values of system_settings an admin may save
          Failures         \* may an I/O fail, the client leave, the server stop?

ASSUME SettingsAssumption == SettingsChoice \subseteq SUBSET {"smtp", "confirm", "recovery"}
ASSUME FailuresAssumption == Failures \in BOOLEAN

VARIABLES settings,   \* switches that are on in the system_settings row
          email,      \* verified address in the row of each user, or None
          rows,       \* tokens with a row in auth_tokens
          link,       \* user, purpose and address of every token ever inserted
          used,       \* tokens with used_at set
          expired,    \* tokens whose expires_at has passed
          lock,       \* request whose transaction holds the row of a token
          delivered,  \* tokens whose mail arrived
          req,        \* where each request is and what it has read
          uses,       \* history: how often a token took effect
          prior       \* history: tokens issued before the Replace of a token began

db == <<email, rows, link, used, lock>>
history == <<uses, prior>>
vars == <<settings, db, expired, delivered, req, history>>

Purposes == {"email_verify", "password_reset"}
Link == [user : User, purpose : Purposes, address : Address]

ASSUME NoneAssumption == None \notin Address \cup Client \cup Link

Idle == [at |-> "idle"]
\* BindEmail has read the settings and found the address free.
Checked(l, confirm) == [at |-> "checked", link |-> l, confirm |-> confirm]
\* ForgotPassword has found the user of the address.
Wanted(l) == [at |-> "wanted", link |-> l]
\* Replace has taken the snapshot of its DELETE.  (History: what was issued then.)
Replacing(l, old, issued) ==
  [at |-> "replacing", link |-> l, old |-> old, issued |-> issued]
\* The new token is committed, its mail is to be sent; or the mail failed.
Stored(t) == [at |-> "stored", token |-> t]
Unsent(t) == [at |-> "unsent", token |-> t]
\* SELECT ... FOR UPDATE is sent with the time of this moment, or has returned
\* the row of the token.
Opening(t) == [at |-> "opening", token |-> t]
Holding(t) == [at |-> "holding", token |-> t]

Request ==
  {Idle}
    \cup [at : {"checked"}, link : Link, confirm : BOOLEAN]
    \cup [at : {"wanted"}, link : Link]
    \cup [at : {"replacing"}, link : Link, old : SUBSET Token, issued : SUBSET Token]
    \cup [at : {"stored", "unsent", "opening", "holding"}, token : Token]

TypeOK ==
  /\ settings \in SettingsChoice
  /\ email \in [User -> Address \cup {None}]
  /\ link \in [Token -> Link \cup {None}]
  /\ rows \subseteq {t \in Token : link[t] # None}
  /\ used \subseteq rows
  /\ expired \subseteq Token
  /\ delivered \subseteq Token
  /\ lock \in [Token -> Client \cup {None}]
  /\ req \in [Client -> Request]
  /\ uses \in [Token -> Nat]
  /\ prior \in [Token -> SUBSET Token]

Goto(c, r) == req' = [req EXCEPT ![c] = r]
Free(e, u) == \A w \in User \ {u} : email[w] # e
Unlocked(t) == lock[t] = None

Init ==
  /\ settings \in SettingsChoice
  /\ email \in [User -> Address \cup {None}]
  /\ \A u \in User : email[u] # None => Free(email[u], u)
  /\ rows = {}
  /\ link = [t \in Token |-> None]
  /\ used = {}
  /\ expired = {}
  /\ lock = [t \in Token |-> None]
  /\ delivered = {}
  /\ req = [c \in Client |-> Idle]
  /\ uses = [t \in Token |-> 0]
  /\ prior = [t \in Token |-> {}]

\* Bound: requests that may still store a token do not outnumber fresh tokens.
TokensLeft ==
  Cardinality({d \in Client : req[d].at \in {"checked", "wanted", "replacing"}})
    < Cardinality({t \in Token : link[t] = None})

-----------------------------------------------------------------------------
\* The admin saves other settings; requests keep the ones they have read.
SaveSettings(s) ==
  /\ settings' = s
  /\ UNCHANGED <<db, expired, delivered, req, history>>

\* BindEmail up to EmailExistsForOther.
CheckEmail(c, u, e) ==
  /\ req[c] = Idle /\ TokensLeft
  /\ "confirm" \in settings => "smtp" \in settings
  /\ Free(e, u)
  /\ Goto(c, Checked([user |-> u, purpose |-> "email_verify", address |-> e],
                     "confirm" \in settings))
  /\ UNCHANGED <<settings, db, expired, delivered, history>>

\* Mutant of UpdateEmail: no look at the confirmation switch.
UpdateEmailAtOnce(c) ==
  /\ req[c].at = "checked"
  /\ LET u == req[c].link.user
         e == req[c].link.address
     IN email' = IF Free(e, u) THEN [email EXCEPT ![u] = e] ELSE email
  /\ Goto(c, Idle)
  /\ UNCHANGED <<settings, rows, link, used, lock, expired, delivered, history>>

\* Without confirmation the address is bound at once, if the unique index
\* still lets it.
UpdateEmail(c) ==
  /\ req[c].at = "checked" /\ ~req[c].confirm
  /\ LET u == req[c].link.user
         e == req[c].link.address
     IN email' = IF Free(e, u) THEN [email EXCEPT ![u] = e] ELSE email
  /\ Goto(c, Idle)
  /\ UNCHANGED <<settings, rows, link, used, lock, expired, delivered, history>>

\* ForgotPassword up to FindVerifiedByEmail.
FindByEmail(c, u) ==
  /\ req[c] = Idle /\ TokensLeft
  /\ {"recovery", "smtp"} \subseteq settings
  /\ email[u] # None
  /\ Goto(c, Wanted([user |-> u, purpose |-> "password_reset", address |-> email[u]]))
  /\ UNCHANGED <<settings, db, expired, delivered, history>>

TokensIssued == {t \in Token : link[t] # None}

\* Mutant of BeginReplace: the DELETE asks for the id of the new token.
BeginReplaceBlind(c) ==
  /\ \/ req[c].at = "checked" /\ req[c].confirm
     \/ req[c].at = "wanted"
  /\ Goto(c, Replacing(req[c].link, {}, TokensIssued))
  /\ UNCHANGED <<settings, db, expired, delivered, history>>

\* Replace: the DELETE sees the rows committed so far ...
BeginReplace(c) ==
  /\ \/ req[c].at = "checked" /\ req[c].confirm
     \/ req[c].at = "wanted"
  /\ LET l == req[c].link
         old == {t \in rows : link[t].user = l.user /\ link[t].purpose = l.purpose}
     IN Goto(c, Replacing(l, old, TokensIssued))
  /\ UNCHANGED <<settings, db, expired, delivered, history>>

\* ... waits for those that are locked, deletes them, and the INSERT commits.
CommitReplace(c, t) ==
  /\ req[c].at = "replacing"
  /\ link[t] = None
  /\ \A s \in req[c].old : Unlocked(s)
  /\ rows' = (rows \ req[c].old) \cup {t}
  /\ used' = used \ req[c].old
  /\ link' = [link EXCEPT ![t] = req[c].link]
  /\ prior' = [prior EXCEPT ![t] = req[c].issued]
  /\ Goto(c, Stored(t))
  /\ UNCHANGED <<settings, email, lock, expired, delivered, uses>>

\* Send: the mail arrives or not, and either way an error may come back.
\* BindEmail withdraws the link on an error, ForgotPassword only logs it.
Send(c, arrives, error) ==
  /\ req[c].at = "stored"
  /\ LET t == req[c].token
     IN /\ delivered' = IF arrives THEN delivered \cup {t} ELSE delivered
        /\ Goto(c, IF error /\ link[t].purpose = "email_verify" THEN Unsent(t) ELSE Idle)
  /\ UNCHANGED <<settings, db, expired, history>>

\* DeleteByHash, in a statement of its own.
Withdraw(c) ==
  /\ req[c].at = "unsent"
  /\ Unlocked(req[c].token)
  /\ rows' = rows \ {req[c].token}
  /\ used' = used \ {req[c].token}
  /\ Goto(c, Idle)
  /\ UNCHANGED <<settings, email, link, lock, expired, delivered, history>>

\* VerifyEmail and ResetPassword ask for the row of a token that is good at this
\* moment: the query has the time as a value, however long it waits then.
Open(c, t, purpose) ==
  /\ req[c] = Idle
  /\ t \in delivered \ expired
  /\ link[t].purpose = purpose
  /\ Goto(c, Opening(t))
  /\ UNCHANGED <<settings, db, expired, delivered, history>>

\* Mutant of LockToken: a plain SELECT.
ReadToken(c) ==
  /\ req[c].at = "opening"
  /\ LET t == req[c].token
     IN Goto(c, IF t \in rows \ used THEN Holding(t) ELSE Idle)
  /\ UNCHANGED <<settings, db, expired, delivered, history>>

\* The request waits while another has the row, and then gets the row as it is
\* by now, or none if it was used or deleted meanwhile.
LockToken(c) ==
  /\ req[c].at = "opening"
  /\ Unlocked(req[c].token)
  /\ LET t == req[c].token
     IN IF t \in rows \ used
          THEN lock' = [lock EXCEPT ![t] = c] /\ Goto(c, Holding(t))
          ELSE UNCHANGED lock /\ Goto(c, Idle)
  /\ UNCHANGED <<settings, email, rows, link, used, expired, delivered, history>>

\* Mutants of Redeem: the token is used up although the address was taken; the
\* transaction is left open.
RedeemAnyway(c) ==
  /\ req[c].at = "holding"
  /\ LET t == req[c].token
         l == link[t]
     IN /\ email' = IF l.purpose = "email_verify" /\ Free(l.address, l.user)
                     THEN [email EXCEPT ![l.user] = l.address] ELSE email
        /\ used' = used \cup {t}
        /\ uses' = [uses EXCEPT ![t] = @ + 1]
        /\ lock' = [lock EXCEPT ![t] = None]
  /\ Goto(c, Idle)
  /\ UNCHANGED <<settings, rows, link, expired, delivered, prior>>
RedeemKeepsLock(c) ==
  /\ req[c].at = "holding"
  /\ used' = used \cup {req[c].token}
  /\ uses' = [uses EXCEPT ![req[c].token] = @ + 1]
  /\ Goto(c, Idle)
  /\ UNCHANGED <<settings, email, rows, link, lock, expired, delivered, prior>>

\* The rest of the transaction: update the user, mark the token, commit.  A
\* confirmation whose address was taken meanwhile is rolled back.
Redeem(c) ==
  /\ req[c].at = "holding"
  /\ LET t == req[c].token
         l == link[t]
         confirms == l.purpose = "email_verify"
         ok == confirms => Free(l.address, l.user)
     IN /\ email' = IF confirms /\ ok THEN [email EXCEPT ![l.user] = l.address] ELSE email
        /\ used' = IF ok THEN used \cup {t} ELSE used
        /\ uses' = IF ok THEN [uses EXCEPT ![t] = @ + 1] ELSE uses
        /\ lock' = [lock EXCEPT ![t] = None]
  /\ Goto(c, Idle)
  /\ UNCHANGED <<settings, rows, link, expired, delivered, prior>>

\* A trip fails, the client hangs up or the server stops: an open transaction
\* rolls back and drops its locks, what was committed stays.
Fail(c) ==
  /\ Failures
  /\ req[c] # Idle
  /\ lock' = [t \in Token |-> IF lock[t] = c THEN None ELSE lock[t]]
  /\ Goto(c, Idle)
  /\ UNCHANGED <<settings, email, rows, link, used, expired, delivered, history>>

Expire(t) ==
  /\ t \in rows \ expired
  /\ expired' = expired \cup {t}
  /\ UNCHANGED <<settings, db, delivered, req, history>>

\* The steps a request that has begun takes on its own.
Proceed(c) ==
  \/ UpdateEmail(c)
  \/ BeginReplace(c)
  \/ \E t \in Token : CommitReplace(c, t)
  \/ \E arrives, error \in BOOLEAN : Send(c, arrives, error)
  \/ Withdraw(c)
  \/ LockToken(c)
  \/ Redeem(c)

Next ==
  \/ \E s \in SettingsChoice : SaveSettings(s)
  \/ \E c \in Client, u \in User, e \in Address : CheckEmail(c, u, e)
  \/ \E c \in Client, u \in User : FindByEmail(c, u)
  \/ \E c \in Client, t \in Token, p \in Purposes : Open(c, t, p)
  \/ \E c \in Client : Proceed(c)
  \/ \E c \in Client : Fail(c)
  \/ \E t \in Token : Expire(t)

Spec == Init /\ [][Next]_vars

\* The server runs every goroutine, and Postgres queues the transactions that
\* wait for a row, so none is overtaken for ever.
FairSpec == Spec /\ \A c \in Client : SF_vars(Proceed(c))

-----------------------------------------------------------------------------
\* A link takes effect at most once, however often it is opened at a time.
SingleUse == \A t \in Token : uses[t] <= 1

\* Once a newer link is stored, an older one for the same user and purpose never
\* takes effect: not one that was opened before, not one whose mail is late, and
\* not after the newer one was withdrawn or used.  Older is what was issued when
\* the Replace of the newer one began; two that overlap may both stay good.
ReplacedLinksDead ==
  [][\A s \in Token : uses'[s] > uses[s] =>
       \A t \in Token \ {s} :
         /\ link[t] # None
         /\ link[t].user = link[s].user /\ link[t].purpose = link[s].purpose
         => s \notin prior[t]]_vars

\* An address changes hands only through a link that reached this very address
\* and was stored for that user, or by the step of a request of that user for
\* that address that read confirmation off.
AddressProven ==
  [][\A u \in User : email'[u] # email[u] =>
       LET l == [user |-> u, purpose |-> "email_verify", address |-> email'[u]]
       IN \/ \E t \in delivered : uses'[t] > uses[t] /\ link[t] = l
          \/ \E c \in Client : /\ req[c].at = "checked" /\ ~req[c].confirm
                              /\ req[c].link = l /\ req'[c] # req[c]]_vars

\* A request that waits for the row of a token, to open, replace or withdraw it,
\* gets its answer: locks are always released, by a commit, a rollback or a
\* failure.
RequestsEnd == \A c \in Client : req[c] # Idle ~> req[c] = Idle

\* The transactions implement the book of links: a link whose time runs out while
\* a request that asked in time waits for it, or has it, is still good.
Asked(t) == \E c \in Client : req[c] = Opening(t)
State(t) ==
  IF uses[t] > 0 THEN "used"
  ELSE IF link[t] = None THEN "new"
  ELSE IF t \in rows /\ (t \in expired => lock[t] # None \/ Asked(t)) THEN "open"
  ELSE "gone"

Book == INSTANCE LinkBook WITH state <- [t \in Token |-> State(t)]
BookSpec == Book!Spec
=============================================================================

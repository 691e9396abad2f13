-------------------------- MODULE AuthTokensProofs --------------------------
(***************************************************************************)
(* Theorems about mailed links, for every set of users, addresses, tokens  *)
(* and requests and every choice of settings.                              *)
(***************************************************************************)
EXTENDS AuthTokens, TLAPS

\* A transaction that holds a token has the lock of a row that is still there
\* and still good.
Holds ==
  \A c \in Client : req[c].at = "holding" =>
    /\ lock[req[c].token] = c
    /\ req[c].token \in (rows \cap delivered) \ used
    /\ uses[req[c].token] = 0

\* What a request waits for had arrived in a mail.
Waits ==
  \A c \in Client : req[c].at = "opening" => req[c].token \in delivered

\* A token that took effect is marked in its row for as long as it has one.
Spent ==
  \A t \in Token :
    uses[t] # 0 => uses[t] = 1 /\ link[t] # None /\ (t \in rows => t \in used)

\* BindEmail asks for a confirmation.
Confirms ==
  \A c \in Client : req[c].at = "checked" => req[c].link.purpose = "email_verify"

\* What expires, and what a Replace has seen, was issued before.
Issued ==
  /\ \A t \in expired : link[t] # None
  /\ Confirms
  /\ \A c \in Client : req[c].at = "replacing" =>
       \A s \in req[c].old :
         /\ link[s] # None
         /\ link[s].user = req[c].link.user
         /\ link[s].purpose = req[c].link.purpose

\* The inductive invariant.
IInv == TypeOK /\ Holds /\ Waits /\ Spent /\ Issued

-----------------------------------------------------------------------------
\* The shape of the record of a request in each place.
LEMMA ReqShape ==
  ASSUME TypeOK, NEW c \in Client
  PROVE  /\ req[c] = Idle \/ req[c].at # "idle"
         /\ req[c].at = "checked" => req[c].link \in Link /\ req[c].confirm \in BOOLEAN
         /\ req[c].at = "wanted" => req[c].link \in Link
         /\ req[c].at = "replacing" =>
              /\ req[c].link \in Link
              /\ req[c].old \subseteq Token
              /\ req[c].issued \subseteq Token
         /\ req[c].at \in {"stored", "unsent", "opening", "holding"} => req[c].token \in Token
  BY DEF TypeOK, Request, Idle

\* The records that requests are set to.
LEMMA Places ==
  /\ Idle \in Request /\ Idle.at = "idle"
  /\ \A l \in Link, b \in BOOLEAN :
       /\ Checked(l, b) \in Request
       /\ Checked(l, b).at = "checked" /\ Checked(l, b).link = l
  /\ \A l \in Link : Wanted(l) \in Request /\ Wanted(l).at = "wanted"
  /\ \A l \in Link, T, I \in SUBSET Token :
       /\ Replacing(l, T, I) \in Request
       /\ Replacing(l, T, I).at = "replacing"
       /\ Replacing(l, T, I).link = l
       /\ Replacing(l, T, I).old = T
       /\ Replacing(l, T, I).issued = I
  /\ \A t \in Token :
       /\ Stored(t) \in Request /\ Stored(t).at = "stored"
       /\ Unsent(t) \in Request /\ Unsent(t).at = "unsent"
       /\ Opening(t) \in Request /\ Opening(t).at = "opening" /\ Opening(t).token = t
       /\ Holding(t) \in Request /\ Holding(t).at = "holding" /\ Holding(t).token = t
  BY DEF Request, Idle, Checked, Wanted, Replacing, Stored, Unsent, Opening, Holding

\* The initial state satisfies the invariant.
LEMMA InitInv == Init => IInv
<1> SUFFICES ASSUME Init PROVE IInv
  OBVIOUS
<1> USE DEF Init
<1>1. TypeOK
  BY Places DEF TypeOK
<1> QED BY <1>1, Places DEF IInv, Holds, Waits, Spent, Issued, Confirms

\* Every step keeps the types.
LEMMA TypeStep == ASSUME IInv, [Next]_vars PROVE TypeOK'
<1> USE DEF IInv, Goto, history, db
<1>1. ASSUME NEW s \in SettingsChoice, SaveSettings(s) PROVE TypeOK'
  BY <1>1 DEF SaveSettings, TypeOK
<1>2. ASSUME NEW c \in Client, NEW u \in User, NEW e \in Address, CheckEmail(c, u, e)
      PROVE  TypeOK'
  <2>1. [user |-> u, purpose |-> "email_verify", address |-> e] \in Link
    BY DEF Link, Purposes
  <2>2. ("confirm" \in settings) \in BOOLEAN
    OBVIOUS
  <2> QED BY <1>2, <2>1, <2>2, Places DEF CheckEmail, TypeOK
<1>3. ASSUME NEW c \in Client, NEW u \in User, FindByEmail(c, u) PROVE TypeOK'
  <2>1. [user |-> u, purpose |-> "password_reset", address |-> email[u]] \in Link
    BY <1>3 DEF FindByEmail, Link, Purposes, TypeOK
  <2> QED BY <1>3, <2>1, Places DEF FindByEmail, TypeOK
<1>4. ASSUME NEW c \in Client, NEW t \in Token, NEW p \in Purposes, Open(c, t, p)
      PROVE  TypeOK'
  BY <1>4, Places DEF Open, TypeOK
<1>5. ASSUME NEW c \in Client, UpdateEmail(c) PROVE TypeOK'
  <2>1. req[c].link.user \in User /\ req[c].link.address \in Address
    BY <1>5, ReqShape DEF UpdateEmail, Link
  <2> QED BY <1>5, <2>1, Places DEF UpdateEmail, TypeOK
<1>6. ASSUME NEW c \in Client, BeginReplace(c) PROVE TypeOK'
  <2>1. req[c].link \in Link
    BY <1>6, ReqShape DEF BeginReplace
  <2>2. rows \subseteq Token
    BY DEF TypeOK
  <2> QED BY <1>6, <2>1, <2>2, Places DEF BeginReplace, TokensIssued, TypeOK
<1>7. ASSUME NEW c \in Client, NEW t \in Token, CommitReplace(c, t) PROVE TypeOK'
  <2>1. /\ req[c].link \in Link /\ req[c].link # None
        /\ req[c].old \subseteq Token /\ req[c].issued \subseteq Token
    BY <1>7, ReqShape, NoneAssumption DEF CommitReplace
  <2> QED BY <1>7, <2>1, Places DEF CommitReplace, TypeOK
<1>8. ASSUME NEW c \in Client, NEW arrives \in BOOLEAN, NEW error \in BOOLEAN,
             Send(c, arrives, error)
      PROVE  TypeOK'
  BY <1>8, ReqShape, Places DEF Send, TypeOK
<1>9. ASSUME NEW c \in Client, Withdraw(c) PROVE TypeOK'
  BY <1>9, Places DEF Withdraw, TypeOK
<1>10. ASSUME NEW c \in Client, Redeem(c) PROVE TypeOK'
  <2>1. req[c].token \in rows /\ req[c].token \in Token
    BY <1>10, ReqShape DEF Redeem, Holds
  <2>2. link[req[c].token].user \in User /\ link[req[c].token].address \in Address
    BY <2>1 DEF TypeOK, Link
  <2> QED BY <1>10, <2>1, <2>2, Places DEF Redeem, TypeOK
<1>11. ASSUME NEW c \in Client, Fail(c) PROVE TypeOK'
  BY <1>11, Places DEF Fail, TypeOK
<1>12. ASSUME NEW t \in Token, Expire(t) PROVE TypeOK'
  BY <1>12 DEF Expire, TypeOK
<1>13. ASSUME NEW c \in Client, LockToken(c) PROVE TypeOK'
  <2>1. req[c].token \in Token
    BY <1>13, ReqShape DEF LockToken
  <2>2. lock' \in [Token -> Client \cup {None}]
    BY <1>13, <2>1 DEF LockToken, TypeOK
  <2>3. req' \in [Client -> Request]
    BY <1>13, <2>1, Places DEF LockToken, TypeOK
  <2> QED BY <1>13, <2>2, <2>3 DEF LockToken, TypeOK
<1>14. CASE UNCHANGED vars
  BY <1>14 DEF vars, TypeOK
<1> QED
  BY <1>1, <1>2, <1>3, <1>4, <1>5, <1>6, <1>7, <1>8, <1>9, <1>10, <1>11, <1>12, <1>13,
     <1>14
  DEF Next, Proceed

\* Steps that leave the tokens alone, and what the one request they move is at
\* afterwards, cannot disturb Holds.
LEMMA HoldsStep == ASSUME IInv, [Next]_vars PROVE Holds'
<1> USE NoneAssumption DEF IInv, Goto, history, db
<1>0. \A d \in Client : req[d].at = "holding" => req[d].token \in Token
  BY ReqShape
<1>1. ASSUME NEW s \in SettingsChoice, SaveSettings(s) PROVE Holds'
  BY <1>1 DEF SaveSettings, Holds
<1>2. ASSUME NEW c \in Client, NEW u \in User, NEW e \in Address, CheckEmail(c, u, e)
      PROVE  Holds'
  BY <1>2 DEF CheckEmail, Holds, TypeOK, Checked
<1>3. ASSUME NEW c \in Client, NEW u \in User, FindByEmail(c, u) PROVE Holds'
  BY <1>3 DEF FindByEmail, Holds, TypeOK, Wanted
<1>4. ASSUME NEW c \in Client, LockToken(c) PROVE Holds'
  <2>0. PICK t \in Token : t = req[c].token
    BY <1>4, ReqShape DEF LockToken
  <2>1. lock[t] = None /\ t \in delivered
    BY <1>4, <2>0 DEF LockToken, Unlocked, Waits
  <2>2. \A d \in Client \ {c} : req[d].at = "holding" => req[d].token # t
    BY <2>1 DEF Holds
  <2>3. /\ \A d \in Client \ {c} : req'[d] = req[d]
        /\ UNCHANGED <<rows, delivered, used, uses>>
    BY <1>4 DEF LockToken, TypeOK
  <2>4. CASE t \in rows \ used
    <3>1. uses[t] = 0
      BY <2>4 DEF Spent
    <3>2. req'[c] = Holding(t)
      BY <1>4, <2>0, <2>4 DEF LockToken, TypeOK
    <3>3. lock'[t] = c /\ \A s \in Token \ {t} : lock'[s] = lock[s]
      BY <1>4, <2>0, <2>4 DEF LockToken, TypeOK
    <3> QED BY <1>0, <2>1, <2>2, <2>3, <2>4, <3>1, <3>2, <3>3, Places DEF Holds
  <2>5. CASE t \notin rows \ used
    <3>1. req'[c].at = "idle" /\ UNCHANGED lock
      BY <1>4, <2>0, <2>5, Places DEF LockToken, TypeOK
    <3> QED BY <2>3, <3>1 DEF Holds
  <2> QED BY <2>4, <2>5
<1>5. ASSUME NEW c \in Client, UpdateEmail(c) PROVE Holds'
  BY <1>5 DEF UpdateEmail, Holds, TypeOK, Idle
<1>6. ASSUME NEW c \in Client, BeginReplace(c) PROVE Holds'
  BY <1>6 DEF BeginReplace, Holds, TypeOK, Replacing
<1>7. ASSUME NEW c \in Client, NEW t \in Token, CommitReplace(c, t) PROVE Holds'
  <2>1. \A d \in Client : req[d].at = "holding" => req[d].token \notin req[c].old
    BY <1>7 DEF CommitReplace, Holds, Unlocked
  <2> QED BY <1>7, <2>1 DEF CommitReplace, Holds, TypeOK, Stored
<1>8. ASSUME NEW c \in Client, NEW arrives \in BOOLEAN, NEW error \in BOOLEAN,
             Send(c, arrives, error)
      PROVE  Holds'
  <2>1. delivered \subseteq delivered'
    BY <1>8 DEF Send
  <2> QED BY <1>8, <2>1 DEF Send, Holds, TypeOK, Idle, Unsent
<1>9. ASSUME NEW c \in Client, Withdraw(c) PROVE Holds'
  <2>1. \A d \in Client : req[d].at = "holding" => req[d].token # req[c].token
    BY <1>9 DEF Withdraw, Holds, Unlocked
  <2> QED BY <1>9, <2>1 DEF Withdraw, Holds, TypeOK, Idle
<1>10. ASSUME NEW c \in Client, Redeem(c) PROVE Holds'
  <2> DEFINE t == req[c].token
  <2>1. req[c].at = "holding" /\ t \in Token
    BY <1>10, <1>0 DEF Redeem
  <2>2. \A d \in Client \ {c} : req[d].at = "holding" => req[d].token # t
    BY <2>1 DEF Holds
  <2>3. /\ used' \subseteq used \cup {t}
        /\ \A s \in Token \ {t} : uses'[s] = uses[s] /\ lock'[s] = lock[s]
        /\ UNCHANGED <<rows, delivered>>
    BY <1>10, <2>1 DEF Redeem, TypeOK
  <2>4. req'[c].at = "idle" /\ \A d \in Client \ {c} : req'[d] = req[d]
    BY <1>10 DEF Redeem, TypeOK, Idle
  <2> QED BY <1>0, <2>2, <2>3, <2>4 DEF Holds
<1>11. ASSUME NEW c \in Client, Fail(c) PROVE Holds'
  <2>1. req'[c].at = "idle" /\ \A d \in Client \ {c} : req'[d] = req[d]
    BY <1>11 DEF Fail, TypeOK, Idle
  <2>2. \A s \in Token : lock[s] # c => lock'[s] = lock[s]
    BY <1>11 DEF Fail
  <2> QED BY <1>0, <1>11, <2>1, <2>2 DEF Fail, Holds
<1>12. ASSUME NEW t \in Token, Expire(t) PROVE Holds'
  BY <1>12 DEF Expire, Holds
<1>13. ASSUME NEW c \in Client, NEW t \in Token, NEW p \in Purposes, Open(c, t, p)
       PROVE  Holds'
  BY <1>13 DEF Open, Holds, TypeOK, Opening
<1>14. CASE UNCHANGED vars
  BY <1>14 DEF vars, Holds
<1> QED
  BY <1>1, <1>2, <1>3, <1>4, <1>5, <1>6, <1>7, <1>8, <1>9, <1>10, <1>11, <1>12, <1>13,
     <1>14
  DEF Next, Proceed

\* A request begins to wait for a link that has arrived, and no mail goes back.
LEMMA WaitsStep == ASSUME IInv, [Next]_vars PROVE Waits'
<1> USE DEF IInv, Goto
<1>1. delivered \subseteq delivered'
  BY DEF Next, Proceed, SaveSettings, CheckEmail, FindByEmail, Open, UpdateEmail,
     BeginReplace, CommitReplace, Send, Withdraw, LockToken, Redeem, Fail, Expire, vars
<1>2. ASSUME NEW c \in Client, NEW t \in Token, NEW p \in Purposes, Open(c, t, p)
      PROVE  Waits'
  BY <1>1, <1>2, Places DEF Open, Waits, TypeOK
<1>3. ASSUME NEW c \in Client, req'[c].at # "opening",
             \A d \in Client \ {c} : req'[d] = req[d]
      PROVE  Waits'
  BY <1>1, <1>3 DEF Waits
<1>4. ASSUME NEW c \in Client, Proceed(c) \/ Fail(c) PROVE Waits'
  <2>1. /\ req'[c].at # "opening"
        /\ \A d \in Client \ {c} : req'[d] = req[d]
    BY <1>4
    DEF Proceed, UpdateEmail, BeginReplace, CommitReplace, Send, Withdraw, LockToken,
        Redeem, Fail, TypeOK, Idle, Replacing, Stored, Unsent, Holding
  <2> QED BY <1>3, <2>1
<1>5. ASSUME NEW c \in Client, NEW u \in User,
             FindByEmail(c, u) \/ \E e \in Address : CheckEmail(c, u, e)
      PROVE  Waits'
  BY <1>3, <1>5 DEF FindByEmail, CheckEmail, Wanted, Checked, TypeOK
<1>6. CASE UNCHANGED req
  BY <1>1, <1>6 DEF Waits
<1> QED
  BY <1>2, <1>4, <1>5, <1>6 DEF Next, SaveSettings, Expire, vars

\* A step that changes uses marks the row it holds; a row that goes does not
\* come back, since only a fresh token is stored.
LEMMA SpentStep == ASSUME IInv, [Next]_vars PROVE Spent'
<1> USE NoneAssumption DEF IInv, history, db
<1>1. ASSUME NEW c \in Client, NEW t \in Token, CommitReplace(c, t) PROVE Spent'
  <2>1. link[t] = None /\ req[c].link # None
    BY <1>1, ReqShape DEF CommitReplace
  <2>2. uses[t] = 0 /\ UNCHANGED uses
    BY <1>1, <2>1 DEF CommitReplace, Spent
  <2>3. /\ \A s \in Token \ {t} : link'[s] = link[s]
        /\ \A s \in Token \ {t} : s \in rows' => s \in rows \ req[c].old
        /\ used' = used \ req[c].old
    BY <1>1 DEF CommitReplace, TypeOK
  <2> QED BY <2>2, <2>3 DEF Spent
<1>2. ASSUME NEW c \in Client, Withdraw(c) PROVE Spent'
  BY <1>2 DEF Withdraw, Spent
<1>3. ASSUME NEW c \in Client, Redeem(c) PROVE Spent'
  <2> DEFINE t == req[c].token
  <2>1. t \in rows /\ uses[t] = 0 /\ t \in Token /\ link[t] # None
    BY <1>3, ReqShape DEF Redeem, Holds, TypeOK
  <2>2. /\ uses'[t] = 0 \/ (uses'[t] = 1 /\ t \in used')
        /\ \A s \in Token \ {t} : uses'[s] = uses[s]
        /\ used \subseteq used'
        /\ UNCHANGED <<rows, link>>
    BY <1>3, <2>1 DEF Redeem, TypeOK
  <2> QED BY <2>1, <2>2 DEF Spent
<1>4. CASE UNCHANGED <<uses, link, rows, used>>
  BY <1>4 DEF Spent
<1> QED
  BY <1>1, <1>2, <1>3, <1>4
  DEF Next, Proceed, SaveSettings, CheckEmail, FindByEmail, Open, LockToken, UpdateEmail,
      BeginReplace, Send, Fail, Expire, vars

\* What a Replace has seen keeps the user and the purpose it was issued for.
LEMMA IssuedStep == ASSUME IInv, [Next]_vars PROVE Issued'
<1> USE NoneAssumption DEF IInv, Goto, history, db, Confirms
<1>1. ASSUME NEW c \in Client, BeginReplace(c) PROVE Issued'
  <2> DEFINE old == {t \in rows : /\ link[t].user = req[c].link.user
                                  /\ link[t].purpose = req[c].link.purpose}
  <2>1. /\ req'[c] = Replacing(req[c].link, old, TokensIssued)
        /\ \A d \in Client \ {c} : req'[d] = req[d]
        /\ UNCHANGED <<link, expired>>
    BY <1>1 DEF BeginReplace, TypeOK
  <2>2. req[c].link \in Link /\ old \subseteq Token
    BY <1>1, ReqShape DEF BeginReplace, TypeOK
  <2>3. \A s \in old : link[s] # None
    BY DEF TypeOK
  <2>4. TokensIssued \subseteq Token
    BY DEF TokensIssued
  <2> QED BY <2>1, <2>2, <2>3, <2>4, Places DEF Issued
<1>2. ASSUME NEW c \in Client, NEW t \in Token, CommitReplace(c, t) PROVE Issued'
  <2>1. /\ link[t] = None /\ link'[t] # None
        /\ \A s \in Token \ {t} : link'[s] = link[s]
        /\ UNCHANGED expired
    BY <1>2, ReqShape DEF CommitReplace, TypeOK
  <2>2. req'[c].at = "stored" /\ \A d \in Client \ {c} : req'[d] = req[d]
    BY <1>2 DEF CommitReplace, TypeOK, Stored
  <2>3. \A d \in Client : req[d].at = "replacing" => req[d].old \subseteq Token
    BY ReqShape
  <2> QED BY <2>1, <2>2, <2>3 DEF Issued, TypeOK
<1>3. ASSUME NEW t \in Token, Expire(t) PROVE Issued'
  BY <1>3 DEF Expire, Issued, TypeOK
<1>4. CASE UNCHANGED <<link, expired, req>>
  BY <1>4 DEF Issued
<1>5. ASSUME NEW c \in Client, UNCHANGED <<link, expired>>,
             req'[c].at # "replacing", \A d \in Client \ {c} : req'[d] = req[d],
             req'[c].at = "checked" => req'[c].link.purpose = "email_verify"
      PROVE  Issued'
  BY <1>5 DEF Issued
<1>6. ASSUME NEW c \in Client, NEW u \in User, FindByEmail(c, u) PROVE Issued'
  BY <1>6, <1>5 DEF FindByEmail, Wanted, TypeOK
<1>11. ASSUME NEW c \in Client, NEW u \in User, NEW e \in Address, CheckEmail(c, u, e)
       PROVE  Issued'
  BY <1>11, <1>5 DEF CheckEmail, Checked, TypeOK
<1>7. ASSUME NEW c \in Client, NEW t \in Token, NEW p \in Purposes, Open(c, t, p)
      PROVE  Issued'
  BY <1>7, <1>5 DEF Open, Opening, TypeOK
<1>8. ASSUME NEW c \in Client, UpdateEmail(c) \/ Withdraw(c) \/ Redeem(c) \/ Fail(c)
      PROVE  Issued'
  <2>1. /\ UNCHANGED <<link, expired>>
        /\ req'[c].at = "idle"
        /\ \A d \in Client \ {c} : req'[d] = req[d]
    BY <1>8 DEF UpdateEmail, Withdraw, Redeem, Fail, Idle, TypeOK
  <2> QED BY <1>5, <2>1
<1>9. ASSUME NEW c \in Client, NEW arrives \in BOOLEAN, NEW error \in BOOLEAN,
             Send(c, arrives, error)
      PROVE  Issued'
  BY <1>9, <1>5 DEF Send, Idle, Unsent, TypeOK
<1>10. ASSUME NEW c \in Client, LockToken(c) PROVE Issued'
  BY <1>10, <1>5 DEF LockToken, Idle, Holding, TypeOK
<1> QED
  BY <1>1, <1>2, <1>3, <1>4, <1>6, <1>7, <1>8, <1>9, <1>10, <1>11
  DEF Next, Proceed, SaveSettings, vars

\* The inductive invariant holds in every state.
LEMMA Invariance == Spec => []IInv
<1>1. IInv /\ [Next]_vars => IInv'
  BY TypeStep, HoldsStep, WaitsStep, SpentStep, IssuedStep DEF IInv
<1> QED BY InitInv, <1>1, PTL DEF Spec

Same(l, m) == l.user = m.user /\ l.purpose = m.purpose

\* What was issued before the Replace of a token began has no row once the token
\* is stored, and until then has none that the DELETE missed.
PriorGone ==
  /\ \A t \in Token : \A s \in prior[t] :
       /\ s # t /\ link[s] # None
       /\ Same(link[s], link[t]) => s \notin rows
  /\ \A c \in Client : req[c].at = "replacing" =>
       \A s \in req[c].issued :
         /\ link[s] # None
         /\ s \in rows /\ Same(link[s], req[c].link) => s \in req[c].old

\* Only a commit of Replace gives a token a row, and a token that has none before.
LEMMA PriorStep == ASSUME IInv, PriorGone, [Next]_vars PROVE PriorGone'
<1> USE DEF IInv, Goto, history, db
<1>0. /\ \A c \in Client : req[c].at = "replacing" => req[c].issued \subseteq Token
      /\ \A t \in Token : prior[t] \subseteq Token
  BY ReqShape DEF TypeOK
<1>1. ASSUME NEW c \in Client, BeginReplace(c) PROVE PriorGone'
  <2> DEFINE old == {t \in rows : /\ link[t].user = req[c].link.user
                                  /\ link[t].purpose = req[c].link.purpose}
  <2>1. /\ req'[c] = Replacing(req[c].link, old, TokensIssued)
        /\ \A d \in Client \ {c} : req'[d] = req[d]
        /\ UNCHANGED <<link, rows, prior>>
    BY <1>1 DEF BeginReplace, TypeOK
  <2>2. req[c].link \in Link /\ old \subseteq Token
    BY <1>1, ReqShape DEF BeginReplace, TypeOK
  <2>3. \A s \in TokensIssued : s \in Token /\ link[s] # None
    BY DEF TokensIssued
  <2>4. /\ req'[c].link = req[c].link /\ req'[c].old = old
        /\ req'[c].issued = TokensIssued
    BY <2>1, <2>2, <2>3, Places
  <2>5. \A s \in rows : Same(link[s], req[c].link) => s \in old
    BY DEF Same
  <2> QED BY <2>1, <2>3, <2>4, <2>5 DEF PriorGone, Same
<1>2. ASSUME NEW c \in Client, NEW t \in Token, CommitReplace(c, t) PROVE PriorGone'
  <2>0. PICK l \in Link : l = req[c].link
    BY <1>2, ReqShape DEF CommitReplace
  <2>1. /\ link[t] = None /\ link'[t] = l /\ l # None
        /\ \A s \in Token \ {t} : link'[s] = link[s]
    BY <1>2, <2>0, NoneAssumption DEF CommitReplace, TypeOK
  <2>2. /\ prior'[t] = req[c].issued /\ \A s \in Token \ {t} : prior'[s] = prior[s]
        /\ rows' = (rows \ req[c].old) \cup {t}
    BY <1>2 DEF CommitReplace, TypeOK
  <2>3. req'[c].at = "stored" /\ \A d \in Client \ {c} : req'[d] = req[d]
    BY <1>2 DEF CommitReplace, TypeOK, Stored
  <2>4. \A s \in req[c].issued :
          /\ s \in Token /\ s # t /\ link[s] # None
          /\ s \in rows /\ Same(link[s], l) => s \in req[c].old
    BY <1>0, <1>2, <2>0, <2>1 DEF CommitReplace, PriorGone
  <2>5. ASSUME NEW s \in prior'[t]
        PROVE  s # t /\ link'[s] # None /\ (Same(link'[s], link'[t]) => s \notin rows')
    BY <2>1, <2>2, <2>4
  <2>6. ASSUME NEW w \in Token \ {t}, NEW s \in prior'[w]
        PROVE  s # w /\ link'[s] # None /\ (Same(link'[s], link'[w]) => s \notin rows')
    <3>1. s \in prior[w] /\ s \in Token /\ link[s] # None /\ s # t
      BY <1>0, <2>1, <2>2 DEF PriorGone
    <3> QED BY <2>1, <2>2, <3>1 DEF PriorGone
  <2>7. ASSUME NEW d \in Client, req'[d].at = "replacing", NEW s \in req'[d].issued
        PROVE  /\ link'[s] # None
               /\ s \in rows' /\ Same(link'[s], req'[d].link) => s \in req'[d].old
    <3>1. d # c /\ req'[d] = req[d]
      BY <2>3, <2>7
    <3>2. s \in Token /\ link[s] # None /\ s # t
      BY <1>0, <2>1, <2>7, <3>1 DEF PriorGone
    <3> QED BY <2>1, <2>2, <2>7, <3>1, <3>2 DEF PriorGone
  <2> QED BY <2>5, <2>6, <2>7 DEF PriorGone, Same
<1>3. ASSUME NEW c \in Client, UNCHANGED <<link, prior>>, rows' \subseteq rows,
             req'[c].at # "replacing", \A d \in Client \ {c} : req'[d] = req[d]
      PROVE  PriorGone'
  BY <1>3 DEF PriorGone, Same
<1>4. CASE UNCHANGED <<link, prior, rows, req>>
  BY <1>4 DEF PriorGone, Same
<1>5. ASSUME NEW c \in Client, NEW u \in User,
             FindByEmail(c, u) \/ \E e \in Address : CheckEmail(c, u, e)
      PROVE  PriorGone'
  BY <1>3, <1>5 DEF FindByEmail, CheckEmail, Wanted, Checked, TypeOK
<1>6. ASSUME NEW c \in Client, NEW t \in Token, NEW p \in Purposes, Open(c, t, p)
      PROVE  PriorGone'
  BY <1>3, <1>6 DEF Open, Opening, TypeOK
<1>7. ASSUME NEW c \in Client,
             UpdateEmail(c) \/ Withdraw(c) \/ LockToken(c) \/ Redeem(c) \/ Fail(c)
      PROVE  PriorGone'
  <2>1. /\ UNCHANGED <<link, prior>> /\ rows' \subseteq rows
        /\ req'[c].at # "replacing"
        /\ \A d \in Client \ {c} : req'[d] = req[d]
    BY <1>7
    DEF UpdateEmail, Withdraw, LockToken, Redeem, Fail, Idle, Holding, TypeOK
  <2> QED BY <1>3, <2>1
<1>8. ASSUME NEW c \in Client, NEW arrives \in BOOLEAN, NEW error \in BOOLEAN,
             Send(c, arrives, error)
      PROVE  PriorGone'
  BY <1>3, <1>8 DEF Send, Idle, Unsent, TypeOK
<1> QED
  BY <1>1, <1>2, <1>4, <1>5, <1>6, <1>7, <1>8
  DEF Next, Proceed, SaveSettings, Expire, vars

\* Every variable keeps its type.
THEOREM TypeCorrect == Spec => []TypeOK
  BY Invariance, PTL DEF IInv

\* Once a newer link is stored, an older one for the same user and purpose never
\* takes effect, whenever it was opened.
THEOREM Replaced == Spec => ReplacedLinksDead
<1>1. Init => PriorGone
  BY Places DEF Init, PriorGone
<1>2. IInv /\ PriorGone /\ [Next]_vars => PriorGone'
  BY PriorStep
<1>3. ASSUME IInv, PriorGone, [Next]_vars, NEW s \in Token, uses'[s] > uses[s],
             NEW t \in Token \ {s}, link[t].user = link[s].user,
             link[t].purpose = link[s].purpose
      PROVE  s \notin prior[t]
  <2> USE <1>3 DEF IInv
  <2>1. ASSUME NEW c \in Client, Redeem(c) PROVE s \in rows
    <3>1. req[c].token \in rows /\ req[c].token \in Token
      BY <2>1, ReqShape DEF Redeem, Holds
    <3>2. s # req[c].token => uses'[s] = uses[s]
      BY <2>1, <3>1 DEF Redeem, TypeOK
    <3> QED BY <3>1, <3>2 DEF TypeOK
  <2>2. ~UNCHANGED uses
    BY DEF TypeOK
  <2>3. \E c \in Client : Redeem(c)
    BY <2>2
    DEF Next, Proceed, SaveSettings, CheckEmail, FindByEmail, Open, LockToken,
        UpdateEmail, BeginReplace, CommitReplace, Send, Withdraw, Fail, Expire, vars,
        history
  <2> QED BY <2>1, <2>3 DEF PriorGone, Same
<1>4. IInv /\ PriorGone /\ [Next]_vars =>
        [\A s \in Token : uses'[s] > uses[s] =>
           \A t \in Token \ {s} :
             /\ link[t] # None
             /\ link[t].user = link[s].user /\ link[t].purpose = link[s].purpose
             => s \notin prior[t]]_vars
  BY <1>3
<1> QED BY <1>1, <1>2, <1>4, Invariance, PTL DEF Spec, ReplacedLinksDead

\* A link takes effect at most once, however many requests open it at a time.
THEOREM Once == Spec => []SingleUse
<1>1. IInv => SingleUse
  BY DEF IInv, Spent, SingleUse, TypeOK
<1> QED BY <1>1, Invariance, PTL

\* An address changes hands only through a link that reached it, or by the step of
\* a request for it that read confirmation off.
THEOREM Proven == Spec => AddressProven
<1>1. ASSUME IInv, [Next]_vars, NEW u \in User, email'[u] # email[u]
      PROVE  LET l == [user |-> u, purpose |-> "email_verify", address |-> email'[u]]
             IN \/ \E t \in delivered : uses'[t] > uses[t] /\ link[t] = l
                \/ \E c \in Client : /\ req[c].at = "checked" /\ ~req[c].confirm
                                    /\ req[c].link = l /\ req'[c] # req[c]
  <2> USE <1>1 DEF IInv
  <2>1. ASSUME NEW c \in Client, UpdateEmail(c)
        PROVE  /\ req[c].at = "checked" /\ ~req[c].confirm /\ req'[c] # req[c]
               /\ req[c].link = [user |-> u, purpose |-> "email_verify",
                                 address |-> email'[u]]
    <3>1. req[c].link \in Link /\ req[c].link.purpose = "email_verify"
      BY <2>1, ReqShape DEF UpdateEmail, Issued, Confirms
    <3>2. req[c].link.user = u /\ req[c].link.address = email'[u]
      BY <2>1, <3>1 DEF UpdateEmail, TypeOK, Link
    <3>3. req'[c].at = "idle"
      BY <2>1, Places DEF UpdateEmail, Goto, TypeOK
    <3> QED BY <2>1, <3>1, <3>2, <3>3 DEF UpdateEmail, Link
  <2>2. ASSUME NEW c \in Client, Redeem(c)
        PROVE  \E t \in delivered :
                 /\ uses'[t] > uses[t]
                 /\ link[t] = [user |-> u, purpose |-> "email_verify",
                              address |-> email'[u]]
    <3> DEFINE t == req[c].token
    <3>1. t \in delivered /\ t \in Token /\ uses[t] = 0 /\ link[t] \in Link
      BY <2>2, ReqShape DEF Redeem, Holds, TypeOK
    <3>2. link[t].purpose = "email_verify" /\ Free(link[t].address, link[t].user)
      BY <2>2 DEF Redeem
    <3>3. u = link[t].user /\ email'[u] = link[t].address
      BY <2>2, <3>2 DEF Redeem, TypeOK
    <3>4. uses'[t] = uses[t] + 1
      BY <2>2, <3>1, <3>2 DEF Redeem, TypeOK
    <3>5. link[t] = [user |-> u, purpose |-> "email_verify", address |-> email'[u]]
      BY <3>1, <3>2, <3>3 DEF Link
    <3> QED BY <3>1, <3>4, <3>5
  <2> QED
    BY <2>1, <2>2
    DEF Next, Proceed, SaveSettings, CheckEmail, FindByEmail, Open, LockToken,
        BeginReplace, CommitReplace, Send, Withdraw, Fail, Expire, vars, db
<1>2. IInv /\ [Next]_vars =>
        [\A u \in User : email'[u] # email[u] =>
           LET l == [user |-> u, purpose |-> "email_verify", address |-> email'[u]]
           IN \/ \E t \in delivered : uses'[t] > uses[t] /\ link[t] = l
              \/ \E c \in Client : /\ req[c].at = "checked" /\ ~req[c].confirm
                                  /\ req[c].link = l /\ req'[c] # req[c]]_vars
  BY <1>1
<1> QED BY <1>2, Invariance, PTL DEF Spec, AddressProven

-----------------------------------------------------------------------------
\* A step that only takes links T out of the open ones is a Lapse, or a stutter.
LEMMA Lapses ==
  ASSUME UNCHANGED <<link, email, uses>>,
         \A t \in Token : State(t)' = "open" => State(t) = "open"
  PROVE  Book!Lapse({t \in Token : State(t) = "open" /\ State(t)' # "open"})
<1> DEFINE T == {t \in Token : State(t) = "open" /\ State(t)' # "open"}
<1>1. ASSUME NEW t \in Token
      PROVE  State(t)' = IF t \in T THEN "gone" ELSE State(t)
  <2>1. State(t)' = "used" <=> State(t) = "used"
    BY DEF State, Asked
  <2>2. State(t)' = "new" <=> State(t) = "new"
    BY DEF State, Asked
  <2> QED BY <2>1, <2>2 DEF State, Asked
<1> QED BY <1>1 DEF Book!Lapse

\* Every step is one of the book, or is not visible in it.
LEMMA BookStep == ASSUME IInv, [Next]_vars PROVE [Book!Next]_(Book!vars)
<1> USE NoneAssumption DEF IInv
<1> SUFFICES Book!Next \/ UNCHANGED Book!vars
  OBVIOUS
<1>0. ASSUME UNCHANGED <<link, email, uses>>,
             \A t \in Token : State(t)' = "open" => State(t) = "open"
      PROVE  Book!Next
  <2> DEFINE T == {t \in Token : State(t) = "open" /\ State(t)' # "open"}
  <2>1. T \in SUBSET Token /\ Book!Lapse(T)
    BY <1>0, Lapses
  <2> QED BY <2>1 DEF Book!Next
\* Who waits for a link.
<1>9. \A t \in Token : Opening(t).at = "opening" /\ Opening(t).token = t
  BY Places
<1>10. ASSUME NEW c \in Client, req'[c].at # "opening",
              \A d \in Client \ {c} : req'[d] = req[d]
       PROVE  \A t \in Token : Asked(t)' => Asked(t)
  BY <1>9, <1>10 DEF Asked
<1>11. ASSUME NEW c \in Client, req[c].at # "opening", req'[c].at # "opening",
              \A d \in Client \ {c} : req'[d] = req[d]
       PROVE  \A t \in Token : Asked(t)' <=> Asked(t)
  BY <1>9, <1>11 DEF Asked
<1>1. CASE /\ UNCHANGED <<email, rows, link, lock, expired, uses>>
           /\ \A t \in Token : Asked(t)' <=> Asked(t)
  <2>1. ASSUME NEW t \in Token PROVE State(t)' = State(t)
    BY <1>1 DEF State, Asked
  <2> QED BY <1>1, <2>1 DEF Book!vars
<1>12. ASSUME NEW c \in Client, NEW u \in User,
              FindByEmail(c, u) \/ \E e \in Address : CheckEmail(c, u, e)
       PROVE  Book!Next \/ UNCHANGED Book!vars
  <2>1. UNCHANGED <<email, rows, link, lock, expired, uses>>
    BY <1>12 DEF FindByEmail, CheckEmail, db, history
  <2>2. /\ req[c].at # "opening" /\ req'[c].at # "opening"
        /\ \A d \in Client \ {c} : req'[d] = req[d]
    BY <1>12 DEF FindByEmail, CheckEmail, Goto, TypeOK, Idle, Wanted, Checked
  <2> QED BY <1>1, <1>11, <2>1, <2>2
<1>13. ASSUME NEW c \in Client,
              BeginReplace(c) \/ \E arrives, error \in BOOLEAN : Send(c, arrives, error)
       PROVE  Book!Next \/ UNCHANGED Book!vars
  <2>1. UNCHANGED <<email, rows, link, lock, expired, uses>>
    BY <1>13 DEF BeginReplace, Send, db, history
  <2>2. /\ req[c].at # "opening" /\ req'[c].at # "opening"
        /\ \A d \in Client \ {c} : req'[d] = req[d]
    BY <1>13 DEF BeginReplace, Send, Goto, TypeOK, Idle, Replacing, Unsent
  <2> QED BY <1>1, <1>11, <2>1, <2>2
<1>2. ASSUME NEW c \in Client, UpdateEmail(c) PROVE Book!Next \/ UNCHANGED Book!vars
  <2> DEFINE u == req[c].link.user
             e == req[c].link.address
  <2>1. u \in User /\ e \in Address /\ UNCHANGED <<rows, link, lock, expired, uses>>
    BY <1>2, ReqShape DEF UpdateEmail, Link, history
  <2>5. \A t \in Token : Asked(t)' <=> Asked(t)
    <3>1. /\ req[c].at # "opening" /\ req'[c].at # "opening"
          /\ \A d \in Client \ {c} : req'[d] = req[d]
      BY <1>2 DEF UpdateEmail, Goto, TypeOK, Idle
    <3> QED BY <1>11, <3>1
  <2>2. [t \in Token |-> State(t)]' = [t \in Token |-> State(t)]
    <3>1. ASSUME NEW t \in Token PROVE State(t)' = State(t)
      BY <2>1, <2>5 DEF State, Asked
    <3> QED BY <3>1
  <2>3. CASE Free(e, u)
    <3>1. Book!Bind(u, e)
      BY <1>2, <2>1, <2>2, <2>3 DEF UpdateEmail, Book!Bind, Book!Free, Free
    <3> QED BY <2>1, <3>1 DEF Book!Next
  <2>4. CASE ~Free(e, u)
    BY <1>2, <2>1, <2>2, <2>4 DEF UpdateEmail, Book!vars
  <2> QED BY <2>3, <2>4
<1>3. ASSUME NEW c \in Client, NEW t \in Token, CommitReplace(c, t) PROVE Book!Next
  <2> DEFINE l == req[c].link
             T == req[c].old
  <2>1. l \in Link /\ T \subseteq Token /\ link[t] = None /\ l # None
    BY <1>3, ReqShape DEF CommitReplace
  <2>2. /\ link' = [link EXCEPT ![t] = l]
        /\ rows' = (rows \ T) \cup {t}
        /\ UNCHANGED <<email, lock, expired, uses>>
    BY <1>3 DEF CommitReplace
  <2>10. \A s \in Token : Asked(s)' <=> Asked(s)
    <3>1. /\ req[c].at # "opening" /\ req'[c].at # "opening"
          /\ \A d \in Client \ {c} : req'[d] = req[d]
      BY <1>3 DEF CommitReplace, Goto, TypeOK, Stored
    <3> QED BY <1>11, <3>1
  <2>3. State(t) = "new" /\ t \notin expired /\ ~(uses[t] > 0)
    BY <2>1 DEF State, Asked, Spent, Issued, TypeOK
  <2>4. \A s \in T : /\ link[s] # None /\ s # t
                     /\ link[s].user = l.user /\ link[s].purpose = l.purpose
    BY <1>3, <2>1 DEF CommitReplace, Issued
  <2>5. \A s \in T : State(s) # "new"
    BY <2>1, <2>4 DEF State, Asked
  <2>6. link' \in [Token -> Link \cup {None}] /\ link'[t] = l
    BY <2>1, <2>2 DEF TypeOK
  <2>7. State(t)' = "open"
    BY <2>1, <2>2, <2>3, <2>6 DEF State, Asked
  <2>8. ASSUME NEW s \in Token, s # t
        PROVE  State(s)' = IF s \in T /\ State(s) = "open" THEN "gone" ELSE State(s)
    <3>1. link'[s] = link[s] /\ (s \in rows' <=> s \in rows /\ s \notin T)
      BY <2>2, <2>8 DEF TypeOK
    <3> QED BY <2>2, <2>4, <2>10, <3>1 DEF State, Asked
  <2>9. Book!Issue(t, l, T)
    BY <2>1, <2>2, <2>3, <2>4, <2>5, <2>7, <2>8 DEF Book!Issue
  <2> QED BY <2>1, <2>9 DEF Book!Next, Book!Link, Link, Book!Purposes, Purposes
<1>4. ASSUME NEW c \in Client, Withdraw(c) PROVE Book!Next
  <2>1. rows' \subseteq rows /\ UNCHANGED <<link, email, uses, lock, expired>>
    BY <1>4 DEF Withdraw, history
  <2>2. \A t \in Token : Asked(t)' => Asked(t)
    <3>1. req'[c].at # "opening" /\ \A d \in Client \ {c} : req'[d] = req[d]
      BY <1>4 DEF Withdraw, Goto, TypeOK, Idle
    <3> QED BY <1>10, <3>1
  <2> QED BY <1>0, <2>1, <2>2 DEF State, Asked
<1>5. ASSUME NEW c \in Client, NEW t \in Token, NEW p \in Purposes, Open(c, t, p)
      PROVE  UNCHANGED Book!vars
  <2>1. t \notin expired /\ UNCHANGED <<rows, link, lock, expired, uses, email>>
    BY <1>5 DEF Open, history, db
  <2>2. /\ req'[c] = Opening(t) /\ req[c].at # "opening"
        /\ \A d \in Client \ {c} : req'[d] = req[d]
    BY <1>5 DEF Open, Goto, TypeOK, Idle
  <2>3. \A s \in Token \ {t} : Asked(s)' <=> Asked(s)
    BY <1>9, <2>2 DEF Asked
  <2>4. ASSUME NEW s \in Token PROVE State(s)' = State(s)
    BY <2>1, <2>3 DEF State, Asked
  <2> QED BY <2>1, <2>4 DEF Book!vars
\* The lock takes the place of the question, or the row was no longer good.
<1>14. ASSUME NEW c \in Client, LockToken(c) PROVE Book!Next
  <2>1. UNCHANGED <<rows, link, expired, uses, email>>
    BY <1>14 DEF LockToken, history
  <2>2. \A s \in Token : Asked(s)' => Asked(s)
    <3>1. req'[c].at # "opening" /\ \A d \in Client \ {c} : req'[d] = req[d]
      BY <1>14 DEF LockToken, Goto, TypeOK, Idle, Holding
    <3> QED BY <1>10, <3>1
  <2>3. PICK t \in Token : t = req[c].token
    BY <1>14, ReqShape DEF LockToken
  <2>4. \A s \in Token \ {t} : lock'[s] = lock[s]
    BY <1>14, <2>3 DEF LockToken, TypeOK
  <2>5. State(t)' = "open" => State(t) = "open"
    <3>1. req[c] = Opening(t)
      BY <1>14, <2>3 DEF LockToken, TypeOK, Request, Idle, Opening
    <3>2. Asked(t)
      BY <3>1 DEF Asked
    <3> QED BY <2>1, <3>2 DEF State, Asked
  <2>6. ASSUME NEW s \in Token, s # t PROVE State(s)' = "open" => State(s) = "open"
    BY <2>1, <2>2, <2>4, <2>6 DEF State, Asked
  <2> QED BY <1>0, <2>1, <2>5, <2>6
<1>6. ASSUME NEW c \in Client, Redeem(c) PROVE Book!Next
  <2>0. PICK t \in Token : t = req[c].token
    BY <1>6, ReqShape DEF Redeem
  <2> DEFINE l == link[t]
             ok == l.purpose = "email_verify" => Free(l.address, l.user)
  <2>1. t \in rows /\ lock[t] = c /\ uses[t] = 0 /\ l \in Link /\ l # None
    BY <1>6, <2>0, ReqShape DEF Redeem, Holds, TypeOK
  <2>2. /\ lock' = [lock EXCEPT ![t] = None]
        /\ UNCHANGED <<rows, link, expired>>
    BY <1>6, <2>0 DEF Redeem
  <2>5. \A s \in Token : Asked(s)' <=> Asked(s)
    <3>1. /\ req[c].at # "opening" /\ req'[c].at # "opening"
          /\ \A d \in Client \ {c} : req'[d] = req[d]
      BY <1>6 DEF Redeem, Goto, TypeOK, Idle
    <3> QED BY <1>11, <3>1
  <2>3. CASE ok
    <3>1. uses' = [uses EXCEPT ![t] = @ + 1]
      BY <1>6, <2>0, <2>3 DEF Redeem
    <3>2. uses'[t] = 1 /\ \A s \in Token \ {t} : uses'[s] = uses[s]
      BY <2>1, <3>1 DEF TypeOK
    <3>3. State(t) = "open" /\ State(t)' = "used"
      BY <2>1, <3>2 DEF State, Asked
    <3>4. \A s \in Token \ {t} : State(s)' = State(s)
      BY <2>2, <2>5, <3>2 DEF State, Asked, TypeOK
    <3>5. IF l.purpose = "email_verify"
            THEN Free(l.address, l.user) /\ email' = [email EXCEPT ![l.user] = l.address]
            ELSE UNCHANGED email
      BY <1>6, <2>0, <2>3 DEF Redeem
    <3>6. Book!Redeem(t)
      BY <2>2, <3>3, <3>4, <3>5 DEF Book!Redeem, Book!Free, Free
    <3> QED BY <3>6 DEF Book!Next
  <2>4. CASE ~ok
    <3>1. UNCHANGED <<uses, email>>
      BY <1>6, <2>0, <2>4 DEF Redeem
    <3>2. \A s \in Token : lock[s] = None => lock'[s] = None
      BY <2>2 DEF TypeOK
    <3> QED BY <1>0, <2>2, <2>5, <3>1, <3>2 DEF State, Asked
  <2> QED BY <2>3, <2>4
<1>7. ASSUME NEW c \in Client, Fail(c) PROVE Book!Next
  <2>1. /\ UNCHANGED <<rows, link, expired, uses, email>>
        /\ \A s \in Token : lock[s] = None => lock'[s] = None
    BY <1>7 DEF Fail, history
  <2>2. \A t \in Token : Asked(t)' => Asked(t)
    <3>1. req'[c].at # "opening" /\ \A d \in Client \ {c} : req'[d] = req[d]
      BY <1>7 DEF Fail, Goto, TypeOK, Idle
    <3> QED BY <1>10, <3>1
  <2> QED BY <1>0, <2>1, <2>2 DEF State, Asked
<1>8. ASSUME NEW t \in Token, Expire(t) PROVE Book!Next
  <2>1. UNCHANGED <<rows, link, lock, uses, email, req>> /\ expired \subseteq expired'
    BY <1>8 DEF Expire, db, history
  <2> QED BY <1>0, <2>1 DEF State, Asked
<1>15. CASE UNCHANGED vars \/ \E s \in SettingsChoice : SaveSettings(s)
  <2>1. UNCHANGED <<email, rows, link, lock, expired, uses, req>>
    BY <1>15 DEF SaveSettings, vars, db, history
  <2> QED BY <1>1, <2>1 DEF Asked
<1> QED
  BY <1>2, <1>3, <1>4, <1>5, <1>6, <1>7, <1>8, <1>12, <1>13, <1>14, <1>15
  DEF Next, Proceed

\* The transactions implement the book of links.
THEOREM ImplementsBook == Spec => BookSpec
<1>1. Init => Book!Init
  BY DEF Init, Book!Init, State, Asked, Free, Book!Free
<1> QED BY <1>1, BookStep, Invariance, PTL DEF Spec, BookSpec, Book!Spec
=============================================================================

------------------------------ MODULE LinkBook ------------------------------
(***************************************************************************)
(* What a user may assume of the links the server mails (email             *)
(* confirmation and password reset, internal/repository/token.go): a link  *)
(* is good once, from the moment it is issued until it is used, replaced,  *)
(* withdrawn or lapsed, and it acts on the user and the address it was     *)
(* issued for.  AuthTokens has the transactions and implements this book.  *)
(***************************************************************************)
EXTENDS FiniteSets

CONSTANTS User, Address, Token,
          None  \* no address

VARIABLES state,  \* of each token: "new", "open", "used" or "gone"
          link,   \* what it was issued for, None while it is new
          email   \* verified address of each user, None without one

vars == <<state, link, email>>

Purposes == {"email_verify", "password_reset"}
Link == [user : User, purpose : Purposes, address : Address]

\* idx_users_email_lower: no two rows hold the same address.
Free(e, u) == \A w \in User \ {u} : email[w] # e

Init ==
  /\ state = [t \in Token |-> "new"]
  /\ link = [t \in Token |-> None]
  /\ email \in [User -> Address \cup {None}]
  /\ \A u \in User : email[u] # None => Free(email[u], u)

\* A new link for l; the older links T for the same user and purpose go.
Issue(t, l, T) ==
  /\ state[t] = "new"
  /\ \A s \in T : /\ state[s] # "new"
                   /\ link[s].user = l.user /\ link[s].purpose = l.purpose
  /\ link' = [link EXCEPT ![t] = l]
  /\ state' = [s \in Token |-> IF s = t THEN "open"
                               ELSE IF s \in T /\ state[s] = "open" THEN "gone"
                               ELSE state[s]]
  /\ UNCHANGED email

\* A confirmation binds the address it was mailed to.
Redeem(t) ==
  /\ state[t] = "open"
  /\ state' = [state EXCEPT ![t] = "used"]
  /\ IF link[t].purpose = "email_verify"
       THEN /\ Free(link[t].address, link[t].user)
            /\ email' = [email EXCEPT ![link[t].user] = link[t].address]
       ELSE UNCHANGED email
  /\ UNCHANGED link

\* Some links run out of time or are withdrawn.
Lapse(T) ==
  /\ \A t \in T : state[t] = "open"
  /\ state' = [t \in Token |-> IF t \in T THEN "gone" ELSE state[t]]
  /\ UNCHANGED <<link, email>>

\* An address is bound without a link when confirmation is switched off.
Bind(u, e) ==
  /\ Free(e, u)
  /\ email' = [email EXCEPT ![u] = e]
  /\ UNCHANGED <<state, link>>

Next ==
  \/ \E t \in Token, l \in Link, T \in SUBSET Token : Issue(t, l, T)
  \/ \E t \in Token : Redeem(t)
  \/ \E T \in SUBSET Token : Lapse(T)
  \/ \E u \in User, e \in Address : Bind(u, e)

Spec == Init /\ [][Next]_vars
=============================================================================

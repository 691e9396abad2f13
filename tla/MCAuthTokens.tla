---------------------------- MODULE MCAuthTokens ----------------------------
(* Instance of AuthTokens for TLC. *)
EXTENDS AuthTokens

\* Both users may ask for the first address, one of them for the second, too.
Contested == CHOOSE e \in Address : TRUE
Rover == CHOOSE u \in User : TRUE
Asks(l) == l.user = Rover \/ l.address = Contested
Wishes ==
  /\ \A u \in User \ {Rover} : email[u] \in {Contested, None}
  /\ \A c \in Client : req[c].at = "checked" => Asks(req[c].link)

\* The tokens are handed out in one order: they are random, and which of them
\* comes first is of no account.
InOrder ==
  LET first == CHOOSE t \in Token : TRUE
  IN link[first] = None => \A t \in Token : link[t] = None
=============================================================================

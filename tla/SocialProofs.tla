---------------------------- MODULE SocialProofs ----------------------------
(***************************************************************************)
(* Theorems about follows and friends, for every set of users and of       *)
(* requests: of the server, Social, and then of the page in front of it,   *)
(* PeoplePage, whose steps are steps of Social.                            *)
(***************************************************************************)
EXTENDS PeoplePage, TLAPS

\* The two halves of a pair are the same two people.
LEMMA Halves ==
  ASSUME NEW e \in Pair
  PROVE  /\ Back(e) \in Pair /\ Back(Back(e)) = e
         /\ Both(Back(e)) = Both(e)
         /\ \A f \in Pair : f \in Both(e) <=> Both(f) = Both(e)
BY DEF Pair, Back, Both

LEMMA InitTyped == SocialInit => SocialTypeOK
BY DEF SocialInit, SocialTypeOK, Request

\* Every step keeps the types.
LEMMA TypeStep ==
  ASSUME SocialTypeOK, [SocialNext]_socialVars
  PROVE  SocialTypeOK'
<1> USE DEF SocialTypeOK, Request, Goto, Call
<1>1. ASSUME NEW c \in Client, NEW e \in Pair, Follow(c, e) \/ Unfollow(c, e)
      PROVE  SocialTypeOK'
  BY <1>1 DEF Follow, Unfollow
<1>2. ASSUME NEW c \in Client, Insert(c)
      PROVE  SocialTypeOK'
  BY <1>2 DEF Insert, Idle
<1>3. ASSUME NEW c \in Client, Remove(c)
      PROVE  SocialTypeOK'
  BY <1>3 DEF Remove, Idle
<1>4. ASSUME NEW c \in Client, Answer(c)
      PROVE  SocialTypeOK'
  BY <1>4 DEF Answer, Idle
<1>5. ASSUME NEW c \in Client, Fail(c)
      PROVE  SocialTypeOK'
  BY <1>5 DEF Fail, Idle
<1>6. CASE UNCHANGED socialVars
  BY <1>6 DEF socialVars
<1> QED BY <1>1, <1>2, <1>3, <1>4, <1>5, <1>6 DEF SocialNext, Proceed

\* What each action does to FriendshipTold.
LEMMA ToldStep ==
  ASSUME SocialTypeOK, FriendshipTold, [SocialNext]_socialVars
  PROVE  FriendshipTold'
<1> SUFFICES ASSUME NEW e \in Pair, Friend(e)'
             PROVE  \/ (Both(e) \cap (told \cup lost) # {})'
                    \/ \E d \in Client : Closing(d, e)'
  BY DEF FriendshipTold
<1> DEFINE Known == Both(e) \cap (told \cup lost) # {}
<1>1. ASSUME NEW c \in Client, NEW f \in Pair, Follow(c, f) \/ Unfollow(c, f)
      PROVE  Known' \/ \E d \in Client : Closing(d, e)'
  <2>1. Friend(e) /\ (Known' <=> Known)
    BY <1>1 DEF Follow, Unfollow, Friend
  <2>2. ASSUME NEW d \in Client, Closing(d, e)
        PROVE  Closing(d, e)'
    BY <1>1, <2>2 DEF Follow, Unfollow, Closing, Goto, Call, Idle, SocialTypeOK, Request
  <2> QED BY <2>1, <2>2 DEF FriendshipTold
<1>2. ASSUME NEW c \in Client, Insert(c)
      PROVE  Known' \/ \E d \in Client : Closing(d, e)'
  <2>1. CASE req[c].pair \in Both(e)
    BY <1>2, <2>1 DEF Insert, Closing, Goto, Call, SocialTypeOK
  <2>2. CASE req[c].pair \notin Both(e)
    <3>1. Friend(e) /\ (Known' <=> Known)
      BY <1>2, <2>2 DEF Insert, Friend
    <3>2. ASSUME NEW d \in Client, Closing(d, e)
          PROVE  Closing(d, e)'
      BY <1>2, <3>2 DEF Insert, Closing, Goto, Call, SocialTypeOK
    <3> QED BY <3>1, <3>2 DEF FriendshipTold
  <2> QED BY <2>1, <2>2
<1>3. ASSUME NEW c \in Client, Remove(c)
      PROVE  Known' \/ \E d \in Client : Closing(d, e)'
  <2>1. req[c].pair \in Pair /\ req[c].pair \notin Both(e)
    BY <1>3 DEF Remove, Friend, SocialTypeOK, Request, Idle
  <2>2. Friend(e)
    BY <1>3 DEF Remove, Friend
  <2>3. Both(e) \cap Both(req[c].pair) = {}
    BY <2>1 DEF Pair, Both, Back
  <2>4. Known' <=> Known
    BY <1>3, <2>3 DEF Remove
  <2>5. ASSUME NEW d \in Client, Closing(d, e)
        PROVE  Closing(d, e)'
    BY <1>3, <2>5 DEF Remove, Closing, Goto, Call, SocialTypeOK
  <2> QED BY <2>2, <2>4, <2>5 DEF FriendshipTold
<1>4. ASSUME NEW c \in Client, Answer(c) \/ Fail(c)
      PROVE  Known' \/ \E d \in Client : Closing(d, e)'
  <2>1. Friend(e) /\ (Known => Known')
    BY <1>4 DEF Answer, Fail, Friend
  <2>2. CASE Closing(c, e)
    <3>1. req[c].pair \in Pair /\ Both(req[c].pair) = Both(e)
      BY <2>2, Halves DEF Closing, SocialTypeOK, Request, Idle
    <3>2. Friend(req[c].pair) /\ req[c].pair \in Both(e)
      BY <2>1, <2>2, <3>1 DEF Friend, Closing
    <3>3. req[c].pair \in told' \cup lost'
      BY <1>4, <2>2, <3>2 DEF Answer, Fail, Closing
    <3> QED BY <3>2, <3>3
  <2>3. ASSUME NEW d \in Client, d # c, Closing(d, e)
        PROVE  Closing(d, e)'
    BY <1>4, <2>3 DEF Answer, Fail, Closing, Goto, SocialTypeOK
  <2> QED BY <2>1, <2>2, <2>3 DEF FriendshipTold
<1>5. CASE UNCHANGED socialVars
  <2>1. Friend(e) /\ (Known' <=> Known) /\ \A d \in Client : Closing(d, e)' <=> Closing(d, e)
    BY <1>5 DEF socialVars, Friend, Closing
  <2> QED BY <2>1 DEF FriendshipTold
<1> QED BY <1>1, <1>2, <1>3, <1>4, <1>5 DEF SocialNext, Proceed

\* A friendship that came about in any run of the server was told to one of the
\* two, is about to be told, or its telling was lost with a failed request.
THEOREM Told == SocialSpec => [](SocialTypeOK /\ FriendshipTold)
<1>1. SocialInit => FriendshipTold
  BY DEF SocialInit, FriendshipTold, Friend, Both, Back, Pair
<1>2. SocialTypeOK /\ FriendshipTold /\ [SocialNext]_socialVars
        => (SocialTypeOK /\ FriendshipTold)'
  BY TypeStep, ToldStep
<1> QED BY <1>1, <1>2, InitTyped, PTL DEF SocialSpec

-----------------------------------------------------------------------------
\* The calls that fetch a list.
Lists == Tab \cup {"search"}

\* A call of a page implies the page it was made from, and nobody calls for his
\* own profile.
Mounted(c) ==
  /\ call[c].page =>
       /\ call[c].user \in Viewer /\ page[call[c].user] # Closed
       /\ call[c].kind \in Lists => page[call[c].user].open
       /\ call[c].kind = "person" => ~page[call[c].user].open
  /\ call[c].kind = "person" => call[c].of # call[c].user
AllMounted == \A c \in Client : call[c] # NoCall => Mounted(c)

\* Where the request of a call is, on the server or back from it.
Placed(c) ==
  /\ req[c] # Idle => /\ call[c].kind = "follow" /\ reply[c] = NoReply
                      /\ req[c].pair[1] = call[c].user
  /\ call[c].kind = "follow" /\ reply[c] = NoReply => req[c] # Idle
  /\ reply[c] # NoReply => call[c] # NoCall
AllPlaced == \A c \in Client : Placed(c)

\* Nobody sees himself.
Strangers ==
  /\ \A u \in Viewer : page[u] # Closed => u \notin DOMAIN page[u].rows
  /\ \A c \in Client : reply[c].at \in {"rows", "empty"} /\ call[c].kind # "follow" =>
       call[c].user \notin DOMAIN reply[c].rows

\* A call that was never together with another one is the only one.
Lonely ==
  \A c, d \in Client :
    call[c] # NoCall /\ call[d] # NoCall /\ call[c].user = call[d].user /\ call[c].alone => d = c

\* What rows say of these people is so.
Holds(u, rows, P) == \A t \in P : rows[t] = Following(<<u, t>>)

\* The answer of a call that is alone is still so when it arrives.
Answered ==
  \A c \in Client : call[c] # NoCall /\ call[c].alone /\ reply[c].at = "rows" =>
    Holds(call[c].user, reply[c].rows, DOMAIN reply[c].rows)

\* The rows of a page are so, but for the one a follow is under way for.
Current(u) ==
  LET rows == page[u].rows
  IN /\ (\A c \in Calls(u) : call[c].kind # "follow") => Holds(u, rows, DOMAIN rows)
     /\ \A c \in Calls(u) : call[c].kind = "follow" /\ call[c].alone =>
          /\ reply[c] = NoReply => Holds(u, rows, DOMAIN rows \ {req[c].pair[2]})
          /\ reply[c].at = "rows" => Holds(u, rows, DOMAIN rows \ DOMAIN reply[c].rows)
AllCurrent == \A u \in Viewer \ muddled : page[u] # Closed => Current(u)

\* A list that is fetched alone is for the tab that is shown, and the list that
\* is shown is the last that was fetched.
Headed ==
  \A c \in Client :
    call[c] # NoCall /\ call[c].alone /\ call[c].page /\ call[c].kind \in Tab =>
      page[call[c].user].tab = call[c].kind
Labelled(u) ==
  (\A c \in Calls(u) : call[c].page => call[c].kind \notin Lists) =>
    shown[u] = IF page[u].searching THEN "search" ELSE page[u].tab
AllLabelled == \A u \in Viewer \ (muddled \cup relabelled) : page[u].open => Labelled(u)

-----------------------------------------------------------------------------
\* A call is one of none, or a record with all its fields.
LEMMA CallShape ==
  ASSUME TypeOK, NEW c \in Client
  PROVE  /\ call[c] = NoCall <=> call[c].kind = "none"
         /\ call[c] # NoCall =>
              /\ call[c] \in PageCall
              /\ call[c].kind \in {"following", "friends", "search", "follow", "person"}
              /\ call[c].user \in User /\ call[c].of \in User
              /\ call[c].page \in BOOLEAN /\ call[c].alone \in BOOLEAN
<1>1. \A r \in PageCall :
        /\ r.kind \in {"following", "friends", "search", "follow", "person"}
        /\ r.user \in User /\ r.of \in User /\ r.page \in BOOLEAN /\ r.alone \in BOOLEAN
  BY DEF PageCall
<1>2. NoCall.kind = "none"
  BY DEF NoCall
<1>3. call[c] \in PageCall \/ call[c] = NoCall
  BY DEF TypeOK
<1> QED BY <1>1, <1>2, <1>3

\* So is a reply.
LEMMA ReplyShape ==
  ASSUME TypeOK, NEW c \in Client
  PROVE  /\ reply[c] = NoReply <=> reply[c].at = "none"
         /\ reply[c].at \in {"none", "error", "rows", "empty"}
         /\ reply[c].at \in {"rows", "empty"} => reply[c].rows \in Rows
<1>1. \A r \in Reply : /\ r.at \in {"error", "rows", "empty"}
                       /\ r.at \in {"rows", "empty"} => r.rows \in Rows
  BY DEF Reply
<1>2. NoReply.at = "none"
  BY DEF NoReply
<1>3. reply[c] \in Reply \/ reply[c] = NoReply
  BY DEF TypeOK
<1> QED BY <1>1, <1>2, <1>3

\* What is in front of a viewer is a list, a profile, or another page.
LEMMA PageShape ==
  ASSUME TypeOK, NEW u \in Viewer
  PROVE  /\ page[u] = Closed => ~page[u].open
         /\ page[u].open => /\ page[u] \in Page /\ page[u] # Closed /\ page[u].rows \in Rows
                            /\ page[u].tab \in Tab /\ page[u].initial \in Tab
                            /\ page[u].searching \in BOOLEAN /\ page[u].loading \in BOOLEAN
         /\ page[u] # Closed /\ ~page[u].open => page[u] \in Profile /\ page[u].rows \in Rows
         /\ page[u].open \in BOOLEAN
<1>1. \A p \in Page : /\ p.open = TRUE /\ p.rows \in Rows /\ p.tab \in Tab /\ p.initial \in Tab
                      /\ p.searching \in BOOLEAN /\ p.loading \in BOOLEAN
  BY DEF Page
<1>2. \A p \in Profile : p.open = FALSE /\ p.rows \in Rows
  BY DEF Profile
<1>3. Closed.open = FALSE
  BY DEF Closed
<1>4. page[u] \in Page \/ page[u] \in Profile \/ page[u] = Closed
  BY DEF TypeOK
<1> QED BY <1>1, <1>2, <1>3, <1>4

\* A profile is not a page that is closed.
LEMMA ProfileOpen == Closed \notin Page /\ Closed \notin Profile
<1>1. Closed \notin Page
  BY DEF Closed, Page
<1>2. ASSUME Closed \in Profile PROVE FALSE
  <2>1. DOMAIN Closed = {"open", "uid", "rows"}
    BY <1>2 DEF Profile
  <2> QED BY <2>1 DEF Closed
<1> QED BY <1>1, <1>2

\* Rows of people.
LEMMA RowsShape ==
  /\ \A rows \in Rows : DOMAIN rows \subseteq User /\ rows \in [DOMAIN rows -> BOOLEAN]
  /\ NoRows \in Rows /\ DOMAIN NoRows = {}
  /\ \A u \in User, P \in SUBSET User :
       RowsOf(u, P) \in Rows /\ DOMAIN RowsOf(u, P) = P /\ Holds(u, RowsOf(u, P), P)
  /\ \A rows \in Rows, news \in Rows :
       Merged(rows, news) \in Rows /\ DOMAIN Merged(rows, news) = DOMAIN rows
<1>1. \A rows \in Rows : DOMAIN rows \subseteq User /\ rows \in [DOMAIN rows -> BOOLEAN]
  BY DEF Rows
<1>2. \A P \in SUBSET User : \A rows \in [P -> BOOLEAN] : rows \in Rows
  BY DEF Rows
<1>3. NoRows \in Rows /\ DOMAIN NoRows = {}
  <2>1. NoRows \in [{} -> BOOLEAN] /\ DOMAIN NoRows = {}
    BY DEF NoRows
  <2> QED BY <1>2, <2>1
<1>4. ASSUME NEW u \in User, NEW P \in SUBSET User
      PROVE  RowsOf(u, P) \in Rows /\ DOMAIN RowsOf(u, P) = P /\ Holds(u, RowsOf(u, P), P)
  <2>1. RowsOf(u, P) \in [P -> BOOLEAN]
    BY DEF RowsOf, Following
  <2>2. DOMAIN RowsOf(u, P) = P /\ Holds(u, RowsOf(u, P), P)
    BY DEF RowsOf, Holds
  <2> QED BY <1>2, <2>1, <2>2
<1>5. ASSUME NEW rows \in Rows, NEW news \in Rows
      PROVE  Merged(rows, news) \in Rows /\ DOMAIN Merged(rows, news) = DOMAIN rows
  <2>1. Merged(rows, news) \in [DOMAIN rows -> BOOLEAN]
    BY <1>1 DEF Merged
  <2> QED BY <1>1, <1>2, <2>1
<1> QED BY <1>1, <1>3, <1>4, <1>5

\* Every step of the page is a step of the server, or none for it.
LEMMA ServerStep ==
  ASSUME TypeOK, Strangers, [Next]_vars
  PROVE  [SocialNext]_socialVars
<1>1. ASSUME NEW c \in Client, NEW u \in Viewer, NEW t \in User, Toggle(c, u, t)
      PROVE  SocialNext
  <2>1. <<u, t>> \in Pair
    BY <1>1, ViewerAssumption DEF Toggle, Strangers, Pair
  <2> QED BY <1>1, <2>1 DEF Toggle, SocialNext
<1>2. ASSUME NEW c \in Client, NEW e \in Pair, Elsewhere(c, e)
      PROVE  SocialNext
  BY <1>2 DEF Elsewhere, SocialNext
<1>3. ASSUME NEW c \in Client, WriteFollow(c) \/ ReadFollow(c) \/ FailCall(c)
      PROVE  SocialNext \/ UNCHANGED socialVars
  BY <1>3 DEF WriteFollow, ReadFollow, FailCall, SocialNext, Proceed
<1>4. ASSUME NEW c \in Client, Deliver(c), ~(WriteFollow(c) \/ ReadFollow(c))
      PROVE  UNCHANGED socialVars
  BY <1>4 DEF Deliver, ReadList, ReadPerson, PersonArrives, ListArrives, RowArrives, ErrorArrives,
              EmptyArrives, Ignored
<1>5. ASSUME NEW c \in Client, NEW u \in Viewer, Click(c, u), ~\E t \in User : Toggle(c, u, t)
      PROVE  UNCHANGED socialVars
  BY <1>5 DEF Click, Open, SetTab, OpenSocial, Search, Reload, OpenProfile
<1>6. ASSUME NEW u \in Viewer, Close(u)
      PROVE  UNCHANGED socialVars
  BY <1>6 DEF Close
<1>7. ASSUME NEW c \in Client, CutBody(c)
      PROVE  UNCHANGED socialVars
  BY <1>7 DEF CutBody
<1>8. CASE UNCHANGED vars
  BY <1>8 DEF vars
<1> QED BY <1>1, <1>2, <1>3, <1>4, <1>5, <1>6, <1>7, <1>8 DEF Next

-----------------------------------------------------------------------------
CallsTyped == call' \in [Client -> PageCall \cup {NoCall}]

\* Call d may have lost its page, and its being alone.
Kept(d) ==
  /\ call'[d] = NoCall <=> call[d] = NoCall
  /\ call'[d].kind = call[d].kind /\ call'[d].user = call[d].user /\ call'[d].of = call[d].of
  /\ call'[d].page => call[d].page
  /\ call'[d].alone => call[d].alone

LEMMA Lowered ==
  ASSUME TypeOK, NEW d \in Client, call[d] # NoCall,
         NEW p \in BOOLEAN, NEW a \in BOOLEAN, p => call[d].page, a => call[d].alone,
         call'[d] = [call[d] EXCEPT !.page = p, !.alone = a]
  PROVE  /\ call'[d] \in PageCall /\ Kept(d) /\ call'[d].page = p /\ call'[d].alone = a
<1>1. call[d] \in PageCall
  BY CallShape
<1>2. /\ call'[d] \in PageCall
      /\ call'[d].kind = call[d].kind /\ call'[d].user = call[d].user /\ call'[d].of = call[d].of
      /\ call'[d].page = p /\ call'[d].alone = a
  BY <1>1 DEF PageCall
<1>3. call'[d] # NoCall
  BY <1>2 DEF PageCall, NoCall
<1> QED BY <1>2, <1>3 DEF Kept

\* User u makes call c.
Started(c, u) ==
  /\ call[c] = NoCall /\ call'[c] \in PageCall /\ call'[c] # NoCall
  /\ call'[c].user = u /\ (call'[c].alone <=> Calls(u) = {})
  /\ \A d \in Client \ {c} :
       IF d \in Calls(u) THEN Kept(d) /\ ~call'[d].alone ELSE call'[d] = call[d]
  /\ CallsTyped

LEMMA NewCalls ==
  /\ NoCall \notin PageCall
  /\ \A u \in User, t \in User, k \in {"following", "friends", "search", "follow", "person"},
        p \in BOOLEAN, a \in BOOLEAN :
       [kind |-> k, user |-> u, of |-> t, page |-> p, alone |-> a] \in PageCall
  BY DEF NoCall, PageCall

LEMMA Begun ==
  ASSUME TypeOK, NEW c \in Client, NEW u \in User,
         NEW k \in {"following", "friends", "search", "follow"}, NEW p \in BOOLEAN, Begin(c, u, k, p)
  PROVE  /\ Started(c, u) /\ call'[c].kind = k /\ call'[c].page = p
         /\ \A d \in Calls(u) : call'[d].page = call[d].page
<1> DEFINE new == [kind |-> k, user |-> u, of |-> u, page |-> p, alone |-> Calls(u) = {}]
<1>1. new \in PageCall /\ new # NoCall
  <2>1. new \in PageCall
    BY DEF PageCall
  <2> QED BY <2>1, NewCalls
<1>2. /\ call[c] = NoCall /\ call'[c] = new
      /\ new.kind = k /\ new.user = u /\ new.page = p /\ new.alone = (Calls(u) = {})
  BY DEF Begin
<1>3. ASSUME NEW d \in Client \ {c}
      PROVE  /\ IF d \in Calls(u) THEN Kept(d) /\ ~call'[d].alone ELSE call'[d] = call[d]
             /\ call'[d] \in PageCall \cup {NoCall}
             /\ d \in Calls(u) => call'[d].page = call[d].page
  <2>1. CASE d \in Calls(u)
    <3>1. call[d] # NoCall /\ call'[d] = [call[d] EXCEPT !.alone = FALSE]
      BY <2>1 DEF Begin, Calls
    <3>2. call[d] \in PageCall /\ call[d].page \in BOOLEAN
      BY <3>1, CallShape
    <3>3. call'[d] = [call[d] EXCEPT !.page = call[d].page, !.alone = FALSE]
      BY <3>1, <3>2 DEF PageCall
    <3> QED BY <2>1, <3>1, <3>2, <3>3, Lowered
  <2>2. CASE d \notin Calls(u)
    BY <2>2 DEF Begin, TypeOK
  <2> QED BY <2>1, <2>2
<1>4. CallsTyped
  <2>1. call' = [d \in Client |-> call'[d]]
    BY DEF Begin
  <2> QED BY <1>1, <1>2, <1>3, <2>1 DEF CallsTyped
<1>5. \A d \in Calls(u) : d \in Client \ {c}
  BY <1>2 DEF Calls
<1> HIDE DEF new
<1> QED BY <1>1, <1>2, <1>3, <1>4, <1>5 DEF Started

\* Something else is put in front of a viewer.
LEMMA Looking ==
  ASSUME TypeOK, NEW u \in Viewer, NEW p, page' = [page EXCEPT ![u] = p]
  PROVE  /\ page'[u] = p /\ \A v \in Viewer \ {u} : page'[v] = page[v]
         /\ p \in Page \cup Profile \cup {Closed} =>
              page' \in [Viewer -> Page \cup Profile \cup {Closed}]
  BY DEF TypeOK

\* What is in front of the others stays.
Elsewise(u) == \A v \in Viewer \ {u} : page'[v] = page[v]
PagesTyped == page' \in [Viewer -> Page \cup Profile \cup {Closed}]

\* A list or a profile is fetched.
Fetching(c, u) ==
  /\ Started(c, u)
  /\ call'[c].page /\ call'[c].kind \in Lists \cup {"person"}
  /\ call'[c].kind = "person" => call'[c].of # u
  /\ page'[u] # Closed /\ (page'[u].open <=> call'[c].kind \in Lists)
  /\ call'[c].kind \in Tab => page'[u].tab = call'[c].kind
  /\ page'[u].rows = NoRows \/ (page[u].open /\ page'[u].rows = page[u].rows)
  /\ \A d \in Calls(u) : call'[d].page /\ page[u] # Closed => page[u].open /\ page'[u].open
  /\ Elsewise(u) /\ PagesTyped
  /\ UNCHANGED <<socialVars, reply, muddled>>
  /\ relabelled' \ {u} = relabelled \ {u} /\ relabelled' \subseteq Viewer
  /\ shown' \in [Viewer -> Tab \cup {"search", "nothing"}]
  /\ \A v \in Viewer \ {u} : shown'[v] = shown[v]

\* The menu opens the tab that is shown.
Staying(u) ==
  /\ page[u].open /\ page'[u].open /\ page'[u].rows = page[u].rows /\ page'[u].tab = page[u].tab
  /\ page'[u].searching = page[u].searching \/ u \in relabelled'
  /\ Elsewise(u) /\ PagesTyped
  /\ UNCHANGED <<socialVars, call, reply, muddled, shown>>
  /\ relabelled \subseteq relabelled' /\ relabelled' \ {u} = relabelled \ {u}
  /\ relabelled' \subseteq Viewer

\* User u follows somebody, or ceases to.
Asking(c, u) ==
  /\ Started(c, u)
  /\ call'[c].kind = "follow"
  /\ call'[c].page => u \in Viewer /\ page[u] # Closed
  /\ req'[c] # Idle /\ req'[c].pair[1] = u
  /\ \A d \in Client \ {c} : req'[d] = req[d]
  /\ \A d \in Calls(u) : call'[d].page = call[d].page
  /\ UNCHANGED <<follows, page, reply, history>>

LEMMA Asks ==
  ASSUME TypeOK, NEW c \in Client, NEW e \in Pair, NEW p \in BOOLEAN,
         Begin(c, e[1], "follow", p), Follow(c, e) \/ Unfollow(c, e),
         p => e[1] \in Viewer /\ page[e[1]] # Closed, UNCHANGED <<page, reply, history>>
  PROVE  Asking(c, e[1])
<1>1. e[1] \in User
  BY DEF Pair
<1>2. /\ Started(c, e[1]) /\ call'[c].kind = "follow" /\ call'[c].page = p
      /\ \A d \in Calls(e[1]) : call'[d].page = call[d].page
  BY <1>1, Begun
<1>3. /\ req'[c].at \in {"follow", "unfollow"} /\ req'[c].pair = e
      /\ \A d \in Client \ {c} : req'[d] = req[d]
      /\ follows' = follows
  BY DEF Follow, Unfollow, Goto, Call, TypeOK, SocialTypeOK
<1>4. req'[c] # Idle
  BY <1>3 DEF Idle
<1> QED BY <1>2, <1>3, <1>4 DEF Asking

\* What each click amounts to.
LEMMA Clicks ==
  ASSUME TypeOK, AllMounted, Strangers, NEW c \in Client, NEW u \in Viewer, Click(c, u)
  PROVE  Fetching(c, u) \/ Staying(u) \/ Asking(c, u)
<1> USE DEF Lists, Tab
<1>1. u \in User /\ (page[u].open => page[u] \in Page /\ page[u].rows \in Rows) /\ page[u].open \in BOOLEAN
  BY ViewerAssumption, PageShape
<1>2. page[u].open => page[u] # Closed
  BY PageShape
\* A list that replaces what was there.
<1>3. ASSUME NEW k \in Lists, NEW p \in Page, Begin(c, u, k, TRUE), page' = [page EXCEPT ![u] = p],
             p.rows = NoRows \/ (page[u].open /\ p.rows = page[u].rows),
             k \in Tab => p.tab = k, page[u] # Closed => page[u].open,
             UNCHANGED <<socialVars, reply, muddled>>,
             relabelled' \ {u} = relabelled \ {u} /\ relabelled' \subseteq Viewer,
             shown' \in [Viewer -> Tab \cup {"search", "nothing"}],
             \A v \in Viewer \ {u} : shown'[v] = shown[v]
      PROVE  Fetching(c, u)
  <2>1. Started(c, u) /\ call'[c].kind = k /\ call'[c].page
    BY <1>1, <1>3, Begun
  <2>2. p.open /\ p # Closed
    BY <1>3, ProfileOpen DEF Page
  <2>3. page'[u] = p /\ Elsewise(u) /\ PagesTyped
    BY <1>3, Looking DEF Elsewise, PagesTyped
  <2> QED BY <1>3, <2>1, <2>2, <2>3 DEF Fetching
<1>4. shown \in [Viewer -> Tab \cup {"search", "nothing"}] /\ relabelled \subseteq Viewer
  BY DEF TypeOK
<1>5. ASSUME NEW t \in Tab, Open(c, u, t)
      PROVE  Fetching(c, u)
  <2> DEFINE p == [open |-> TRUE, initial |-> t, tab |-> t, searching |-> FALSE,
                   loading |-> TRUE, rows |-> NoRows]
  <2>1. p \in Page /\ p.rows = NoRows /\ p.tab = t
    BY RowsShape DEF Page
  <2>2. page' = [page EXCEPT ![u] = p] /\ Begin(c, u, t, TRUE)
    BY <1>5 DEF Open
  <2>3. /\ UNCHANGED <<socialVars, reply, muddled>> /\ relabelled' = relabelled \ {u}
        /\ shown' = [shown EXCEPT ![u] = "nothing"] /\ page[u] = Closed
    BY <1>5 DEF Open
  <2> HIDE DEF p
  <2>4. relabelled' \ {u} = relabelled \ {u} /\ relabelled' \subseteq Viewer
    BY <1>4, <2>3
  <2>5. /\ shown' \in [Viewer -> Tab \cup {"search", "nothing"}]
        /\ \A v \in Viewer \ {u} : shown'[v] = shown[v]
    BY <1>4, <2>3
  <2> QED BY <1>3, <2>1, <2>2, <2>3, <2>4, <2>5
<1>6. ASSUME NEW t \in Tab, SetTab(c, u, t)
      PROVE  Fetching(c, u)
  <2> DEFINE p == [page[u] EXCEPT !.tab = t, !.loading = TRUE]
  <2>1. page[u].open /\ p \in Page /\ p.rows = page[u].rows /\ p.tab = t
    BY <1>1, <1>6 DEF SetTab, Page
  <2>2. page' = [page EXCEPT ![u] = p] /\ Begin(c, u, t, TRUE) /\ UNCHANGED <<socialVars, reply, history>>
    BY <1>1, <1>6, <2>1 DEF SetTab, Page, TypeOK
  <2> HIDE DEF p
  <2> QED BY <1>2, <1>3, <1>4, <2>1, <2>2 DEF history
<1>7. ASSUME NEW t \in Tab, OpenSocial(c, u, t)
      PROVE  Fetching(c, u) \/ Staying(u)
  <2>1. CASE page[u].tab = t
    <3> DEFINE p == [page[u] EXCEPT !.initial = t, !.searching = FALSE]
    <3>1. /\ page[u].open /\ p \in Page /\ p.rows = page[u].rows /\ p.tab = page[u].tab
          /\ p.searching = FALSE /\ p.open
      BY <1>1, <1>7 DEF OpenSocial, Page
    <3>2. /\ page' = [page EXCEPT ![u] = p] /\ UNCHANGED <<socialVars, call, reply, muddled, shown>>
          /\ relabelled' = IF page[u].searching THEN relabelled \cup {u} ELSE relabelled
      BY <1>1, <1>7, <2>1, <3>1 DEF OpenSocial, Page, TypeOK
    <3> HIDE DEF p
    <3>3. page'[u] = p /\ Elsewise(u) /\ PagesTyped
      BY <3>1, <3>2, Looking DEF Elsewise, PagesTyped
    <3>4. page[u].searching \in BOOLEAN
      BY <3>1, PageShape
    <3> QED BY <1>4, <3>1, <3>2, <3>3, <3>4 DEF Staying
  <2>2. CASE page[u].tab # t
    <3> DEFINE p == [page[u] EXCEPT !.initial = t, !.tab = t, !.searching = FALSE, !.loading = TRUE]
    <3>1. page[u].open /\ p \in Page /\ p.rows = page[u].rows /\ p.tab = t
      BY <1>1, <1>7 DEF OpenSocial, Page
    <3>2. /\ page' = [page EXCEPT ![u] = p] /\ Begin(c, u, t, TRUE)
          /\ UNCHANGED <<socialVars, reply, history>>
      BY <1>1, <1>7, <2>2, <3>1 DEF OpenSocial, Page, TypeOK, history
    <3> HIDE DEF p
    <3> QED BY <1>2, <1>3, <1>4, <3>1, <3>2 DEF history
  <2> QED BY <2>1, <2>2
<1>8. CASE Search(c, u)
  <2> DEFINE p == [page[u] EXCEPT !.loading = TRUE]
  <2>1. page[u].open /\ p \in Page /\ p.rows = page[u].rows
    BY <1>1, <1>8 DEF Search, Page
  <2>2. /\ page' = [page EXCEPT ![u] = p] /\ Begin(c, u, "search", TRUE)
        /\ UNCHANGED <<socialVars, reply, history>>
    BY <1>8 DEF Search
  <2> HIDE DEF p
  <2> QED BY <1>2, <1>3, <1>4, <2>1, <2>2 DEF history
<1>9. CASE Reload(c, u)
  <2> DEFINE p == [page[u] EXCEPT !.loading = TRUE]
  <2>1. page[u].open /\ p \in Page /\ p.rows = page[u].rows /\ p.tab = page[u].tab /\ page[u].tab \in Tab
    BY <1>1, <1>9 DEF Reload, Page
  <2>2. /\ page' = [page EXCEPT ![u] = p] /\ Begin(c, u, page[u].tab, TRUE)
        /\ UNCHANGED <<socialVars, reply, history>>
    BY <1>9 DEF Reload
  <2> HIDE DEF p
  <2> QED BY <1>2, <1>3, <1>4, <2>1, <2>2 DEF history
<1>10. ASSUME NEW t \in User, Toggle(c, u, t)
       PROVE  Asking(c, u)
  <2>1. <<u, t>> \in Pair
    BY <1>1, <1>10 DEF Toggle, Strangers, Pair
  <2> DEFINE e == <<u, t>>
  <2>2. /\ e \in Pair /\ e[1] = u /\ Begin(c, e[1], "follow", TRUE)
        /\ Follow(c, e) \/ Unfollow(c, e)
        /\ page[u] # Closed /\ UNCHANGED <<page, reply, history>>
    BY <1>10, <2>1 DEF Toggle
  <2> HIDE DEF e
  <2> QED BY <2>2, Asks
<1>11. ASSUME NEW t \in User, OpenProfile(c, u, t)
       PROVE  Fetching(c, u)
  <2> DEFINE p == [open |-> FALSE, uid |-> t, rows |-> NoRows]
             new == [kind |-> "person", user |-> u, of |-> t, page |-> TRUE,
                     alone |-> Calls(u) = {}]
  <2>1. p \in Profile /\ p.rows = NoRows /\ ~p.open
    BY RowsShape DEF Profile
  <2>2. /\ page' = [page EXCEPT ![u] = p] /\ page[u].open /\ t # u
        /\ UNCHANGED <<socialVars, reply, history>>
    BY <1>2, <1>11 DEF OpenProfile, Strangers
  <2>3. new \in PageCall
    BY <1>1 DEF PageCall
  <2>4. /\ call[c] = NoCall /\ call'[c] = new /\ new # NoCall
        /\ new.kind = "person" /\ new.user = u /\ new.of = t /\ new.page = TRUE
        /\ new.alone = (Calls(u) = {})
    BY <1>11, <2>3, NewCalls DEF OpenProfile
  <2>5. ASSUME NEW d \in Client \ {c}
        PROVE  /\ IF d \in Calls(u) THEN Kept(d) /\ ~call'[d].alone /\ ~call'[d].page
                                    ELSE call'[d] = call[d]
               /\ call'[d] \in PageCall \cup {NoCall}
    <3>1. CASE d \in Calls(u)
      <4>1. call[d] # NoCall /\ call'[d] = [call[d] EXCEPT !.alone = FALSE, !.page = FALSE]
        BY <1>11, <3>1 DEF OpenProfile, Calls
      <4>2. call'[d] = [call[d] EXCEPT !.page = FALSE, !.alone = FALSE]
        BY <4>1, CallShape DEF PageCall
      <4> QED BY <3>1, <4>1, <4>2, Lowered
    <3>2. CASE d \notin Calls(u)
      BY <1>11, <3>2 DEF OpenProfile, TypeOK
    <3> QED BY <3>1, <3>2
  <2> HIDE DEF new, p
  <2>6. CallsTyped
    <3>1. call' = [d \in Client |-> call'[d]]
      BY <1>11 DEF OpenProfile
    <3> QED BY <2>3, <2>4, <2>5, <3>1 DEF CallsTyped
  <2>7. \A d \in Calls(u) : d \in Client \ {c} /\ ~call'[d].page
    BY <2>4, <2>5 DEF Calls
  <2>8. Started(c, u)
    BY <2>3, <2>4, <2>5, <2>6 DEF Started
  <2>9. page'[u] = p /\ Elsewise(u) /\ PagesTyped
    BY <2>1, <2>2, Looking DEF Elsewise, PagesTyped
  <2>10. p # Closed
    BY <2>1, ProfileOpen
  <2>11. /\ call'[c].page /\ call'[c].kind \in Lists \cup {"person"} /\ call'[c].kind \notin Tab
         /\ call'[c].of # u /\ call'[c].kind \notin Lists
    BY <2>2, <2>4
  <2>12. page'[u] # Closed /\ ~page'[u].open /\ page'[u].rows = NoRows
    BY <2>1, <2>9, <2>10
  <2>13. /\ relabelled' \ {u} = relabelled \ {u} /\ relabelled' \subseteq Viewer
         /\ shown' \in [Viewer -> Tab \cup {"search", "nothing"}]
         /\ \A v \in Viewer \ {u} : shown'[v] = shown[v]
         /\ UNCHANGED <<socialVars, reply, muddled>>
    BY <1>4, <2>2 DEF history
  <2> QED BY <2>7, <2>8, <2>9, <2>11, <2>12, <2>13 DEF Fetching
<1> QED BY <1>5, <1>6, <1>7, <1>8, <1>9, <1>10, <1>11 DEF Click

\* The server, or the network, works on call c.
Serving(c) ==
  /\ UNCHANGED <<call, page, history>> /\ call[c] # NoCall
  /\ \A d \in Client \ {c} : req'[d] = req[d] /\ reply'[d] = reply[d]
  /\ reply' \in [Client -> Reply \cup {NoReply}]

\* A list, or a person, is read.
Read(c) ==
  /\ call[c].kind \in Lists \cup {"person"} /\ reply[c] = NoReply /\ UNCHANGED socialVars
  /\ reply'[c].at = "rows"
  /\ \E P \in SUBSET User : call[c].user \notin P /\ reply'[c].rows = RowsOf(call[c].user, P)
\* A follow is written, and read back.
Written(c) ==
  /\ call[c].kind = "follow" /\ reply' = reply
  /\ req[c] # Idle /\ req'[c] # Idle /\ req'[c].pair = req[c].pair
  /\ follows' \ {req[c].pair} = follows \ {req[c].pair}
ReadBack(c) ==
  /\ call[c].kind = "follow" /\ reply[c] = NoReply /\ follows' = follows
  /\ req[c] # Idle /\ req'[c] = Idle
  /\ reply'[c].at = "rows" /\ reply'[c].rows = RowsOf(call[c].user, {req[c].pair[2]})
Failed(c) ==
  /\ reply[c] = NoReply /\ follows' = follows /\ req'[c] = Idle /\ reply'[c].at = "error"
Cut(c) ==
  /\ reply[c].at = "rows" /\ UNCHANGED socialVars
  /\ reply'[c].at = "empty" /\ reply'[c].rows = reply[c].rows

LEMMA Replies ==
  ASSUME TypeOK, NEW c \in Client, NEW r \in Reply, reply' = [reply EXCEPT ![c] = r]
  PROVE  /\ reply'[c] = r /\ \A d \in Client \ {c} : reply'[d] = reply[d]
         /\ reply' \in [Client -> Reply \cup {NoReply}]
  BY DEF TypeOK

LEMMA RowsReply ==
  /\ \A rows \in Rows : /\ [at |-> "rows", rows |-> rows] \in Reply
                        /\ [at |-> "rows", rows |-> rows].at = "rows"
                        /\ [at |-> "rows", rows |-> rows].rows = rows
  /\ [at |-> "error"] \in Reply /\ [at |-> "error"].at = "error"
  BY DEF Reply

LEMMA PairShape ==
  ASSUME TypeOK, NEW c \in Client, req[c] # Idle
  PROVE  req[c].pair \in Pair /\ req[c].pair[1] \in User /\ req[c].pair[2] \in User
  BY DEF TypeOK, SocialTypeOK, Request, Pair

LEMMA Serves ==
  ASSUME TypeOK, AllMounted, AllPlaced, NEW c \in Client,
         \/ \E P \in SUBSET User : ReadList(c, P)
         \/ ReadPerson(c) \/ WriteFollow(c) \/ ReadFollow(c) \/ FailCall(c) \/ CutBody(c)
  PROVE  Serving(c) /\ (Read(c) \/ Written(c) \/ ReadBack(c) \/ Failed(c) \/ Cut(c))
<1>0. Placed(c)
  BY DEF AllPlaced
<1>1. ASSUME NEW P \in SUBSET User, ReadList(c, P)
      PROVE  Serving(c) /\ Read(c)
  <2> DEFINE rows == RowsOf(call[c].user, P)
             r == [at |-> "rows", rows |-> rows]
  <2>1. call[c].kind \in Lists /\ call[c] # NoCall /\ call[c].user \in User
    BY <1>1, CallShape DEF ReadList, Lists, Tab
  <2>2. r \in Reply /\ r.at = "rows" /\ r.rows = rows
    BY <2>1, RowsShape, RowsReply
  <2>3. /\ reply' = [reply EXCEPT ![c] = r] /\ UNCHANGED <<socialVars, page, call, history>>
        /\ reply[c] = NoReply /\ call[c].user \notin P
    BY <1>1 DEF ReadList
  <2> HIDE DEF r
  <2>4. /\ reply'[c] = r /\ \A d \in Client \ {c} : reply'[d] = reply[d]
        /\ reply' \in [Client -> Reply \cup {NoReply}]
    BY <2>2, <2>3, Replies
  <2> QED BY <2>1, <2>2, <2>3, <2>4 DEF Serving, Read, socialVars
<1>2. CASE ReadPerson(c)
  <2> DEFINE P == {call[c].of}
             rows == RowsOf(call[c].user, P)
             r == [at |-> "rows", rows |-> rows]
  <2>1. /\ call[c].kind = "person" /\ call[c] # NoCall /\ call[c].user \in User /\ P \in SUBSET User
    BY <1>2, CallShape DEF ReadPerson
  <2>2. r \in Reply /\ r.at = "rows" /\ r.rows = rows
    BY <2>1, RowsShape, RowsReply
  <2>3. /\ reply' = [reply EXCEPT ![c] = r] /\ UNCHANGED <<socialVars, page, call, history>>
        /\ reply[c] = NoReply
    BY <1>2 DEF ReadPerson
  <2>4. call[c].user \notin P
    BY <2>1 DEF AllMounted, Mounted
  <2> HIDE DEF r, P
  <2>5. /\ reply'[c] = r /\ \A d \in Client \ {c} : reply'[d] = reply[d]
        /\ reply' \in [Client -> Reply \cup {NoReply}]
    BY <2>2, <2>3, Replies
  <2> QED BY <2>1, <2>2, <2>3, <2>4, <2>5 DEF Serving, Read, socialVars
<1>3. CASE WriteFollow(c)
  <2>1. req[c] # Idle
    BY <1>3 DEF WriteFollow, Insert, Remove, Idle
  <2>2. /\ req'[c].at \in {"followed", "unfollowed"} /\ req'[c].pair = req[c].pair
        /\ \A d \in Client \ {c} : req'[d] = req[d]
    BY <1>3 DEF WriteFollow, Insert, Remove, Goto, Call, TypeOK, SocialTypeOK
  <2>3. req'[c] # Idle
    BY <2>2 DEF Idle
  <2>4. follows' \ {req[c].pair} = follows \ {req[c].pair}
    BY <1>3 DEF WriteFollow, Insert, Remove
  <2>5. call[c].kind = "follow" /\ call[c] # NoCall
    BY <1>0, <2>1, CallShape DEF Placed
  <2>6. UNCHANGED <<page, call, reply, history>> /\ reply \in [Client -> Reply \cup {NoReply}]
    BY <1>3 DEF WriteFollow, TypeOK
  <2> QED BY <2>1, <2>2, <2>3, <2>4, <2>5, <2>6 DEF Serving, Written
<1>4. CASE ReadFollow(c)
  <2> DEFINE P == {req[c].pair[2]}
             rows == RowsOf(call[c].user, P)
             r == [at |-> "rows", rows |-> rows]
  <2>1. req[c] # Idle
    BY <1>4 DEF ReadFollow, Answer, Idle
  <2>2. call[c].kind = "follow" /\ call[c] # NoCall /\ reply[c] = NoReply /\ call[c].user \in User
    BY <1>0, <2>1, CallShape DEF Placed
  <2>3. P \in SUBSET User
    BY <2>1, PairShape
  <2>4. r \in Reply /\ r.at = "rows" /\ r.rows = rows
    BY <2>2, <2>3, RowsShape, RowsReply
  <2>5. /\ reply' = [reply EXCEPT ![c] = r] /\ UNCHANGED <<page, call, history>>
        /\ follows' = follows /\ req' = [req EXCEPT ![c] = Idle]
    BY <1>4 DEF ReadFollow, Answer, Goto
  <2> HIDE DEF r, P
  <2>6. /\ reply'[c] = r /\ \A d \in Client \ {c} : reply'[d] = reply[d]
        /\ reply' \in [Client -> Reply \cup {NoReply}]
    BY <2>4, <2>5, Replies
  <2>7. req'[c] = Idle /\ \A d \in Client \ {c} : req'[d] = req[d]
    BY <2>5 DEF TypeOK, SocialTypeOK
  <2> QED BY <2>1, <2>2, <2>4, <2>5, <2>6, <2>7 DEF Serving, ReadBack, P
<1>5. CASE FailCall(c)
  <2>1. /\ reply' = [reply EXCEPT ![c] = [at |-> "error"]] /\ UNCHANGED <<page, call, history>>
        /\ call[c] # NoCall /\ reply[c] = NoReply
    BY <1>5 DEF FailCall
  <2>2. /\ reply'[c].at = "error" /\ \A d \in Client \ {c} : reply'[d] = reply[d]
        /\ reply' \in [Client -> Reply \cup {NoReply}]
    BY <2>1, Replies, RowsReply
  <2>3. follows' = follows /\ req'[c] = Idle /\ \A d \in Client \ {c} : req'[d] = req[d]
    BY <1>5 DEF FailCall, Fail, Goto, socialVars, TypeOK, SocialTypeOK
  <2> QED BY <2>1, <2>2, <2>3 DEF Serving, Failed
<1>6. CASE CutBody(c)
  <2> DEFINE r == [reply[c] EXCEPT !.at = "empty"]
  <2>1. /\ reply' = [reply EXCEPT ![c] = r] /\ UNCHANGED <<socialVars, page, call, history>>
        /\ reply[c].at = "rows"
    BY <1>6 DEF CutBody, TypeOK
  <2>2. reply[c] \in [at : {"rows", "empty"}, rows : Rows]
    BY <2>1, ReplyShape DEF TypeOK, Reply, NoReply
  <2>3. r \in Reply /\ r.at = "empty" /\ r.rows = reply[c].rows
    BY <2>2 DEF Reply
  <2>4. call[c] # NoCall
    BY <1>0, <2>1, ReplyShape DEF Placed
  <2> HIDE DEF r
  <2>5. /\ reply'[c] = r /\ \A d \in Client \ {c} : reply'[d] = reply[d]
        /\ reply' \in [Client -> Reply \cup {NoReply}]
    BY <2>1, <2>3, Replies
  <2> QED BY <2>1, <2>3, <2>4, <2>5 DEF Serving, Cut, socialVars
<1> QED BY <1>1, <1>2, <1>3, <1>4, <1>5, <1>6

\* Call c is over.
Over(c, u) ==
  /\ call[c] # NoCall /\ reply[c] # NoReply /\ call[c].user = u
  /\ call'[c] = NoCall /\ reply'[c] = NoReply
  /\ \A d \in Client \ {c} :
       /\ Kept(d) /\ (call'[d].alone <=> call[d].alone)
       /\ d \notin Calls(u) => call'[d] = call[d]
       /\ call[d] # NoCall /\ call'[d].page /\ call[d].user = u =>
            /\ page'[u].open <=> page[u].open
            /\ page'[u] = Closed <=> page[u] = Closed
       /\ reply'[d] = reply[d]
  /\ page'[u].open => page[u].open /\ page'[u].tab = page[u].tab
  /\ Elsewise(u) /\ PagesTyped /\ CallsTyped /\ reply' \in [Client -> Reply \cup {NoReply}]
  /\ muddled' \ {u} = muddled \ {u} /\ muddled' \subseteq Viewer
  /\ relabelled' \ {u} = relabelled \ {u} /\ relabelled' \subseteq Viewer
  /\ shown' \in [Viewer -> Tab \cup {"search", "nothing"}]
  /\ \A v \in Viewer \ {u} : shown'[v] = shown[v]
  /\ UNCHANGED socialVars

\* A list, a person, or a row takes its place on the page of its viewer.
ListShown(c, u) ==
  /\ call[c].kind \in Lists /\ call[c].page /\ u \in Viewer /\ reply[c].at = "rows"
  /\ page'[u].open /\ page'[u].rows = reply[c].rows
  /\ shown'[u] = call[c].kind /\ (page'[u].searching <=> call[c].kind = "search")
PersonShown(c, u) ==
  /\ call[c].kind = "person" /\ call[c].page /\ u \in Viewer /\ reply[c].at = "rows"
  /\ ~page'[u].open /\ page'[u].rows = reply[c].rows
RowShown(c, u) ==
  /\ call[c].kind = "follow" /\ call[c].page /\ u \in Viewer /\ reply[c].at = "rows"
  /\ page'[u].open => page'[u].searching = page[u].searching
  /\ page[u] # Closed /\ page'[u].rows = Merged(page[u].rows, reply[c].rows)
  /\ UNCHANGED <<shown, relabelled>> /\ (call[c].alone => muddled' = muddled)
\* An answer that nobody waits for, of a call that writes nothing.
Dropped(c, u) ==
  /\ call[c].kind # "follow" /\ ~call[c].page
  /\ \A d \in Client \ {c} : call'[d] = call[d]
  /\ UNCHANGED <<page, history>>
\* The viewer's page may not show what happened.
Puzzled(c, u) ==
  /\ u \in Viewer => u \in muddled'
  /\ u \in Viewer /\ page'[u] # Closed =>
       /\ page[u] # Closed
       /\ page'[u].rows = page[u].rows \/ page'[u].rows = NoRows

\* A call that ends, and leaves the others alone.
LEMMA Ends ==
  ASSUME TypeOK, NEW c \in Client, End(c), call[c] # NoCall
  PROVE  /\ call'[c] = NoCall /\ reply'[c] = NoReply
         /\ \A d \in Client \ {c} : /\ Kept(d) /\ call'[d] = call[d]
                                    /\ reply'[d] = reply[d]
         /\ CallsTyped /\ reply' \in [Client -> Reply \cup {NoReply}]
<1>1. /\ call'[c] = NoCall /\ reply'[c] = NoReply
      /\ \A d \in Client \ {c} : call'[d] = call[d] /\ reply'[d] = reply[d]
      /\ CallsTyped /\ reply' \in [Client -> Reply \cup {NoReply}]
  BY DEF End, TypeOK, CallsTyped
<1> QED BY <1>1 DEF Kept

\* What each answer amounts to.
LEMMA Arrivals ==
  ASSUME TypeOK, AllMounted, AllPlaced, NEW c \in Client, NEW u, u = call[c].user,
         ListArrives(c) \/ RowArrives(c) \/ PersonArrives(c) \/ ErrorArrives(c)
           \/ EmptyArrives(c) \/ Ignored(c)
  PROVE  /\ Over(c, u)
         /\ \/ /\ ListShown(c, u) \/ PersonShown(c, u) \/ RowShown(c, u)
               /\ call[c].alone \/ u \in muddled'
            \/ Dropped(c, u) \/ Puzzled(c, u)
<1>1. reply[c] # NoReply /\ call[c] # NoCall /\ u \in User /\ Mounted(c)
  <2>1. reply[c].at \in {"rows", "error", "empty"}
    BY DEF ListArrives, RowArrives, PersonArrives, ErrorArrives, EmptyArrives, Ignored
  <2>2. reply[c] # NoReply
    BY <2>1, ReplyShape
  <2> QED BY <2>2, CallShape DEF AllPlaced, Placed, AllMounted
<1>2. call[c].page => /\ u \in Viewer /\ page[u] # Closed
                      /\ call[c].kind \in Lists => page[u].open
                      /\ call[c].kind = "person" => ~page[u].open
                      /\ page[u].open => page[u] \in Page
                      /\ ~page[u].open => page[u] \in Profile
                      /\ page[u].rows \in Rows
  <2>1. u \in Viewer => page[u].open \in BOOLEAN
    BY PageShape
  <2> QED BY <1>1, <2>1, PageShape DEF Mounted
<1>3. reply[c].at \in {"rows", "empty"} => reply[c].rows \in Rows
  BY ReplyShape
<1>4. /\ muddled \subseteq Viewer /\ relabelled \subseteq Viewer
      /\ shown \in [Viewer -> Tab \cup {"search", "nothing"}]
      /\ page \in [Viewer -> Page \cup Profile \cup {Closed}]
  BY DEF TypeOK
\* A page that stays what it is while call c ends.
<1>5. ASSUME End(c), NEW p \in Page \cup Profile, call[c].page, page' = [page EXCEPT ![u] = p],
             p.open <=> page[u].open, p.open => p.tab = page[u].tab,
             muddled' \ {u} = muddled \ {u}, muddled' \subseteq Viewer,
             relabelled' \ {u} = relabelled \ {u}, relabelled' \subseteq Viewer,
             shown' \in [Viewer -> Tab \cup {"search", "nothing"}],
             \A v \in Viewer \ {u} : shown'[v] = shown[v], UNCHANGED socialVars
      PROVE  Over(c, u) /\ page'[u] = p /\ page'[u] # Closed
  <2>1. page'[u] = p /\ p # Closed /\ Elsewise(u) /\ PagesTyped
    BY <1>2, <1>5, ProfileOpen, Looking DEF Elsewise, PagesTyped
  <2>2. \A d \in Client \ {c} : call'[d].page /\ call[d].user = u =>
          /\ page'[u].open <=> page[u].open
          /\ page'[u] = Closed <=> page[u] = Closed
    BY <1>2, <1>5, <2>1
  <2>3. page'[u].open => page[u].open /\ page'[u].tab = page[u].tab
    BY <1>5, <2>1
  <2> QED BY <1>1, <1>5, <2>1, <2>2, <2>3, Ends DEF Over
\* A page that is not touched.
<1>6. ASSUME End(c), page' = page, UNCHANGED <<socialVars, shown, relabelled>>,
             muddled' \ {u} = muddled \ {u}, muddled' \subseteq Viewer
      PROVE  Over(c, u)
  <2>1. Elsewise(u) /\ PagesTyped
    BY <1>4, <1>6 DEF Elsewise, PagesTyped
  <2> QED BY <1>1, <1>4, <1>6, <2>1, Ends DEF Over
<1>7. CASE ListArrives(c)
  <2> DEFINE p == [page[u] EXCEPT !.rows = reply[c].rows, !.loading = FALSE,
                                  !.searching = call[c].kind = "search"]
  <2>1. /\ call[c].kind \in Lists /\ call[c].page /\ reply[c].at = "rows"
        /\ End(c) /\ UNCHANGED socialVars
        /\ shown' = [shown EXCEPT ![u] = call[c].kind]
        /\ muddled' = IF call[c].alone THEN muddled \ {u} ELSE muddled \cup {u}
        /\ relabelled' = relabelled \ {u}
    BY <1>7 DEF ListArrives, Lists
  <2>2. page[u] \in Page /\ page[u].open /\ u \in Viewer
    BY <1>2, <2>1
  <2>3. /\ p \in Page /\ p.open /\ p.rows = reply[c].rows /\ p.tab = page[u].tab
        /\ p.searching <=> call[c].kind = "search"
    BY <1>3, <2>1, <2>2 DEF Page
  <2>4. page' = [page EXCEPT ![u] = p]
    BY <1>7, <2>2 DEF ListArrives, Page, TypeOK
  <2> HIDE DEF p
  <2>5. /\ shown' \in [Viewer -> Tab \cup {"search", "nothing"}] /\ shown'[u] = call[c].kind
        /\ \A v \in Viewer \ {u} : shown'[v] = shown[v]
    BY <1>4, <2>1, <2>2 DEF Lists
  <2>6. /\ muddled' \ {u} = muddled \ {u} /\ muddled' \subseteq Viewer
        /\ call[c].alone \/ u \in muddled'
        /\ relabelled' \ {u} = relabelled \ {u} /\ relabelled' \subseteq Viewer
    BY <1>4, <2>1, <2>2
  <2>7. Over(c, u) /\ page'[u] = p
    BY <1>5, <2>1, <2>2, <2>3, <2>4, <2>5, <2>6
  <2>8. ListShown(c, u)
    BY <2>1, <2>2, <2>3, <2>5, <2>7 DEF ListShown
  <2> QED BY <2>6, <2>7, <2>8
<1>8. CASE RowArrives(c)
  <2> DEFINE rows == Merged(page[u].rows, reply[c].rows)
             p == [page[u] EXCEPT !.rows = rows]
  <2>1. /\ call[c].kind = "follow" /\ call[c].page /\ reply[c].at = "rows"
        /\ End(c) /\ UNCHANGED <<socialVars, shown, relabelled>>
        /\ muddled' = IF call[c].alone THEN muddled ELSE muddled \cup ({u} \cap Viewer)
    BY <1>8 DEF RowArrives, Muddle
  <2>2. u \in Viewer /\ page[u] # Closed /\ rows \in Rows /\ page[u] \in Page \cup Profile
        /\ page[u].open \in BOOLEAN
    BY <1>2, <1>3, <2>1, RowsShape, PageShape
  <2>3. page' = [page EXCEPT ![u] = p]
    BY <1>8 DEF RowArrives
  <2> HIDE DEF rows
  <2>4. /\ p \in Page \cup Profile /\ p.rows = rows /\ p.open = page[u].open
        /\ p.open => p.tab = page[u].tab /\ p.searching = page[u].searching
    <3>1. CASE page[u] \in Page
      BY <2>2, <3>1 DEF Page
    <3>2. CASE page[u] \in Profile
      BY <2>2, <3>2 DEF Profile
    <3> QED BY <2>2, <3>1, <3>2
  <2> HIDE DEF p
  <2>5. /\ muddled' \ {u} = muddled \ {u} /\ muddled' \subseteq Viewer
        /\ call[c].alone \/ u \in muddled'
        /\ call[c].alone => muddled' = muddled
    BY <1>4, <2>1, <2>2
  <2>6. Over(c, u) /\ page'[u] = p
    BY <1>4, <1>5, <2>1, <2>2, <2>3, <2>4, <2>5
  <2>7. RowShown(c, u)
    BY <2>1, <2>2, <2>4, <2>5, <2>6 DEF RowShown, rows
  <2> QED BY <2>5, <2>6, <2>7
<1>9. CASE PersonArrives(c)
  <2> DEFINE p == [page[u] EXCEPT !.rows = reply[c].rows]
  <2>1. /\ call[c].kind = "person" /\ call[c].page /\ reply[c].at = "rows"
        /\ End(c) /\ UNCHANGED <<socialVars, shown, relabelled>>
        /\ muddled' = IF call[c].alone THEN muddled \ {u} ELSE muddled \cup ({u} \cap Viewer)
    BY <1>9 DEF PersonArrives, Muddle
  <2>2. page[u] \in Profile /\ ~page[u].open /\ u \in Viewer
    BY <1>2, <2>1
  <2>3. p \in Profile /\ p.rows = reply[c].rows /\ ~p.open
    BY <1>3, <2>1, <2>2 DEF Profile
  <2>4. page' = [page EXCEPT ![u] = p]
    BY <1>9 DEF PersonArrives
  <2> HIDE DEF p
  <2>5. /\ muddled' \ {u} = muddled \ {u} /\ muddled' \subseteq Viewer
        /\ call[c].alone \/ u \in muddled'
    BY <1>4, <2>1, <2>2
  <2>6. Over(c, u) /\ page'[u] = p
    BY <1>4, <1>5, <2>1, <2>2, <2>3, <2>4, <2>5
  <2>7. PersonShown(c, u)
    BY <2>1, <2>2, <2>3, <2>6 DEF PersonShown
  <2> QED BY <2>5, <2>6, <2>7
<1>10. ASSUME Muddle(c)
       PROVE  /\ muddled' \ {u} = muddled \ {u} /\ muddled' \subseteq Viewer
              /\ u \in Viewer => u \in muddled'
  BY <1>4, <1>10 DEF Muddle
<1>11. CASE ErrorArrives(c)
  <2>1. End(c) /\ Muddle(c) /\ UNCHANGED <<socialVars, shown, relabelled>>
    BY <1>11 DEF ErrorArrives
  <2>2. CASE call[c].page /\ page[u].open /\ call[c].kind # "follow"
    <3> DEFINE p == [page[u] EXCEPT !.loading = FALSE]
    <3>1. page[u] \in Page /\ u \in Viewer
      BY <1>2, <2>2
    <3>2. p \in Page /\ p.rows = page[u].rows /\ p.open /\ p.tab = page[u].tab
      BY <3>1 DEF Page
    <3>3. page' = [page EXCEPT ![u] = p]
      BY <1>11, <2>2 DEF ErrorArrives
    <3> HIDE DEF p
    <3>4. Over(c, u) /\ page'[u] = p
      BY <1>4, <1>5, <1>10, <2>1, <2>2, <3>2, <3>3
    <3>5. Puzzled(c, u)
      BY <1>2, <1>10, <2>1, <2>2, <3>2, <3>4 DEF Puzzled
    <3> QED BY <3>4, <3>5
  <2>3. CASE ~(call[c].page /\ page[u].open /\ call[c].kind # "follow")
    <3>1. page' = page
      BY <1>11, <2>3 DEF ErrorArrives
    <3> QED BY <1>6, <1>10, <2>1, <3>1 DEF Puzzled
  <2> QED BY <2>2, <2>3
<1>12. CASE EmptyArrives(c)
  <2>1. /\ Muddle(c) /\ UNCHANGED <<socialVars, shown, relabelled>> /\ call[c].page
        /\ reply' = [reply EXCEPT ![c] = NoReply]
    BY <1>12 DEF EmptyArrives
  <2> DEFINE crash == call[c].kind = "follow" /\ page[u].open
                       /\ DOMAIN reply[c].rows \subseteq DOMAIN page[u].rows
  <2>2. u \in Viewer /\ page[u] # Closed /\ page[u] \in Page \cup Profile /\ page[u].open \in BOOLEAN
    BY <1>2, <2>1, PageShape
  <2>3. CASE crash
    <3>1. page' = [page EXCEPT ![u] = Closed]
      BY <1>12, <2>3 DEF EmptyArrives
    <3>2. page'[u] = Closed /\ ~page'[u].open /\ Elsewise(u) /\ PagesTyped
      BY <2>2, <3>1, Looking DEF Elsewise, PagesTyped, Closed
    <3>3. call' = [d \in Client |-> IF d = c THEN NoCall
                                    ELSE IF d \in Calls(u) THEN [call[d] EXCEPT !.page = FALSE]
                                    ELSE call[d]]
      BY <1>12, <2>3 DEF EmptyArrives
    <3>4. ASSUME NEW d \in Client \ {c}
          PROVE  /\ Kept(d) /\ (call'[d].alone <=> call[d].alone)
                 /\ d \notin Calls(u) => call'[d] = call[d]
                 /\ call[d] # NoCall /\ call[d].user = u => ~call'[d].page
                 /\ call'[d] \in PageCall \cup {NoCall}
      <4>1. CASE d \in Calls(u)
        <5>1. call[d] # NoCall /\ call'[d] = [call[d] EXCEPT !.page = FALSE]
          BY <3>3, <4>1 DEF Calls
        <5>2. call'[d] = [call[d] EXCEPT !.page = FALSE, !.alone = call[d].alone]
          BY <5>1, CallShape DEF PageCall
        <5> QED BY <4>1, <5>1, <5>2, CallShape, Lowered
      <4>2. CASE d \notin Calls(u)
        <5>1. call'[d] = call[d] /\ call[d] \in PageCall \cup {NoCall}
          BY <3>3, <4>2 DEF TypeOK
        <5>2. ~(call[d] # NoCall /\ call[d].user = u)
          BY <4>2 DEF Calls
        <5> QED BY <5>1, <5>2 DEF Kept
      <4> QED BY <4>1, <4>2
    <3>5. CallsTyped /\ call'[c] = NoCall
      BY <3>3, <3>4 DEF CallsTyped
    <3>6. /\ reply'[c] = NoReply /\ \A d \in Client \ {c} : reply'[d] = reply[d]
          /\ reply' \in [Client -> Reply \cup {NoReply}]
      BY <2>1 DEF TypeOK
    <3>7. Over(c, u)
      BY <1>1, <1>4, <1>10, <2>1, <3>2, <3>4, <3>5, <3>6 DEF Over
    <3> QED BY <1>10, <2>1, <3>2, <3>7 DEF Puzzled
  <2>4. CASE ~crash
    <3>1. End(c)
      <4>1. call' = [d \in Client |-> IF d = c THEN NoCall ELSE call[d]]
        BY <1>12, <2>4 DEF EmptyArrives
      <4> QED BY <2>1, <4>1 DEF End, TypeOK
    <3>2. CASE call[c].kind \in Lists
      <4> DEFINE p == [page[u] EXCEPT !.rows = NoRows, !.loading = FALSE,
                                      !.searching = call[c].kind = "search"]
      <4>1. page[u] \in Page /\ page[u].open
        BY <1>2, <2>1, <3>2
      <4>2. page' = [page EXCEPT ![u] = p]
        BY <1>12, <2>4, <3>2, <4>1 DEF EmptyArrives, Lists, Page, TypeOK
      <4>3. p \in Page /\ p.rows = NoRows /\ p.open /\ p.tab = page[u].tab
        BY <4>1, RowsShape DEF Page
      <4> HIDE DEF p
      <4>4. Over(c, u) /\ page'[u] = p
        BY <1>4, <1>5, <1>10, <2>1, <3>1, <4>1, <4>2, <4>3
      <4>5. Puzzled(c, u)
        BY <1>10, <2>1, <2>2, <4>3, <4>4 DEF Puzzled
      <4> QED BY <4>4, <4>5
    <3>3. CASE call[c].kind \notin Lists /\ ~page[u].open
      <4> DEFINE p == [page[u] EXCEPT !.rows = NoRows]
      <4>1. page[u] \in Profile
        BY <1>2, <2>1, <3>3
      <4>2. page' = [page EXCEPT ![u] = p]
        BY <1>12, <2>4, <3>3 DEF EmptyArrives, Lists
      <4>3. p \in Profile /\ p.rows = NoRows /\ ~p.open
        BY <4>1, RowsShape DEF Profile
      <4> HIDE DEF p
      <4>4. Over(c, u) /\ page'[u] = p
        BY <1>4, <1>5, <1>10, <2>1, <3>1, <3>3, <4>2, <4>3
      <4>5. Puzzled(c, u)
        BY <1>10, <2>1, <2>2, <4>3, <4>4 DEF Puzzled
      <4> QED BY <4>4, <4>5
    <3>4. CASE call[c].kind \notin Lists /\ page[u].open
      <4>1. page' = page
        BY <1>12, <2>4, <3>4 DEF EmptyArrives, Lists
      <4> QED BY <1>6, <1>10, <2>1, <3>1, <4>1 DEF Puzzled
    <3> QED BY <3>2, <3>3, <3>4
  <2> QED BY <2>3, <2>4
<1>13. CASE Ignored(c)
  <2>1. End(c) /\ UNCHANGED <<socialVars, page, shown, relabelled>> /\ ~call[c].page
    BY <1>13 DEF Ignored
  <2>2. CASE call[c].kind = "follow"
    <3>1. Muddle(c)
      BY <1>13, <2>2 DEF Ignored
    <3> QED BY <1>6, <1>10, <2>1, <3>1 DEF Puzzled
  <2>3. CASE call[c].kind # "follow"
    <3>1. muddled' = muddled
      BY <1>13, <2>3 DEF Ignored
    <3> QED BY <1>1, <1>4, <1>6, <2>1, <2>3, <3>1, Ends DEF Dropped, history
  <2> QED BY <2>2, <2>3
<1> QED BY <1>7, <1>8, <1>9, <1>11, <1>12, <1>13

\* Another page takes the place of the viewer's.
Leaving(u) ==
  /\ page'[u] = Closed /\ Elsewise(u) /\ PagesTyped /\ CallsTyped
  /\ \A d \in Client : /\ Kept(d)
                       /\ IF d \in Calls(u) THEN ~call'[d].page ELSE call'[d] = call[d]
  /\ UNCHANGED <<socialVars, reply, history>>

LEMMA Closes ==
  ASSUME TypeOK, NEW u \in Viewer, Close(u)
  PROVE  Leaving(u)
<1>1. /\ page' = [page EXCEPT ![u] = Closed] /\ UNCHANGED <<socialVars, reply, history>>
      /\ call' = [c \in Client |-> IF c \in Calls(u) THEN [call[c] EXCEPT !.page = FALSE]
                                                    ELSE call[c]]
  BY DEF Close
<1>2. page'[u] = Closed /\ Elsewise(u) /\ PagesTyped
  BY <1>1, Looking DEF Elsewise, PagesTyped
<1>3. ASSUME NEW d \in Client
      PROVE  /\ Kept(d) /\ call'[d] \in PageCall \cup {NoCall}
             /\ IF d \in Calls(u) THEN ~call'[d].page ELSE call'[d] = call[d]
  <2>1. CASE d \in Calls(u)
    <3>1. call[d] # NoCall /\ call'[d] = [call[d] EXCEPT !.page = FALSE]
      BY <1>1, <2>1 DEF Calls
    <3>2. call'[d] = [call[d] EXCEPT !.page = FALSE, !.alone = call[d].alone]
      BY <3>1, CallShape DEF PageCall
    <3> QED BY <2>1, <3>1, <3>2, CallShape, Lowered
  <2>2. CASE d \notin Calls(u)
    BY <1>1, <2>2 DEF Kept, TypeOK
  <2> QED BY <2>1, <2>2
<1>4. CallsTyped
  <2>1. call' = [d \in Client |-> call'[d]]
    BY <1>1
  <2> QED BY <1>3, <2>1 DEF CallsTyped
<1> QED BY <1>1, <1>2, <1>3, <1>4 DEF Leaving

\* What a step is about: one user, and one call of his.
Served(c) == Serving(c) /\ (Read(c) \/ Written(c) \/ ReadBack(c) \/ Failed(c) \/ Cut(c))
Arrived(c, u) ==
  /\ Over(c, u)
  /\ \/ /\ ListShown(c, u) \/ PersonShown(c, u) \/ RowShown(c, u)
        /\ call[c].alone \/ u \in muddled'
     \/ Dropped(c, u) \/ Puzzled(c, u)
Moves(c, u) ==
  \/ u \in Viewer /\ Fetching(c, u)
  \/ Asking(c, u)
  \/ Served(c) /\ u = call[c].user
  \/ Arrived(c, u)
Looks(u) == Staying(u) \/ Leaving(u)

LEMMA Steps ==
  ASSUME TypeOK, AllMounted, AllPlaced, Strangers, [Next]_vars
  PROVE  \/ \E c \in Client, u \in User : Moves(c, u)
         \/ \E u \in Viewer : Looks(u)
         \/ UNCHANGED vars
<1>1. ASSUME NEW c \in Client, NEW u \in Viewer, Click(c, u)
      PROVE  (\E d \in Client, v \in User : Moves(d, v)) \/ Looks(u)
  <2>1. u \in User
    BY ViewerAssumption
  <2> QED BY <1>1, <2>1, Clicks DEF Moves, Looks
<1>2. ASSUME NEW c \in Client, NEW e \in Pair, Elsewhere(c, e)
      PROVE  e[1] \in User /\ Moves(c, e[1])
  <2>1. /\ Begin(c, e[1], "follow", FALSE) /\ UNCHANGED <<page, reply, history>>
        /\ Follow(c, e) \/ Unfollow(c, e)
    BY <1>2 DEF Elsewhere
  <2>2. Asking(c, e[1])
    BY <2>1, Asks
  <2> QED BY <2>2 DEF Moves, Pair
<1>3. ASSUME NEW c \in Client, Deliver(c) \/ FailCall(c) \/ CutBody(c)
      PROVE  call[c].user \in User /\ Moves(c, call[c].user)
  <2>1. CASE \/ \E P \in SUBSET User : ReadList(c, P)
             \/ ReadPerson(c) \/ WriteFollow(c) \/ ReadFollow(c) \/ FailCall(c) \/ CutBody(c)
    <3>1. Served(c) /\ call[c] # NoCall
      BY <2>1, Serves DEF Served, Serving
    <3> QED BY <3>1, CallShape DEF Moves
  <2>2. CASE ListArrives(c) \/ RowArrives(c) \/ PersonArrives(c) \/ ErrorArrives(c)
               \/ EmptyArrives(c) \/ Ignored(c)
    <3> DEFINE u == call[c].user
    <3>1. Arrived(c, u)
      BY <2>2, Arrivals DEF Arrived
    <3>2. call[c] # NoCall
      BY <3>1 DEF Arrived, Over
    <3> QED BY <3>1, <3>2, CallShape DEF Moves
  <2> QED BY <1>3, <2>1, <2>2 DEF Deliver
<1>4. ASSUME NEW u \in Viewer, Close(u)
      PROVE  Looks(u)
  BY <1>4, Closes DEF Looks
<1> QED BY <1>1, <1>2, <1>3, <1>4 DEF Next

\* Nothing happens to user v.
Unconcerned(v) ==
  /\ Calls(v)' = Calls(v)
  /\ \A d \in Calls(v) : call'[d] = call[d] /\ reply'[d] = reply[d] /\ req'[d] = req[d]
  /\ v \in Viewer => /\ page'[v] = page[v] /\ shown'[v] = shown[v]
                     /\ (v \in muddled' <=> v \in muddled)
                     /\ (v \in relabelled' <=> v \in relabelled)
  /\ \A t \in User : Following(<<v, t>>)' <=> Following(<<v, t>>)

LEMMA Others ==
  ASSUME TypeOK, AllPlaced, NEW u, NEW v, v # u,
         (\E c \in Client : Moves(c, u)) \/ (u \in Viewer /\ Looks(u))
  PROVE  Unconcerned(v)
<1> USE DEF Unconcerned
<1>1. ASSUME NEW c \in Client, Started(c, u)
      PROVE  Calls(v)' = Calls(v) /\ \A d \in Calls(v) : d # c /\ call'[d] = call[d]
  <2>1. \A d \in Calls(v) : d \in Client \ {c} /\ d \notin Calls(u)
    BY <1>1 DEF Started, Calls
  <2>2. \A d \in Client \ {c} : d \in Calls(v)' <=> d \in Calls(v)
    BY <1>1 DEF Started, Calls, Kept
  <2>3. c \notin Calls(v)' /\ c \notin Calls(v)
    BY <1>1 DEF Started, Calls
  <2>4. Calls(v)' \subseteq Client /\ Calls(v) \subseteq Client
    BY DEF Calls
  <2> QED BY <1>1, <2>1, <2>2, <2>3, <2>4 DEF Started
<1>2. ASSUME NEW c \in Client, u \in Viewer, Fetching(c, u)
      PROVE  Unconcerned(v)
  BY <1>1, <1>2 DEF Fetching, Elsewise, socialVars, Following
<1>3. ASSUME NEW c \in Client, Asking(c, u)
      PROVE  Unconcerned(v)
  <2>1. \A d \in Calls(v) : d \in Client
    BY DEF Calls
  <2> QED BY <1>1, <1>3, <2>1 DEF Asking, history, Following
<1>4. ASSUME NEW c \in Client, Served(c), u = call[c].user
      PROVE  Unconcerned(v)
  <2>1. \A d \in Calls(v) : d \in Client \ {c}
    BY <1>4 DEF Calls
  <2>2. Calls(v)' = Calls(v) /\ UNCHANGED <<call, page, history>>
    BY <1>4 DEF Served, Serving, Calls
  <2>3. \A t \in User : Following(<<v, t>>)' <=> Following(<<v, t>>)
    <3>1. CASE Written(c)
      <4>1. req[c].pair[1] = u
        BY <1>4, <3>1 DEF Written, AllPlaced, Placed
      <4>2. \A t \in User : <<v, t>> # req[c].pair
        BY <4>1
      <4> QED BY <3>1, <4>2 DEF Written, Following
    <3>2. CASE ~Written(c)
      BY <1>4, <3>2 DEF Served, Read, ReadBack, Failed, Cut, socialVars, Following
    <3> QED BY <3>1, <3>2
  <2> QED BY <1>4, <2>1, <2>2, <2>3 DEF Served, Serving, history
<1>5. ASSUME NEW c \in Client, Arrived(c, u)
      PROVE  Unconcerned(v)
  <2>1. Over(c, u)
    BY <1>5 DEF Arrived
  <2>2. \A d \in Calls(v) : d \in Client \ {c} /\ d \notin Calls(u)
    BY <2>1 DEF Over, Calls
  <2>3. \A d \in Client \ {c} : d \in Calls(v)' <=> d \in Calls(v)
    BY <2>1 DEF Over, Calls, Kept
  <2>4. c \notin Calls(v)' /\ c \notin Calls(v)
    BY <2>1 DEF Over, Calls
  <2>5. Calls(v)' = Calls(v)
    BY <2>3, <2>4 DEF Calls
  <2> QED BY <2>1, <2>2, <2>5 DEF Over, Elsewise, socialVars, Following
<1>6. ASSUME u \in Viewer, Staying(u)
      PROVE  Unconcerned(v)
  <2>1. Calls(v)' = Calls(v)
    BY <1>6 DEF Staying, Calls
  <2> QED BY <1>6, <2>1 DEF Staying, Elsewise, socialVars, Following, Calls
<1>7. ASSUME u \in Viewer, Leaving(u)
      PROVE  Unconcerned(v)
  <2>1. \A d \in Calls(v) : d \in Client \ Calls(u)
    BY DEF Calls
  <2>2. Calls(v)' = Calls(v)
    BY <1>7 DEF Leaving, Calls, Kept
  <2> QED BY <1>7, <2>1, <2>2 DEF Leaving, Elsewise, socialVars, history, Following
<1> QED BY <1>2, <1>3, <1>4, <1>5, <1>6, <1>7 DEF Moves, Looks

-----------------------------------------------------------------------------
\* Every step keeps the types of the page.
LEMMA PageTypeStep ==
  ASSUME TypeOK, AllMounted, AllPlaced, Strangers, [Next]_vars
  PROVE  TypeOK'
<1>1. SocialTypeOK'
  <2>1. SocialTypeOK /\ [SocialNext]_socialVars
    BY ServerStep DEF TypeOK
  <2> QED BY <2>1, TypeStep
<1>2. ASSUME NEW c \in Client, NEW u \in User, Moves(c, u)
      PROVE  TypeOK'
  <2>1. CASE u \in Viewer /\ Fetching(c, u)
    BY <1>1, <2>1 DEF TypeOK, Fetching, Started, CallsTyped, PagesTyped
  <2>2. CASE Asking(c, u)
    BY <1>1, <2>2 DEF TypeOK, Asking, Started, CallsTyped, history
  <2>3. CASE Served(c)
    BY <1>1, <2>3 DEF TypeOK, Served, Serving, history
  <2>4. CASE Arrived(c, u)
    BY <1>1, <2>4 DEF TypeOK, Arrived, Over, CallsTyped, PagesTyped
  <2> QED BY <1>2, <2>1, <2>2, <2>3, <2>4 DEF Moves
<1>3. ASSUME NEW u \in Viewer, Looks(u)
      PROVE  TypeOK'
  <2>1. CASE Staying(u)
    BY <1>1, <2>1 DEF TypeOK, Staying, PagesTyped
  <2>2. CASE Leaving(u)
    BY <1>1, <2>2 DEF TypeOK, Leaving, CallsTyped, PagesTyped, history
  <2> QED BY <1>3, <2>1, <2>2 DEF Looks
<1>4. CASE UNCHANGED vars
  BY <1>1, <1>4 DEF TypeOK, vars, history
<1> QED BY <1>2, <1>3, <1>4, Steps

\* What each step does to the requests and replies of the calls.
LEMMA PlacedStep ==
  ASSUME TypeOK, AllMounted, AllPlaced, Strangers, [Next]_vars
  PROVE  AllPlaced'
<1> SUFFICES ASSUME NEW d \in Client PROVE Placed(d)'
  BY DEF AllPlaced
<1>1. Placed(d)
  BY DEF AllPlaced
<1>2. /\ call[d] = NoCall <=> call[d].kind = "none"
      /\ NoReply.at = "none" /\ NoCall.kind = "none"
  BY CallShape DEF NoReply, NoCall
<1>3. ASSUME NEW c \in Client, NEW u \in User, Moves(c, u)
      PROVE  Placed(d)'
  <2>0. Placed(c) /\ (call[c] = NoCall => call[c].kind = "none")
    BY CallShape DEF AllPlaced
  <2>1. CASE Fetching(c, u)
    <3>1. CASE d = c
      BY <1>1, <1>2, <2>1, <3>1 DEF Fetching, Started, Placed, socialVars, Lists, Tab
    <3>2. CASE d # c
      <4>1. /\ call'[d] = NoCall <=> call[d] = NoCall
            /\ call'[d].kind = call[d].kind /\ call'[d].user = call[d].user
            /\ req'[d] = req[d] /\ reply'[d] = reply[d]
        BY <2>1, <3>2 DEF Fetching, Started, Kept, socialVars
      <4> QED BY <1>1, <4>1 DEF Placed
    <3> QED BY <3>1, <3>2
  <2>2. CASE Asking(c, u)
    <3>1. CASE d = c
      BY <1>1, <1>2, <2>2, <3>1 DEF Asking, Started, Placed
    <3>2. CASE d # c
      <4>1. /\ call'[d] = NoCall <=> call[d] = NoCall
            /\ call'[d].kind = call[d].kind /\ call'[d].user = call[d].user
            /\ req'[d] = req[d] /\ reply'[d] = reply[d]
        BY <2>2, <3>2 DEF Asking, Started, Kept
      <4> QED BY <1>1, <4>1 DEF Placed
    <3> QED BY <3>1, <3>2
  <2>3. CASE Served(c)
    <3>1. call' = call /\ call[c] # NoCall /\ (d # c => req'[d] = req[d] /\ reply'[d] = reply[d])
      BY <2>3 DEF Served, Serving
    <3>2. CASE d # c
      BY <1>1, <3>1, <3>2 DEF Placed
    <3>3. CASE Written(c)
      BY <2>0, <3>1, <3>2, <3>3 DEF Written, Placed
    <3>4. CASE reply'[c].at # "none" /\ req'[c] = Idle
      BY <1>2, <3>1, <3>2, <3>4 DEF Placed
    <3>5. CASE Read(c) \/ Cut(c)
      <4>1. reply'[c].at # "none" /\ req' = req
        BY <3>5 DEF Read, Cut, socialVars
      <4>2. req[c] = Idle
        BY <1>2, <2>0, <3>5 DEF Read, Cut, Placed, Lists, Tab
      <4> QED BY <3>4, <4>1, <4>2
    <3>6. CASE ReadBack(c) \/ Failed(c)
      BY <3>4, <3>6 DEF ReadBack, Failed
    <3> QED BY <2>3, <3>3, <3>5, <3>6 DEF Served
  <2>4. CASE Arrived(c, u)
    <3>1. Over(c, u) /\ req' = req
      BY <2>4 DEF Arrived, Over, socialVars
    <3>2. CASE d = c
      BY <1>1, <1>2, <3>1, <3>2 DEF Over, Placed
    <3>3. CASE d # c
      BY <1>1, <3>1, <3>3 DEF Over, Kept, Placed
    <3> QED BY <3>2, <3>3
  <2> QED BY <1>3, <2>1, <2>2, <2>3, <2>4 DEF Moves
<1>4. ASSUME NEW u \in Viewer, Looks(u)
      PROVE  Placed(d)'
  BY <1>1, <1>4 DEF Looks, Staying, Leaving, Kept, Placed, socialVars
<1>5. CASE UNCHANGED vars
  BY <1>1, <1>5 DEF Placed, vars, socialVars
<1> QED BY <1>3, <1>4, <1>5, Steps

\* A call that begins is alone only if no other is under way.
LEMMA LonelyStep ==
  ASSUME TypeOK, AllMounted, AllPlaced, Strangers, Lonely, [Next]_vars
  PROVE  Lonely'
<1> SUFFICES ASSUME NEW x \in Client, NEW y \in Client, call'[x] # NoCall, call'[y] # NoCall,
                    call'[x].user = call'[y].user, call'[x].alone
             PROVE  y = x
  BY DEF Lonely
<1>1. ASSUME NEW c \in Client, NEW u \in User, Started(c, u)
      PROVE  y = x
  <2>1. ASSUME NEW d \in Client \ {c}
        PROVE  /\ Kept(d) /\ (d \in Calls(u) => ~call'[d].alone)
               /\ d \notin Calls(u) => call[d] = NoCall \/ call[d].user # u
    BY <1>1 DEF Started, Kept, Calls
  <2>2. CASE x = c
    <3>1. \A d \in Client : d \notin Calls(u)
      BY <1>1, <2>2 DEF Started
    <3> QED BY <1>1, <2>1, <2>2, <3>1 DEF Started, Kept
  <2>3. CASE x # c
    <3>1. x \notin Calls(u) /\ Kept(x) /\ call[x].user # u
      BY <2>1, <2>3 DEF Kept
    <3>2. y # c
      BY <1>1, <3>1 DEF Started, Kept
    <3> QED BY <2>1, <3>1, <3>2 DEF Kept, Lonely
  <2> QED BY <2>2, <2>3
<1>2. ASSUME \A d \in Client : call'[d] # NoCall => Kept(d)
      PROVE  y = x
  BY <1>2 DEF Kept, Lonely
<1>3. ASSUME call' = call
      PROVE  y = x
  BY <1>2, <1>3 DEF Kept
<1>4. ASSUME NEW c \in Client, NEW u \in User, Arrived(c, u)
      PROVE  y = x
  BY <1>2, <1>4 DEF Arrived, Over
<1>5. ASSUME NEW u \in Viewer, Leaving(u)
      PROVE  y = x
  BY <1>2, <1>5 DEF Leaving
<1> QED BY <1>1, <1>3, <1>4, <1>5, Steps
      DEF Moves, Looks, Fetching, Asking, Served, Serving, Staying, vars

\* A page that makes calls is there until they are answered or given up.
LEMMA MountedStep ==
  ASSUME TypeOK, AllMounted, AllPlaced, Strangers, [Next]_vars
  PROVE  AllMounted'
<1> SUFFICES ASSUME NEW d \in Client, call'[d] # NoCall PROVE Mounted(d)'
  BY DEF AllMounted
<1>1. Closed.open = FALSE
  BY DEF Closed
\* A call of somebody the step is not about.
<1>2. ASSUME NEW v, v = call'[d].user, Unconcerned(v)
      PROVE  Mounted(d)'
  <2>1. d \in Calls(v)'
    BY <1>2 DEF Calls
  <2>2. d \in Calls(v) /\ call'[d] = call[d] /\ (v \in Viewer => page'[v] = page[v])
    BY <1>2, <2>1 DEF Unconcerned
  <2>3. Mounted(d)
    BY <2>2 DEF AllMounted, Calls
  <2> QED BY <1>2, <2>2, <2>3 DEF Mounted
<1>3. ASSUME NEW c \in Client, NEW u \in User, Moves(c, u), call'[d].user = u
      PROVE  Mounted(d)'
  <2>1. CASE u \in Viewer /\ Fetching(c, u)
    <3>1. CASE d = c
      BY <1>3, <2>1, <3>1 DEF Fetching, Mounted, Lists, Tab
    <3>2. CASE d # c
      <4>1. Kept(d) /\ call[d] # NoCall /\ d \in Calls(u)
        BY <1>3, <2>1, <3>2 DEF Fetching, Started, Kept, Calls
      <4>2. Mounted(d) /\ (call'[d].page /\ page[u] # Closed => page[u].open /\ page'[u].open)
        BY <2>1, <4>1 DEF AllMounted, Fetching
      <4> QED BY <1>3, <2>1, <4>1, <4>2 DEF Mounted, Kept, Fetching
    <3> QED BY <3>1, <3>2
  <2>2. CASE Asking(c, u)
    <3>1. CASE d = c
      BY <1>3, <2>2, <3>1 DEF Asking, Mounted, Lists, Tab
    <3>2. CASE d # c
      <4>1. Kept(d) /\ call[d] # NoCall /\ page' = page
        BY <1>3, <2>2, <3>2 DEF Asking, Started, Kept, Calls
      <4>2. Mounted(d)
        BY <4>1 DEF AllMounted
      <4> QED BY <4>1, <4>2 DEF Mounted, Kept
    <3> QED BY <3>1, <3>2
  <2>3. CASE Served(c)
    BY <2>3 DEF Served, Serving, AllMounted, Mounted
  <2>4. CASE Arrived(c, u)
    <3>1. Over(c, u) /\ d # c /\ Kept(d) /\ call[d] # NoCall /\ call[d].user = u
      BY <1>3, <2>4 DEF Arrived, Over, Kept
    <3>2. Mounted(d)
      BY <3>1 DEF AllMounted
    <3>3. call'[d].page => /\ page'[u].open <=> page[u].open
                           /\ page'[u] = Closed <=> page[u] = Closed
      BY <3>1 DEF Over
    <3> QED BY <1>3, <3>1, <3>2, <3>3 DEF Mounted, Kept
  <2> QED BY <1>3, <2>1, <2>2, <2>3, <2>4 DEF Moves
<1>4. ASSUME NEW u \in Viewer, Looks(u), call'[d].user = u
      PROVE  Mounted(d)'
  <2>1. CASE Staying(u)
    <3>1. page'[u].open /\ page[u].open /\ page'[u] # Closed /\ call' = call
      BY <1>1, <2>1 DEF Staying
    <3> QED BY <1>4, <3>1 DEF Mounted, AllMounted
  <2>2. CASE Leaving(u)
    <3>1. Kept(d) /\ d \in Calls(u) /\ ~call'[d].page
      BY <1>4, <2>2 DEF Leaving, Calls, Kept
    <3> QED BY <3>1 DEF Mounted, AllMounted, Kept, Calls
  <2> QED BY <1>4, <2>1, <2>2 DEF Looks
<1>5. CASE UNCHANGED vars
  BY <1>5 DEF Mounted, AllMounted, vars
<1> QED BY <1>2, <1>3, <1>4, <1>5, Steps, Others

\* Nobody comes to see himself.
LEMMA StrangersStep ==
  ASSUME TypeOK, AllMounted, AllPlaced, Strangers, [Next]_vars
  PROVE  Strangers'
<1>1. ASSUME NEW v \in Viewer, page'[v] # Closed
      PROVE  v \notin DOMAIN page'[v].rows
  <2>1. ASSUME Unconcerned(v)
        PROVE  v \notin DOMAIN page'[v].rows
    BY <1>1, <2>1 DEF Unconcerned, Strangers
  <2>2. ASSUME NEW c \in Client, Moves(c, v)
        PROVE  v \notin DOMAIN page'[v].rows
    <3>1. CASE Fetching(c, v)
      BY <3>1, RowsShape, PageShape DEF Fetching, Strangers
    <3>2. CASE Asking(c, v) \/ Served(c)
      BY <1>1, <3>2 DEF Asking, Served, Serving, Strangers
    <3>3. CASE Arrived(c, v)
      <4>1. call[c].user = v
        BY <3>3 DEF Arrived, Over
      <4>2. CASE ListShown(c, v) \/ PersonShown(c, v)
        BY <4>1, <4>2 DEF ListShown, PersonShown, Strangers, Lists, Tab
      <4>3. CASE RowShown(c, v)
        <5>1. page[v] # Closed /\ page[v].rows \in Rows /\ reply[c].rows \in Rows
          BY <4>3, PageShape, ReplyShape DEF RowShown
        <5> QED BY <4>3, <5>1, RowsShape DEF RowShown, Strangers
      <4>4. CASE Dropped(c, v) \/ Puzzled(c, v)
        BY <1>1, <4>4, RowsShape DEF Dropped, Puzzled, Strangers
      <4> QED BY <3>3, <4>2, <4>3, <4>4 DEF Arrived
    <3> QED BY <2>2, <3>1, <3>2, <3>3 DEF Moves
  <2>3. ASSUME Looks(v)
        PROVE  v \notin DOMAIN page'[v].rows
    BY <1>1, <2>3, PageShape DEF Looks, Staying, Leaving, Strangers
  <2>4. CASE UNCHANGED vars
    BY <1>1, <2>4 DEF vars, Strangers
  <2> QED BY <2>1, <2>2, <2>3, <2>4, Steps, Others
<1>2. ASSUME NEW d \in Client, reply'[d].at \in {"rows", "empty"}, call'[d].kind # "follow"
      PROVE  call'[d].user \notin DOMAIN reply'[d].rows
  <2>0. NoReply.at = "none" /\ NoCall.kind = "none"
    BY DEF NoReply, NoCall
  <2>1. ASSUME Kept(d), reply'[d] = reply[d]
        PROVE  call'[d].user \notin DOMAIN reply'[d].rows
    BY <1>2, <2>1 DEF Kept, Strangers
  <2>2. ASSUME NEW c \in Client, NEW u \in User, Started(c, u), reply' = reply
        PROVE  call'[d].user \notin DOMAIN reply'[d].rows
    <3>1. d # c
      BY <1>2, <2>0, <2>2 DEF Started, AllPlaced, Placed
    <3> QED BY <2>1, <2>2, <3>1 DEF Started, Kept
  <2>3. ASSUME NEW c \in Client, Served(c)
        PROVE  call'[d].user \notin DOMAIN reply'[d].rows
    <3>1. call' = call /\ (d # c => reply'[d] = reply[d])
      BY <2>3 DEF Served, Serving
    <3>2. CASE d # c
      BY <2>1, <3>1, <3>2 DEF Kept
    <3>3. CASE d = c
      <4>1. CASE Read(c)
        <5>1. PICK P \in SUBSET User : /\ call[c].user \notin P
                                       /\ reply'[c].rows = RowsOf(call[c].user, P)
          BY <4>1 DEF Read
        <5>2. DOMAIN RowsOf(call[c].user, P) = P
          BY DEF RowsOf
        <5> QED BY <3>1, <3>3, <5>1, <5>2
      <4>2. CASE Cut(c)
        BY <1>2, <3>1, <3>3, <4>2 DEF Cut, Strangers
      <4> QED BY <1>2, <2>3, <3>1, <3>3, <4>1, <4>2 DEF Served, Written, ReadBack, Failed
    <3> QED BY <3>2, <3>3
  <2>4. ASSUME NEW c \in Client, NEW u \in User, Arrived(c, u)
        PROVE  call'[d].user \notin DOMAIN reply'[d].rows
    <3>1. d # c
      BY <1>2, <2>0, <2>4 DEF Arrived, Over
    <3> QED BY <2>1, <2>4, <3>1 DEF Arrived, Over
  <2>5. ASSUME NEW u \in Viewer, Looks(u)
        PROVE  call'[d].user \notin DOMAIN reply'[d].rows
    BY <2>1, <2>5 DEF Looks, Staying, Leaving, Kept
  <2>6. CASE UNCHANGED vars
    BY <2>1, <2>6 DEF vars, Kept
  <2> QED BY <2>2, <2>3, <2>4, <2>5, <2>6, Steps DEF Moves, Fetching, Asking
<1> QED BY <1>1, <1>2 DEF Strangers

\* The answer of a call that is alone stays true until it arrives: only its
\* user could change it.
LEMMA AnsweredStep ==
  ASSUME TypeOK, AllMounted, AllPlaced, Strangers, Lonely, Answered, [Next]_vars
  PROVE  Answered'
<1> SUFFICES ASSUME NEW d \in Client, call'[d] # NoCall, call'[d].alone, reply'[d].at = "rows"
             PROVE  \A t \in DOMAIN reply'[d].rows :
                      reply'[d].rows[t] = (<<call'[d].user, t>> \in follows')
  BY DEF Answered, Holds, Following
<1> DEFINE Good == \A t \in DOMAIN reply'[d].rows :
                     reply'[d].rows[t] = (<<call'[d].user, t>> \in follows')
<1>1. PICK v : v = call'[d].user
  OBVIOUS
\* The reply was there before, and nobody of interest was followed or left.
<1>2. ASSUME Kept(d), reply'[d] = reply[d],
             \A t \in User : Following(<<v, t>>)' <=> Following(<<v, t>>)
      PROVE  Good
  <2>1. \A t \in DOMAIN reply[d].rows : reply[d].rows[t] = (<<v, t>> \in follows)
    BY <1>1, <1>2 DEF Kept, Answered, Holds, Following
  <2>2. DOMAIN reply[d].rows \subseteq User
    BY <1>2, ReplyShape, RowsShape
  <2> QED BY <1>1, <1>2, <2>1, <2>2 DEF Following
<1>3. ASSUME Unconcerned(v)
      PROVE  Good
  <2>1. d \in Calls(v)
    BY <1>1, <1>3 DEF Unconcerned, Calls
  <2> QED BY <1>2, <1>3, <2>1 DEF Unconcerned, Kept
<1>4. ASSUME NEW c \in Client, Started(c, v), reply' = reply, follows' = follows
      PROVE  Good
  <2>1. d # c
    BY <1>4 DEF Started, AllPlaced, Placed, NoReply
  <2> QED BY <1>2, <1>4, <2>1 DEF Started, Kept, Following
<1>5. ASSUME NEW c \in Client, Served(c), call[c].user = v
      PROVE  Good
  <2>1. call' = call /\ (d # c => reply'[d] = reply[d]) /\ call[c] # NoCall
    BY <1>5 DEF Served, Serving
  <2>2. d = c
    BY <1>1, <1>5, <2>1 DEF Lonely
  <2>3. v \in User
    BY <1>5, <2>1, CallShape
  <2>4. CASE Read(c)
    <3>1. PICK P \in SUBSET User : reply'[c].rows = RowsOf(v, P)
      BY <1>5, <2>4 DEF Read
    <3>2. follows' = follows
      BY <2>4 DEF Read, socialVars
    <3> QED BY <1>1, <2>2, <2>3, <3>1, <3>2 DEF RowsOf, Following
  <2>5. CASE ReadBack(c)
    <3>1. reply'[c].rows = RowsOf(v, {req[c].pair[2]}) /\ follows' = follows
      BY <1>5, <2>5 DEF ReadBack
    <3> QED BY <1>1, <2>2, <3>1 DEF RowsOf, Following
  <2>6. CASE Written(c)
    <3>1. reply[c] = NoReply /\ reply' = reply
      BY <2>6 DEF Written, AllPlaced, Placed
    <3> QED BY <2>2, <3>1 DEF NoReply
  <2> QED BY <1>5, <2>2, <2>4, <2>5, <2>6 DEF Served, Failed, Cut
<1>6. ASSUME NEW c \in Client, Arrived(c, v)
      PROVE  Good
  <2>1. Over(c, v) /\ d # c
    BY <1>6 DEF Arrived, Over
  <2> QED BY <1>2, <2>1 DEF Over, socialVars, Following
<1>7. ASSUME v \in Viewer, Looks(v)
      PROVE  Good
  BY <1>2, <1>7 DEF Looks, Staying, Leaving, Kept, socialVars, Following
<1>8. CASE UNCHANGED vars
  BY <1>2, <1>8 DEF vars, Kept, socialVars, Following
<1>9. ASSUME NEW c \in Client, Moves(c, v)
      PROVE  Good
  BY <1>4, <1>5, <1>6, <1>9 DEF Moves, Fetching, Asking, socialVars
<1> QED BY <1>3, <1>7, <1>8, <1>9, Steps, Others

\* A list that is fetched alone stays for the tab that is shown.
LEMMA HeadedStep ==
  ASSUME TypeOK, AllMounted, AllPlaced, Strangers, Lonely, Headed, [Next]_vars
  PROVE  Headed'
<1> SUFFICES ASSUME NEW d \in Client, call'[d] # NoCall, call'[d].alone, call'[d].page,
                    call'[d].kind \in Tab
             PROVE  page'[call'[d].user].tab = call'[d].kind
  BY DEF Headed
<1>1. PICK v : v = call'[d].user
  OBVIOUS
<1>2. ASSUME Kept(d), page'[v].tab = page[v].tab
      PROVE  page'[v].tab = call'[d].kind
  BY <1>1, <1>2 DEF Kept, Headed
<1>3. ASSUME Unconcerned(v)
      PROVE  page'[v].tab = call'[d].kind
  <2>1. d \in Calls(v) /\ call'[d] = call[d]
    BY <1>1, <1>3 DEF Unconcerned, Calls
  <2>2. v \in Viewer
    BY <1>1, <2>1 DEF Calls, AllMounted, Mounted
  <2> QED BY <1>2, <1>3, <2>1, <2>2 DEF Unconcerned, Kept
<1>4. ASSUME NEW c \in Client, Moves(c, v)
      PROVE  page'[v].tab = call'[d].kind
  <2>1. ASSUME Started(c, v), d # c
        PROVE  FALSE
    BY <1>1, <2>1 DEF Started, Calls, Kept
  <2>2. CASE Fetching(c, v)
    BY <2>1, <2>2 DEF Fetching
  <2>3. CASE Asking(c, v)
    BY <2>1, <2>3 DEF Asking, Tab
  <2>4. CASE Served(c)
    BY <1>2, <2>4 DEF Served, Serving, Kept
  <2>5. CASE Arrived(c, v)
    <3>1. Over(c, v) /\ d # c /\ Kept(d) /\ call[d].alone
      BY <2>5 DEF Arrived, Over
    <3> QED BY <1>1, <3>1 DEF Lonely, Over, Kept
  <2> QED BY <1>4, <2>2, <2>3, <2>4, <2>5 DEF Moves
<1>5. ASSUME v \in Viewer, Looks(v)
      PROVE  page'[v].tab = call'[d].kind
  <2>1. CASE Staying(v)
    BY <1>2, <2>1 DEF Staying, Kept
  <2>2. CASE Leaving(v)
    BY <1>1, <2>2 DEF Leaving, Kept, Calls
  <2> QED BY <1>5, <2>1, <2>2 DEF Looks
<1>6. CASE UNCHANGED vars
  BY <1>1, <1>6 DEF vars, Headed
<1> QED BY <1>1, <1>3, <1>4, <1>5, <1>6, Steps, Others

\* The rows of a page stay true, or its viewer knows what he waits for.
LEMMA CurrentStep ==
  ASSUME TypeOK, AllMounted, AllPlaced, Strangers, Lonely, Answered, AllCurrent, [Next]_vars
  PROVE  AllCurrent'
<1> SUFFICES ASSUME NEW v \in Viewer, v \notin muddled', page'[v] # Closed
             PROVE  Current(v)'
  BY DEF AllCurrent
<1> USE DEF Holds, Following
<1>0. v \in User
  BY ViewerAssumption
<1>1. v \notin muddled /\ page[v] # Closed => Current(v) /\ page[v].rows \in Rows /\ DOMAIN page[v].rows \subseteq User
  BY PageShape, RowsShape DEF AllCurrent
\* Nothing on the page, and nobody on it, was touched.
<1>2. ASSUME v \notin muddled, page[v] # Closed, page'[v].rows = page[v].rows,
             \A t \in User : Following(<<v, t>>)' <=> Following(<<v, t>>),
             \A d \in Calls(v)' : call'[d].kind = "follow" /\ call'[d].alone =>
               /\ d \in Calls(v) /\ call[d].kind = "follow" /\ call[d].alone
               /\ reply'[d] = reply[d] /\ req'[d] = req[d],
             \A d \in Calls(v) : call[d].kind = "follow" =>
               d \in Calls(v)' /\ call'[d].kind = "follow"
      PROVE  Current(v)'
  <2>1. Current(v) /\ DOMAIN page[v].rows \subseteq User
    BY <1>1, <1>2
  <2>2. \A t \in DOMAIN page[v].rows : <<v, t>> \in follows' <=> <<v, t>> \in follows
    BY <1>2, <2>1
  <2>3. (\A d \in Calls(v)' : call'[d].kind # "follow") =>
          \A t \in DOMAIN page'[v].rows : page'[v].rows[t] = (<<v, t>> \in follows')
    BY <1>2, <2>1, <2>2 DEF Current
  <2>4. ASSUME NEW d \in Calls(v)', call'[d].kind = "follow", call'[d].alone
        PROVE  /\ reply'[d] = NoReply =>
                    \A t \in DOMAIN page'[v].rows \ {req'[d].pair[2]} :
                      page'[v].rows[t] = (<<v, t>> \in follows')
               /\ reply'[d].at = "rows" =>
                    \A t \in DOMAIN page'[v].rows \ DOMAIN reply'[d].rows :
                      page'[v].rows[t] = (<<v, t>> \in follows')
    BY <1>2, <2>1, <2>2, <2>4 DEF Current
  <2> QED BY <2>3, <2>4 DEF Current
\* No call is under way, and all rows are so.
<1>3. ASSUME \A d \in Calls(v)' : call'[d].kind = "follow" => ~call'[d].alone,
             \A t \in DOMAIN page'[v].rows : page'[v].rows[t] = (<<v, t>> \in follows')
      PROVE  Current(v)'
  BY <1>3 DEF Current
<1>4. ASSUME Unconcerned(v)
      PROVE  Current(v)'
  <2>1. v \notin muddled /\ page[v] # Closed /\ page'[v].rows = page[v].rows
    BY <1>4 DEF Unconcerned
  <2> QED BY <1>2, <1>4, <2>1 DEF Unconcerned
<1>5. ASSUME NEW c \in Client, Fetching(c, v)
      PROVE  Current(v)'
  <2>1. Started(c, v) /\ follows' = follows /\ v \notin muddled /\ call'[c].kind # "follow"
        /\ UNCHANGED <<req, reply>>
    BY <1>5 DEF Fetching, socialVars, Lists, Tab
  <2>2. \A d \in Calls(v)' : call'[d].kind = "follow" => ~call'[d].alone
    BY <2>1 DEF Started, Calls, Kept
  <2>3. CASE page'[v].rows = NoRows
    BY <1>3, <2>2, <2>3, RowsShape
  <2>4. CASE page[v].open /\ page'[v].rows = page[v].rows
    <3>1. page[v] # Closed
      BY <2>4, PageShape
    <3>2. \A d \in Calls(v) : call[d].kind = "follow" => d \in Calls(v)' /\ call'[d].kind = "follow"
      BY <2>1 DEF Started, Calls, Kept
    <3> QED BY <1>2, <2>1, <2>2, <2>4, <3>1, <3>2
  <2> QED BY <1>5, <2>3, <2>4 DEF Fetching
<1>6. ASSUME NEW c \in Client, Asking(c, v)
      PROVE  Current(v)'
  <2>1. /\ Started(c, v) /\ page' = page /\ follows' = follows /\ v \notin muddled
        /\ reply'[c] = reply[c] /\ call'[c].kind = "follow"
    BY <1>6 DEF Asking, history
  <2>2. c \in Calls(v)' /\ reply'[c] = NoReply /\ reply'[c].at = "none"
    BY <2>1 DEF Started, Calls, AllPlaced, Placed, NoReply
  <2>3. \A d \in Calls(v)' : call'[d].alone => d = c /\ Calls(v) = {}
    BY <2>1 DEF Started, Calls, Kept
  <2>4. Calls(v) = {} => \A t \in DOMAIN page'[v].rows : page'[v].rows[t] = (<<v, t>> \in follows')
    BY <1>1, <2>1 DEF Current
  <2> QED BY <2>1, <2>2, <2>3, <2>4 DEF Current
<1>7. ASSUME NEW c \in Client, Served(c), v = call[c].user
      PROVE  Current(v)'
  <2>1. /\ UNCHANGED <<call, page, history>> /\ call[c] # NoCall
        /\ \A d \in Client \ {c} : req'[d] = req[d] /\ reply'[d] = reply[d]
    BY <1>7 DEF Served, Serving
  <2>2. /\ v \notin muddled /\ page[v] # Closed /\ Calls(v)' = Calls(v) /\ c \in Calls(v)
        /\ Current(v) /\ DOMAIN page[v].rows \subseteq User
    BY <1>1, <1>7, <2>1 DEF history, Calls
  <2>3. \A d \in Calls(v) : call[d].alone => d = c
    BY <1>7, <2>1 DEF Lonely, Calls
  <2>4. CASE call[c].kind # "follow"
    <3>1. follows' = follows
      BY <1>7, <2>4 DEF Served, Read, Written, ReadBack, Failed, Cut, socialVars
    <3> QED BY <1>2, <2>1, <2>2, <2>3, <2>4, <3>1
  <2>5. CASE call[c].kind = "follow"
    <3>1. SUFFICES ASSUME call[c].alone
                   PROVE  /\ reply'[c] = NoReply =>
                               \A t \in DOMAIN page[v].rows \ {req'[c].pair[2]} :
                                 page[v].rows[t] = (<<v, t>> \in follows')
                          /\ reply'[c].at = "rows" =>
                               \A t \in DOMAIN page[v].rows \ DOMAIN reply'[c].rows :
                                 page[v].rows[t] = (<<v, t>> \in follows')
      BY <2>1, <2>2, <2>3, <2>5 DEF Current
    <3>2. /\ reply[c] = NoReply =>
               \A t \in DOMAIN page[v].rows \ {req[c].pair[2]} :
                 page[v].rows[t] = (<<v, t>> \in follows)
          /\ reply[c].at = "rows" =>
               \A t \in DOMAIN page[v].rows \ DOMAIN reply[c].rows :
                 page[v].rows[t] = (<<v, t>> \in follows)
      BY <2>2, <2>5, <3>1 DEF Current
    <3>3. NoReply.at = "none"
      BY DEF NoReply
    <3>4. CASE Written(c)
      <4>1. reply'[c] = NoReply /\ reply[c] = NoReply /\ req'[c].pair = req[c].pair
        BY <3>4 DEF Written, AllPlaced, Placed
      <4>2. \A t : t # req[c].pair[2] => <<v, t>> # req[c].pair
        OBVIOUS
      <4>3. \A t : t # req[c].pair[2] => (<<v, t>> \in follows' <=> <<v, t>> \in follows)
        BY <3>4, <4>2 DEF Written
      <4> QED BY <3>2, <3>3, <4>1, <4>3
    <3>5. CASE ReadBack(c)
      <4>1. /\ reply[c] = NoReply /\ follows' = follows /\ reply'[c].at = "rows"
            /\ reply'[c].rows = RowsOf(call[c].user, {req[c].pair[2]})
        BY <3>5 DEF ReadBack
      <4>2. DOMAIN reply'[c].rows = {req[c].pair[2]}
        BY <4>1 DEF RowsOf
      <4> QED BY <3>2, <3>3, <4>1, <4>2
    <3>6. CASE Failed(c) \/ Cut(c)
      BY <3>3, <3>6 DEF Failed, Cut
    <3> QED BY <1>7, <2>5, <3>4, <3>5, <3>6 DEF Served, Read, Lists, Tab
  <2> QED BY <2>4, <2>5
<1>8. ASSUME NEW c \in Client, Arrived(c, v)
      PROVE  Current(v)'
  <2>1. Over(c, v) /\ follows' = follows /\ req' = req /\ c \in Calls(v)
    BY <1>8 DEF Arrived, Over, socialVars, Calls
  <2>2. ASSUME call[c].alone
        PROVE  Calls(v)' = {} /\ Calls(v) = {c}
    <3>1. \A d \in Calls(v) : d = c
      BY <2>1, <2>2 DEF Lonely, Calls
    <3>2. \A d \in Calls(v)' : d \in Client \ {c} /\ d \in Calls(v)
      BY <2>1 DEF Over, Calls, Kept
    <3> QED BY <2>1, <3>1, <3>2
  <2>3. call[c].alone /\ reply[c].at = "rows" =>
          \A t \in DOMAIN reply[c].rows : reply[c].rows[t] = (<<v, t>> \in follows)
    BY <2>1 DEF Answered, Over
  <2>4. CASE ListShown(c, v) \/ PersonShown(c, v)
    <3>1. call[c].alone /\ reply[c].at = "rows" /\ page'[v].rows = reply[c].rows
      BY <1>8, <2>4 DEF Arrived, ListShown, PersonShown, RowShown, Dropped, Puzzled, Lists, Tab
    <3> QED BY <1>3, <2>1, <2>2, <2>3, <3>1
  <2>5. CASE RowShown(c, v)
    <3>1. /\ call[c].alone /\ reply[c].at = "rows" /\ call[c].kind = "follow"
          /\ page[v] # Closed /\ page'[v].rows = Merged(page[v].rows, reply[c].rows)
          /\ v \notin muddled
      BY <1>8, <2>5 DEF Arrived, ListShown, PersonShown, RowShown, Dropped, Puzzled, Lists, Tab
    <3>2. \A t \in DOMAIN page[v].rows \ DOMAIN reply[c].rows :
            page[v].rows[t] = (<<v, t>> \in follows)
      BY <1>1, <2>1, <3>1 DEF Current
    <3>3. \A t \in DOMAIN page'[v].rows : page'[v].rows[t] = (<<v, t>> \in follows')
      BY <2>1, <2>3, <3>1, <3>2 DEF Merged
    <3> QED BY <1>3, <2>2, <3>1, <3>3
  <2>6. CASE Dropped(c, v)
    <3>1. page' = page /\ v \notin muddled /\ call[c].kind # "follow"
      BY <2>6 DEF Dropped, history
    <3>2. \A d \in Calls(v)' : /\ d \in Calls(v) /\ call'[d].kind = call[d].kind
                               /\ (call'[d].alone <=> call[d].alone)
                               /\ reply'[d] = reply[d] /\ req'[d] = req[d]
      BY <2>1 DEF Over, Calls, Kept
    <3>3. \A d \in Calls(v) : call[d].kind = "follow" => d \in Calls(v)' /\ call'[d].kind = "follow"
      BY <2>1, <3>1 DEF Over, Calls, Kept
    <3> QED BY <1>2, <2>1, <3>1, <3>2, <3>3
  <2>7. CASE Puzzled(c, v)
    BY <2>7 DEF Puzzled
  <2> QED BY <1>8, <2>4, <2>5, <2>6, <2>7 DEF Arrived
<1>9. CASE Staying(v)
  <2>1. /\ page[v] # Closed /\ page'[v].rows = page[v].rows /\ Calls(v)' = Calls(v) /\ v \notin muddled
        /\ UNCHANGED <<call, reply, req, follows>>
    BY <1>9, PageShape DEF Staying, Calls, socialVars
  <2> QED BY <1>2, <2>1
<1>10. CASE UNCHANGED vars
  <2>1. /\ page' = page /\ Calls(v)' = Calls(v) /\ v \notin muddled
        /\ UNCHANGED <<call, reply, req, follows>>
    BY <1>10 DEF vars, history, Calls, socialVars
  <2> QED BY <1>2, <2>1
<1> QED BY <1>4, <1>5, <1>6, <1>7, <1>8, <1>9, <1>10, <1>0, Steps, Others DEF Moves, Looks, Leaving

\* A list is the one its heading promises, or the next one is on its way.
LEMMA LabelledStep ==
  ASSUME TypeOK, AllMounted, AllPlaced, Strangers, Lonely, Headed, AllLabelled, [Next]_vars
  PROVE  AllLabelled'
<1> SUFFICES ASSUME NEW v \in Viewer, v \notin muddled', v \notin relabelled', page'[v].open
             PROVE  Labelled(v)'
  BY DEF AllLabelled
<1>1. v \notin muddled /\ v \notin relabelled /\ page[v].open => Labelled(v)
  BY DEF AllLabelled
\* The heading stays, and a list that was on its way still is.
<1>2. ASSUME v \notin muddled, v \notin relabelled, page[v].open, shown'[v] = shown[v],
             page'[v].tab = page[v].tab, page'[v].searching = page[v].searching,
             \A d \in Calls(v) : call[d].page /\ call[d].kind \in Lists =>
               d \in Calls(v)' /\ call'[d].page /\ call'[d].kind = call[d].kind
      PROVE  Labelled(v)'
  BY <1>1, <1>2 DEF Labelled
<1>3. ASSUME Unconcerned(v)
      PROVE  Labelled(v)'
  BY <1>2, <1>3 DEF Unconcerned
<1>4. ASSUME NEW c \in Client, Fetching(c, v)
      PROVE  Labelled(v)'
  <2>1. c \in Calls(v)' /\ call'[c].page /\ call'[c].kind \in Lists
    BY <1>4 DEF Fetching, Started, Calls
  <2> QED BY <2>1 DEF Labelled
<1>5. ASSUME NEW c \in Client, Asking(c, v)
      PROVE  Labelled(v)'
  <2>1. \A d \in Calls(v) : d \in Calls(v)' /\ call'[d].page = call[d].page /\ call'[d].kind = call[d].kind
    BY <1>5 DEF Asking, Started, Calls, Kept
  <2> QED BY <1>2, <1>5, <2>1 DEF Asking, history
<1>6. ASSUME NEW c \in Client, Served(c)
      PROVE  Labelled(v)'
  <2>1. UNCHANGED <<call, page, history>> /\ Calls(v)' = Calls(v)
    BY <1>6 DEF Served, Serving, Calls
  <2> QED BY <1>2, <2>1 DEF history
<1>7. ASSUME NEW c \in Client, Arrived(c, v)
      PROVE  Labelled(v)'
  <2>1. /\ Over(c, v) /\ c \in Calls(v) /\ page[v].open /\ page'[v].tab = page[v].tab
    BY <1>7 DEF Arrived, Over, Calls
  <2>2. call[c].alone => Calls(v) = {c}
    BY <2>1 DEF Lonely, Calls
  <2>3. CASE ListShown(c, v)
    <3>1. call[c].alone /\ call[c].page /\ call[c].kind \in Lists
      BY <1>7, <2>3 DEF Arrived, ListShown, PersonShown, RowShown, Dropped, Puzzled, Lists, Tab
    <3>2. call[c].kind # "search" => page[v].tab = call[c].kind
      BY <2>1, <3>1 DEF Headed, Lists, Over
    <3>3. shown'[v] = IF page'[v].searching THEN "search" ELSE page'[v].tab
      BY <2>1, <2>3, <3>2 DEF ListShown
    <3> QED BY <3>3 DEF Labelled
  <2>4. CASE RowShown(c, v)
    <3>1. /\ call[c].alone /\ call[c].kind = "follow" /\ muddled' = muddled
          /\ UNCHANGED <<shown, relabelled>> /\ page'[v].searching = page[v].searching
      BY <1>7, <2>4 DEF Arrived, ListShown, PersonShown, RowShown, Dropped, Puzzled, Lists, Tab
    <3>2. \A d \in Calls(v) : call[d].kind \notin Lists
      BY <2>2, <3>1 DEF Lists, Tab
    <3> QED BY <1>2, <2>1, <3>1, <3>2
  <2>5. CASE Dropped(c, v)
    <3>1. \A d \in Calls(v) : call[d].page => d \in Calls(v)' /\ call'[d] = call[d]
      BY <2>1, <2>5 DEF Dropped, Over, Calls
    <3> QED BY <1>2, <2>1, <2>5, <3>1 DEF Dropped, history
  <2> QED BY <1>7, <2>3, <2>4, <2>5 DEF Arrived, PersonShown, Puzzled
<1>8. CASE Staying(v)
  <2>1. Calls(v)' = Calls(v)
    BY <1>8 DEF Staying, Calls
  <2> QED BY <1>2, <1>8, <2>1 DEF Staying
<1>9. CASE UNCHANGED vars
  <2>1. Calls(v)' = Calls(v)
    BY <1>9 DEF vars, Calls
  <2> QED BY <1>2, <1>9, <2>1 DEF vars, history
<1>10. ~Leaving(v)
  BY DEF Leaving, Closed
<1> QED BY <1>3, <1>4, <1>5, <1>6, <1>7, <1>8, <1>9, <1>10, Steps, Others DEF Moves, Looks

-----------------------------------------------------------------------------
\* The inductive invariant.
IInv ==
  /\ TypeOK /\ AllMounted /\ AllPlaced /\ Strangers
  /\ Lonely /\ Answered /\ AllCurrent /\ Headed /\ AllLabelled

LEMMA InitInv == Init => IInv
<1> SUFFICES ASSUME Init PROVE IInv
  OBVIOUS
<1>1. /\ SocialTypeOK /\ page = [u \in Viewer |-> Closed] /\ call = [c \in Client |-> NoCall]
      /\ reply = [c \in Client |-> NoReply] /\ req = [c \in Client |-> Idle]
      /\ shown = [u \in Viewer |-> "nothing"] /\ muddled = {} /\ relabelled = {}
  BY InitTyped DEF Init, SocialInit
<1>2. TypeOK
  BY <1>1 DEF TypeOK
<1>3. AllMounted /\ Lonely /\ Answered /\ Headed
  BY <1>1 DEF AllMounted, Lonely, Answered, Headed
<1>4. AllPlaced
  BY <1>1 DEF AllPlaced, Placed, NoCall
<1>5. Strangers /\ AllCurrent /\ AllLabelled
  BY <1>1 DEF Strangers, AllCurrent, AllLabelled, Closed, NoReply
<1> QED BY <1>2, <1>3, <1>4, <1>5 DEF IInv

LEMMA StepInv == IInv /\ [Next]_vars => IInv'
<1> SUFFICES ASSUME IInv, [Next]_vars PROVE IInv'
  OBVIOUS
<1>1. /\ TypeOK /\ AllMounted /\ AllPlaced /\ Strangers
      /\ Lonely /\ Answered /\ AllCurrent /\ Headed /\ AllLabelled
  BY DEF IInv
<1>2. TypeOK' /\ AllMounted' /\ AllPlaced' /\ Strangers'
  BY <1>1, PageTypeStep, MountedStep, PlacedStep, StrangersStep
<1>3. Lonely' /\ Answered' /\ Headed'
  BY <1>1, LonelyStep, AnsweredStep, HeadedStep
<1>4. AllCurrent' /\ AllLabelled'
  BY <1>1, CurrentStep, LabelledStep
<1> QED BY <1>2, <1>3, <1>4 DEF IInv

\* The invariant holds of every behaviour.
LEMMA Invariance == Spec => []IInv
BY InitInv, StepInv, PTL DEF Spec

\* The state of the pages and of their calls is always of its type.
THEOREM PageTypes == Spec => []TypeOK
<1>1. IInv => TypeOK
  BY DEF IInv
<1> QED BY <1>1, Invariance, PTL

\* Whoever waits for one click before the next sees on his page whom he
\* follows, whatever others do at the same time.
THEOREM Settled == Spec => []RowsSettle
<1>1. IInv => RowsSettle
  <2> SUFFICES ASSUME IInv, NEW u \in Viewer, Quiet(u), u \notin muddled,
                      NEW t \in DOMAIN page[u].rows
               PROVE  page[u].rows[t] = Following(<<u, t>>)
    BY DEF RowsSettle
  <2>1. Current(u) /\ Calls(u) = {}
    BY DEF IInv, AllCurrent, Quiet
  <2> QED BY <2>1 DEF Current, Holds
<1> QED BY <1>1, Invariance, PTL

\* And his list is the one its heading promises, unless the menu led him back
\* from a search.
THEOREM TabMatched == Spec => []ListMatchesTab
<1>1. IInv => ListMatchesTab
  <2> SUFFICES ASSUME IInv, NEW u \in Viewer, Quiet(u), page[u].open,
                      u \notin muddled \cup relabelled
               PROVE  shown[u] = IF page[u].searching THEN "search" ELSE page[u].tab
    BY DEF ListMatchesTab
  <2>1. Labelled(u) /\ Calls(u) = {}
    BY DEF IInv, AllLabelled, Quiet
  <2> QED BY <2>1 DEF Labelled
<1> QED BY <1>1, Invariance, PTL

\* The page uses the server as Social says it may be used.
THEOREM PageUsesServer == Spec => SocialSpec
<1>1. Init => SocialInit
  BY DEF Init
<1>2. IInv /\ [Next]_vars => [SocialNext]_socialVars
  BY ServerStep DEF IInv
<1> QED BY <1>1, <1>2, Invariance, PTL DEF Spec, SocialSpec

\* So a friendship that two pages bring about is told to one of the two.
THEOREM FriendsTold == Spec => []FriendshipTold
<1>1. SocialTypeOK /\ FriendshipTold => FriendshipTold
  OBVIOUS
<1> QED BY <1>1, PageUsesServer, Told, PTL
=============================================================================

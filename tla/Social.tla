------------------------------- MODULE Social -------------------------------
(***************************************************************************)
(* Follows and friends: internal/service/social.go on the follows table of *)
(* internal/repository/social.go.                                          *)
(*                                                                         *)
(* Follow and Unfollow are one write and one read, two statements of the   *)
(* same request; each statement sees what was committed before it began.   *)
(* Friends are users who follow each other, and no row says so: whoever    *)
(* closes the circle is told by the read that ends the request.            *)
(***************************************************************************)
EXTENDS Integers

CONSTANTS User,
          Client,    \* requests in flight
          Failures   \* may an I/O fail, the client leave, the server stop?

ASSUME FailuresAssumption == Failures \in BOOLEAN

VARIABLES follows,   \* rows of the follows table: follower and followed
          req,       \* where each request is
          told,      \* history: pairs whose follower was told of a friendship
          lost       \* history: pairs whose follower never got that answer

socialVars == <<follows, req, told, lost>>

\* The check of the table and of the service: nobody follows himself.
Pair == {e \in User \X User : e[1] # e[2]}
Back(e) == <<e[2], e[1]>>
Both(e) == {e, Back(e)}

Idle == [at |-> "idle"]
\* The row is to be written, or is written and to be read back.
Call(at, e) == [at |-> at, pair |-> e]
Request == {Idle} \cup [at : {"follow", "followed", "unfollow", "unfollowed"}, pair : Pair]

SocialTypeOK ==
  /\ follows \subseteq Pair
  /\ req \in [Client -> Request]
  /\ told \subseteq Pair
  /\ lost \subseteq Pair

\* What a row of a list says of a person.
Following(e) == e \in follows
Friend(e) == Both(e) \subseteq follows

\* The friends an earlier run of the server left were told by it.
SocialInit ==
  /\ follows \in SUBSET Pair
  /\ req = [c \in Client |-> Idle]
  /\ told = {e \in follows : Friend(e)}
  /\ lost = {}

Goto(c, r) == req' = [req EXCEPT ![c] = r]

-----------------------------------------------------------------------------
\* Follow up to the check that the person exists: nobody is ever deleted.
Follow(c, e) ==
  /\ req[c] = Idle
  /\ Goto(c, Call("follow", e))
  /\ UNCHANGED <<follows, told, lost>>

\* INSERT ... ON CONFLICT DO NOTHING.
Insert(c) ==
  /\ req[c].at = "follow"
  /\ follows' = follows \cup {req[c].pair}
  /\ Goto(c, Call("followed", req[c].pair))
  /\ UNCHANGED <<told, lost>>

Unfollow(c, e) ==
  /\ req[c] = Idle
  /\ Goto(c, Call("unfollow", e))
  /\ UNCHANGED <<follows, told, lost>>

\* The friendship, if any, is over; the next one is to be told again.
Remove(c) ==
  /\ req[c].at = "unfollow"
  /\ follows' = follows \ {req[c].pair}
  /\ told' = told \ Both(req[c].pair)
  /\ lost' = lost \ Both(req[c].pair)
  /\ Goto(c, Call("unfollowed", req[c].pair))

\* Mutant of Answer: the first follower is the one who is told.
AnswerFirst(c) ==
  /\ req[c].at \in {"followed", "unfollowed"}
  /\ told' = IF req[c].at = "followed" /\ Following(req[c].pair)
                  /\ ~Following(Back(req[c].pair))
             THEN told \cup {req[c].pair} ELSE told
  /\ Goto(c, Idle)
  /\ UNCHANGED <<follows, lost>>

\* Get reads the person back, and a Follow that finds a friend says so.
Answer(c) ==
  /\ req[c].at \in {"followed", "unfollowed"}
  /\ told' = IF req[c].at = "followed" /\ Friend(req[c].pair)
             THEN told \cup {req[c].pair} ELSE told
  /\ Goto(c, Idle)
  /\ UNCHANGED <<follows, lost>>

\* The next trip fails or the client hangs up: what was written stays.
Fail(c) ==
  /\ Failures
  /\ req[c] # Idle
  /\ lost' = IF req[c].at = "followed" /\ Friend(req[c].pair)
             THEN lost \cup {req[c].pair} ELSE lost
  /\ Goto(c, Idle)
  /\ UNCHANGED <<follows, told>>

\* The steps a request that has begun takes on its own.
Proceed(c) == Insert(c) \/ Remove(c) \/ Answer(c)

SocialNext ==
  \/ \E c \in Client, e \in Pair : Follow(c, e) \/ Unfollow(c, e)
  \/ \E c \in Client : Proceed(c) \/ Fail(c)

SocialSpec == SocialInit /\ [][SocialNext]_socialVars

-----------------------------------------------------------------------------
\* Request c has written a follow between the two and is going to read it back.
Closing(c, e) == req[c].at = "followed" /\ req[c].pair \in Both(e)

\* A friendship never comes about unnoticed: one of the two was told, is about
\* to be, or lost the answer.  Two who follow each other at the same moment
\* cannot both be answered that they only follow.
FriendshipTold ==
  \A e \in Pair : Friend(e) =>
    \/ Both(e) \cap (told \cup lost) # {}
    \/ \E c \in Client : Closing(c, e)
=============================================================================

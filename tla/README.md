# A verification of Sakura happy cottage

This directory holds TLA+ models of the Go server of *Sakura happy cottage* (a
memo application with accounts, mailed links, attachments and friends) and of
its web client, the TLC runs that check them on small instances, and proofs,
checked by TLAPS, of what holds for every value of the constants.
`PROJECT.json` maps every definition to the lines of source it stands for. Paths
below are relative to `src/`.

1. [The system](#the-system)
2. [Where it is hard](#where-it-is-hard)
3. [Modules](#modules)
4. [Runs](#runs)
5. [Bounds](#bounds)
6. [Fairness](#fairness)
7. [What is proved](#what-is-proved)
8. [Where the code and the documents part](#where-the-code-and-the-documents-part)
9. [What is not modelled](#what-is-not-modelled)
10. [Plan](#plan)

## The system

One Go process serves a React client over HTTP. `net/http` runs one goroutine
per request; the goroutines share no memory that matters. All state is in
Postgres (through GORM), in Redis and in an upload directory, and a request
reaches each of them in separate round trips. Whatever goes wrong goes wrong
between two of those trips.

| Component | Source | State | Operations |
| --- | --- | --- | --- |
| Session store | `internal/platform/cache/redis.go` | `session:<hash>`, `user-sessions:<id>`, each with a time to live | PutSession, SessionUserID, TouchSession, DeleteSession, DeleteOtherSessions, DeleteUserSessions |
| Rate limiter | `Redis.Allow` in the same file | `rate:<bucket>` with a time to live | Allow |
| Accounts | `internal/service/auth.go`, `repository/user.go`, `cmd/server/http.go` | password hash in `users`; sessions through the store | Register, Login, Current, Logout, ChangePassword, UpdateProfile |
| Mailed links | `internal/service/account.go`, `repository/token.go` | `auth_tokens`, `users.email` | BindEmail, VerifyEmail, ForgotPassword, ResetPassword |
| Memos | `internal/service/memo.go`, `repository/memo.go` | `memos`, `attachments`, the upload directory | List, Create, Update, Delete, Attachment |
| Social | `internal/service/social.go`, `repository/social.go` | `follows`; friends are mutual follows | Follow, Unfollow, lists, search |
| Settings | `repository/settings.go`, `cmd/server/settings_handlers.go` | the one row of `system_settings` | Ensure, Get, Save |
| Bootstrap | `cmd/server/main.go`, `repository/user.go` (`EnsureBootstrapAdmin`), `platform/database` | schema, settings row, administrator row, owners of old memos | run by every process that starts |
| Mailer | `internal/platform/mailer/mailer.go` | none | Send |
| Client shell | `web/src/app`, `web/src/features/auth`, `web/src/shared/api.ts` | the user App believes in, the view, the forms; the cookie and the address of the browser | session check, login, register, reset, logout, navigation |
| Client pages | `web/src/features` | React state: copies of what the server said | lists, forms, effects |

How they interact: `withAuth` asks the session store for the user of a cookie
and touches the session before any protected handler runs. Register, Login,
BindEmail and ForgotPassword ask the rate limiter first. Login and Register
write a session after they have read or written the user row; ChangePassword
and ResetPassword write the user row and then revoke sessions. BindEmail and
ForgotPassword store a link in Postgres, then hand it to the mailer.
VerifyEmail and ResetPassword redeem a link in one Postgres transaction.
Memos tie a row, the rows of its attachments and their files together.
Follow and Unfollow write one row and read the person back. An administrator
saves the settings row that BindEmail and ForgotPassword read at their start. The
client keeps copies of all of these and replaces them by answers in the order
in which they arrive; no call is ever cancelled, and a continuation runs even
when the component that made the call is gone. The cookie belongs to the browser:
every answer may set or clear it, and every tab shares it.

What makes each correct:

- *Session store*: a bulk revocation finds every live session of its user;
  a session that ended stays ended.
- *Rate limiter*: no window admits more than its limit; a full bucket reopens.
- *Accounts*: a session opened under a replaced password does not stay.
- *Mailed links*: a link works once and for the address it reached; addresses
  are unique; a waiting transaction is eventually served.
- *Memos*: an attachment can be served, a file belongs to an attachment, a
  deleted memo is gone, a user's memos are changed by that user only.
- *Social*: no friendship comes about without one of the two being told.
- *Settings*: a save changes what was edited.
- *Bootstrap*: a process that serves has its administrator, and no start takes
  anything from anybody.
- *Client shell*: the calls of a signed-in user carry his session; whoever is
  asked to sign in is signed out; a mailed link is used once.
- *Client pages*: what a page shows is what the server holds once its calls are
  answered, under the heading it belongs to.

## Where it is hard

- **Two trips, one intention.** `deleteUserSessions` lists and then deletes,
  `Allow` counts and then sets a time to live, `Login` compares and then stores
  a session, `Update` reads a row and then saves a copy, `Delete` reads the
  attachments and then deletes their memo.
- **Two stores, no transaction across them.** The password is in Postgres and
  the sessions in Redis; attachment rows are in Postgres and files on disk.
- **Failure in the middle.** A request's context is cancelled when its client
  leaves; a statement may be reported as failed although it committed; a mail
  may be accepted and `Quit` still fail; the server may stop.
- **Copies.** A page shows, and a form sends back, what was read before others
  wrote; answers overtake each other.
- **Several processes.** A container is started again while another one serves,
  on a database that a stopped start left half prepared.
- **Time.** Every key of Redis runs out; a link lapses while a transaction
  already holds its row.

`PROJECT.json` lists these as hazards, each at its line, with the property that
would catch it going wrong.

## Modules

| Module | Models | Uses |
| --- | --- | --- |
| `SessionBook` | *abstract*: live sessions, their owner and the set a revocation will find | |
| `SessionStore` | the Redis commands of the session half of `redis.go` | implements `SessionBook` |
| `SessionStoreProofs` | theorems about `SessionStore` | |
| `Accounts` | passwords and sessions: the requests of `auth.go`, ResetPassword of `account.go` | acts on `SessionBook` |
| `AccountsProofs` | theorems about `Accounts` | |
| `LinkBook` | *abstract*: the life of a mailed link and the address it binds | |
| `AuthTokens` | BindEmail, VerifyEmail, ForgotPassword, ResetPassword, the token transactions, the mailer's outcomes, the mail switches | implements `LinkBook` |
| `AuthTokensProofs` | theorems about `AuthTokens` | |
| `RateLimit` | one bucket of `Redis.Allow` | |
| `Memos` | Create, Update, Delete over rows, attachment rows and files | |
| `MemosProofs` | theorems about `Memos` | |
| `Social` | Follow and Unfollow, statement by statement | |
| `SocialProofs` | theorems about `Social` and `PeoplePage` | |
| `PeoplePage` | the client's page of follows and friends and the profiles it opens, their calls and answers | extends `Social` |
| `MemoPage` | the client's page of memos, its calls and their answers, over the rows of the memos | |
| `MemoPageProofs` | theorems about `MemoPage` | |
| `Shell` | App, AppShell and AuthScreen of the client, over the cookie and the sessions | |
| `ShellProofs` | theorems about `Shell` | |
| `Settings` | the one row of `system_settings`, and what Ensure inserts | |
| `AdminPanel` | saves of the settings row and the client's form of it | extends `Settings` |
| `Startup` | `main` up to the listener: settings, administrator, adoption of memos | extends `Settings` |
| `ServerProofs` | theorems about `RateLimit`, `Startup` and `AdminPanel` | |
| `MC…` | symmetry sets and bounds for TLC | the module of that name |

The composition is by books: `SessionStore` is shown to implement `SessionBook`
(checked, and proved), and `Accounts` composes its requests with the actions of
`SessionBook` instead of with six Redis keys. So what is said of `Accounts`
rests on the theorem `ImplementsBook` of `SessionStoreProofs`. `PeoplePage` takes
its server steps from `Social`. `Memos` and `MemoPage` share the rows: the first has
their attachments and files, the second the page in front of them. `Shell` has of
the sessions only who owns a live one; how they end is `Accounts` and
`SessionStore`. The settings row is declared in `Settings`;
`Startup` creates it, `AdminPanel` has the forms that replace it. `AuthTokens` has
of it the mail switches a request has read. `ServerProofs` extends three modules
that share no more than that row, which is why the names of `RateLimit` and
`Startup` carry a prefix.

### SessionStore

`owner`/`ttl` are value and time to live of the session keys; `index`/`indexTtl`
those of the user-sessions keys. A `TxPipeline` is one action; `ListOthers` or
`ListAll` and then `DeleteListed` are the two trips of `deleteUserSessions`
(`keep = None` is the empty string, for which the whole index is deleted). `call`
is what a request carries from trip to trip: the hash and the user it looked up,
or the members it listed. `Tick` is Redis' clock: it lowers every time to live at
once and removes what reaches zero. `issued` and `raced` are history: nothing
reads them but the properties and the guard that hashes are fresh (256 random
bits).

### Accounts

A password is its *version*; every write of the row makes the next. `req` says
where a request is and what it has read (`proved`: the password was compared;
`authed`: the cookie was resolved; `compared`, `written`, `listed`: the trips of
ChangePassword and ResetPassword). `born` remembers the version a session's owner
proved, `seen` the version in force when it was stored. A password change counts
as a proof for the session it is made from, because that is the one the code
keeps. `Fail` is a failed trip or a client that leaves: `cut` records a
revocation that was cut short by it. Redis' clock is `Expire` of the book: any
set of sessions may end at any time. `ForgetEnded` clears the history of a session
that ended, which no property looks at.

### AuthTokens

Postgres runs at READ COMMITTED. `Replace` (DELETE, INSERT, commit) is two
actions: `BeginReplace` takes the snapshot of the DELETE and `CommitReplace`
waits until none of those rows is locked. `SELECT … FOR UPDATE` is two actions as
well: `Open` sends it, with the purpose and with the time of that moment as a value
of the query, and `LockToken` returns when no other request has the row, with the
row as it is by then, used or deleted rows excluded. A link whose time runs out
during the wait is still handed out: in the refinement of `LinkBook` a link counts as
open for as long as a request that asked in time waits for it or has it (`Asked`). `Redeem` is the rest of the
transaction, one step because it ends in one commit and its row is locked; a
confirmation whose address was taken by then is rolled back (`ok` is false).
`UpdateEmail` is the unconfirmed path, guarded only by the unique index. `Send`
has four outcomes, because `mailer.Send` can fail after the server accepted the
mail. `settings` may change at any time while a request keeps what it has read.
`prior` is history: the tokens issued before the Replace of a token began, by which
ReplacedLinksDead tells an older link from one of a Replace that overlapped.
The password that ResetPassword writes is the subject of `Accounts`.

Hidden, because nothing here distinguishes them: hashing of tokens, the texts of
mails, the identical answer of ForgotPassword for unknown addresses.

### RateLimit

One bucket: `Incr` is the INCR and the decision of every request that did not
count to one; `SetExpire` is the EXPIRE and the decision of the one that did;
`ExpireFails` is that request lost in between. A key without a time to live has
`ttl = NoTTL`. `granted` counts what this life of the key admitted. Buckets do
not interact, so one is enough. A reply that gets lost after the command took
effect only lowers `granted` and is not modelled apart.

### Memos

`row` is the memos table, `att` the attachments (stored name to memo), `disk` the
directory. Create is `CreateRow`, a `SaveFile` per upload, `AddAttachments`; a
failure on the way is `SaveFileFails` or `AddAttachmentsFails`, followed by
`Undo`. `RemoveAll` is every `os.Remove`: the code looks at none of its errors, so
any of the files may stay (`kept`). Update is `ReadForUpdate`, `SaveCopy`, and `SaveCopy` writes whatever was
read, because GORM's `Save` inserts the row when its UPDATE matches none. Delete
is `ReadForDelete`, `DeleteRow`, `RemoveFiles`. `DropRow` includes the `ON DELETE
CASCADE` of the schema. `Stop` ends every request at once. `leaked` and `lost`
are history and name the known causes by which a file stays without a row, or
a row without a file.

### Social and PeoplePage

`follows` is the table. A Follow is `Follow` (the checks), `Insert` and `Answer`
(the read that decides whether "you are friends now" is said); an Unfollow is
`Unfollow`, `Remove`, `Answer`. Friendship is never stored: it is two rows, so
nothing but the final read of one of the two requests can notice it. `told` and
`lost` remember which answer noticed it and which failed.

`PeoplePage` adds what the viewer has in front of him: `page` is the state of the
component (`initialTab`, `tab`, `searching`, `loading`, the rows with their follow
flags), `call` what each fetch was made for, `reply` the answer that travels. A
click is `Open`, `Close`, `SetTab`, `OpenSocial`, `Search`, `Reload` or `Toggle`, with
the guard its button has in the JSX; `Elsewhere` is a follow from another device.
`OpenProfile` replaces the list by the profile of a person, which is loaded
(`ReadPerson`, `PersonArrives`) and has a follow button of its own (`Toggle`).
`ListArrives`, `RowArrives`, `ErrorArrives` and `EmptyArrives` are the continuations
after `await`; the last is an answer whose body could not be read, which
`request` turns into an empty success. `OpenSocial` is the menu of the shell: it changes
`initialTab`, whose effect leaves the search without fetching anything when the
tab is the same.

Overlapping clicks do leave a page that shows one thing and says another, and the
client does nothing about it. `muddled` marks such a viewer, `relabelled` a page
whose results the menu renamed; the properties say that there is no other cause,
and that one list fetched alone ends the muddle.

### MemoPage

`row` is the status of each memo on the server, `page` the component (`list`: the
cards it has of each memo, `busy`: the composer), `call` the calls in flight with
the trips they still have to make. `Open` mounts the page, whose effect loads the
list once; `CreateMemo`, `ToggleMemo` and `RemoveMemo` are the buttons; `Elsewhere` is
another device. `ReadList`, `InsertRow`, `ReadRow`/`SaveRow`/`ReadBack`, `DeleteRow` and
`UndoCreate` are the trips of the handlers; `…Arrives` the continuations, which
prepend, map and filter whatever the list is by then.

An answer without a body is an empty success: a load leaves an empty list, a create
or an update puts a card of no memo into it. Such a card has no date, and
`formatDateTime` throws when it is rendered (`shared/format.ts:4`): `EmptyShown` takes
the page down, and its calls are answered to nobody. While the filter hides the card
(`EmptyArrives`) the page goes on; `Close`, possible at any time, stands also for the
page that goes down when the filter is changed.

A list can hold a memo twice (created while the list was read, and prepended
then) or miss it; `blurred` marks a memo that two calls were about at once, that
was created or changed during the load, by a call that failed or by another
device. ListSettles says that there is no other cause. `copied` marks the memos an
update had read when they were deleted: DeletedUnlessCopied says that only such a
memo comes back, and nothing a page shows or sends adds another way.

### Shell

The browser has a `cookie` and the `link` in its address; the document has `app` (the
state of App), `auth` (AuthScreen while it is mounted) and its calls. A call keeps the
cookie it was made with, the answer what it does to the cookie (`set`). The server
is `HandleLogin`, `HandleOpen`, `Unauthorized` (withAuth), `Handle` and `Fail`. `Visit`
loads the document; `MeArrives` ends the session check; `Mount` is the effect of
AuthScreen on the address; `SubmitArrives`, `ResetArrives`, `LogoutArrives`,
`SaveArrives` and `PageArrives` are the continuations, which all take the cookie of
the answer. Register is a login here: both hand out a session and call onAuth.

`FormBusy`, a part of TypeOK, is about the one flag that disables the buttons of both
forms: it is up exactly while one call of the form that is shown (`Waits`) is under
way, and two never are. `posted` is history: what became of the confirmation in the
address (`due` until it is posted).

`Render` unmounts what App no longer shows, and a call of an unmounted form goes on:
a login still lets its user in, and a save of a profile still calls `setUser`, which
brings the shell back after a logout. `odd` names what may stand between App and
the cookie: another tab (`tab`), such a late save (`late`), a cookie cleared by the
answer of an older call (`swept`), a check or a logout that failed (`kept`), an answer
without a body (`cut`). `entered` is the session its user was let in with. The
cookie and the continuation of an answer are one step: in the browser the header is
read shortly before the body.

### AdminPanel

`row` is the settings row; `form` is a panel's copy of its switches with the text
of the password field, which React does not control and which therefore survives
an answer. `Load`/`ReadSystem`/`Arrive` is loadSystem, `Submit`/`Save`/`ReadBack`/`Arrive`
saveSystem. `SaveElsewhere` is an administrator whose panel is not looked at.
`edits` remembers what was changed on a copy, `stale` that another save has
overtaken it, from the moment it was read on the server. `EmptyArrives` is an answer
without a body: there are no settings to render, and the page goes down.

### Startup

A process is `Start` (configuration, connection, migration), `EnsureSettings`,
`LookUp`, `InsertAdmin` when there is no account, `Adopt`. The last three are one
transaction: `role` changes when it commits, and a row that is inserted and not
committed, or locked, is known by where its process is. `Stop` rolls back.
`Register` is the only other writer of accounts; memos are adopted once.

### Mutants

Some modules hold, next to an operator, a variant under the comment *Mutant of*:
the operator with a plausible bug. No specification uses it. Putting it in the
operator's place must break the property `PROJECT.json` lists with it, which
shows that the property depends on that code.

## Runs

| Run | Checks | Shows |
| --- | --- | --- |
| `session_store` | TypeOK, IndexOutlivesSessions, IndexedUnlessRaced, NoResurrection, BookSpec | Both keys are refreshed together, so a revocation is never blind to a session; a late touch revives nothing; the one session a later revocation can miss is one stored between SMEMBERS and DEL of a reset. |
| `accounts` | TypeOK, StaleSessionExplained, OldSessionsEnd | Every live session opened under an old password has one of four causes: its revocation is on the way, its login overtook the write, it was stored inside a reset's revocation, or that revocation was cut short. All but those of the last three causes do end. |
| `accounts_race` | OldSessionsRevoked, **violated** | A login that overtakes a reset leaves a session, with no failure at all. |
| `tokens` | TypeOK, SingleUse, ReplacedLinksDead, AddressProven, BookSpec, RequestsEnd | Links take effect once whoever opens them at the same time; once a newer link is stored an older one never does, even if it was opened before or the newer one was withdrawn; an address is bound by the link of that user for that address or by a request for it that read confirmation as off; the transactions implement `LinkBook`; no request waits for the row of a link for ever. |
| `rate_limit` | BucketTypeOK, WithinLimit, WindowOpened, WindowKept, ReopensUnlessCut | No window admits more than its limit, whoever counts before the EXPIRE; a running window is never moved; a full bucket reopens unless its EXPIRE was lost. |
| `memos` | TypeOK, AttachmentHasFile, FilesAccounted, OnlyAuthorChanges | Attachments have their file and files their reason, but for the named causes; nobody changes another user's memo. |
| `memos_orphan` | NoOrphanFiles, **violated** | A delete that overtakes a create leaves a file, with no failure at all. |
| `people` | TypeOK, FriendshipTold, RowsSettle, ListMatchesTab | Two who follow each other at the same moment are not both told that they only follow. The list and the profiles it opens show whom their viewer follows, under the heading they belong to, once calls that did not overlap are answered. |
| `memo_page` | TypeOK, ListSettles, DeletedUnlessCopied | Every memo that was left to one call at a time is shown as the server has it, once, as long as the page is up; a deleted memo comes back only through an update that had read it. |
| `shell` | TypeOK, ShellMatchesSession, SignedOutIsOut, LinkPostedOnce | The calls of a signed-in user carry the session he was let in with and never name somebody else; the login screen means that no call finds a session; a confirmation link is posted once and stays in the address until then; the form is disabled exactly while a call of it is under way. The two properties about sessions hold but for the causes `odd` names. |
| `startup` | StartupTypeOK, ReadyToServe, NothingTaken | Whichever of three processes serves has its administrator, its settings and an owner for every memo; no start promotes a user, takes a memo or resets saved settings. |
| `admin_panel` | TypeOK, PanelCurrent, OnlyEditsSaved | Of forms of different age, a save changes a switch nobody touched on it only when another save overtook its copy; a panel that was not overtaken shows what is in force. |

Run one with `tlc -workers 2 -config Memos.cfg MCMemos`; check the proofs with
`tlapm SessionStoreProofs.tla`.

## Bounds

- *SessionStore*: two users, three hashes, two requests, a time to live of two
  ticks. Two requests suffice for each race of the store, which are all between
  one request that has read and one that acts; two ticks make keys of different
  age, so an index could fall behind a session. Hashes are never reused, so at
  most three sessions are stored in a behaviour. The proofs lift all these bounds.
- *Accounts*: one user (a request touches the row and sessions of one user only;
  several users are in `SessionStore`), two hashes and three requests: one that
  writes a password, one that overtakes it and one that revokes again. A change
  of password keeps one session and must end the other. `MaxVersion = 3` lets two
  writes follow the first version, so a revocation may race a second write. The
  theorems lift the bounds for both invariants; `MaxVersion` may be any number.
- *AuthTokens*: `TokensLeft` stops new requests when no fresh token is left, so a
  request that has begun always finds one and no wait is an artefact of the
  bound. Two users and two addresses, so that a link for the wrong address or the
  wrong user can occur: both may ask for one address, one of them for the other as
  well (`Wishes`). Two tokens, an older and a newer link; they are random, so TLC
  hands them out in one order (`InOrder`). Two requests, one that waits and one that
  it waits for; whoever it waits for may begin again at any time. Settings that bind
  at once, and settings with confirmation and recovery. The theorems lift these
  bounds for all its properties but RequestsEnd.
- *RateLimit*: the real limit and window of registration (8 in 15 minutes) and
  three requests. `Top = Limit + 1`: a higher count decides nothing further. The
  theorems hold for every limit and window, with any number of requests.
- *Memos*: two users, two memos, two uploads, three requests. Ids and names are
  handed out once. A third request can delete while a first creates and a second
  updates. The theorems lift the bounds for all four properties.
- *PeoplePage*: a viewer and somebody else, who follows and unfollows too, and two
  calls in flight, the least with which answers overtake each other. The theorems
  lift the bounds for all four properties: any number of viewers and calls.
- *MemoPage*: two memos and two calls, the least with which two answers, or an
  answer and another device, overtake each other, with one memo to be left alone.
  Ids are handed out once. A third call leads beyond twenty million states; the
  theorems lift the bounds for all three properties.
- *Shell*: two users, two sessions, two calls and two loads of the document. One
  late answer of each kind meets one newer login, which needs two sessions, and
  two users, since it may be somebody else's; other tabs and devices act without a
  call. The document is loaded once more to forget App and keep the cookie.
  The theorems lift the bounds for all four properties; `MaxVisits` may be any number.
- *AdminPanel*: one panel that is looked at, two of its calls, and saves of any
  valid form from elsewhere; a switch that needs another one, and one password. The
  theorems lift the bounds for all three properties.
- *Startup*: three processes on two account names and two memos, on a new database
  or one with accounts. The theorems lift the bounds for all three properties.
- Symmetry is used only in runs that check safety. The constants it permutes
  occur in no definition but as elements of their sets.

Deadlock is checked in every run: the clock, an expiry, a new request or a click
can always act, and where it cannot the run would say so.

## Fairness

- `Accounts`: weak fairness of every step a *started* request takes on its own.
  The Go scheduler runs every goroutine and every client call returns, with an
  error at the latest when the context ends. Nothing is assumed of requests that
  have not begun, nor of Redis' clock, nor that failures stop.
- `AuthTokens`: strong fairness of the same steps, since a transaction that waits
  for a row lock may be enabled and disabled again by others; Postgres queues
  waiters, so nobody is overtaken for ever.
- `RateLimit`: weak fairness of the EXPIRE and of the clock.

`SessionStore`, `Memos`, `PeoplePage`, `MemoPage`, `Shell`, `AdminPanel` and `Startup` are checked for safety
only and assume no fairness. No run assumes that a user does anything.

## What is proved

`SessionStoreProofs` proves, for every set of users, hashes and requests and every
time to live above zero, from `NoneAssumption` and `TTLAssumption` alone:

- `TypeCorrect`, `IndexOutlives`, `Indexed`: the three invariants of the run;
- `NeverBack`: the action property NoResurrection;
- `ImplementsBook`: `Spec => BookSpec`, the refinement.

None of the invariants is inductive alone. The inductive invariant `IInv` adds

- `Provenance`: what a request remembers, and what an index lists, was stored
  once and still belongs to that user or to nobody. Without it a stale request
  could delete another user's session;
- `Covered`: what a whole-index revocation has not read was stored after it
  read, hence is in `raced`. It is what makes the DEL of the whole index safe for
  `IndexedUnlessRaced`.

One lemma per conjunct shows that every action keeps it (`TypeStep`,
`ProvenanceStep`, `IndexOutlivesStep`, `CoveredStep`, `IndexedStep`); `BookStep`
maps every step to one of the book or to a stutter: a touch is invisible, and a
tick is the book's `Expire` of exactly the keys that run out, whose guard is
`IndexOutlivesSessions`.

`AuthTokensProofs` proves, for every set of users, addresses, tokens and requests and
every choice of settings, from `NoneAssumption` alone:

- `TypeCorrect`: TypeOK;
- `Once`: SingleUse;
- `Replaced` and `Proven`: the action properties ReplacedLinksDead and AddressProven;
- `ImplementsBook`: `Spec => BookSpec`, the refinement of `LinkBook`.

The inductive invariant adds to TypeOK: `Holds`, a request that holds
a token has the lock of a row that is still there, delivered and unused; `Waits`, what
a request waits for had arrived; `Spent`,
a token that took effect is marked used for as long as it has a row; `Issued`,
what expires and what a Replace has seen was issued before, to the same user for
the same purpose. SingleUse alone says nothing about the request that is between
its SELECT and its commit. `BookStep` maps CommitReplace to
Issue, Redeem to Redeem or to Lapse, Withdraw, Fail and Expire to Lapse or to a
stutter (a lapsed link is gone when the last request that asked in time gives up),
UpdateEmail to Bind, and everything else to a stutter: a lock takes the place of the
question. For
ReplacedLinksDead, `PriorGone` says that no link that was issued before the Replace of
a newer one of its kind has a row once that Replace has committed, so that no request
can hold it; a Replace that is on its way has in `old` every such row.

`AccountsProofs` proves, for every set of users, hashes and requests and every bound on
versions, from `NoneAssumption` and `BoundAssumption`:

- `TypeCorrect`: TypeOK;
- `Stales`: StaleSessionExplained.

The inductive invariant adds

- `Rows`: whoever has a session, or is about to have one, has a row;
- `Provenance`: what an index lists, and what a request remembers, was stored once
  and still belongs to that user or to nobody;
- `Indexed` and `Covered`: the index finds every session that is not in `raced`, and
  so does a revocation that has listed the whole index;
- `Explanation`: StaleSessionExplained, where the revocation that is on the way was
  promised by a password newer than the one the session proves. Without that a
  revocation which fails would leave a session that `cut` does not explain, since
  `cut` remembers the version that was promised.

`ExplanationStep` has one step per action; the interesting ones are the write that
makes sessions stale and, in the same step, promises to end them, the late login, and
the trip in which a revocation reads an index that lacks what is in `raced`.

`MemosProofs` proves, for every set of users, memos, stored names and requests, from
`NoneAssumption` (the empty value is no id):

- `TypeCorrect`: TypeOK;
- `Served`: AttachmentHasFile; `Accounted`: FilesAccounted;
- `OnlyAuthor`: the action property OnlyAuthorChanges.

The inductive invariant adds

- `Named`: what one Create saves is known to no other request and has no rows, so
  that removing the files of one memo never takes those of another;
- `Referenced`: the foreign key of the attachments, which the cascade keeps;
- `Dropped`: the files a Delete has read belong to its memo, and to none once the
  row went: a stored name is never given to a second memo;
- `Created`: a memo is created by one request, and while that one works nothing
  else attaches a file to it, so that Undo leaves nothing behind but what `leaked`
  or `lost` name;
- `Authored`: a row, and each request that is going to write one, has the user the
  memo was created for. OnlyAuthorChanges follows from it for each step.

`SocialProofs` proves, for every set of users, viewers and requests, from
`ViewerAssumption` (whoever has a page is a user), first of the server `Social`:

- `Told`: SocialTypeOK and FriendshipTold. The conjunction is inductive: whoever
  writes the second of two rows is himself the request that is going to read them.
  `Halves` says that the two directions of a pair have the same two rows; `ToldStep`
  goes through the actions.

And of `PeoplePage`, with any number of viewers, calls and devices:

- `PageTypes`: TypeOK; `Settled`: RowsSettle; `TabMatched`: ListMatchesTab;
- `PageUsesServer`: `Spec => SocialSpec`, every behaviour of the pages is one of the
  server, so that `Told` holds of it too: `FriendsTold`.

RowsSettle and ListMatchesTab speak of a viewer who waits for nothing. The inductive
invariant says what is so while he does:

- `Mounted` and `Placed`: a call of a page implies the page it was made from, and its
  request is on the server or back from it, never both;
- `Strangers`: nobody sees himself, so that every button asks for a pair;
- `Lonely`: a call that was never together with another one is its user's only one;
- `Answered`: the answer of such a call is still true when it arrives, because only
  its user could have changed what it says;
- `Current`: the rows of a page are true, but for the one a follow is under way for,
  until it is written, and until its answer is there;
- `Headed` and `Labelled`: the list that is fetched alone is for the tab that is
  shown, or the list that is shown is the last that was fetched.

`Clicks`, `Serves` and `Arrivals` say once what each group of actions amounts to
(`Fetching`, `Asking`, `Read`, `Written`, `ListShown`, `Puzzled`, …), `Steps` that there
are no others, and `Others` that a step is about one user: whatever is said of another
viewer stays true. What is left for each conjunct is the user the step is about.

`MemoPageProofs` proves, for every set of memos and calls, from `NoneAssumption` (the
empty value is no memo and no status):

- `Types`: TypeOK;
- `StaysDeleted`: DeletedUnlessCopied;
- `Settles`: ListSettles.

The inductive invariant adds

- `Gone`: a memo in `deleted \ copied` has no row and no update that has read it is
  about to save. The second half is what DeletedUnlessCopied lacks: Save inserts what
  it does not find. `DropGone` is the case of the delete itself, which marks in `copied`
  what some update holds;
- `Unused` and `Nameless`: an id that was not handed out is known to no call, no list and
  no answer, and a create has no id before its row, so that a failed load can leave
  only ids the list already lacks;
- `Settled`: ListSettles, where a memo one call is about, alone, is shown as that call's
  trips so far explain: still as it was, or gone, until the answer arrives.

`ShellProofs` proves, for every set of users, sessions and calls and every number of
visits, from the assumptions on the constants of `Shell` (`ContentAssumption`: a user is
not the name of a view):

- `TypeCorrect`: TypeOK, FormBusy included;
- `Matches`: ShellMatchesSession; `Out`: SignedOutIsOut; `Once`: LinkPostedOnce.

The inductive invariant adds

- `Handed`: what is in the cookie, and what App was let in with, was handed out; a
  session that is handed out never comes back under another owner;
- `Loaded` and `Checking`: while App checks the session, that check is the only call
  whose answer can reach it, so the cookie is still the one it took along, unless
  another tab has changed it;
- `Answers`: what an answer says was true when it was given. A session it sets is its
  user's or dead by now, a cookie it clears is dead, and whom a check or a save names
  was behind the cookie of its call;
- `Links`: the address has no link any more once the form is shown, and a
  confirmation is in the address exactly until it is posted;
- `Form`: FormBusy, where the form is there only for whoever is asked to sign in, so
  that an answer which lets somebody in takes the form along.

`Turns`, `Sends`, `Serves`, `Arrives` and `Visits` say once what a group of actions
leaves alone, and the step lemmas go through these groups. An answer arrives in two
parts, cookie and continuation; `Arrives` puts them together.

`ServerProofs` has three parts. The first proves of one bucket of `RateLimit`, for
every limit, window and set of requests, from `LimitAssumption`:

- `BucketTypes`: BucketTypeOK; `BucketBounded`: WithinLimit;
- `BucketOpened`: WindowOpened;
- `BucketKept`: WindowKept.

Its inductive invariant adds `Counted`: what was admitted is at most the count,
and one less while the request that opened the window has not been admitted; a
request that waits for its EXPIRE means that the key has no time to live. Without
the second half the count might return to zero while that request is on its way,
and its late EXPIRE would cut another window.

The second proves of `Startup`, for every set of processes, account names, memos and
switches, from `NameAssumption` (the empty value is no name):

- `StartTypes`: StartupTypeOK, with the locks on the rows of accounts;
- `Ready`: ReadyToServe;
- `Untouched`: the action property NothingTaken.

The inductive invariant adds `Known`, what a process that is past a statement knows:
that the settings are there, and that the row it has found is an administrator's, or
that the name it has inserted is still nobody's. The last is what makes a commit take
nothing from a user who registers meanwhile; it is kept because a registration waits
at the unique index for the transaction that inserted. `OneProcess` covers all
statements that change nothing but where one process is.

The third proves of `AdminPanel`, for every set of panels, calls, switches and
passwords, without an assumption on any of them:

- `PanelTypes`: TypeOK; `Current`: PanelCurrent;
- `OnlyEdits`: the action property OnlyEditsSaved.

The inductive invariant follows a copy of the switches from the read of the row to
the save that sends it back. `CopyKept`: what is shown on a panel no save has
overtaken differs from the row only in what was edited there. `CallKept`: the same of
a save that is on its way, and an answer on its way differs in nothing. PanelCurrent
is the case without edits; OnlyEditsSaved is the step in which such a save is
committed. `SaveStep` shows that a commit leaves no copy that is not marked, `LeaveStep`
that a panel that goes takes its copy along.

Only model-checked: liveness (`OldSessionsEnd`, `RequestsEnd`, `ReopensUnlessCut`),
which is out of the prover's reach. Every invariant and every action property of a
passing run is the statement of a theorem.

## Where the code and the documents part

| Run | Document | Code |
| --- | --- | --- |
| `accounts_race` | `docs/CODE_REVIEW.md:32`, old sessions are revoked after a password change or reset | Login stores the session in a later trip than it compares the password (`auth.go:82`) |
| `memos_orphan` | `docs/CODE_REVIEW.md:46`, the delete flow leaves no stray files | Delete removes the files it read before the row went (`memo.go:78`) |

In both no component fails: two ordinary requests interleave. Two more exceptions
are named by properties that hold but for them: a rate limit whose EXPIRE was lost
does not expire by TTL (`README.md:71`; `cut` in ReopensUnlessCut), and a memo deleted
after an update had read it is inserted again by GORM's `Save` (`repository/memo.go:38`;
`copied` in DeletedUnlessCopied).

## What is not modelled

- Reads that change nothing and whose answer no model keeps: Attachment, a
  person's counts.
- Text: titles, descriptions, validation, search, file names and sizes.
- The dialogue with the mail server, TLS, HTTP decoding, headers, logs.
- Configuration parsing and the text of the DDL; `Startup` has the databases they
  may find.
- Of the client: texts and their editing, the filter and search of memos, the open
  menu and its timer, toasts, the email form of the account page, games. A page that
  cannot be rendered is modelled as left.
- What becomes of a card without a memo while the filter of the page of memos hides
  it: only that it may take the page down later (`Close`).
- Connection pools and their limits; Redis persistence and eviction (a Redis that
  loses keys is a book in which sessions end, which `Expire` allows).
- A session TTL that changes with a restart (a hazard, planned below).
- Build files, CI, containers, the bundled frontend: no program logic.

## Plan

In this order, the most important first:

1. *Done*: `SessionBook`, `SessionStore` and its proofs; `Accounts`; `LinkBook`,
   `AuthTokens` and its proofs; `RateLimit` and its proofs; `Memos`; `Social`,
   `PeoplePage` with profiles, and their proofs; `AdminPanel`; `Startup`; `MemoPage` and
   its proofs; `Shell`; the proofs of `Accounts`, `Memos`, `Shell`, `Startup` and
   `AdminPanel`.
2. A restart with a smaller session TTL in `SessionStore`, which changes its proofs.

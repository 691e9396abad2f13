------------------------------- MODULE Memos -------------------------------
(***************************************************************************)
(* Memos and their attachments: internal/service/memo.go over              *)
(* internal/repository/memo.go (Postgres) and the upload directory.        *)
(*                                                                         *)
(* A memo row, the attachment rows that refer to it and the files are      *)
(* written in separate trips, and a browser with two tabs sends requests   *)
(* that interleave between them.  Ids and stored names are never reused.   *)
(***************************************************************************)
EXTENDS FiniteSets

CONSTANTS User, Memo, File, None,
          Client,   \* requests in flight
          Failures  \* may a statement or a write fail, or the server stop?

ASSUME NoneAssumption == None \notin Memo \cup User
ASSUME FailuresAssumption == Failures \in BOOLEAN

VARIABLES row,     \* the memos row of each id, or NoRow
          att,     \* the memo of the attachment row of each stored name, or None
          disk,    \* files in the upload directory
          req,     \* where each request is and what it has read
          ids,     \* history: memo ids handed out
          names,   \* history: stored names drawn
          author,  \* history: user each id was created for
          leaked,  \* history: files left behind by a known cause
          lost     \* history: files removed though their rows had committed

store == <<row, att, disk>>
history == <<ids, names, author, leaked, lost>>
vars == <<store, req, history>>

Status == {"open", "done"}
Row == [user : User, status : Status, completed : BOOLEAN]
NoRow == [user |-> None]
Exists(m) == row[m] # NoRow

Idle == [at |-> "idle"]
\* Create has its row and still has to save files, or to insert their rows.
Saving(u, m, todo, saved) ==
  [at |-> "saving", user |-> u, memo |-> m, todo |-> todo, saved |-> saved]
\* Create failed and is to delete its row.
Undoing(u, m) == [at |-> "undoing", user |-> u, memo |-> m]
\* Update has read the row and made the changed copy it will save.
Updating(u, m, copy) == [at |-> "updating", user |-> u, memo |-> m, copy |-> copy]
\* Delete has read the row and its attachments; or deleted it.
Deleting(u, m, files) == [at |-> "deleting", user |-> u, memo |-> m, files |-> files]
Removing(u, files) == [at |-> "removing", user |-> u, files |-> files]

Request ==
  {Idle}
    \cup [at : {"saving"}, user : User, memo : Memo, todo : SUBSET File,
          saved : SUBSET File]
    \cup [at : {"undoing"}, user : User, memo : Memo]
    \cup [at : {"updating"}, user : User, memo : Memo, copy : Row]
    \cup [at : {"deleting"}, user : User, memo : Memo, files : SUBSET File]
    \cup [at : {"removing"}, user : User, files : SUBSET File]

TypeOK ==
  /\ row \in [Memo -> Row \cup {NoRow}]
  /\ att \in [File -> Memo \cup {None}]
  /\ disk \subseteq File
  /\ req \in [Client -> Request]
  /\ ids \subseteq Memo
  /\ names \subseteq File
  /\ author \in [Memo -> User \cup {None}]
  /\ leaked \subseteq File
  /\ lost \subseteq File

Goto(c, r) == req' = [req EXCEPT ![c] = r]
Of(m) == {f \in File : att[f] = m}

Init ==
  /\ row = [m \in Memo |-> NoRow]
  /\ att = [f \in File |-> None]
  /\ disk = {}
  /\ req = [c \in Client |-> Idle]
  /\ ids = {}
  /\ names = {}
  /\ author = [m \in Memo |-> None]
  /\ leaked = {}
  /\ lost = {}

-----------------------------------------------------------------------------
\* Create inserts the row.  A memo created done has no completion time.  The
\* names uniqueName will draw for its uploads are 128 random bits each.
CreateRow(c, u, m, s, files) ==
  /\ req[c] = Idle
  /\ m \notin ids
  /\ files \cap names = {}
  /\ row' = [row EXCEPT ![m] = [user |-> u, status |-> s, completed |-> FALSE]]
  /\ ids' = ids \cup {m}
  /\ names' = names \cup files
  /\ author' = [author EXCEPT ![m] = u]
  /\ Goto(c, Saving(u, m, files, {}))
  /\ UNCHANGED <<att, disk, leaked, lost>>

\* saveFiles: one upload after the other ...
SaveFile(c, f) ==
  /\ req[c].at = "saving"
  /\ f \in req[c].todo
  /\ disk' = disk \cup {f}
  /\ Goto(c, Saving(req[c].user, req[c].memo, req[c].todo \ {f}, req[c].saved \cup {f}))
  /\ UNCHANGED <<row, att, history>>

\* os.Remove of each of the files.  Nobody reads its error: some may stay.
RemoveAll(files, kept) ==
  /\ kept \subseteq files
  /\ kept # {} => Failures
  /\ disk' = (disk \ files) \cup kept
  /\ leaked' = leaked \cup kept

\* Mutant of SaveFileFails: the files saved before are not removed.
SaveFileFailsKeeps(c, f, kept) ==
  /\ Failures
  /\ req[c].at = "saving"
  /\ f \in req[c].todo
  /\ RemoveAll({f}, kept)
  /\ Goto(c, Undoing(req[c].user, req[c].memo))
  /\ UNCHANGED <<row, att, ids, names, author, lost>>

\* ... or a copy fails and removes its own file and those saved before; a failed
\* Close is an error too and does not try to remove its own file.
SaveFileFails(c, f, kept) ==
  /\ Failures
  /\ req[c].at = "saving"
  /\ f \in req[c].todo
  /\ RemoveAll(req[c].saved \cup {f}, kept)
  /\ Goto(c, Undoing(req[c].user, req[c].memo))
  /\ UNCHANGED <<row, att, ids, names, author, lost>>

\* AddAttachments: one INSERT, which the foreign key refuses once the row has
\* been deleted; the files are removed then.
AddAttachments(c, kept) ==
  /\ req[c].at = "saving" /\ req[c].todo = {}
  /\ LET m == req[c].memo
         files == req[c].saved
     IN IF Exists(m) \/ files = {}
          THEN /\ kept = {}
               /\ att' = [f \in File |-> IF f \in files THEN m ELSE att[f]]
               /\ Goto(c, Idle)
               /\ UNCHANGED <<disk, leaked>>
          ELSE /\ RemoveAll(files, kept)
               /\ Goto(c, Undoing(req[c].user, m))
               /\ UNCHANGED att
  /\ UNCHANGED <<row, ids, names, author, lost>>

\* The INSERT returns an error, and may have committed all the same.
AddAttachmentsFails(c, committed, kept) ==
  /\ Failures
  /\ req[c].at = "saving" /\ req[c].todo = {} /\ req[c].saved # {}
  /\ LET m == req[c].memo
         files == req[c].saved
         stored == committed /\ Exists(m)
     IN /\ att' = [f \in File |-> IF stored /\ f \in files THEN m ELSE att[f]]
        /\ lost' = IF stored THEN lost \cup (files \ kept) ELSE lost
        /\ RemoveAll(files, kept)
        /\ Goto(c, Undoing(req[c].user, m))
  /\ UNCHANGED <<row, ids, names, author>>

\* Mutants of DropRow: a soft delete; no cascade to the attachments.
DropRowSoftly(m) ==
  /\ row' = [row EXCEPT ![m].user = None]
  /\ att' = [f \in File |-> IF att[f] = m THEN None ELSE att[f]]
DropRowOnly(m) == row' = [row EXCEPT ![m] = NoRow] /\ UNCHANGED att

\* DELETE ... WHERE id = ? AND user_id = ?; the attachment rows go with it.
DropRow(m) ==
  /\ row' = [row EXCEPT ![m] = NoRow]
  /\ att' = [f \in File |-> IF att[f] = m THEN None ELSE att[f]]

\* The repo.Delete of a failed Create.
Undo(c) ==
  /\ req[c].at = "undoing"
  /\ DropRow(req[c].memo)
  /\ Goto(c, Idle)
  /\ UNCHANGED <<disk, history>>

\* Mutant of ReadForUpdate: anyone may read.
ReadForUpdateByAnyone(c, u, m, s) ==
  /\ req[c] = Idle
  /\ Exists(m)
  /\ Goto(c, Updating(u, m, [row[m] EXCEPT !.status = s]))
  /\ UNCHANGED <<store, history>>

\* Update reads the row and changes a copy; the completion time follows a
\* change of status.
ReadForUpdate(c, u, m, s) ==
  /\ req[c] = Idle
  /\ row[m].user = u
  /\ LET old == row[m]
     IN Goto(c, Updating(u, m, [old EXCEPT !.status = s,
                 !.completed = IF old.status = s THEN @ ELSE s = "done"]))
  /\ UNCHANGED <<store, history>>

\* Save writes the whole copy.  When the UPDATE finds no row, GORM inserts it.
SaveCopy(c) ==
  /\ req[c].at = "updating"
  /\ row' = [row EXCEPT ![req[c].memo] = req[c].copy]
  /\ Goto(c, Idle)
  /\ UNCHANGED <<att, disk, history>>

\* Delete reads the memo and preloads its attachments ...
ReadForDelete(c, u, m) ==
  /\ req[c] = Idle
  /\ row[m].user = u
  /\ Goto(c, Deleting(u, m, Of(m)))
  /\ UNCHANGED <<store, history>>

\* ... deletes the row, unless somebody else just did ...
DeleteRow(c) ==
  /\ req[c].at = "deleting"
  /\ LET m == req[c].memo
     IN IF row[m].user = req[c].user
          THEN /\ DropRow(m)
               /\ leaked' = leaked \cup ((Of(m) \cap disk) \ req[c].files)
               /\ Goto(c, Removing(req[c].user, req[c].files))
          ELSE Goto(c, Idle) /\ UNCHANGED <<row, att, leaked>>
  /\ UNCHANGED <<disk, ids, names, author, lost>>

\* ... and removes the files it had read.
RemoveFiles(c, kept) ==
  /\ req[c].at = "removing"
  /\ RemoveAll(req[c].files \cap disk, kept)
  /\ Goto(c, Idle)
  /\ UNCHANGED <<row, att, ids, names, author, lost>>

\* FindOwned finds no such memo of the user: the request ends in a 404.
NotFound(c, u, m) ==
  /\ req[c] = Idle
  /\ row[m].user # u
  /\ UNCHANGED vars

\* A statement fails and the handler returns; a row that was to be undone stays.
DbError(c) ==
  /\ Failures
  /\ req[c].at \in {"undoing", "updating", "deleting"}
  /\ Goto(c, Idle)
  /\ UNCHANGED <<store, history>>

\* The server stops: requests are gone, and nobody remembers their files.
Stop ==
  /\ Failures
  /\ req' = [c \in Client |-> Idle]
  /\ leaked' = leaked \cup
       {f \in disk : att[f] = None /\ \E c \in Client :
          \/ req[c].at = "saving" /\ f \in req[c].saved
          \/ req[c].at = "removing" /\ f \in req[c].files}
  /\ UNCHANGED <<store, ids, names, author, lost>>

\* The steps a request that has begun takes on its own.
Proceed(c) ==
  \/ \E f \in File : SaveFile(c, f)
  \/ \E kept \in SUBSET File : AddAttachments(c, kept) \/ RemoveFiles(c, kept)
  \/ Undo(c)
  \/ SaveCopy(c)
  \/ DeleteRow(c)

Next ==
  \/ \E c \in Client, u \in User, m \in Memo, s \in Status, files \in SUBSET File :
       CreateRow(c, u, m, s, files)
  \/ \E c \in Client, f \in File, kept \in SUBSET File : SaveFileFails(c, f, kept)
  \/ \E c \in Client, committed \in BOOLEAN, kept \in SUBSET File :
       AddAttachmentsFails(c, committed, kept)
  \/ \E c \in Client, u \in User, m \in Memo, s \in Status : ReadForUpdate(c, u, m, s)
  \/ \E c \in Client, u \in User, m \in Memo : ReadForDelete(c, u, m) \/ NotFound(c, u, m)
  \/ \E c \in Client : Proceed(c)
  \/ \E c \in Client : DbError(c)
  \/ Stop

Spec == Init /\ [][Next]_vars

-----------------------------------------------------------------------------
Quiet == \A c \in Client : req[c] = Idle

\* What an attachment row promises can be served: its file is there, unless
\* the commit of the row was reported as a failure.
AttachmentHasFile ==
  \A f \in File : att[f] # None => f \in disk \cup lost

\* Every file is an attachment, or held by a request that will attach or remove
\* it, except those left by a Close or an os.Remove that failed, by a delete that
\* had not seen them, or by a server that stopped.
FilesAccounted ==
  \A f \in disk :
    \/ att[f] # None
    \/ f \in leaked
    \/ \E c \in Client : req[c].at = "saving" /\ f \in req[c].saved
    \/ \E c \in Client : req[c].at = "removing" /\ f \in req[c].files

\* Only a request of the user a memo was created for changes or removes it.
OnlyAuthorChanges ==
  [][\A m \in ids : row'[m] # row[m] =>
       \E c \in Client : req'[c] # req[c] /\ req[c].user = author[m]]_vars

\* "A failed write and the delete flow leave no files or inconsistent data"
\* (docs/CODE_REVIEW.md:46): when nothing is in flight, every file in the
\* upload directory belongs to an attachment.
NoOrphanFiles == Quiet => \A f \in disk : att[f] # None
=============================================================================

----------------------------- MODULE MemosProofs -----------------------------
(***************************************************************************)
(* Theorems about memos and their files, for every set of users, memos,    *)
(* stored names and requests.                                              *)
(***************************************************************************)
EXTENDS Memos, TLAPS

\* The files a request works on while they have no rows yet, or none any more.
Files(c) == IF req[c].at = "saving" THEN req[c].todo \cup req[c].saved ELSE {}
Read(c) == IF req[c].at \in {"deleting", "removing"} THEN req[c].files ELSE {}

\* A stored name was drawn before it is used, a saved file is there, and what
\* one Create saves has no rows and is known to no other request.
Named ==
  /\ disk \subseteq names
  /\ \A f \in File : att[f] # None => f \in names
  /\ \A c \in Client :
       /\ Files(c) \cup Read(c) \subseteq names
       /\ \A f \in Files(c) : att[f] = None
       /\ \A d \in Client \ {c} : Files(c) \cap (Files(d) \cup Read(d)) = {}
       /\ req[c].at = "saving" => req[c].saved \subseteq disk

\* The foreign key of the attachments.
Referenced == \A f \in File : att[f] # None => Exists(att[f])

\* A Delete knows files of its own memo; once the row went they have no rows.
Dropped ==
  \A c \in Client :
    /\ req[c].at = "deleting" => \A f \in req[c].files : att[f] \in {req[c].memo, None}
    /\ req[c].at = "removing" => \A f \in req[c].files : att[f] = None

\* A memo is created by one request.  Until that one is done nothing is
\* attached to it, but for rows whose INSERT was reported as a failure, and the
\* files of those are gone or left for good.
Creating(c) == req[c].at \in {"saving", "undoing"}
Created ==
  \A c \in Client : Creating(c) =>
    /\ \A d \in Client \ {c} : Creating(d) => req[d].memo # req[c].memo
    /\ \A f \in disk : att[f] = req[c].memo => f \in leaked
    /\ req[c].at = "saving" => \A f \in File : att[f] # req[c].memo

\* A memo, and whoever is going to write it, belongs to the user it was created
\* for.
Authored ==
  /\ \A m \in Memo : Exists(m) => m \in ids /\ row[m].user = author[m]
  /\ \A c \in Client : req[c].at \in {"saving", "undoing", "updating", "deleting"} =>
       req[c].memo \in ids /\ req[c].user = author[req[c].memo]
  /\ \A c \in Client : req[c].at = "updating" => req[c].copy.user = req[c].user

\* The inductive invariant.
IInv == /\ TypeOK /\ Named /\ Referenced /\ Dropped /\ Created /\ Authored
        /\ AttachmentHasFile /\ FilesAccounted

-----------------------------------------------------------------------------
\* The shape of the record of a request in each place.
LEMMA ReqShape ==
  ASSUME TypeOK, NEW c \in Client
  PROVE  /\ req[c] = Idle \/ req[c].at # "idle"
         /\ req[c].at \in {"saving", "undoing", "updating", "deleting"} =>
              req[c].user \in User /\ req[c].memo \in Memo
         /\ req[c].at = "saving" =>
              /\ req[c].todo \in SUBSET File /\ req[c].saved \in SUBSET File
         /\ req[c].at = "updating" => req[c].copy \in Row
         /\ req[c].at \in {"deleting", "removing"} =>
              req[c].user \in User /\ req[c].files \in SUBSET File
  BY DEF TypeOK, Request, Idle

\* The records that requests are set to.
LEMMA Places ==
  /\ Idle \in Request /\ Idle.at = "idle"
  /\ \A u \in User, m \in Memo, todo \in SUBSET File, saved \in SUBSET File :
       /\ Saving(u, m, todo, saved) \in Request
       /\ Saving(u, m, todo, saved).at = "saving"
       /\ Saving(u, m, todo, saved).user = u /\ Saving(u, m, todo, saved).memo = m
       /\ Saving(u, m, todo, saved).todo = todo /\ Saving(u, m, todo, saved).saved = saved
  /\ \A u \in User, m \in Memo :
       /\ Undoing(u, m) \in Request
       /\ Undoing(u, m).at = "undoing"
       /\ Undoing(u, m).user = u /\ Undoing(u, m).memo = m
  /\ \A u \in User, m \in Memo, copy \in Row :
       /\ Updating(u, m, copy) \in Request
       /\ Updating(u, m, copy).at = "updating"
       /\ Updating(u, m, copy).user = u /\ Updating(u, m, copy).memo = m
       /\ Updating(u, m, copy).copy = copy
  /\ \A u \in User, m \in Memo, files \in SUBSET File :
       /\ Deleting(u, m, files) \in Request
       /\ Deleting(u, m, files).at = "deleting"
       /\ Deleting(u, m, files).user = u /\ Deleting(u, m, files).memo = m
       /\ Deleting(u, m, files).files = files
  /\ \A u \in User, files \in SUBSET File :
       /\ Removing(u, files) \in Request
       /\ Removing(u, files).at = "removing"
       /\ Removing(u, files).user = u /\ Removing(u, files).files = files
  BY DEF Request, Idle, Saving, Undoing, Updating, Deleting, Removing

\* A request is moved and the others stay.
LEMMA Moved ==
  ASSUME TypeOK, NEW c \in Client, NEW r, Goto(c, r)
  PROVE  /\ req'[c] = r /\ \A d \in Client \ {c} : req'[d] = req[d]
         /\ r \in Request => req' \in [Client -> Request]
  BY DEF Goto, TypeOK

\* The copy that Update makes is a row of the user of the memo.
LEMMA Copied ==
  ASSUME TypeOK, NEW m \in Memo, NEW s \in Status, row[m].user \in User, NEW v \in BOOLEAN
  PROVE  /\ row[m] \in Row
         /\ [row[m] EXCEPT !.status = s, !.completed = v] \in Row
         /\ [row[m] EXCEPT !.status = s, !.completed = v].user = row[m].user
<1>1. row[m] \in Row
  BY NoneAssumption DEF TypeOK, NoRow
<1> QED BY <1>1 DEF Row

\* The initial states satisfy the invariant.
LEMMA InitInv == Init => IInv
<1> SUFFICES ASSUME Init PROVE IInv
  OBVIOUS
<1> USE DEF Init
<1>1. TypeOK
  BY Places DEF TypeOK
<1>2. \A c \in Client : req[c].at = "idle"
  BY Places
<1>3. \A c \in Client : Files(c) = {} /\ Read(c) = {}
  BY <1>2 DEF Files, Read
<1> QED
  BY <1>1, <1>2, <1>3
  DEF IInv, Named, Referenced, Dropped, Created, Creating, Authored, Exists, AttachmentHasFile, FilesAccounted

\* Every step keeps the types.
LEMMA TypeStep == ASSUME TypeOK, [Next]_vars PROVE TypeOK'
<1> USE DEF store, history
<1>1. ASSUME NEW c \in Client, NEW u \in User, NEW m \in Memo, NEW s \in Status,
             NEW files \in SUBSET File, CreateRow(c, u, m, s, files)
      PROVE  TypeOK'
  <2>1. [user |-> u, status |-> s, completed |-> FALSE] \in Row
    BY DEF Row
  <2> QED BY <1>1, <2>1, Places, Moved DEF CreateRow, TypeOK
<1>2. ASSUME NEW c \in Client, NEW f \in File, SaveFile(c, f) PROVE TypeOK'
  <2>1. /\ req[c].user \in User /\ req[c].memo \in Memo
        /\ req[c].todo \ {f} \in SUBSET File /\ req[c].saved \cup {f} \in SUBSET File
    BY <1>2, ReqShape DEF SaveFile
  <2> QED BY <1>2, <2>1, Places, Moved DEF SaveFile, TypeOK
<1>3. ASSUME NEW c \in Client, NEW f \in File, NEW kept \in SUBSET File,
             SaveFileFails(c, f, kept)
      PROVE  TypeOK'
  BY <1>3, ReqShape, Places, Moved DEF SaveFileFails, RemoveAll, TypeOK
<1>4. ASSUME NEW c \in Client, NEW kept \in SUBSET File, AddAttachments(c, kept)
      PROVE  TypeOK'
  BY <1>4, ReqShape, Places, Moved DEF AddAttachments, RemoveAll, TypeOK
<1>5. ASSUME NEW c \in Client, NEW committed \in BOOLEAN, NEW kept \in SUBSET File,
             AddAttachmentsFails(c, committed, kept)
      PROVE  TypeOK'
  BY <1>5, ReqShape, Places, Moved DEF AddAttachmentsFails, RemoveAll, TypeOK
<1>6. ASSUME NEW c \in Client, Undo(c) PROVE TypeOK'
  BY <1>6, ReqShape, Places, Moved DEF Undo, DropRow, TypeOK
<1>7. ASSUME NEW c \in Client, NEW u \in User, NEW m \in Memo, NEW s \in Status,
             ReadForUpdate(c, u, m, s)
      PROVE  TypeOK'
  <2>1. /\ row[m].user \in User
        /\ row[m] \in Row
    BY <1>7, NoneAssumption DEF ReadForUpdate, TypeOK, NoRow
  <2> DEFINE v == IF row[m].status = s THEN row[m].completed ELSE s = "done"
             copy == [row[m] EXCEPT !.status = s, !.completed = v]
  <2>2. v \in BOOLEAN
    BY <2>1 DEF Row
  <2>3. copy \in Row
    BY <2>1, <2>2, Copied
  <2>4. Goto(c, Updating(u, m, copy)) /\ UNCHANGED <<store, history>>
    BY <1>7 DEF ReadForUpdate
  <2> HIDE DEF v, copy
  <2> QED BY <2>3, <2>4, Places, Moved DEF TypeOK
<1>8. ASSUME NEW c \in Client, SaveCopy(c) PROVE TypeOK'
  BY <1>8, ReqShape, Places, Moved DEF SaveCopy, TypeOK
<1>9. ASSUME NEW c \in Client, NEW u \in User, NEW m \in Memo, ReadForDelete(c, u, m)
      PROVE  TypeOK'
  <2>1. Of(m) \in SUBSET File
    BY DEF Of
  <2> QED BY <1>9, <2>1, Places, Moved DEF ReadForDelete, TypeOK
<1>10. ASSUME NEW c \in Client, DeleteRow(c) PROVE TypeOK'
  <2>1. /\ req[c].user \in User /\ req[c].memo \in Memo /\ req[c].files \in SUBSET File
        /\ Of(req[c].memo) \in SUBSET File
    BY <1>10, ReqShape DEF DeleteRow, Of
  <2> QED BY <1>10, <2>1, Places, Moved DEF DeleteRow, DropRow, TypeOK
<1>11. ASSUME NEW c \in Client, NEW kept \in SUBSET File, RemoveFiles(c, kept)
       PROVE  TypeOK'
  BY <1>11, ReqShape, Places, Moved DEF RemoveFiles, RemoveAll, TypeOK
<1>12. ASSUME NEW c \in Client, DbError(c) PROVE TypeOK'
  BY <1>12, Places, Moved DEF DbError, TypeOK
<1>13. CASE Stop
  BY <1>13, Places DEF Stop, TypeOK
<1>14. CASE UNCHANGED vars
  BY <1>14 DEF vars, TypeOK
<1> QED
  BY <1>1, <1>2, <1>3, <1>4, <1>5, <1>6, <1>7, <1>8, <1>9, <1>10, <1>11, <1>12, <1>13, <1>14
  DEF Next, Proceed, NotFound

-----------------------------------------------------------------------------
\* What the other requests work on stays while one is moved.
LEMMA Others ==
  ASSUME TypeOK, NEW c \in Client, NEW r, Goto(c, r)
  PROVE  \A d \in Client \ {c} : Files(d)' = Files(d) /\ Read(d)' = Read(d)
  BY Moved DEF Files, Read

\* A name is drawn when a memo is created, and only its request passes it on.
LEMMA NamedStep == ASSUME TypeOK, Named, [Next]_vars PROVE Named'
<1> USE DEF store, history
<1>0. TypeOK'
  BY TypeStep
<1>a. ASSUME UNCHANGED names, disk' \subseteq disk,
             \A f \in File : att'[f] \in {att[f], None},
             \A d \in Client :
               /\ Files(d)' \in {Files(d), {}} /\ Read(d)' \subseteq Read(d)
               /\ req'[d].at = "saving" => req'[d] = req[d] /\ req[d].saved \subseteq disk'
      PROVE  Named'
  <2>1. disk' \subseteq names' /\ \A f \in File : att'[f] # None => f \in names'
    BY <1>a DEF Named
  <2>2. ASSUME NEW d \in Client
        PROVE  /\ Files(d)' \cup Read(d)' \subseteq names'
               /\ \A f \in Files(d)' : att'[f] = None
    <3>1. Files(d)' \subseteq Files(d) /\ Read(d)' \subseteq Read(d) /\ Files(d) \subseteq File
      BY <1>a, ReqShape DEF Files
    <3>2. Files(d) \cup Read(d) \subseteq names /\ \A f \in Files(d) : att[f] = None
      BY DEF Named
    <3> QED BY <1>a, <3>1, <3>2
  <2>3. ASSUME NEW d \in Client, NEW e \in Client \ {d}
        PROVE  Files(d)' \cap (Files(e)' \cup Read(e)') = {}
    <3>1. Files(d) \cap (Files(e) \cup Read(e)) = {}
      BY DEF Named
    <3>2. /\ Files(d)' \subseteq Files(d) /\ Files(e)' \subseteq Files(e)
          /\ Read(e)' \subseteq Read(e)
      BY <1>a
    <3> QED BY <3>1, <3>2
  <2> QED BY <1>a, <2>1, <2>2, <2>3 DEF Named
<1>1. ASSUME NEW c \in Client, NEW u \in User, NEW m \in Memo, NEW s \in Status,
             NEW files \in SUBSET File, CreateRow(c, u, m, s, files)
      PROVE  Named'
  <2>1. /\ files \cap names = {} /\ names' = names \cup files /\ UNCHANGED <<att, disk>>
        /\ Goto(c, Saving(u, m, files, {}))
    BY <1>1 DEF CreateRow
  <2>2. Files(c)' = files /\ Read(c)' = {} /\ req'[c].saved = {}
    BY <2>1, Places, Moved DEF Files, Read
  <2>3. \A d \in Client \ {c} :
          Files(d)' = Files(d) /\ Read(d)' = Read(d) /\ req'[d] = req[d]
    BY <2>1, Others, Moved
  <2> QED BY <2>1, <2>2, <2>3 DEF Named
<1>2. ASSUME NEW c \in Client, NEW f \in File, SaveFile(c, f) PROVE Named'
  <2>1. /\ req[c].at = "saving" /\ f \in req[c].todo /\ disk' = disk \cup {f}
        /\ req[c].user \in User /\ req[c].memo \in Memo
        /\ req[c].todo \in SUBSET File /\ req[c].saved \in SUBSET File
        /\ Goto(c, Saving(req[c].user, req[c].memo, req[c].todo \ {f}, req[c].saved \cup {f}))
        /\ UNCHANGED <<att, names>>
    BY <1>2, ReqShape DEF SaveFile
  <2>2. /\ Files(c)' = Files(c) /\ Read(c)' = {} /\ Read(c) = {}
        /\ req'[c].saved = req[c].saved \cup {f} /\ f \in Files(c)
    BY <2>1, Places, Moved DEF Files, Read
  <2>3. \A d \in Client \ {c} :
          Files(d)' = Files(d) /\ Read(d)' = Read(d) /\ req'[d] = req[d]
    BY <2>1, Others, Moved
  <2> QED BY <2>1, <2>2, <2>3 DEF Named
\* A request gives up what it was to save, and may leave some of the files.
<1>b. ASSUME NEW c \in Client, req[c].at = "saving", NEW r,
             Goto(c, r), r.at \in {"idle", "undoing"},
             disk' \subseteq disk \cup Files(c), disk \ Files(c) \subseteq disk',
             UNCHANGED names, \A g \in File : att'[g] = att[g] \/ g \in Files(c)
      PROVE  Named'
  <2>1. Files(c)' = {} /\ Read(c)' = {} /\ req'[c].at # "saving"
    BY <1>b, Moved DEF Files, Read
  <2>2. \A d \in Client \ {c} :
          /\ Files(d)' = Files(d) /\ Read(d)' = Read(d) /\ req'[d] = req[d]
          /\ req[d].at = "saving" => req[d].saved \subseteq Files(d)
    BY <1>b, Others, Moved DEF Files
  <2>3. Files(c) \subseteq names
    BY <1>b DEF Named
  <2>4. \A d \in Client \ {c} : Files(d) \cap Files(c) = {}
    BY DEF Named
  <2>5. disk' \subseteq names' /\ \A g \in File : att'[g] # None => g \in names'
    BY <1>b, <2>3 DEF Named
  <2>6. ASSUME NEW d \in Client
        PROVE  /\ Files(d)' \cup Read(d)' \subseteq names'
               /\ \A g \in Files(d)' : att'[g] = None
               /\ req'[d].at = "saving" => req'[d].saved \subseteq disk'
    <3>1. CASE d = c
      BY <2>1, <3>1
    <3>2. CASE d # c
      <4>1. /\ Files(d) \cup Read(d) \subseteq names /\ \A g \in Files(d) : att[g] = None
            /\ req[d].at = "saving" => req[d].saved \subseteq disk
            /\ Files(d) \cap Files(c) = {} /\ Files(d) \subseteq File
        BY <2>4, <3>2, ReqShape DEF Named, Files
      <4> QED BY <1>b, <2>2, <3>2, <4>1
    <3> QED BY <3>1, <3>2
  <2>7. ASSUME NEW d \in Client, NEW e \in Client \ {d}
        PROVE  Files(d)' \cap (Files(e)' \cup Read(e)') = {}
    <3>1. Files(d) \cap (Files(e) \cup Read(e)) = {}
      BY DEF Named
    <3> QED BY <2>1, <2>2, <3>1
  <2> QED BY <2>5, <2>6, <2>7 DEF Named
<1>3. ASSUME NEW c \in Client, NEW f \in File, NEW kept \in SUBSET File,
             SaveFileFails(c, f, kept)
      PROVE  Named'
  <2>1. /\ req[c].at = "saving" /\ f \in req[c].todo /\ req[c].saved \subseteq Files(c)
        /\ req[c].user \in User /\ req[c].memo \in Memo
    BY <1>3, ReqShape DEF SaveFileFails, Files
  <2>2. req[c].saved \cup {f} \subseteq Files(c)
    BY <2>1 DEF Files
  <2> QED BY <1>3, <1>b, <2>1, <2>2, Places DEF SaveFileFails, RemoveAll
<1>4. ASSUME NEW c \in Client, NEW kept \in SUBSET File, AddAttachments(c, kept)
      PROVE  Named'
  <2>1. /\ req[c].at = "saving" /\ req[c].todo = {} /\ Files(c) = req[c].saved
        /\ req[c].user \in User /\ req[c].memo \in Memo
    BY <1>4, ReqShape DEF AddAttachments, Files
  <2> QED BY <1>4, <1>b, <2>1, Places DEF AddAttachments, RemoveAll
<1>5. ASSUME NEW c \in Client, NEW committed \in BOOLEAN, NEW kept \in SUBSET File,
             AddAttachmentsFails(c, committed, kept)
      PROVE  Named'
  <2>1. /\ req[c].at = "saving" /\ req[c].todo = {} /\ Files(c) = req[c].saved
        /\ req[c].user \in User /\ req[c].memo \in Memo
    BY <1>5, ReqShape DEF AddAttachmentsFails, Files
  <2> QED BY <1>5, <1>b, <2>1, Places DEF AddAttachmentsFails, RemoveAll
<1>c. ASSUME NEW c \in Client, NEW r, Goto(c, r), UNCHANGED names,
             disk' \subseteq disk, disk \ Read(c) \subseteq disk',
             \A f \in File : att'[f] \in {att[f], None},
             Files(c)' = {}, Read(c)' \subseteq Read(c), r.at # "saving"
      PROVE  Named'
  <2>1. \A d \in Client \ {c} :
          Files(d)' = Files(d) /\ Read(d)' = Read(d) /\ req'[d] = req[d]
    BY <1>c, Others, Moved
  <2>2. \A d \in Client \ {c} : req[d].at = "saving" =>
          req[d].saved \subseteq disk /\ req[d].saved \cap Read(c) = {}
    BY DEF Named, Files
  <2> QED BY <1>a, <1>c, <2>1, <2>2, Moved
<1>6. ASSUME NEW c \in Client, Undo(c) PROVE Named'
  <2>1. Files(c)' = {} /\ Read(c)' = {} /\ Goto(c, Idle)
    BY <1>6, Moved, Places DEF Undo, Files, Read
  <2> QED BY <1>6, <1>c, <2>1, Places DEF Undo, DropRow, TypeOK
<1>7. ASSUME NEW c \in Client, NEW u \in User, NEW m \in Memo, NEW s \in Status,
             ReadForUpdate(c, u, m, s)
      PROVE  Named'
  <2>1. PICK r : Goto(c, r) /\ r.at = "updating" /\ UNCHANGED <<store, history>>
    BY <1>7 DEF ReadForUpdate, Updating
  <2>2. Files(c)' = {} /\ Read(c)' = {}
    BY <2>1, Moved DEF Files, Read
  <2> QED BY <1>c, <2>1, <2>2
<1>8. ASSUME NEW c \in Client, SaveCopy(c) \/ DbError(c) PROVE Named'
  <2>1. Files(c)' = {} /\ Read(c)' = {} /\ Goto(c, Idle)
    BY <1>8, Moved, Places DEF SaveCopy, DbError, Files, Read
  <2> QED BY <1>8, <1>c, <2>1, Places DEF SaveCopy, DbError
<1>9. ASSUME NEW c \in Client, NEW u \in User, NEW m \in Memo, ReadForDelete(c, u, m)
      PROVE  Named'
  <2>1. /\ Goto(c, Deleting(u, m, Of(m))) /\ UNCHANGED <<store, history>>
        /\ Of(m) \in SUBSET File
    BY <1>9 DEF ReadForDelete, Of
  <2>2. Files(c)' = {} /\ Read(c)' = Of(m) /\ req'[c].at # "saving"
    BY <2>1, Moved, Places DEF Files, Read
  <2>3. \A d \in Client \ {c} :
          Files(d)' = Files(d) /\ Read(d)' = Read(d) /\ req'[d] = req[d]
    BY <2>1, Others, Moved
  <2>4. Of(m) \subseteq names /\ \A d \in Client : Files(d) \cap Of(m) = {}
    BY NoneAssumption DEF Named, Of
  <2> QED BY <2>1, <2>2, <2>3, <2>4 DEF Named
<1>10. ASSUME NEW c \in Client, DeleteRow(c) PROVE Named'
  <2>1. req[c].at = "deleting" /\ req[c].user \in User /\ req[c].files \in SUBSET File
    BY <1>10, ReqShape DEF DeleteRow
  <2>2. CASE Goto(c, Idle)
    <3>1. Files(c)' = {} /\ Read(c)' = {}
      BY <2>2, Moved, Places DEF Files, Read
    <3> QED BY <1>10, <1>c, <2>2, <3>1, Places DEF DeleteRow, DropRow, TypeOK
  <2>3. CASE Goto(c, Removing(req[c].user, req[c].files))
    <3>1. Files(c)' = {} /\ Read(c)' = Read(c)
      BY <2>1, <2>3, Moved, Places DEF Files, Read
    <3> QED BY <1>10, <1>c, <2>1, <2>3, <3>1, Places DEF DeleteRow, DropRow, TypeOK
  <2> QED BY <1>10, <2>2, <2>3 DEF DeleteRow
<1>11. ASSUME NEW c \in Client, NEW kept \in SUBSET File, RemoveFiles(c, kept)
       PROVE  Named'
  <2>1. Files(c)' = {} /\ Read(c)' = {} /\ Goto(c, Idle) /\ Read(c) = req[c].files
    BY <1>11, Moved, Places DEF RemoveFiles, Files, Read
  <2> QED BY <1>11, <1>c, <2>1, Places DEF RemoveFiles, RemoveAll
<1>12. CASE Stop
  <2>1. \A c \in Client : req'[c].at = "idle" /\ Files(c)' = {} /\ Read(c)' = {}
    BY <1>12, Places DEF Stop, Files, Read
  <2> QED BY <1>12, <1>a, <2>1 DEF Stop
<1>13. CASE UNCHANGED vars
  BY <1>13 DEF vars, Named, Files, Read
<1> QED
  BY <1>1, <1>2, <1>3, <1>4, <1>5, <1>6, <1>7, <1>8, <1>9, <1>10, <1>11, <1>12, <1>13
  DEF Next, Proceed, NotFound

-----------------------------------------------------------------------------
\* Attachments are inserted while the row is there, and go with it.
LEMMA ReferencedStep == ASSUME TypeOK, Named, Referenced, [Next]_vars PROVE Referenced'
<1> USE DEF store, history, Referenced, Exists
<1>0. /\ \A f \in File : att[f] \in Memo \cup {None}
      /\ row' \in [Memo -> Row \cup {NoRow}] /\ \A r \in Row : r # NoRow
  BY TypeStep, NoneAssumption DEF TypeOK, Row, NoRow
<1>a. ASSUME NEW m \in Memo, DropRow(m) PROVE Referenced'
  BY <1>0, <1>a DEF DropRow, TypeOK
<1>b. ASSUME NEW m \in Memo, NEW r \in Row, row' = [row EXCEPT ![m] = r], UNCHANGED att
      PROVE  Referenced'
  BY <1>0, <1>b DEF TypeOK
<1>1. ASSUME NEW c \in Client, NEW u \in User, NEW m \in Memo, NEW s \in Status,
             NEW files \in SUBSET File, CreateRow(c, u, m, s, files)
      PROVE  Referenced'
  BY <1>1, <1>b DEF CreateRow, Row
<1>2. ASSUME NEW c \in Client, NEW kept \in SUBSET File, AddAttachments(c, kept)
      PROVE  Referenced'
  BY <1>0, <1>2, ReqShape DEF AddAttachments
<1>3. ASSUME NEW c \in Client, NEW committed \in BOOLEAN, NEW kept \in SUBSET File,
             AddAttachmentsFails(c, committed, kept)
      PROVE  Referenced'
  BY <1>0, <1>3, ReqShape DEF AddAttachmentsFails
<1>4. ASSUME NEW c \in Client, Undo(c) PROVE Referenced'
  BY <1>4, <1>a, ReqShape DEF Undo
<1>5. ASSUME NEW c \in Client, SaveCopy(c) PROVE Referenced'
  BY <1>5, <1>b, ReqShape DEF SaveCopy
<1>6. ASSUME NEW c \in Client, DeleteRow(c) PROVE Referenced'
  BY <1>6, <1>a, ReqShape DEF DeleteRow
<1>7. CASE UNCHANGED <<row, att>>
  BY <1>7
<1> QED
  BY <1>1, <1>2, <1>3, <1>4, <1>5, <1>6, <1>7
  DEF Next, Proceed, NotFound, SaveFile, SaveFileFails, ReadForUpdate, ReadForDelete, RemoveFiles,
      DbError, Stop, vars

\* A stored name is never attached again.
LEMMA DroppedStep == ASSUME TypeOK, Named, Dropped, [Next]_vars PROVE Dropped'
<1> USE DEF store, history
<1>a. ASSUME \A d \in Client :
               \/ req'[d] = req[d] /\ \A f \in Read(d) : att'[f] \in {att[f], None}
               \/ req'[d].at \notin {"deleting", "removing"}
      PROVE  Dropped'
  BY <1>a DEF Dropped, Read
<1>b. ASSUME NEW c \in Client, NEW r, Goto(c, r), r.at \notin {"deleting", "removing"},
             \A f \in File : att'[f] \in {att[f], None} \/ f \in Files(c)
      PROVE  Dropped'
  <2>1. ASSUME NEW d \in Client \ {c}, NEW f \in Read(d) PROVE f \in File /\ f \notin Files(c)
    BY <2>1, ReqShape DEF Named, Read
  <2> QED BY <1>a, <1>b, <2>1, Moved
<1>1. ASSUME NEW c \in Client, NEW r, Goto(c, r), r.at \notin {"deleting", "removing"},
             UNCHANGED att
      PROVE  Dropped'
  BY <1>1, <1>b
<1>2. ASSUME NEW c \in Client, NEW u \in User, NEW m \in Memo, NEW s \in Status,
             NEW files \in SUBSET File,
             CreateRow(c, u, m, s, files) \/ ReadForUpdate(c, u, m, s)
      PROVE  Dropped'
  BY <1>1, <1>2 DEF CreateRow, ReadForUpdate, Saving, Updating
<1>3. ASSUME NEW c \in Client, NEW f \in File,
             SaveFile(c, f) \/ \E kept \in SUBSET File : SaveFileFails(c, f, kept)
      PROVE  Dropped'
  BY <1>1, <1>3 DEF SaveFile, SaveFileFails, Saving, Undoing
<1>4. ASSUME NEW c \in Client, NEW kept \in SUBSET File, AddAttachments(c, kept)
      PROVE  Dropped'
  <2>1. req[c].saved \subseteq Files(c)
    BY <1>4 DEF AddAttachments, Files
  <2> QED BY <1>4, <1>b, <2>1 DEF AddAttachments, Idle, Undoing
<1>5. ASSUME NEW c \in Client, NEW committed \in BOOLEAN, NEW kept \in SUBSET File,
             AddAttachmentsFails(c, committed, kept)
      PROVE  Dropped'
  <2>1. req[c].saved \subseteq Files(c)
    BY <1>5 DEF AddAttachmentsFails, Files
  <2> QED BY <1>5, <1>b, <2>1 DEF AddAttachmentsFails, Undoing
<1>6. ASSUME NEW c \in Client, Undo(c) PROVE Dropped'
  BY <1>6, <1>b DEF Undo, DropRow, Idle
<1>7. ASSUME NEW c \in Client,
             \/ SaveCopy(c) \/ DbError(c)
             \/ \E kept \in SUBSET File : RemoveFiles(c, kept)
      PROVE  Dropped'
  BY <1>1, <1>7 DEF SaveCopy, RemoveFiles, DbError, Idle
<1>8. ASSUME NEW c \in Client, NEW u \in User, NEW m \in Memo, ReadForDelete(c, u, m)
      PROVE  Dropped'
  <2>1. /\ req'[c] = Deleting(u, m, Of(m)) /\ UNCHANGED att
        /\ \A d \in Client \ {c} : req'[d] = req[d]
    BY <1>8, Moved DEF ReadForDelete
  <2> QED BY <2>1 DEF Dropped, Deleting, Of
<1>9. ASSUME NEW c \in Client, DeleteRow(c) PROVE Dropped'
  <2>1. /\ req[c].at = "deleting" /\ req[c].files \in SUBSET File
        /\ \A f \in req[c].files : att[f] \in {req[c].memo, None}
    BY <1>9, ReqShape DEF DeleteRow, Dropped
  <2>2. CASE UNCHANGED att /\ Goto(c, Idle)
    BY <1>1, <2>2 DEF Idle
  <2>3. CASE DropRow(req[c].memo) /\ Goto(c, Removing(req[c].user, req[c].files))
    <3>1. /\ req'[c] = Removing(req[c].user, req[c].files)
          /\ \A d \in Client \ {c} : req'[d] = req[d]
      BY <2>3, Moved
    <3>2. \A f \in req[c].files : att'[f] = None
      BY <2>1, <2>3 DEF DropRow
    <3>3. \A f \in File : att'[f] \in {att[f], None}
      BY <2>3 DEF DropRow
    <3>4. \A d \in Client : req[d].at \in {"deleting", "removing"} => req[d].files \subseteq File
      BY ReqShape
    <3> QED BY <3>1, <3>2, <3>3, <3>4 DEF Dropped, Removing
  <2> QED BY <1>9, <2>2, <2>3 DEF DeleteRow
<1>10. CASE Stop
  BY <1>10, <1>a DEF Stop, Idle
<1>11. CASE UNCHANGED vars
  BY <1>11, <1>a DEF vars
<1> QED
  BY <1>2, <1>3, <1>4, <1>5, <1>6, <1>7, <1>8, <1>9, <1>10, <1>11 DEF Next, Proceed, NotFound

-----------------------------------------------------------------------------
\* Ids are not reused, and AddAttachments ends the request that creates a memo.
LEMMA CreatedStep ==
  ASSUME TypeOK, Named, Referenced, Created, Authored, [Next]_vars
  PROVE  Created'
<1> USE DEF store, history
<1>0. /\ \A f \in File : att[f] \in Memo \cup {None}
      /\ \A c \in Client : Creating(c) => req[c].memo \in Memo \ {None}
  BY NoneAssumption, ReqShape DEF TypeOK, Creating
<1>a. ASSUME \A d \in Client : Creating(d)' =>
               /\ Creating(d) /\ req'[d].memo = req[d].memo
               /\ req'[d].at = "saving" => req[d].at = "saving",
             \A f \in File : att'[f] \in {att[f], None},
             leaked \subseteq leaked',
             disk' \subseteq File, \A f \in disk' : f \in disk \/ att[f] = None
      PROVE  Created'
  <2> SUFFICES ASSUME NEW c \in Client, Creating(c)'
               PROVE  /\ \A d \in Client \ {c} : Creating(d)' => req'[d].memo # req'[c].memo
                      /\ \A f \in disk' : att'[f] = req'[c].memo => f \in leaked'
                      /\ req'[c].at = "saving" => \A f \in File : att'[f] # req'[c].memo
    BY DEF Created
  <2> QED BY <1>0, <1>a DEF Created
<1>1. ASSUME NEW c \in Client, NEW u \in User, NEW m \in Memo, NEW s \in Status,
             NEW files \in SUBSET File, CreateRow(c, u, m, s, files)
      PROVE  Created'
  <2>1. /\ m \notin ids /\ UNCHANGED <<att, disk, leaked>>
        /\ Goto(c, Saving(u, m, files, {})) /\ disk \subseteq File
    BY <1>1 DEF CreateRow, TypeOK
  <2>2. \A f \in File : att[f] # m
    BY <2>1, NoneAssumption DEF Referenced, Authored
  <2>3. \A d \in Client : Creating(d) => req[d].memo # m
    BY <2>1 DEF Authored, Creating
  <2>4. /\ req'[c].memo = m /\ req'[c].at = "saving"
        /\ \A d \in Client \ {c} : req'[d] = req[d]
    BY <2>1, Places, Moved
  <2> QED BY <2>1, <2>2, <2>3, <2>4 DEF Created, Creating
<1>2. ASSUME NEW c \in Client, NEW f \in File, SaveFile(c, f) PROVE Created'
  <2>1. /\ req[c].at = "saving" /\ f \in Files(c)
        /\ req'[c].at = "saving" /\ req'[c].memo = req[c].memo
        /\ \A d \in Client \ {c} : req'[d] = req[d]
    BY <1>2, Moved DEF SaveFile, Saving, Files
  <2>2. att[f] = None
    BY <2>1 DEF Named
  <2> QED BY <1>2, <1>a, <2>1, <2>2 DEF SaveFile, Creating, TypeOK
<1>3. ASSUME NEW c \in Client, NEW f \in File, NEW kept \in SUBSET File,
             SaveFileFails(c, f, kept)
      PROVE  Created'
  <2>1. /\ req[c].at = "saving" /\ f \in Files(c)
        /\ req'[c].at = "undoing" /\ req'[c].memo = req[c].memo
        /\ \A d \in Client \ {c} : req'[d] = req[d]
    BY <1>3, Moved DEF SaveFileFails, Undoing, Files
  <2>2. \A g \in req[c].saved \cup {f} : att[g] = None
    BY <2>1 DEF Named, Files
  <2> QED BY <1>3, <1>a, <2>1, <2>2 DEF SaveFileFails, RemoveAll, Creating, TypeOK
\* The INSERT: the files become attachments, or the request is to undo.
<1>b. ASSUME NEW c \in Client, req[c].at = "saving",
             \A f \in File : att'[f] = att[f] \/ (att'[f] = req[c].memo /\ f \in req[c].saved),
             disk' \subseteq disk, disk \subseteq File, leaked \subseteq leaked',
             \A d \in Client \ {c} : req'[d] = req[d],
             \/ req'[c].at = "idle"
             \/ /\ req'[c].at = "undoing" /\ req'[c].memo = req[c].memo
                /\ disk' \cap req[c].saved \subseteq leaked'
      PROVE  Created'
  <2>1. /\ Creating(c) /\ \A f \in File : att[f] # req[c].memo
        /\ \A d \in Client \ {c} : Creating(d) => req[d].memo # req[c].memo
    BY <1>b DEF Created, Creating
  <2>2. \A d \in Client \ {c} : Creating(d)' <=> Creating(d)
    BY <1>b DEF Creating
  <2>3. ASSUME NEW d \in Client \ {c}, Creating(d)'
        PROVE  /\ \A e \in Client \ {d} : Creating(e)' => req'[e].memo # req'[d].memo
               /\ \A f \in disk' : att'[f] = req'[d].memo => f \in leaked'
               /\ req'[d].at = "saving" => \A f \in File : att'[f] # req'[d].memo
    <3>1. /\ \A e \in Client \ {d} : Creating(e) => req[e].memo # req[d].memo
          /\ \A f \in disk : att[f] = req[d].memo => f \in leaked
          /\ req[d].at = "saving" => \A f \in File : att[f] # req[d].memo
      BY <2>2, <2>3 DEF Created
    <3>2. req'[d] = req[d] /\ req[d].memo # req[c].memo
      BY <1>b, <2>1, <2>2, <2>3
    <3>3. \A e \in Client \ {d} : Creating(e)' => Creating(e) /\ req'[e].memo = req[e].memo
      BY <1>b, <2>1 DEF Creating
    <3> QED BY <1>b, <3>1, <3>2, <3>3
  <2>4. ASSUME Creating(c)'
        PROVE  /\ \A e \in Client \ {c} : Creating(e)' => req'[e].memo # req'[c].memo
               /\ \A f \in disk' : att'[f] = req'[c].memo => f \in leaked'
               /\ req'[c].at # "saving"
    BY <1>b, <2>1, <2>2, <2>4 DEF Creating
  <2> QED BY <2>3, <2>4 DEF Created
<1>4. ASSUME NEW c \in Client, NEW kept \in SUBSET File, AddAttachments(c, kept)
      PROVE  Created'
  <2>1. /\ \A d \in Client \ {c} : req'[d] = req[d]
        /\ req'[c] \in {Idle, Undoing(req[c].user, req[c].memo)}
    BY <1>4, Moved DEF AddAttachments
  <2>2. disk \subseteq File /\ req[c].saved \subseteq File /\ req[c].at = "saving"
    BY <1>4, ReqShape DEF AddAttachments, TypeOK
  <2>3. CASE Exists(req[c].memo) \/ req[c].saved = {}
    <3>1. req'[c] = Idle
      BY <1>4, <2>3, Moved DEF AddAttachments
    <3> QED BY <1>4, <1>b, <2>1, <2>2, <2>3, <3>1, Places DEF AddAttachments
  <2>4. CASE ~(Exists(req[c].memo) \/ req[c].saved = {})
    <3>1. /\ req'[c] = Undoing(req[c].user, req[c].memo)
          /\ RemoveAll(req[c].saved, kept) /\ UNCHANGED att
      BY <1>4, <2>4, Moved DEF AddAttachments
    <3>3. req[c].saved \subseteq disk
      BY <2>2 DEF Named
    <3>2. req'[c].at = "undoing" /\ req'[c].memo = req[c].memo
      BY <3>1 DEF Undoing
    <3> QED BY <1>b, <2>1, <2>2, <3>1, <3>2, <3>3 DEF RemoveAll
  <2> QED BY <2>3, <2>4
<1>5. ASSUME NEW c \in Client, NEW committed \in BOOLEAN, NEW kept \in SUBSET File,
             AddAttachmentsFails(c, committed, kept)
      PROVE  Created'
  <2>1. /\ \A d \in Client \ {c} : req'[d] = req[d]
        /\ req'[c].at = "undoing" /\ req'[c].memo = req[c].memo
    BY <1>5, Moved DEF AddAttachmentsFails, Undoing
  <2>2. /\ disk \subseteq File /\ req[c].at = "saving" /\ req[c].saved \subseteq disk
        /\ RemoveAll(req[c].saved, kept)
    BY <1>5 DEF AddAttachmentsFails, TypeOK, Named
  <2>3. \A f \in File : att'[f] = att[f] \/ (att'[f] = req[c].memo /\ f \in req[c].saved)
    BY <1>5 DEF AddAttachmentsFails
  <2> QED BY <1>b, <2>1, <2>2, <2>3 DEF RemoveAll
\* A request that creates no memo, or is done with it.
<1>c. ASSUME NEW c \in Client, NEW r, Goto(c, r), r.at \notin {"saving", "undoing"},
             \A f \in File : att'[f] \in {att[f], None}, disk' \subseteq disk,
             leaked \subseteq leaked'
      PROVE  Created'
  <2>1. disk \subseteq File
    BY DEF TypeOK
  <2> QED BY <1>a, <1>c, <2>1, Moved DEF Creating
<1>6. ASSUME NEW c \in Client, NEW u \in User, NEW m \in Memo, NEW s \in Status,
             ReadForUpdate(c, u, m, s)
      PROVE  Created'
  BY <1>6, <1>c DEF ReadForUpdate, Updating
<1>7. ASSUME NEW c \in Client, NEW u \in User, NEW m \in Memo, ReadForDelete(c, u, m)
      PROVE  Created'
  BY <1>7, <1>c DEF ReadForDelete, Deleting
<1>8. ASSUME NEW c \in Client,
             \/ Undo(c) \/ SaveCopy(c) \/ DeleteRow(c) \/ DbError(c)
             \/ \E kept \in SUBSET File : RemoveFiles(c, kept)
      PROVE  Created'
  BY <1>8, <1>c
  DEF Undo, SaveCopy, DeleteRow, RemoveFiles, RemoveAll, DbError, DropRow, Idle, Removing
<1>9. CASE Stop
  BY <1>9, <1>a, Places DEF Stop, Creating, TypeOK
<1>10. CASE UNCHANGED vars
  BY <1>10, <1>a DEF vars, Creating, TypeOK
<1> QED
  BY <1>1, <1>2, <1>3, <1>4, <1>5, <1>6, <1>7, <1>8, <1>9, <1>10 DEF Next, Proceed, NotFound

-----------------------------------------------------------------------------
\* A request finds the memos of its user only, and writes back what it read.
LEMMA AuthoredStep == ASSUME TypeOK, Authored, [Next]_vars PROVE Authored'
<1> USE DEF store, history
<1> DEFINE Writing == {"saving", "undoing", "updating", "deleting"}
<1>0. \A r \in Row : r # NoRow /\ r.user \in User
  BY NoneAssumption DEF Row, NoRow
\* A request takes a place, or passes its memo on, and a row may go.
<1>a. ASSUME NEW c \in Client, UNCHANGED <<ids, author>>,
             \A m \in Memo : row'[m] \in {row[m], NoRow},
             \A d \in Client \ {c} : req'[d] = req[d],
             \/ req'[c].at \notin Writing
             \/ /\ req'[c].memo \in ids /\ req'[c].user = author[req'[c].memo]
                /\ req'[c].at = "updating" => req'[c].copy.user = req'[c].user
      PROVE  Authored'
  BY <1>a DEF Authored, Exists
<1>1. ASSUME NEW c \in Client, NEW u \in User, NEW m \in Memo, NEW s \in Status,
             NEW files \in SUBSET File, CreateRow(c, u, m, s, files)
      PROVE  Authored'
  <2>1. /\ m \notin ids /\ ids' = ids \cup {m} /\ ids \subseteq Memo
        /\ author'[m] = u /\ \A n \in Memo \ {m} : author'[n] = author[n]
        /\ row'[m].user = u /\ \A n \in Memo \ {m} : row'[n] = row[n]
    BY <1>1 DEF CreateRow, TypeOK
  <2>2. /\ req'[c].at = "saving" /\ req'[c].memo = m /\ req'[c].user = u
        /\ \A d \in Client \ {c} : req'[d] = req[d]
    BY <1>1, Moved DEF CreateRow, Saving
  <2>3. \A n \in Memo : Exists(n)' => n \in ids' /\ row'[n].user = author'[n]
    BY <2>1 DEF Authored, Exists
  <2>4. \A d \in Client : req'[d].at \in Writing =>
          req'[d].memo \in ids' /\ req'[d].user = author'[req'[d].memo]
    BY <2>1, <2>2 DEF Authored
  <2>5. \A d \in Client : req'[d].at = "updating" => req'[d].copy.user = req'[d].user
    BY <2>2 DEF Authored
  <2> QED BY <2>3, <2>4, <2>5 DEF Authored
<1>2. ASSUME NEW c \in Client, NEW f \in File,
             SaveFile(c, f) \/ \E kept \in SUBSET File : SaveFileFails(c, f, kept)
      PROVE  Authored'
  <2>1. /\ req[c].at = "saving" /\ UNCHANGED <<row, ids, author>>
        /\ req'[c].at \in {"saving", "undoing"}
        /\ req'[c].memo = req[c].memo /\ req'[c].user = req[c].user
        /\ \A d \in Client \ {c} : req'[d] = req[d]
    BY <1>2, Moved DEF SaveFile, SaveFileFails, Saving, Undoing
  <2> QED BY <1>a, <2>1 DEF Authored
<1>3. ASSUME NEW c \in Client,
             \E kept \in SUBSET File :
               \/ AddAttachments(c, kept)
               \/ \E committed \in BOOLEAN : AddAttachmentsFails(c, committed, kept)
      PROVE  Authored'
  <2>1. /\ req[c].at = "saving" /\ UNCHANGED <<row, ids, author>>
        /\ req'[c] \in {Idle, Undoing(req[c].user, req[c].memo)}
        /\ \A d \in Client \ {c} : req'[d] = req[d]
    BY <1>3, Moved DEF AddAttachments, AddAttachmentsFails
  <2>2. \/ req'[c].at = "idle"
        \/ /\ req'[c].at = "undoing"
           /\ req'[c].memo = req[c].memo /\ req'[c].user = req[c].user
    BY <2>1 DEF Idle, Undoing
  <2> QED BY <1>a, <2>1, <2>2 DEF Authored
<1>4. ASSUME NEW c \in Client, NEW u \in User, NEW m \in Memo, NEW s \in Status,
             ReadForUpdate(c, u, m, s)
      PROVE  Authored'
  <2>1. row[m].user = u /\ Exists(m) /\ UNCHANGED <<row, ids, author>>
    BY <1>4, NoneAssumption DEF ReadForUpdate, Exists, NoRow
  <2> DEFINE v == IF row[m].status = s THEN row[m].completed ELSE s = "done"
             copy == [row[m] EXCEPT !.status = s, !.completed = v]
  <2>2. row[m] \in Row
    BY <2>1 DEF Exists, TypeOK
  <2>3. copy.user = u
    BY <2>1, <2>2 DEF Row
  <2>4. Goto(c, Updating(u, m, copy))
    BY <1>4 DEF ReadForUpdate
  <2> HIDE DEF v, copy
  <2>5. /\ req'[c].memo = m /\ req'[c].user = u /\ req'[c].copy = copy
        /\ \A d \in Client \ {c} : req'[d] = req[d]
    BY <2>4, Moved DEF Updating
  <2> QED BY <1>a, <2>1, <2>3, <2>5 DEF Authored
<1>5. ASSUME NEW c \in Client, NEW u \in User, NEW m \in Memo, ReadForDelete(c, u, m)
      PROVE  Authored'
  <2>1. row[m].user = u /\ Exists(m) /\ UNCHANGED <<row, ids, author>>
    BY <1>5, NoneAssumption DEF ReadForDelete, Exists, NoRow
  <2>2. /\ req'[c].at = "deleting" /\ req'[c].memo = m /\ req'[c].user = u
        /\ \A d \in Client \ {c} : req'[d] = req[d]
    BY <1>5, Moved DEF ReadForDelete, Deleting
  <2> QED BY <1>a, <2>1, <2>2 DEF Authored
<1>6. ASSUME NEW c \in Client, SaveCopy(c) PROVE Authored'
  <2>1. /\ req[c].memo \in Memo /\ req[c].memo \in ids
        /\ req[c].copy.user = author[req[c].memo]
    BY <1>6, ReqShape DEF SaveCopy, Authored
  <2>2. /\ row'[req[c].memo] = req[c].copy /\ UNCHANGED <<ids, author>>
        /\ \A n \in Memo \ {req[c].memo} : row'[n] = row[n]
    BY <1>6, <2>1 DEF SaveCopy, TypeOK
  <2>3. req'[c].at = "idle" /\ \A d \in Client \ {c} : req'[d] = req[d]
    BY <1>6, Moved DEF SaveCopy, Idle
  <2>4. \A n \in Memo : Exists(n)' => n \in ids /\ row'[n].user = author[n]
    BY <2>1, <2>2 DEF Authored, Exists
  <2> QED BY <2>2, <2>3, <2>4 DEF Authored
<1>7. ASSUME NEW c \in Client,
             \/ Undo(c) \/ DeleteRow(c) \/ DbError(c)
             \/ \E kept \in SUBSET File : RemoveFiles(c, kept)
      PROVE  Authored'
  <2>1. req'[c].at \notin Writing /\ \A d \in Client \ {c} : req'[d] = req[d]
    BY <1>7, Moved DEF Undo, DeleteRow, RemoveFiles, DbError, Idle, Removing
  <2>2. \A m \in Memo : row'[m] \in {row[m], NoRow}
    BY <1>7 DEF Undo, DeleteRow, RemoveFiles, DbError, DropRow, TypeOK
  <2>3. UNCHANGED <<ids, author>>
    BY <1>7 DEF Undo, DeleteRow, RemoveFiles, DbError
  <2> QED BY <1>a, <2>1, <2>2, <2>3
<1>8. CASE Stop
  BY <1>8, Places DEF Stop, Authored, Exists
<1>9. CASE UNCHANGED vars
  BY <1>9 DEF vars, Authored, Exists
<1> QED
  BY <1>1, <1>2, <1>3, <1>4, <1>5, <1>6, <1>7, <1>8, <1>9 DEF Next, Proceed, NotFound

-----------------------------------------------------------------------------
\* Only files without rows are removed, but for those of an INSERT that
\* committed and was reported as a failure.
LEMMA HasFileStep ==
  ASSUME TypeOK, Named, Dropped, AttachmentHasFile, [Next]_vars
  PROVE  AttachmentHasFile'
<1> USE DEF store, history
<1>0. /\ \A f \in File : att[f] \in Memo \cup {None}
      /\ \A c \in Client : req[c].at = "saving" =>
           /\ req[c].saved \subseteq disk
           /\ \A f \in req[c].todo \cup req[c].saved : att[f] = None
  BY DEF TypeOK, Named, Files
<1>a. ASSUME \A f \in File : att'[f] \in {att[f], None},
             \A f \in disk : f \in disk' \/ att[f] = None, UNCHANGED lost
      PROVE  AttachmentHasFile'
  BY <1>a DEF AttachmentHasFile
<1>1. ASSUME NEW c \in Client, NEW f \in File,
             SaveFile(c, f) \/ \E kept \in SUBSET File : SaveFileFails(c, f, kept)
      PROVE  AttachmentHasFile'
  BY <1>0, <1>1, <1>a DEF SaveFile, SaveFileFails, RemoveAll
<1>2. ASSUME NEW c \in Client, NEW kept \in SUBSET File, AddAttachments(c, kept)
      PROVE  AttachmentHasFile'
  BY <1>0, <1>2 DEF AddAttachments, RemoveAll, AttachmentHasFile
<1>3. ASSUME NEW c \in Client, NEW committed \in BOOLEAN, NEW kept \in SUBSET File,
             AddAttachmentsFails(c, committed, kept)
      PROVE  AttachmentHasFile'
  BY <1>0, <1>3 DEF AddAttachmentsFails, RemoveAll, AttachmentHasFile
<1>4. ASSUME NEW c \in Client, NEW kept \in SUBSET File, RemoveFiles(c, kept)
       PROVE  AttachmentHasFile'
  <2>1. \A f \in req[c].files : att[f] = None
    BY <1>4 DEF RemoveFiles, Dropped
  <2> QED BY <1>4, <1>a, <2>1 DEF RemoveFiles, RemoveAll
<1>5. ASSUME NEW c \in Client, Undo(c) \/ DeleteRow(c) PROVE AttachmentHasFile'
  BY <1>5, <1>a DEF Undo, DeleteRow, DropRow
<1>6. CASE UNCHANGED <<att, disk, lost>>
  BY <1>6, <1>a
<1> QED
  BY <1>1, <1>2, <1>3, <1>4, <1>5, <1>6
  DEF Next, Proceed, NotFound, CreateRow, ReadForUpdate, ReadForDelete, SaveCopy, DbError, Stop,
      vars

\* Whoever lets go of a file that has no row leaves it to a known cause.
LEMMA AccountedStep ==
  ASSUME TypeOK, Named, Dropped, Created, FilesAccounted, [Next]_vars
  PROVE  FilesAccounted'
<1> USE DEF store, history
<1>0. disk \subseteq File /\ \A f \in File : att[f] \in Memo \cup {None}
  BY DEF TypeOK
\* The requests that hold files keep them, and the files attached stay so.
<1>a. ASSUME \A f \in disk' :
               \/ f \in disk /\ f \notin leaked' /\ (att[f] # None => att'[f] # None)
               \/ f \in leaked' \/ att'[f] # None,
             leaked \subseteq leaked',
             \A d \in Client : \/ req'[d] = req[d]
                               \/ req[d].at \notin {"saving", "removing"}
                               \/ /\ req[d].at = "saving"
                                  /\ \A f \in req[d].saved \cap disk' :
                                       f \in leaked' \/ att'[f] # None
                               \/ /\ req[d].at = "removing"
                                  /\ req[d].files \cap disk' \subseteq leaked'
      PROVE  FilesAccounted'
  <2> SUFFICES ASSUME NEW f \in disk', f \notin leaked', att'[f] = None
               PROVE  \/ \E c \in Client : req'[c].at = "saving" /\ f \in req'[c].saved
                      \/ \E c \in Client : req'[c].at = "removing" /\ f \in req'[c].files
    BY DEF FilesAccounted
  <2>1. f \in disk /\ att[f] = None /\ f \notin leaked
    BY <1>a
  <2>2. PICK c \in Client : \/ req[c].at = "saving" /\ f \in req[c].saved
                            \/ req[c].at = "removing" /\ f \in req[c].files
    BY <2>1 DEF FilesAccounted
  <2>3. req'[c] = req[c]
    BY <1>a, <2>2
  <2> QED BY <2>2, <2>3
<1>1. ASSUME NEW c \in Client, req[c].at \notin {"saving", "removing"},
             \A d \in Client \ {c} : req'[d] = req[d], UNCHANGED <<disk, att, leaked>>
      PROVE  FilesAccounted'
  BY <1>1, <1>a
<1>2. ASSUME NEW c \in Client, NEW u \in User, NEW m \in Memo, NEW s \in Status,
             \/ \E files \in SUBSET File : CreateRow(c, u, m, s, files)
             \/ ReadForUpdate(c, u, m, s)
      PROVE  FilesAccounted'
  BY <1>1, <1>2, Moved DEF CreateRow, ReadForUpdate, Idle
<1>3. ASSUME NEW c \in Client,
             \/ SaveCopy(c) \/ DbError(c)
             \/ \E u \in User, m \in Memo : ReadForDelete(c, u, m)
      PROVE  FilesAccounted'
  BY <1>1, <1>3, Moved DEF SaveCopy, DbError, ReadForDelete, Idle
<1>4. ASSUME NEW c \in Client, NEW f \in File, SaveFile(c, f) PROVE FilesAccounted'
  <2>1. /\ disk' = disk \cup {f} /\ UNCHANGED <<att, leaked>>
        /\ req[c].at = "saving" /\ req'[c].at = "saving"
        /\ req'[c].saved = req[c].saved \cup {f}
        /\ \A d \in Client \ {c} : req'[d] = req[d]
    BY <1>4, Moved DEF SaveFile, Saving
  <2> SUFFICES ASSUME NEW g \in disk', g \notin leaked, att[g] = None
               PROVE  \/ \E d \in Client : req'[d].at = "saving" /\ g \in req'[d].saved
                      \/ \E d \in Client : req'[d].at = "removing" /\ g \in req'[d].files
    BY <2>1 DEF FilesAccounted
  <2>2. CASE g = f
    BY <2>1, <2>2
  <2>3. CASE g # f
    <3>1. PICK d \in Client : \/ req[d].at = "saving" /\ g \in req[d].saved
                              \/ req[d].at = "removing" /\ g \in req[d].files
      BY <2>1, <2>3 DEF FilesAccounted
    <3> QED BY <2>1, <3>1
  <2> QED BY <2>2, <2>3
<1>5. ASSUME NEW c \in Client, NEW f \in File, NEW kept \in SUBSET File,
             SaveFileFails(c, f, kept)
      PROVE  FilesAccounted'
  <2>1. /\ req[c].at = "saving" /\ UNCHANGED att
        /\ disk' = (disk \ (req[c].saved \cup {f})) \cup kept
        /\ leaked' = leaked \cup kept
        /\ \A d \in Client \ {c} : req'[d] = req[d]
    BY <1>5, Moved DEF SaveFileFails, RemoveAll
  <2>2. \A g \in disk' : g \in disk \ req[c].saved \/ g \in leaked'
    BY <2>1
  <2> SUFFICES ASSUME NEW g \in disk', g \notin leaked', att'[g] = None
               PROVE  \/ \E d \in Client : req'[d].at = "saving" /\ g \in req'[d].saved
                      \/ \E d \in Client : req'[d].at = "removing" /\ g \in req'[d].files
    BY DEF FilesAccounted
  <2>4. g \in disk \ req[c].saved /\ g \notin leaked /\ att[g] = None
    BY <2>1, <2>2
  <2>5. PICK d \in Client : \/ req[d].at = "saving" /\ g \in req[d].saved
                            \/ req[d].at = "removing" /\ g \in req[d].files
    BY <2>4 DEF FilesAccounted
  <2> QED BY <2>1, <2>4, <2>5
<1>6. ASSUME NEW c \in Client, NEW kept \in SUBSET File, AddAttachments(c, kept)
      PROVE  FilesAccounted'
  <2>1. /\ req[c].at = "saving" /\ req[c].memo # None /\ leaked \subseteq leaked'
        /\ \A d \in Client \ {c} : req'[d] = req[d]
    BY <1>6, Moved, ReqShape, NoneAssumption DEF AddAttachments, RemoveAll
  <2>2. /\ \A f \in disk' : f \in disk \/ f \in leaked'
        /\ \A f \in File : att[f] # None => att'[f] # None
    BY <1>6, <2>1 DEF AddAttachments, RemoveAll
  <2>3. \A f \in req[c].saved \cap disk' : f \in leaked' \/ (f \in File => att'[f] # None)
    BY <1>6, <2>1 DEF AddAttachments, RemoveAll
  <2>4. req[c].saved \subseteq File
    BY <2>1, ReqShape
  <2> QED BY <1>0, <1>a, <2>1, <2>2, <2>3, <2>4
<1>7. ASSUME NEW c \in Client, NEW committed \in BOOLEAN, NEW kept \in SUBSET File,
             AddAttachmentsFails(c, committed, kept)
      PROVE  FilesAccounted'
  <2>1. /\ req[c].at = "saving" /\ req[c].memo # None
        /\ leaked' = leaked \cup kept
        /\ disk' = (disk \ req[c].saved) \cup kept
        /\ \A d \in Client \ {c} : req'[d] = req[d]
    BY <1>7, Moved, ReqShape, NoneAssumption DEF AddAttachmentsFails, RemoveAll
  <2>2. \A f \in File : att[f] # None => att'[f] # None
    BY <1>7, <2>1 DEF AddAttachmentsFails
  <2> QED BY <1>0, <1>a, <2>1, <2>2
<1>8. ASSUME NEW c \in Client, Undo(c) PROVE FilesAccounted'
  <2>1. /\ req[c].at = "undoing" /\ DropRow(req[c].memo) /\ UNCHANGED <<disk, leaked>>
        /\ \A d \in Client \ {c} : req'[d] = req[d]
    BY <1>8, Moved DEF Undo
  <2>2. \A f \in disk : att[f] = req[c].memo => f \in leaked
    BY <2>1 DEF Created, Creating
  <2>3. \A f \in disk : f \in leaked \/ att'[f] = att[f]
    BY <1>0, <2>1, <2>2 DEF DropRow
  <2> QED BY <1>a, <2>1, <2>3
<1>9. ASSUME NEW c \in Client, DeleteRow(c) PROVE FilesAccounted'
  <2>1. /\ req[c].at = "deleting" /\ UNCHANGED disk
        /\ \A d \in Client \ {c} : req'[d] = req[d]
    BY <1>9, Moved DEF DeleteRow
  <2>2. CASE UNCHANGED <<att, leaked>>
    BY <1>1, <2>1, <2>2
  <2>3. CASE /\ DropRow(req[c].memo)
             /\ leaked' = leaked \cup ((Of(req[c].memo) \cap disk) \ req[c].files)
             /\ Goto(c, Removing(req[c].user, req[c].files))
    <3>1. req'[c].at = "removing" /\ req'[c].files = req[c].files
      BY <2>3, Moved DEF Removing
    <3> SUFFICES ASSUME NEW f \in disk, f \notin leaked', att'[f] = None
                 PROVE  \/ \E d \in Client : req'[d].at = "saving" /\ f \in req'[d].saved
                        \/ \E d \in Client : req'[d].at = "removing" /\ f \in req'[d].files
      BY <2>1 DEF FilesAccounted
    <3>2. CASE att[f] = req[c].memo
      <4>1. f \in req[c].files
        BY <1>0, <2>3, <3>2 DEF Of
      <4> QED BY <3>1, <4>1
    <3>3. CASE att[f] # req[c].memo
      <4>1. att[f] = None /\ f \notin leaked
        BY <1>0, <2>3, <3>3 DEF DropRow
      <4>2. PICK d \in Client : \/ req[d].at = "saving" /\ f \in req[d].saved
                                \/ req[d].at = "removing" /\ f \in req[d].files
        BY <4>1 DEF FilesAccounted
      <4> QED BY <2>1, <4>2
    <3> QED BY <3>2, <3>3
  <2> QED BY <1>9, <2>2, <2>3 DEF DeleteRow
<1>10. ASSUME NEW c \in Client, NEW kept \in SUBSET File, RemoveFiles(c, kept)
       PROVE  FilesAccounted'
  <2>1. /\ req[c].at = "removing" /\ UNCHANGED att /\ leaked' = leaked \cup kept
        /\ disk' = (disk \ (req[c].files \cap disk)) \cup kept
        /\ \A d \in Client \ {c} : req'[d] = req[d]
    BY <1>10, Moved DEF RemoveFiles, RemoveAll
  <2>2. req[c].files \cap disk' \subseteq leaked'
    BY <2>1
  <2>3. \A f \in disk' : f \in disk \/ f \in leaked'
    BY <2>1
  <2> QED BY <1>a, <2>1, <2>2, <2>3
<1>11. CASE Stop
  <2>1. \A f \in disk : att[f] = None => f \in leaked'
    BY <1>11 DEF Stop, FilesAccounted
  <2> QED BY <1>11, <2>1 DEF Stop, FilesAccounted
<1>12. CASE UNCHANGED vars
  BY <1>12, <1>a DEF vars
<1> QED
  BY <1>2, <1>3, <1>4, <1>5, <1>6, <1>7, <1>8, <1>9, <1>10, <1>11, <1>12 DEF Next, Proceed, NotFound

-----------------------------------------------------------------------------
\* IInv is inductive.
LEMMA Invariance == Spec => []IInv
<1>1. Init => IInv
  BY InitInv
<1>2. IInv /\ [Next]_vars => IInv'
  BY TypeStep, NamedStep, ReferencedStep, DroppedStep, CreatedStep, AuthoredStep, HasFileStep,
     AccountedStep
  DEF IInv
<1> QED BY <1>1, <1>2, PTL DEF Spec

\* Requests, rows and files keep their types: what Update writes back is a row,
\* and a request only ever works on stored names that were drawn.
THEOREM TypeCorrect == Spec => []TypeOK
<1>1. IInv => TypeOK
  BY DEF IInv
<1> QED BY <1>1, Invariance, PTL

\* However creates and deletes of the same memo interleave, fail or stop, a row
\* of an attachment has its file on disk, unless the INSERT of the row committed
\* and was reported as a failure, so that Create removed the files.
THEOREM Served == Spec => []AttachmentHasFile
<1>1. IInv => AttachmentHasFile
  BY DEF IInv
<1> QED BY <1>1, Invariance, PTL

\* Every file in the upload directory is attached, or held by a request that
\* will attach or remove it, or was left behind by a known cause: a Close or an os.Remove that
\* failed, a delete that had not seen it, a server that stopped.
THEOREM Accounted == Spec => []FilesAccounted
<1>1. IInv => FilesAccounted
  BY DEF IInv
<1> QED BY <1>1, Invariance, PTL

\* A memo changes or goes only by a request of the user it was created for,
\* even when an Update writes back a copy it read before the memo was deleted.
THEOREM OnlyAuthor == Spec => OnlyAuthorChanges
<1> DEFINE Fair == \A m \in ids : row'[m] # row[m] =>
                     \E c \in Client : req'[c] # req[c] /\ req[c].user = author[m]
<1> USE DEF store, history
<1>1. ASSUME IInv, [Next]_vars PROVE [Fair]_vars
  <2>1. /\ TypeOK
        /\ \A c \in Client : req[c].at \in {"undoing", "updating", "deleting"} =>
             req[c].user = author[req[c].memo] /\ req[c].memo \in Memo
    BY <1>1, ReqShape DEF IInv, Authored
  <2>2. ASSUME NEW c \in Client, req[c].at \in {"undoing", "updating", "deleting"},
               req'[c].at \notin {"undoing", "updating", "deleting"},
               \A n \in Memo \ {req[c].memo} : row'[n] = row[n]
        PROVE  Fair
    BY <2>1, <2>2 DEF TypeOK
  <2>3. ASSUME NEW c \in Client, Undo(c) \/ SaveCopy(c) PROVE Fair
    BY <2>1, <2>2, <2>3, Moved DEF Undo, SaveCopy, DropRow, TypeOK, Idle
  <2>4. ASSUME NEW c \in Client, DeleteRow(c) PROVE Fair
    BY <2>1, <2>2, <2>4, Moved DEF DeleteRow, DropRow, TypeOK, Idle, Removing
  <2>5. ASSUME NEW c \in Client, NEW u \in User, NEW m \in Memo, NEW s \in Status,
               NEW files \in SUBSET File, CreateRow(c, u, m, s, files)
        PROVE  Fair
    BY <2>1, <2>5 DEF CreateRow, TypeOK
  <2>6. CASE UNCHANGED row
    BY <2>6
  <2> HIDE DEF Fair
  <2> QED
    BY <1>1, <2>3, <2>4, <2>5, <2>6
    DEF Next, Proceed, NotFound, SaveFile, SaveFileFails, AddAttachments, AddAttachmentsFails,
        ReadForUpdate, ReadForDelete, RemoveFiles, DbError, Stop, vars
<1>2. Spec => [][Fair]_vars
  BY <1>1, Invariance, PTL DEF Spec
<1> QED BY <1>2 DEF OnlyAuthorChanges
=============================================================================

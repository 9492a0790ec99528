---------------------------- MODULE PublicArchive ----------------------------
(***************************************************************************)
(* The public archive and its files.  A file is an object in S3 and a row  *)
(* of file_upload that names it; an archive owns the rows that point to it *)
(* (cascade ALL, orphanRemoval), and a chat message may point to a row     *)
(* too.                                                                    *)
(*                                                                         *)
(* A handler is one transaction of a server thread.  The database decides  *)
(* at the commit; S3 takes no part in the transaction: what was put or     *)
(* deleted there stays so when the transaction rolls back.  What a handler *)
(* reads is the snapshot of its first read (MySQL, REPEATABLE READ).       *)
(*                                                                         *)
(* A crash of the server is one of the failures below for every handler:   *)
(* nothing but the handlers' progress is kept in memory.                   *)
(***************************************************************************)
CONSTANTS
  Files,     \* ids an uploaded file may be given, each with a key of its own
  Archives,  \* ids an archive may be given
  Threads,   \* server threads
  NoArchive  \* null in the column public_archive_id

ASSUME NullAssumption == NoArchive \notin Archives

VARIABLES
  put,       \* files whose object was put in S3 at some time
  gone,      \* those whose object was deleted again
  saved,     \* files whose row was inserted at some time
  dropped,   \* those whose row was deleted again
  link,      \* the column public_archive_id of each file
  attached,  \* files some chat message points to
  created,   \* archives whose row was inserted at some time
  deleted,   \* those whose row was deleted again
  tx,        \* what each thread is doing
  lost       \* files whose object may be gone by a call that left the row

s3   == <<put, gone>>
db   == <<saved, dropped, link, attached, created, deleted>>
vars == <<s3, db, tx, lost>>

-----------------------------------------------------------------------------
(* A thread's handler: ids are the files the request names, had those the  *)
(* archive had when it was loaded, pending those of them whose objects are *)
(* still to be deleted, ok whether the files to add pass the checks.       *)
Tx == [op : {"none", "upload", "create", "update", "delete"},
       archive : Archives \cup {NoArchive}, ids : SUBSET Files, had : SUBSET Files,
       pending : SUBSET Files, ok : BOOLEAN]

Idle == [op |-> "none", archive |-> NoArchive, ids |-> {}, had |-> {},
         pending |-> {}, ok |-> TRUE]

Rows == saved \ dropped
Live == created \ deleted
FilesOf(a) == {f \in Rows : link[f] = a}

(* The files that t's handler links to its archive, and those it takes out *)
(* of it.                                                                  *)
Added(t) == tx[t].ids \ tx[t].had
Removed(t) == tx[t].had \ tx[t].ids

(* A definition with an underscore in its name is a plausible mistake in   *)
(* the one below it, kept to confirm that some property notices it.        *)

(* The files are found and none is used by another archive.                *)
Linkable_Used(ids, a) == ids \subseteq Rows
Linkable(ids, a) == \A f \in ids : f \in Rows /\ link[f] \in {NoArchive, a}

(* What the foreign keys of link and of attached ask of a commit.          *)
MayLink_NoKey(ids, a) == ids \subseteq Rows
MayLink(ids, a) == ids \subseteq Rows /\ (ids # {} => a \in Live)
MayDrop(ids) == ids \subseteq Rows /\ ids \cap attached = {}

Begin_NoS3(t, op, a, ids, had, ok) ==
  /\ tx[t] = Idle
  /\ tx' = [tx EXCEPT ![t] = [op |-> op, archive |-> a, ids |-> ids, had |-> had,
                              pending |-> {}, ok |-> ok]]
Begin(t, op, a, ids, had, ok) ==
  /\ tx[t] = Idle
  /\ tx' = [tx EXCEPT ![t] = [op |-> op, archive |-> a, ids |-> ids, had |-> had,
                              pending |-> had \ ids, ok |-> ok]]
Finish(t) == tx' = [tx EXCEPT ![t] = Idle]

(* t's transaction rolls back; the objects it deleted stay deleted.        *)
Abandon(t) == lost' = lost \cup (Removed(t) \cap gone') /\ Finish(t)

-----------------------------------------------------------------------------
Init ==
  /\ put = {} /\ gone = {} /\ saved = {} /\ dropped = {} /\ attached = {}
  /\ link = [f \in Files |-> NoArchive]
  /\ created = {} /\ deleted = {}
  /\ tx = [t \in Threads |-> Idle] /\ lost = {}

(* POST /file: the object, then a copy on disk, then the row.              *)
UploadFileS3(t, f) ==
  /\ f \notin put /\ put' = put \cup {f}
  /\ Begin(t, "upload", NoArchive, {f}, {}, TRUE)
  /\ UNCHANGED <<gone, db, lost>>

SaveFileUpload(t) ==
  /\ tx[t].op = "upload"
  /\ saved' = saved \cup tx[t].ids
  /\ Finish(t)
  /\ UNCHANGED <<s3, dropped, link, attached, created, deleted, lost>>

(* The disk or the database fails: the caller gets a failure and the       *)
(* object stays.                                                           *)
UploadFails(t) ==
  /\ tx[t].op = "upload" /\ Finish(t)
  /\ UNCHANGED <<s3, db, lost>>

(* DELETE /file deletes the object that is named and no row.               *)
FileDelete(f) ==
  /\ f \in put
  /\ gone' = gone \cup {f} /\ lost' = lost \cup {f}
  /\ UNCHANGED <<put, db, tx>>

(* A chat message with an attachment is saved.                             *)
AttachFile_Unchecked(f) ==
  /\ attached' = attached \cup {f}
  /\ UNCHANGED <<s3, saved, dropped, link, created, deleted, tx, lost>>
AttachFile(f) ==
  /\ f \in Rows \ attached /\ attached' = attached \cup {f}
  /\ UNCHANGED <<s3, saved, dropped, link, created, deleted, tx, lost>>

(* POST archive.  A request whose files do not pass the checks, or that    *)
(* names one twice, is refused and leaves no trace.                        *)
CreatePublicArchive(t, a, ids) ==
  /\ a \notin created /\ \A s \in Threads : tx[s].archive # a
  /\ Linkable(ids, NoArchive)
  /\ Begin(t, "create", a, ids, {}, TRUE)
  /\ UNCHANGED <<s3, db, lost>>

CommitCreate(t) ==
  LET a == tx[t].archive
      ids == tx[t].ids
  IN
  /\ tx[t].op = "create" /\ ids \subseteq Rows
  /\ created' = created \cup {a}
  /\ link' = [f \in Files |-> IF f \in ids THEN a ELSE link[f]]
  /\ Finish(t)
  /\ UNCHANGED <<s3, saved, dropped, attached, deleted, lost>>

(* PUT archive with fileIds (without them no file changes).  The files to  *)
(* take out are deleted in S3 before the files to add are checked.         *)
UpdatePublicArchive(t, a, ids) ==
  /\ a \in Live
  /\ Begin(t, "update", a, ids, FilesOf(a), Linkable(ids \ FilesOf(a), a))
  /\ UNCHANGED <<s3, db, lost>>

(* DELETE archive.  The rows are deleted at the commit, so after S3.       *)
DeletePublicArchive(t, a) ==
  /\ a \in Live
  /\ Begin(t, "delete", a, {}, FilesOf(a), TRUE)
  /\ UNCHANGED <<s3, db, lost>>

DeleteFile(t, f) ==
  /\ f \in tx[t].pending /\ gone' = gone \cup {f}
  /\ tx' = [tx EXCEPT ![t].pending = @ \ {f}]
  /\ UNCHANGED <<put, db, lost>>

(* S3 answers with an error, or not at all although the object is deleted. *)
DeleteFileFails(t, f) ==
  /\ f \in tx[t].pending /\ gone' \in {gone, gone \cup {f}}
  /\ Abandon(t)
  /\ UNCHANGED <<put, db>>

(* A file to add does not exist or is used by another archive.             *)
UpdateRefused(t) ==
  /\ tx[t].op = "update" /\ tx[t].pending = {} /\ ~tx[t].ok
  /\ UNCHANGED <<s3, db>> /\ Abandon(t)

CommitUpdate_KeepsRows(t) ==
  LET a == tx[t].archive IN
  /\ tx[t].op = "update" /\ tx[t].pending = {} /\ tx[t].ok
  /\ MayLink(Added(t), a)
  /\ link' = [f \in Files |-> IF f \in Removed(t) THEN NoArchive
                              ELSE IF f \in Added(t) THEN a ELSE link[f]]
  /\ Finish(t)
  /\ UNCHANGED <<s3, dropped, saved, attached, created, deleted, lost>>
CommitUpdate(t) ==
  LET a == tx[t].archive IN
  /\ tx[t].op = "update" /\ tx[t].pending = {} /\ tx[t].ok
  /\ MayDrop(Removed(t)) /\ MayLink(Added(t), a)
  /\ dropped' = dropped \cup Removed(t)
  /\ link' = [f \in Files |-> IF f \in Removed(t) THEN NoArchive
                              ELSE IF f \in Added(t) THEN a ELSE link[f]]
  /\ Finish(t)
  /\ UNCHANGED <<s3, saved, attached, created, deleted, lost>>

(* A file that was linked to the archive meanwhile keeps its row alive.    *)
CommitDelete(t) ==
  LET a == tx[t].archive
      had == tx[t].had
  IN
  /\ tx[t].op = "delete" /\ tx[t].pending = {}
  /\ a \in Live /\ MayDrop(had) /\ FilesOf(a) \subseteq had
  /\ dropped' = dropped \cup had
  /\ link' = [f \in Files |-> IF f \in had THEN NoArchive ELSE link[f]]
  /\ deleted' = deleted \cup {a}
  /\ Finish(t)
  /\ UNCHANGED <<s3, saved, attached, created, lost>>

(* A row that is gone, a foreign key, or the database refuses the commit.  *)
CommitFails(t) ==
  /\ tx[t].op \in {"create", "update", "delete"} /\ tx[t].pending = {}
  /\ UNCHANGED <<s3, db>> /\ Abandon(t)

Call(t) ==
  \/ \E f \in Files : UploadFileS3(t, f)
  \/ \E a \in Archives, ids \in SUBSET Files :
       CreatePublicArchive(t, a, ids) \/ UpdatePublicArchive(t, a, ids)
  \/ \E a \in Archives : DeletePublicArchive(t, a)

Step(t) ==
  \/ SaveFileUpload(t) \/ UploadFails(t)
  \/ \E f \in Files : DeleteFile(t, f) \/ DeleteFileFails(t, f)
  \/ UpdateRefused(t) \/ CommitFails(t)
  \/ CommitCreate(t) \/ CommitUpdate(t) \/ CommitDelete(t)

Next ==
  \/ \E t \in Threads : Call(t) \/ Step(t)
  \/ \E f \in Files : FileDelete(f) \/ AttachFile(f)

Spec == Init /\ [][Next]_vars

-----------------------------------------------------------------------------
(* The state has the shape the columns and the handlers give it.           *)
TypeOK ==
  /\ put \subseteq Files /\ gone \subseteq put /\ saved \subseteq put
  /\ dropped \subseteq saved /\ attached \subseteq saved /\ lost \subseteq Files
  /\ link \in [Files -> Archives \cup {NoArchive}]
  /\ created \subseteq Archives /\ deleted \subseteq created
  /\ tx \in [Threads -> Tx]

(* No object outlives its row: whatever handlers overlap or fail, a row is *)
(* deleted only when its object was (deleteFile before the commit).        *)
NothingLeftBehind == dropped \subseteq gone

(* A row whose object is gone is about to be deleted, or a call that       *)
(* failed, or DELETE /file, took the object: a commit never leaves a file  *)
(* that cannot be downloaded.                                              *)
RowHasObject ==
  \A f \in Rows \cap gone : f \in lost \/ \E t \in Threads : f \in Removed(t)

(* However edits, deletions and messages overlap, what a row points to     *)
(* exists: a file its archive, a message its attachment.                   *)
NoDanglingLink ==
  /\ \A f \in Rows : link[f] # NoArchive => link[f] \in Live
  /\ attached \subseteq Rows

(* A file of an archive that every handler under way knows to be its file  *)
(* stays with it until a handler of this archive takes it out: neither a   *)
(* new archive nor an edited one takes the file of another.  (Two handlers *)
(* that both load a file while it is free can link it one after the other, *)
(* and the second wins.)                                                   *)
Settled(f) ==
  /\ f \in Rows /\ link[f] # NoArchive
  /\ \A t \in Threads :
       tx[t].ok /\ f \in tx[t].ids \cup tx[t].had => tx[t].archive = link[f]

TakenOut(f) == \E t \in Threads :
  tx[t].archive = link[f] /\ f \in Removed(t) /\ tx'[t] = Idle /\ f \in dropped'

LinkSettles ==
  [][\A f \in Files : Settled(f) =>
       TakenOut(f) \/ (Settled(f)' /\ link'[f] = link[f])]_vars
=============================================================================

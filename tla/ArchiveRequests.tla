--------------------------- MODULE ArchiveRequests ---------------------------
(***************************************************************************)
(* Requests of mentors for learning material: a mentor writes one and may  *)
(* edit or delete it, an admin approves, rejects or reopens it.            *)
(*                                                                         *)
(* Each handler is one transaction of a server thread: it loads the        *)
(* request and decides, and its commit writes the row.  Between the two    *)
(* other handlers commit.  ArchiveRequest has no @Version and no           *)
(* @DynamicUpdate: Hibernate compares the entity with what it had loaded   *)
(* and, when anything changed, writes every column.                        *)
(***************************************************************************)
EXTENDS Naturals

CONSTANTS
  Mentors,   \* users with role MENTOR
  Admins,    \* users with role ADMIN
  Requests,  \* ids a request may be given
  Texts,     \* what a request may say: title, description, category
  Threads,   \* server threads
  NoUser,    \* null in the column reviewed_by_id
  MaxCalls   \* bound: calls handled in a run

ASSUME RolesAssumption ==
  /\ Mentors \cap Admins = {} /\ NoUser \notin Mentors \cup Admins
  /\ Mentors # {} /\ Requests # {} /\ Texts # {}
ASSUME CallsAssumption == MaxCalls \in Nat

VARIABLES
  created,   \* requests whose row was inserted at some time
  deleted,   \* those whose row is gone again
  row,       \* the row of each request
  tx,        \* what each thread is doing
  calls,     \* calls handled so far
  decisions  \* decisions committed so far, with the text the admin had loaded

db   == <<created, deleted, row>>
vars == <<db, tx, calls, decisions>>

-----------------------------------------------------------------------------
Status == {"PENDING", "APPROVED", "REJECTED"}

Row == [user : Mentors, status : Status, reviewedBy : Admins \cup {NoUser}, text : Texts]

Decision == [request : Requests, by : Admins, status : Status, text : Texts]

(* A thread's handler: seen is the row as it was loaded, img the entity as *)
(* the handler has changed it.                                             *)
Tx == [op : {"none", "update", "status", "delete"},
       actor : Mentors \cup Admins \cup {NoUser}, request : Requests,
       seen : Row, img : Row]

(* A definition with an underscore in its name is a plausible mistake in   *)
(* the one below it, kept to confirm that some property notices it.        *)

(* The row as the builder of ArchiveRequest makes it; the builder ignores  *)
(* the initializer of the field status, so it has to be set.               *)
BlankRow_NoStatus ==
  [user |-> CHOOSE u \in Mentors : TRUE, status |-> NoUser,
   reviewedBy |-> NoUser, text |-> CHOOSE x \in Texts : TRUE]
BlankRow == [user |-> CHOOSE u \in Mentors : TRUE, status |-> "PENDING",
             reviewedBy |-> NoUser, text |-> CHOOSE x \in Texts : TRUE]
Idle == [op |-> "none", actor |-> NoUser, request |-> CHOOSE r \in Requests : TRUE,
         seen |-> BlankRow, img |-> BlankRow]

Live == created \ deleted

Reopened(rec) == [rec EXCEPT !.status = "PENDING", !.reviewedBy = NoUser]

(* approve, reject and the case PENDING.                                   *)
Reviewed(rec, admin, status) ==
  IF status = "PENDING" THEN Reopened(rec)
  ELSE [rec EXCEPT !.status = status, !.reviewedBy = admin]

(* An edit of a rejected request asks for another review.                  *)
Edited_StillRejected(rec, text) == [rec EXCEPT !.text = text]
Edited(rec, text) ==
  [(IF rec.status = "REJECTED" THEN Reopened(rec) ELSE rec) EXCEPT !.text = text]

(* An approved request is neither edited nor deleted by its author.        *)
Open_Always(rec) == TRUE
Open(rec) == rec.status # "APPROVED"

(* What an UPDATE leaves in the row.                                       *)
Written_DirtyColumns(seen, img, current) ==
  [c \in DOMAIN img |-> IF img[c] # seen[c] THEN img[c] ELSE current[c]]
Written(seen, img, current) == img

(* Idle thread t takes a call up that finds the request.                   *)
Load(t, op, actor, r, img) ==
  /\ calls < MaxCalls /\ calls' = calls + 1
  /\ r \in Live /\ tx[t] = Idle
  /\ tx' = [tx EXCEPT ![t] = [op |-> op, actor |-> actor, request |-> r,
                              seen |-> row[r], img |-> img]]
  /\ UNCHANGED <<db, decisions>>
Done(t) == tx' = [tx EXCEPT ![t] = Idle]

-----------------------------------------------------------------------------
Init ==
  /\ created = {} /\ deleted = {}
  /\ row = [r \in Requests |-> BlankRow]
  /\ tx = [t \in Threads |-> Idle] /\ calls = 0
  /\ decisions = {}

(* POST.  Nobody knows the id of the request before the commit.            *)
CreateArchiveRequest(u, r, text) ==
  /\ r \notin created
  /\ created' = created \cup {r}
  /\ row' = [row EXCEPT ![r] = [BlankRow EXCEPT !.user = u, !.text = text]]
  /\ UNCHANGED <<deleted, tx, calls, decisions>>

(* PUT, by the author.                                                     *)
UpdateArchiveRequest(t, u, r, text) ==
  /\ u = row[r].user /\ Open(row[r])
  /\ Load(t, "update", u, r, Edited(row[r], text))

(* PATCH status: any status to any other.                                  *)
UpdateArchiveRequestStatus(t, a, r, status) ==
  Load(t, "status", a, r, Reviewed(row[r], a, status))

(* DELETE, by an admin or by the author.                                   *)
DeleteArchiveRequest(t, u, r) ==
  /\ u \in Admins \/ (u = row[r].user /\ Open(row[r]))
  /\ Load(t, "delete", u, r, row[r])

(* The commit of an edit or of a decision.  An entity that is as it was    *)
(* loaded is not written; a row that is gone fails the handler.            *)
CommitUpdate(t) ==
  LET r == tx[t].request
      seen == tx[t].seen
      img == tx[t].img
      op == tx[t].op
  IN
  /\ op \in {"update", "status"}
  /\ \/ /\ r \in Live /\ img # seen
        /\ row' = [row EXCEPT ![r] = Written(seen, img, @)]
        /\ decisions' = IF op = "status"
             THEN decisions \cup {[request |-> r, by |-> tx[t].actor,
                                   status |-> img.status, text |-> seen.text]}
             ELSE decisions
     \/ (r \notin Live \/ img = seen) /\ UNCHANGED <<row, decisions>>
  /\ Done(t)
  /\ UNCHANGED <<created, deleted, calls>>

(* The commit of a deletion.                                               *)
CommitDelete(t) ==
  /\ tx[t].op = "delete"
  /\ deleted' = deleted \cup {tx[t].request}
  /\ row' = [row EXCEPT ![tx[t].request] = BlankRow]
  /\ Done(t)
  /\ UNCHANGED <<created, calls, decisions>>

Call(t) == \E r \in Requests :
  \/ \E u \in Mentors, text \in Texts : UpdateArchiveRequest(t, u, r, text)
  \/ \E a \in Admins, status \in Status : UpdateArchiveRequestStatus(t, a, r, status)
  \/ \E u \in Mentors \cup Admins : DeleteArchiveRequest(t, u, r)

Next ==
  \/ \E u \in Mentors, r \in Requests, text \in Texts : CreateArchiveRequest(u, r, text)
  \/ \E t \in Threads : Call(t) \/ CommitUpdate(t) \/ CommitDelete(t)

Spec == Init /\ [][Next]_vars

-----------------------------------------------------------------------------
(* The state has the shape the columns and the handlers give it.           *)
TypeOK ==
  /\ created \subseteq Requests /\ deleted \subseteq created
  /\ row \in [Requests -> Row] /\ tx \in [Threads -> Tx] /\ calls \in Nat
  /\ decisions \subseteq Decision

(* However edits and reviews overlap, a request that waits for a review    *)
(* names no reviewer and one that was reviewed names one.  It holds since  *)
(* the two columns are always written together: with @DynamicUpdate, each  *)
(* commit writing its own changes, it would not.                           *)
ReviewerIffReviewed ==
  \A r \in Live : row[r].status = "PENDING" <=> row[r].reviewedBy = NoUser

(* A request that is approved or rejected has the text that the handler of *)
(* this decision loaded (updateArchiveRequestStatus), by the admin it      *)
(* names: an edit committed after that load does not end up approved, nor  *)
(* does one committed after the decision.  The text that the admin read    *)
(* before he decided is not sent along: an edit that is committed between  *)
(* his reading and the load is approved unseen.                            *)
DecidedAsSeen ==
  \A r \in Live : row[r].status # "PENDING" =>
    [request |-> r, by |-> row[r].reviewedBy, status |-> row[r].status, text |-> row[r].text]
      \in decisions

(* An approved request that no author is editing or deleting, and that no  *)
(* admin has loaded with another text, keeps its text and its approval     *)
(* until an admin decides again or deletes it.                             *)
Approved(r) ==
  /\ r \in Live /\ row[r].status = "APPROVED"
  /\ \A t \in Threads : tx[t].op # "none" /\ tx[t].request = r =>
       tx[t].actor \in Admins /\ tx[t].img.text = row[r].text

DecidedAnew(r) == \E t \in Threads :
  tx[t].request = r /\ tx[t].actor \in Admins /\ tx[t].op # "none" /\ tx'[t] = Idle

ApprovalSettles ==
  [][\A r \in Requests : Approved(r) =>
       DecidedAnew(r) \/ (Approved(r)' /\ row'[r].text = row[r].text)]_vars

-----------------------------------------------------------------------------
(* Handlers that are served one after the other implement the review that  *)
(* the messages of the program describe.  Concurrent ones do not: an edit  *)
(* or a deletion that was let in before an approval is committed over it.  *)
Stage(r) ==
  CASE r \notin created -> "none"
    [] r \in deleted -> "removed"
    [] OTHER -> row[r].status

Review == INSTANCE RequestReview WITH
  stage <- [r \in Requests |-> Stage(r)],
  text <- [r \in Requests |-> IF r \in Live THEN row[r].text ELSE BlankRow.text]

ReviewSpec == Review!Spec

=============================================================================

----------------------- MODULE ArchiveRequests_proofs -----------------------
(***************************************************************************)
(* Reviews and edits that overlap: the columns of a request stay of one    *)
(* piece, and a decision stays with the text it was taken on.              *)
(***************************************************************************)
EXTENDS ArchiveRequests, TLAPS

Handling(t) == tx[t].op # "none"

(* What a handler is about to write: an edit writes a request that waits   *)
(* for a review, a decision names the admin and leaves the text as it was. *)
ImageOK(t) ==
  /\ tx[t].op = "update" => tx[t].img.status = "PENDING" /\ tx[t].img.reviewedBy = NoUser
  /\ tx[t].op = "status" =>
       /\ tx[t].actor \in Admins
       /\ tx[t].img.text = tx[t].seen.text
       /\ tx[t].img.reviewedBy = IF tx[t].img.status = "PENDING" THEN NoUser ELSE tx[t].actor
  /\ Handling(t) => tx[t].request \in created

(* The strengthening of the two safety invariants that every step keeps.   *)
Reviewing ==
  /\ TypeOK /\ ReviewerIffReviewed /\ DecidedAsSeen
  /\ \A t \in Threads : ImageOK(t)

(* What handlers make of a request they have loaded.                       *)
LEMMA ImageTyped ==
  ASSUME NEW rec \in Row, NEW text \in Texts, NEW admin \in Admins, NEW status \in Status
  PROVE  /\ Edited(rec, text) \in Row
         /\ Reviewed(rec, admin, status) \in Row
BY DEF Row, Status, Edited, Reopened, Reviewed

LEMMA ImageKinds ==
  ASSUME NEW rec \in Row, NEW text \in Texts, NEW admin \in Admins, NEW status \in Status
  PROVE  /\ Open(rec) /\ (rec.status = "PENDING" <=> rec.reviewedBy = NoUser) =>
              Edited(rec, text).status = "PENDING" /\ Edited(rec, text).reviewedBy = NoUser
         /\ Reviewed(rec, admin, status).text = rec.text
         /\ Reviewed(rec, admin, status).reviewedBy =
              IF Reviewed(rec, admin, status).status = "PENDING" THEN NoUser ELSE admin
BY DEF Row, Status, Edited, Reopened, Reviewed, Open

LEMMA BlankTyped == BlankRow \in Row /\ Idle \in Tx
<1>1. BlankRow \in Row
  BY RolesAssumption DEF BlankRow, Row, Status
<1> QED
  BY <1>1, RolesAssumption DEF Idle, Tx

(* A thread takes a call up and loads the request.                         *)
LEMMA LoadKeeps ==
  ASSUME Reviewing, NEW t \in Threads, NEW op \in {"update", "status", "delete"},
         NEW actor \in Mentors \cup Admins, NEW r \in Requests, NEW img \in Row,
         Load(t, op, actor, r, img),
         op = "update" => img.status = "PENDING" /\ img.reviewedBy = NoUser,
         op = "status" =>
           /\ actor \in Admins /\ img.text = row[r].text
           /\ img.reviewedBy = IF img.status = "PENDING" THEN NoUser ELSE actor
  PROVE  Reviewing'
<1> DEFINE w == [op |-> op, actor |-> actor, request |-> r, seen |-> row[r], img |-> img]
<1>1. /\ tx' = [tx EXCEPT ![t] = w] /\ tx \in [Threads -> Tx]
      /\ row' = row /\ created' = created /\ deleted' = deleted
      /\ decisions' = decisions /\ calls' = calls + 1
      /\ r \in created
  BY DEF Load, db, Live, Reviewing, TypeOK
<1>2. w \in Tx
  BY DEF Tx, Reviewing, TypeOK
<1>3. /\ w.op = op /\ w.actor = actor /\ w.request = r /\ w.seen = row[r] /\ w.img = img
  OBVIOUS
<1> HIDE DEF w
<1>4. tx' \in [Threads -> Tx] /\ tx'[t] = w /\ \A s \in Threads \ {t} : tx'[s] = tx[s]
  BY <1>1, <1>2
<1>5. TypeOK'
  BY <1>1, <1>4 DEF Reviewing, TypeOK
<1>6. ReviewerIffReviewed' /\ DecidedAsSeen'
  BY <1>1 DEF Reviewing, ReviewerIffReviewed, DecidedAsSeen, Live
<1>7. ASSUME NEW s \in Threads PROVE ImageOK(s)'
  <2>1. CASE s = t
    BY <1>1, <1>3, <1>4, <2>1 DEF ImageOK
  <2>2. CASE s # t
    BY <1>1, <1>4, <2>2 DEF Reviewing, ImageOK, Handling
  <2> QED
    BY <2>1, <2>2
<1> QED
  BY <1>5, <1>6, <1>7 DEF Reviewing

LEMMA CallKeeps ==
  ASSUME Reviewing, NEW t \in Threads, Call(t)
  PROVE  Reviewing'
<1> PICK r \in Requests :
      \/ \E u \in Mentors, text \in Texts : UpdateArchiveRequest(t, u, r, text)
      \/ \E a \in Admins, status \in Status : UpdateArchiveRequestStatus(t, a, r, status)
      \/ \E u \in Mentors \cup Admins : DeleteArchiveRequest(t, u, r)
  BY DEF Call
<1>0. row[r] \in Row
  BY DEF Reviewing, TypeOK
<1>1. ASSUME NEW u \in Mentors, NEW text \in Texts, UpdateArchiveRequest(t, u, r, text)
      PROVE  Reviewing'
  <2> DEFINE img == Edited(row[r], text)
  <2>1. Load(t, "update", u, r, img) /\ Open(row[r]) /\ r \in Live
    BY <1>1 DEF UpdateArchiveRequest, Load
  <2>2. row[r].status = "PENDING" <=> row[r].reviewedBy = NoUser
    BY <2>1 DEF Reviewing, ReviewerIffReviewed
  <2>3. img \in Row /\ img.status = "PENDING" /\ img.reviewedBy = NoUser
    BY <1>0, <2>1, <2>2 DEF Row, Status, Edited, Reopened, Open
  <2> HIDE DEF img
  <2> QED
    BY <2>1, <2>3, LoadKeeps
<1>2. ASSUME NEW a \in Admins, NEW status \in Status, UpdateArchiveRequestStatus(t, a, r, status)
      PROVE  Reviewing'
  <2> DEFINE img == Reviewed(row[r], a, status)
  <2>1. Load(t, "status", a, r, img)
    BY <1>2 DEF UpdateArchiveRequestStatus
  <2>2. /\ img \in Row /\ img.text = row[r].text
        /\ img.reviewedBy = IF img.status = "PENDING" THEN NoUser ELSE a
    BY <1>0, ImageTyped, ImageKinds, RolesAssumption
  <2> HIDE DEF img
  <2> QED
    BY <2>1, <2>2, LoadKeeps
<1>3. ASSUME NEW u \in Mentors \cup Admins, DeleteArchiveRequest(t, u, r)
      PROVE  Reviewing'
  BY <1>0, <1>3, LoadKeeps DEF DeleteArchiveRequest
<1> QED
  BY <1>1, <1>2, <1>3

(* A handler that ends leaves the others where they are.                   *)
LEMMA DoneKeeps ==
  ASSUME Reviewing, NEW t \in Threads, Done(t), created' = created
  PROVE  /\ tx' \in [Threads -> Tx]
         /\ \A s \in Threads : ImageOK(s)'
<1>1. /\ tx \in [Threads -> Tx] /\ tx'[t] = Idle /\ \A s \in Threads \ {t} : tx'[s] = tx[s]
      /\ tx' \in [Threads -> Tx]
  BY BlankTyped DEF Done, Reviewing, TypeOK
<1>2. ImageOK(t)'
  BY <1>1 DEF ImageOK, Handling, Idle
<1>3. ASSUME NEW s \in Threads \ {t} PROVE ImageOK(s)'
  BY <1>1 DEF ImageOK, Handling, Reviewing
<1> QED
  BY <1>1, <1>2, <1>3

LEMMA CommitUpdateKeeps ==
  ASSUME Reviewing, NEW t \in Threads, CommitUpdate(t)
  PROVE  Reviewing'
<1> DEFINE r == tx[t].request
           img == tx[t].img
           made == [request |-> r, by |-> tx[t].actor, status |-> img.status,
                    text |-> tx[t].seen.text]
<1>1. /\ created' = created /\ deleted' = deleted /\ calls' = calls /\ Done(t)
      /\ tx[t].op \in {"update", "status"}
  BY DEF CommitUpdate
<1>2. tx' \in [Threads -> Tx] /\ \A s \in Threads : ImageOK(s)'
  BY <1>1, DoneKeeps
<1>3. /\ tx[t] \in Tx /\ r \in Requests /\ img \in Row /\ tx[t].seen \in Row
      /\ row \in [Requests -> Row]
      /\ decisions \subseteq Decision
  BY DEF Reviewing, TypeOK, Tx
<1>4. img.status \in Status /\ img.text \in Texts /\ tx[t].seen.text \in Texts
  BY <1>3 DEF Row
<1>5. CASE UNCHANGED <<row, decisions>>
  BY <1>1, <1>2, <1>5
     DEF Reviewing, TypeOK, ReviewerIffReviewed, DecidedAsSeen, Live
<1>6. CASE /\ row' = [row EXCEPT ![r] = img]
           /\ decisions' = IF tx[t].op = "status" THEN decisions \cup {made} ELSE decisions
  <2>1. row' \in [Requests -> Row] /\ row'[r] = img
        /\ \A q \in Requests \ {r} : row'[q] = row[q]
    BY <1>3, <1>6
  <2>3. tx[t].op = "status" => tx[t].actor \in Admins
    BY DEF Reviewing, ImageOK
  <2>4. decisions' \subseteq Decision /\ decisions \subseteq decisions'
    BY <1>3, <1>4, <1>6, <2>3 DEF Decision
  <2>5. TypeOK'
    BY <1>1, <1>2, <2>1, <2>4 DEF Reviewing, TypeOK
  <2>6. img.status = "PENDING" <=> img.reviewedBy = NoUser
    BY <1>1, RolesAssumption DEF Reviewing, ImageOK
  <2>7. ReviewerIffReviewed'
    BY <1>1, <2>1, <2>6 DEF Reviewing, ReviewerIffReviewed, Live, TypeOK
  <2>8. ASSUME img.status # "PENDING"
        PROVE  [request |-> r, by |-> img.reviewedBy, status |-> img.status, text |-> img.text]
                 \in decisions'
    <3>1. tx[t].op = "status" /\ img.reviewedBy = tx[t].actor /\ img.text = tx[t].seen.text
      BY <1>1, <2>8 DEF Reviewing, ImageOK
    <3> QED
      BY <1>6, <3>1
  <2>9. DecidedAsSeen'
    <3> SUFFICES ASSUME NEW q \in Live', row'[q].status # "PENDING"
                 PROVE  [request |-> q, by |-> row'[q].reviewedBy, status |-> row'[q].status,
                         text |-> row'[q].text] \in decisions'
      BY DEF DecidedAsSeen
    <3>1. q \in Live /\ q \in Requests
      BY <1>1 DEF Live, Reviewing, TypeOK
    <3>2. CASE q = r
      BY <2>1, <2>8, <3>2
    <3>3. CASE q # r
      BY <2>1, <2>4, <3>1, <3>3 DEF Reviewing, DecidedAsSeen
    <3> QED
      BY <3>2, <3>3
  <2> QED
    BY <1>2, <2>5, <2>7, <2>9 DEF Reviewing
<1> QED
  BY <1>5, <1>6 DEF CommitUpdate, Written

LEMMA CommitDeleteKeeps ==
  ASSUME Reviewing, NEW t \in Threads, CommitDelete(t)
  PROVE  Reviewing'
<1>1. /\ created' = created /\ calls' = calls /\ Done(t)
      /\ decisions' = decisions
      /\ deleted' = deleted \cup {tx[t].request}
      /\ row' = [row EXCEPT ![tx[t].request] = BlankRow]
  BY DEF CommitDelete
<1>2. tx' \in [Threads -> Tx] /\ \A s \in Threads : ImageOK(s)'
  BY <1>1, DoneKeeps
<1>3. tx[t].request \in created
  BY DEF CommitDelete, Reviewing, ImageOK, Handling
<1>4. TypeOK'
  BY <1>1, <1>2, <1>3, BlankTyped DEF Reviewing, TypeOK
<1>5. \A q \in Live' : q \in Live /\ q \in Requests /\ row'[q] = row[q]
  BY <1>1 DEF Live, Reviewing, TypeOK
<1>6. ReviewerIffReviewed' /\ DecidedAsSeen'
  BY <1>1, <1>5 DEF Reviewing, ReviewerIffReviewed, DecidedAsSeen
<1> QED
  BY <1>2, <1>4, <1>6 DEF Reviewing

LEMMA CreateKeeps ==
  ASSUME Reviewing, NEW u \in Mentors, NEW r \in Requests, NEW text \in Texts,
         CreateArchiveRequest(u, r, text)
  PROVE  Reviewing'
<1> DEFINE new == [BlankRow EXCEPT !.user = u, !.text = text]
<1>1. /\ new \in Row /\ new.status = "PENDING" /\ new.reviewedBy = NoUser
  BY BlankTyped DEF BlankRow, Row
<1>2. /\ created' = created \cup {r} /\ row' = [row EXCEPT ![r] = new]
      /\ deleted' = deleted /\ tx' = tx /\ calls' = calls /\ decisions' = decisions
  BY DEF CreateArchiveRequest
<1> HIDE DEF new
<1>3. row'[r] = new /\ \A q \in Live' : q = r \/ (q \in Live /\ row'[q] = row[q])
  BY <1>2 DEF Live, Reviewing, TypeOK
<1>4. TypeOK'
  BY <1>1, <1>2 DEF Reviewing, TypeOK
<1>5. ReviewerIffReviewed' /\ DecidedAsSeen'
  BY <1>1, <1>2, <1>3 DEF Reviewing, ReviewerIffReviewed, DecidedAsSeen
<1>6. \A t \in Threads : ImageOK(t)'
  BY <1>2 DEF Reviewing, ImageOK, Handling
<1> QED
  BY <1>4, <1>5, <1>6 DEF Reviewing

LEMMA InitReviewing == Init => Reviewing
<1> SUFFICES ASSUME Init PROVE Reviewing
  OBVIOUS
<1>1. TypeOK
  BY BlankTyped, CallsAssumption DEF Init, TypeOK, Row
<1>2. ReviewerIffReviewed /\ DecidedAsSeen
  BY DEF Init, ReviewerIffReviewed, DecidedAsSeen, Live
<1>3. \A t \in Threads : ImageOK(t)
  BY DEF Init, ImageOK, Handling, Idle
<1> QED
  BY <1>1, <1>2, <1>3 DEF Reviewing

LEMMA NextReviewing == Reviewing /\ [Next]_vars => Reviewing'
<1> SUFFICES ASSUME Reviewing, [Next]_vars PROVE Reviewing'
  OBVIOUS
<1>1. CASE UNCHANGED vars
  BY <1>1 DEF vars, db, Reviewing, TypeOK, ReviewerIffReviewed, DecidedAsSeen,
              ImageOK, Handling, Live
<1>2. CASE Next
  BY <1>2, CreateKeeps, CallKeeps, CommitUpdateKeeps, CommitDeleteKeeps DEF Next
<1> QED
  BY <1>1, <1>2

(* The columns of a request and the threads that handle it keep the shape  *)
(* ArchiveRequestService gives them.                                       *)
THEOREM TypeCorrect == Spec => []TypeOK
<1>1. Reviewing => TypeOK
  BY DEF Reviewing
<1> QED
  BY <1>1, InitReviewing, NextReviewing, PTL DEF Spec

(* A request that waits for a review names no reviewer, one that was       *)
(* reviewed names one, however edits and reviews overlap (approve, reject, *)
(* updateArchiveRequestWithOwnerCheck).                                    *)
THEOREM ColumnsAgree == Spec => []ReviewerIffReviewed
<1>1. Reviewing => ReviewerIffReviewed
  BY DEF Reviewing
<1> QED
  BY <1>1, InitReviewing, NextReviewing, PTL DEF Spec

(* A request is approved or rejected only as the text that the handler of  *)
(* the admin it names had loaded (updateArchiveRequestStatus).             *)
THEOREM DecisionsHold == Spec => []DecidedAsSeen
<1>1. Reviewing => DecidedAsSeen
  BY DEF Reviewing
<1> QED
  BY <1>1, InitReviewing, NextReviewing, PTL DEF Spec

(* A call that loads an approved request is an admin's.                    *)
LEMMA ApprovedCall ==
  ASSUME TypeOK, NEW r \in Requests, Approved(r), NEW t \in Threads, Call(t)
  PROVE  Approved(r)' /\ row'[r].text = row[r].text
<1> PICK q \in Requests :
      \/ \E u \in Mentors, text \in Texts : UpdateArchiveRequest(t, u, q, text)
      \/ \E a \in Admins, status \in Status : UpdateArchiveRequestStatus(t, a, q, status)
      \/ \E u \in Mentors \cup Admins : DeleteArchiveRequest(t, u, q)
  BY DEF Call
<1>0. row[r] \in Row /\ row[r].status = "APPROVED" /\ ~Open(row[r])
  BY DEF TypeOK, Approved, Open
<1>1. \E op, actor, img :
        /\ Load(t, op, actor, q, img)
        /\ q = r => actor \in Admins /\ img.text = row[r].text
  <2>1. ASSUME NEW u \in Mentors, NEW text \in Texts, UpdateArchiveRequest(t, u, q, text)
        PROVE  q # r /\ Load(t, "update", u, q, Edited(row[q], text))
    BY <1>0, <2>1 DEF UpdateArchiveRequest
  <2>2. ASSUME NEW a \in Admins, NEW status \in Status,
               UpdateArchiveRequestStatus(t, a, q, status)
        PROVE  /\ Load(t, "status", a, q, Reviewed(row[q], a, status))
               /\ q = r => Reviewed(row[q], a, status).text = row[r].text
    BY <1>0, <2>2 DEF UpdateArchiveRequestStatus, Reviewed, Reopened, Row
  <2>3. ASSUME NEW u \in Mentors \cup Admins, DeleteArchiveRequest(t, u, q)
        PROVE  Load(t, "delete", u, q, row[q]) /\ (q = r => u \in Admins)
    BY <1>0, <2>3 DEF DeleteArchiveRequest
  <2> QED
    BY <2>1, <2>2, <2>3
<1>2. PICK op, actor, img :
        /\ Load(t, op, actor, q, img)
        /\ q = r => actor \in Admins /\ img.text = row[r].text
  BY <1>1
<1> DEFINE w == [op |-> op, actor |-> actor, request |-> q, seen |-> row[q], img |-> img]
<1>3. /\ tx' = [tx EXCEPT ![t] = w]
      /\ row' = row /\ created' = created /\ deleted' = deleted
  BY <1>2 DEF Load, db
<1>4. w.actor = actor /\ w.request = q /\ w.img = img
  OBVIOUS
<1> HIDE DEF w
<1>5. tx'[t] = w /\ \A s \in Threads \ {t} : tx'[s] = tx[s]
  BY <1>3 DEF TypeOK
<1> QED
  BY <1>2, <1>3, <1>4, <1>5 DEF Approved, Live

(* A commit on an approved request that no author has in hand is an        *)
(* admin's.                                                                *)
LEMMA ApprovedCommit ==
  ASSUME TypeOK, NEW r \in Requests, Approved(r), NEW t \in Threads,
         CommitUpdate(t) \/ CommitDelete(t)
  PROVE  DecidedAnew(r) \/ (Approved(r)' /\ row'[r].text = row[r].text)
<1>1. /\ tx'[t] = Idle /\ \A s \in Threads \ {t} : tx'[s] = tx[s]
      /\ tx[t].op # "none" /\ created' = created
  BY DEF CommitUpdate, CommitDelete, Done, TypeOK
<1>2. CASE tx[t].request = r
  BY <1>1, <1>2 DEF Approved, DecidedAnew
<1>3. CASE tx[t].request # r
  <2>1. row'[r] = row[r] /\ (r \in Live => r \in Live')
    BY <1>1, <1>3 DEF CommitUpdate, CommitDelete, TypeOK, Live
  <2>2. tx'[t].op = "none"
    BY <1>1 DEF Idle
  <2> QED
    BY <1>1, <2>1, <2>2 DEF Approved
<1> QED
  BY <1>2, <1>3

(* An approval that nobody works against stands until an admin decides     *)
(* again (the checks of updateArchiveRequestWithOwnerCheck and of          *)
(* deleteArchiveRequestWithPermissionCheck).                               *)
THEOREM ApprovalsSettle == Spec => ApprovalSettles
<1> DEFINE Kept == \A r \in Requests : Approved(r) =>
                     DecidedAnew(r) \/ (Approved(r)' /\ row'[r].text = row[r].text)
<1>1. ASSUME Reviewing, [Next]_vars PROVE Kept
  <2> SUFFICES ASSUME NEW r \in Requests, Approved(r)
               PROVE  DecidedAnew(r) \/ (Approved(r)' /\ row'[r].text = row[r].text)
    OBVIOUS
  <2>1. TypeOK
    BY <1>1 DEF Reviewing
  <2>2. CASE UNCHANGED vars
    BY <2>2 DEF vars, db, Approved, Live
  <2>3. ASSUME NEW u \in Mentors, NEW q \in Requests, NEW text \in Texts,
               CreateArchiveRequest(u, q, text)
        PROVE  Approved(r)' /\ row'[r].text = row[r].text
    <3>1. q # r /\ row'[r] = row[r] /\ tx' = tx /\ (r \in Live => r \in Live')
      BY <2>1, <2>3 DEF CreateArchiveRequest, Approved, Live, TypeOK
    <3> QED
      BY <3>1 DEF Approved
  <2> QED
    BY <1>1, <2>1, <2>2, <2>3, ApprovedCall, ApprovedCommit DEF Next
<1> HIDE DEF Kept
<1>2. Spec => [][Kept]_vars
  BY <1>1, InitReviewing, NextReviewing, PTL DEF Spec
<1> QED
  BY <1>2 DEF ApprovalSettles, Kept

-----------------------------------------------------------------------------
(* With one thread the row is still as the handler under way loaded it,    *)
(* and what it is about to write is an edit of an open request or an       *)
(* admin's review.                                                         *)
Alone == \A s, t \in Threads : s = t

UpToDate(t) == Handling(t) =>
  LET r == tx[t].request IN
  /\ r \in Live /\ tx[t].seen = row[r]
  /\ tx[t].op = "update" =>
       Open(row[r]) /\ \E text \in Texts : tx[t].img = Edited(row[r], text)
  /\ tx[t].op = "status" =>
       \E a \in Admins, status \in Status : tx[t].img = Reviewed(row[r], a, status)

Serial == TypeOK /\ \A t \in Threads : UpToDate(t)

LEMMA LoadUpToDate ==
  ASSUME Serial, NEW t \in Threads, NEW op, NEW actor, NEW r \in Requests, NEW img,
         Load(t, op, actor, r, img),
         op = "update" => Open(row[r]) /\ \E text \in Texts : img = Edited(row[r], text),
         op = "status" => \E a \in Admins, status \in Status : img = Reviewed(row[r], a, status)
  PROVE  \A s \in Threads : UpToDate(s)'
<1> DEFINE w == [op |-> op, actor |-> actor, request |-> r, seen |-> row[r], img |-> img]
<1>1. /\ tx' = [tx EXCEPT ![t] = w] /\ tx \in [Threads -> Tx]
      /\ row' = row /\ created' = created /\ deleted' = deleted /\ r \in Live
  BY DEF Load, db, Serial, TypeOK
<1>2. w.op = op /\ w.request = r /\ w.seen = row[r] /\ w.img = img
  OBVIOUS
<1> HIDE DEF w
<1>3. tx'[t] = w /\ \A s \in Threads \ {t} : tx'[s] = tx[s]
  BY <1>1
<1>4. UpToDate(t)'
  BY <1>1, <1>2, <1>3 DEF UpToDate, Live
<1>5. ASSUME NEW s \in Threads \ {t} PROVE UpToDate(s)'
  BY <1>1, <1>3 DEF UpToDate, Handling, Live, Serial
<1> QED
  BY <1>4, <1>5

(* A call that begins changes no request.                                  *)
LEMMA CallUpToDate ==
  ASSUME Serial, NEW t \in Threads, Call(t)
  PROVE  (\A s \in Threads : UpToDate(s)') /\ UNCHANGED db
<1> PICK r \in Requests :
      \/ \E u \in Mentors, text \in Texts : UpdateArchiveRequest(t, u, r, text)
      \/ \E a \in Admins, status \in Status : UpdateArchiveRequestStatus(t, a, r, status)
      \/ \E u \in Mentors \cup Admins : DeleteArchiveRequest(t, u, r)
  BY DEF Call
<1>1. ASSUME NEW u \in Mentors, NEW text \in Texts, UpdateArchiveRequest(t, u, r, text)
      PROVE  \A s \in Threads : UpToDate(s)'
  BY <1>1, LoadUpToDate DEF UpdateArchiveRequest
<1>2. ASSUME NEW a \in Admins, NEW status \in Status, UpdateArchiveRequestStatus(t, a, r, status)
      PROVE  \A s \in Threads : UpToDate(s)'
  BY <1>2, LoadUpToDate DEF UpdateArchiveRequestStatus
<1>3. ASSUME NEW u \in Mentors \cup Admins, DeleteArchiveRequest(t, u, r)
      PROVE  \A s \in Threads : UpToDate(s)'
  BY <1>3, LoadUpToDate DEF DeleteArchiveRequest
<1>4. UNCHANGED db
  BY DEF UpdateArchiveRequest, UpdateArchiveRequestStatus, DeleteArchiveRequest, Load
<1> QED
  BY <1>1, <1>2, <1>3, <1>4

LEMMA NextSerial ==
  ASSUME Alone, Reviewing, Serial, [Next]_vars
  PROVE  Serial'
<1>1. TypeOK'
  BY NextReviewing DEF Reviewing
<1>2. CASE UNCHANGED vars
  BY <1>1, <1>2 DEF vars, db, Serial, UpToDate, Handling, Live
<1>3. ASSUME NEW u \in Mentors, NEW q \in Requests, NEW text \in Texts,
             CreateArchiveRequest(u, q, text)
      PROVE  Serial'
  <2>1. /\ tx' = tx /\ deleted' = deleted /\ created' = created \cup {q} /\ q \notin created
        /\ \A r \in Requests \ {q} : row'[r] = row[r]
    BY <1>3 DEF CreateArchiveRequest, Serial, TypeOK
  <2>2. ASSUME NEW t \in Threads PROVE UpToDate(t)'
    <3>1. Handling(t) => tx[t].request \in Live /\ tx[t].request \in Requests \ {q}
      BY <2>1 DEF UpToDate, Serial, Live, TypeOK, Tx
    <3> QED
      BY <2>1, <3>1 DEF UpToDate, Handling, Live, Serial
  <2> QED
    BY <1>1, <2>2 DEF Serial
<1>4. ASSUME NEW t \in Threads, CommitUpdate(t) \/ CommitDelete(t) PROVE Serial'
  <2>0. tx'[t] = Idle
    BY <1>4 DEF CommitUpdate, CommitDelete, Done, Serial, TypeOK
  <2>1. ~Handling(t)'
    BY <2>0 DEF Handling, Idle
  <2>2. \A s \in Threads : UpToDate(s)'
    BY <2>1 DEF Alone, UpToDate
  <2> QED
    BY <1>1, <2>2 DEF Serial
<1> QED
  BY <1>1, <1>2, <1>3, <1>4, CallUpToDate DEF Next, Serial

(* How the abstract state follows the rows.                                *)
Stages == [r \in Requests |-> Stage(r)]
Says   == [r \in Requests |-> IF r \in Live THEN row[r].text ELSE BlankRow.text]

LEMMA OneRowMoves ==
  ASSUME TypeOK, NEW r \in Requests,
         \A q \in Requests \ {r} :
           /\ row'[q] = row[q]
           /\ q \in created' <=> q \in created
           /\ q \in deleted' <=> q \in deleted
  PROVE  /\ Stages' = [Stages EXCEPT ![r] = Stage(r)']
         /\ Says' = [Says EXCEPT ![r] = Says'[r]]
<1>1. \A q \in Requests \ {r} : Stage(q)' = Stage(q)
  BY DEF Stage
<1>2. \A q \in Requests \ {r} : Says'[q] = Says[q]
  BY DEF Says, Live
<1>3. Stages' = [q \in Requests |-> Stage(q)'] /\ Stages = [q \in Requests |-> Stage(q)]
  BY DEF Stages
<1> QED
  BY <1>1, <1>2, <1>3 DEF Says

(* A commit of the only thread is a step of the review, or none.           *)
LEMMA CommitSimulates ==
  ASSUME Reviewing, Serial, NEW t \in Threads, CommitUpdate(t)
  PROVE  Review!Next \/ UNCHANGED <<Stages, Says>>
<1> PICK r \in Requests : r = tx[t].request
  BY DEF Serial, TypeOK, Tx
<1>1. /\ r \in Live /\ tx[t].seen = row[r] /\ UpToDate(t)
      /\ row[r] \in Row /\ created' = created /\ deleted' = deleted
      /\ tx[t].op \in {"update", "status"}
  BY DEF CommitUpdate, Serial, UpToDate, Handling, TypeOK, Tx
<1>2. CASE UNCHANGED row
  BY <1>1, <1>2 DEF Stages, Stage, Says, Live
<1>3. CASE row' = [row EXCEPT ![r] = tx[t].img]
  <2>1. row'[r] = tx[t].img /\ \A q \in Requests \ {r} : row'[q] = row[q]
    BY <1>1, <1>3 DEF Serial, TypeOK
  <2>2. /\ Stages' = [Stages EXCEPT ![r] = Stage(r)']
        /\ Says' = [Says EXCEPT ![r] = Says'[r]]
    BY <1>1, <2>1, OneRowMoves DEF Serial
  <2>3. /\ Stages[r] = row[r].status /\ Stage(r)' = tx[t].img.status
        /\ Says[r] = row[r].text /\ Says'[r] = tx[t].img.text
    BY <1>1, <2>1 DEF Stages, Stage, Says, Live
  <2>4. CASE tx[t].op = "update"
    <3>1. PICK text \in Texts : Open(row[r]) /\ tx[t].img = Edited(row[r], text)
      BY <1>1, <2>4 DEF UpToDate, Handling
    <3>2. /\ row[r].status \in {"PENDING", "REJECTED"}
          /\ tx[t].img.status = "PENDING" /\ tx[t].img.text = text
      BY <1>1, <3>1 DEF Open, Row, Status, Edited, Reopened
    <3>3. Review!Amend(r)
      BY <2>2, <2>3, <3>2 DEF Review!Amend, Review!Move, Review!Say, Stages, Says
    <3> QED
      BY <1>1, <3>3 DEF Review!Next
  <2>5. CASE tx[t].op = "status"
    <3>1. PICK a \in Admins, status \in Status : tx[t].img = Reviewed(row[r], a, status)
      BY <1>1, <2>5 DEF UpToDate, Handling
    <3>2. tx[t].img.status = status /\ tx[t].img.text = row[r].text
      BY <1>1, <3>1 DEF Row, Status, Reviewed, Reopened
    <3>3. Says' = Says
      BY <2>2, <2>3, <3>2 DEF Says
    <3>4. Review!Move(r, {"PENDING", "APPROVED", "REJECTED"}, status)
      BY <1>1, <2>2, <2>3, <3>2 DEF Review!Move, Stages, Row, Status
    <3>5. Review!Decide(r)
      BY <3>3, <3>4 DEF Review!Decide, Says, Status
    <3> QED
      BY <3>5 DEF Review!Next
  <2> QED
    BY <1>1, <2>4, <2>5
<1> QED
  BY <1>1, <1>2, <1>3 DEF CommitUpdate, Written

LEMMA DeleteSimulates ==
  ASSUME Reviewing, Serial, NEW t \in Threads, CommitDelete(t)
  PROVE  Review!Next
<1> PICK r \in Requests : r = tx[t].request
  BY DEF Serial, TypeOK, Tx
<1>1. /\ r \in Live /\ row[r] \in Row
      /\ created' = created /\ deleted' = deleted \cup {r}
      /\ \A q \in Requests \ {r} : row'[q] = row[q]
  BY DEF CommitDelete, Serial, UpToDate, Handling, TypeOK, Tx
<1>2. /\ Stages' = [Stages EXCEPT ![r] = Stage(r)']
      /\ Says' = [Says EXCEPT ![r] = Says'[r]]
  BY <1>1, OneRowMoves DEF Serial
<1>3. /\ Stages[r] = row[r].status /\ Stage(r)' = "removed"
      /\ Says'[r] = CHOOSE x \in Texts : TRUE
  BY <1>1 DEF Stages, Stage, Says, Live, BlankRow
<1>4. Review!Remove(r)
  BY <1>1, <1>2, <1>3
  DEF Review!Remove, Review!Move, Review!Blank, Stages, Says, Row, Status
<1> QED
  BY <1>1, <1>4 DEF Review!Next

LEMMA CreateSimulates ==
  ASSUME Reviewing, NEW u \in Mentors, NEW r \in Requests, NEW text \in Texts,
         CreateArchiveRequest(u, r, text)
  PROVE  Review!Next
<1>1. /\ r \notin created /\ r \notin deleted
      /\ created' = created \cup {r} /\ deleted' = deleted
      /\ row'[r] = [BlankRow EXCEPT !.user = u, !.text = text]
      /\ \A q \in Requests \ {r} : row'[q] = row[q]
  BY DEF CreateArchiveRequest, Reviewing, TypeOK
<1>2. /\ Stages' = [Stages EXCEPT ![r] = Stage(r)']
      /\ Says' = [Says EXCEPT ![r] = Says'[r]]
  BY <1>1, OneRowMoves DEF Reviewing
<1>3. row'[r].status = "PENDING" /\ row'[r].text = text
  BY <1>1 DEF BlankRow
<1>4. /\ Stages[r] = "none" /\ Stage(r)' = "PENDING" /\ Says'[r] = text
  BY <1>1, <1>3 DEF Stages, Stage, Says, Live
<1>5. Review!Submit(r)
  BY <1>2, <1>4 DEF Review!Submit, Review!Move, Review!Say, Stages, Says
<1> QED
  BY <1>5 DEF Review!Next

(* Handlers that are served one after the other keep what the messages of  *)
(* the program promise: an approved request is not amended by its author,  *)
(* an edited one waits for another review, a decision changes no text.     *)
THEOREM SerialReviews == Alone => (Spec => ReviewSpec)
<1> SUFFICES ASSUME Alone PROVE Spec => ReviewSpec
  OBVIOUS
<1>1. Init => Serial
  BY InitReviewing DEF Init, Reviewing, Serial, UpToDate, Handling, Idle
<1>2. Init => Review!Init
  BY DEF Init, Review!Init, Review!Blank, Stage, Live, BlankRow
<1>3. ASSUME Reviewing, Serial, [Next]_vars
      PROVE  Review!Next \/ UNCHANGED <<Stages, Says>>
  <2>1. CASE UNCHANGED db
    BY <2>1 DEF db, Stages, Stage, Says, Live
  <2> QED
    BY <1>3, <2>1, CallUpToDate, CommitSimulates, DeleteSimulates, CreateSimulates
    DEF Next, vars
<1>4. Reviewing /\ Serial /\ [Next]_vars => [Review!Next]_Review!vars
  BY <1>3 DEF Review!vars, Stages, Says
<1>5. Reviewing /\ Serial /\ [Next]_vars => Serial'
  BY NextSerial
<1> QED
  BY <1>1, <1>2, <1>4, <1>5, InitReviewing, NextReviewing, PTL DEF Spec, ReviewSpec, Review!Spec
=============================================================================

----------------------- MODULE MentorChatSafety_proofs -----------------------
(***************************************************************************)
(* Whoever leaves, joins or removes a room while a frame waits for its     *)
(* thread: who wrote the messages of a room, what its topic was told, and  *)
(* what stays unread. With one thread, the life of a room as promised; its *)
(* history and its topic as promised with any number of them.              *)
(***************************************************************************)
EXTENDS MentorChat_proofs

(* The mentor of a room joined it.                                         *)
RowOK(r) ==
  r \in Live => row[r].mentor = NoUser \/ <<row[r].mentor, r>> \in wasMentor

(* A message lies in a room that is there, and its sender took part in it. *)
MessageOK(m) ==
  /\ m.room \in Live
  /\ m.sender = row[m.room].mentee \/ <<m.sender, m.room>> \in wasMentor

(* What a handler that holds a room is about to write: the mentee the room *)
(* has; a mentor who joined, or who is just joining; and a message of one  *)
(* of the two.                                                             *)
Holding(t) == tx[t].pc \in {"insert", "write"} /\ tx[t].op # "delete"

ImageOK(t) ==
  Holding(t) =>
    LET r == tx[t].room
        img == tx[t].img
    IN
    /\ r \in created
    /\ r \in Live => img.mentee = row[r].mentee
    /\ \/ img.mentor = NoUser \/ <<img.mentor, r>> \in wasMentor
       \/ tx[t].op = "join" /\ img.mentor = tx[t].user
    /\ tx[t].op = "send" /\ tx[t].pc = "write" =>
         tx[t].user \in {img.mentee, img.mentor}

(* The strengthening of SenderWasParticipant that every step preserves.    *)
Origin ==
  /\ \A r \in Rooms : RowOK(r)
  /\ \A m \in msgs : MessageOK(m)
  /\ \A t \in Threads : ImageOK(t)

(* A step that writes no row, only what thread t works at.                 *)
LEMMA OriginFrame ==
  ASSUME Origin, NEW t \in Threads, UNCHANGED <<db, wasMentor>>,
         \A s \in Threads \ {t} : tx'[s] = tx[s],
         ImageOK(t)'
  PROVE  Origin'
<1>1. \A s \in Threads \ {t} : ImageOK(s)'
  BY DEF Origin, ImageOK, Holding, Live, db
<1> QED
  BY <1>1 DEF Origin, RowOK, MessageOK, Live, db

LEMMA InitOrigin == Init => Origin
BY DEF Init, Origin, RowOK, MessageOK, ImageOK, Holding, Live, Idle

LEMMA DoneFrame ==
  ASSUME Typed, Origin, NEW t \in Threads, Done(t), UNCHANGED <<db, wasMentor>>
  PROVE  Origin'
<1>1. ImageOK(t)' /\ \A s \in Threads \ {t} : tx'[s] = tx[s]
  BY DEF Done, ImageOK, Holding, Idle, Typed, TypeOK
<1> QED
  BY <1>1, OriginFrame

(* Taking up a request: a room it loads it holds as it is, apart from the  *)
(* mentor that join puts into it.                                          *)
LEMMA BeginFrame ==
  ASSUME Typed, Origin, NEW t \in Threads, NEW w, Begin(t, w),
         UNCHANGED <<db, wasMentor>>,
         w.pc \in {"insert", "write"} /\ w.op # "delete" =>
           /\ w.room \in Rooms /\ w.room \in Live
           /\ w.img.mentee = row[w.room].mentee
           /\ \/ w.img.mentor = row[w.room].mentor
              \/ w.op = "join" /\ w.img.mentor = w.user
           /\ w.op = "send" => w.pc = "insert"
  PROVE  Origin'
<1>1. tx'[t] = w /\ \A s \in Threads \ {t} : tx'[s] = tx[s]
  BY DEF Begin, Typed, TypeOK
<1>2. ImageOK(t)'
  BY <1>1 DEF ImageOK, Holding, Origin, RowOK, Live, db
<1> QED
  BY <1>1, <1>2, OriginFrame

LEMMA RequestOrigin ==
  ASSUME Typed, Origin, NEW t \in Threads, Request(t)
  PROVE  Origin'
<1> PICK u \in Users, r \in Rooms :
  \/ JoinMentorChatRoom(t, u, r)
  \/ MenteeLeftChatRoom(t, u, r)
  \/ DeleteMenteeChatRoom(t, u, r)
  \/ CloseChatRoom(t, u, r)
  \/ PreSend(t, u, r)
  \/ HandlerSessionDisconnect(t, u, r)
  BY DEF Request
<1>0. row[r] \in Row
  BY DEF Typed, TypeOK
<1>1. CASE JoinMentorChatRoom(t, u, r)
  <2> DEFINE w == Work("join", "write", u, r, [row[r] EXCEPT !.mentor = u])
  <2>1. Begin(t, w) /\ r \in Live /\ UNCHANGED <<db, wasMentor>>
    BY <1>1 DEF JoinMentorChatRoom, history
  <2>2. /\ w.op = "join" /\ w.room = r /\ w.user = u
        /\ w.img.mentor = u /\ w.img.mentee = row[r].mentee
    BY <1>0 DEF Work, Row
  <2> HIDE DEF w
  <2> QED
    BY <2>1, <2>2, BeginFrame
<1>2. CASE MenteeLeftChatRoom(t, u, r)
  <2> DEFINE w == Work("left", "write", u, r, [row[r] EXCEPT !.menteeLeft = TRUE])
  <2>1. Begin(t, w) /\ r \in Live /\ UNCHANGED <<db, wasMentor>>
    BY <1>2 DEF MenteeLeftChatRoom, GetMenteeChatRoom, history
  <2>2. /\ w.op = "left" /\ w.room = r
        /\ w.img.mentor = row[r].mentor /\ w.img.mentee = row[r].mentee
    BY <1>0 DEF Work, Row
  <2> HIDE DEF w
  <2> QED
    BY <2>1, <2>2, BeginFrame
<1>3. CASE DeleteMenteeChatRoom(t, u, r)
  <2> DEFINE w == [Work("delete", "write", u, r, BlankRow)
                     EXCEPT !.known = {m.at : m \in MessagesOf(r)}]
  <2>1. Begin(t, w) /\ UNCHANGED <<db, wasMentor>>
    BY <1>3 DEF DeleteMenteeChatRoom, history
  <2>2. w.op = "delete"
    BY DEF Work
  <2> HIDE DEF w
  <2> QED
    BY <2>1, <2>2, BeginFrame
<1>4. CASE CloseChatRoom(t, u, r)
  <2> DEFINE w == Work("exit", "load", NoUser, r, BlankRow)
  <2>1. Begin(t, w) /\ UNCHANGED <<db, wasMentor>>
    BY <1>4 DEF CloseChatRoom
  <2>2. w.pc = "load"
    BY DEF Work
  <2> HIDE DEF w
  <2> QED
    BY <2>1, <2>2, BeginFrame
<1>5. CASE PreSend(t, u, r)
  <2> DEFINE w == Work("send", "load", u, r, BlankRow)
  <2>1. Begin(t, w) /\ UNCHANGED <<db, wasMentor>>
    BY <1>5 DEF PreSend, history
  <2>2. w.pc = "load"
    BY DEF Work
  <2> HIDE DEF w
  <2> QED
    BY <2>1, <2>2, BeginFrame
<1>6. CASE HandlerSessionDisconnect(t, u, r)
  <2> DEFINE w == Work("disconnect", "load", u, r, BlankRow)
  <2>1. Begin(t, w) /\ UNCHANGED <<db, wasMentor>>
    BY <1>6 DEF HandlerSessionDisconnect, history
  <2>2. w.pc = "load"
    BY DEF Work
  <2> HIDE DEF w
  <2> QED
    BY <2>1, <2>2, BeginFrame
<1> QED
  BY <1>1, <1>2, <1>3, <1>4, <1>5, <1>6

(* A handler that loads its room keeps what ImageOK asks of the image.     *)
LEMMA LoadOrigin ==
  ASSUME Typed, Origin, NEW t \in Threads,
         SetSolved(t) \/ StampLastAt(t) \/ SaveMentorChatMessage(t)
  PROVE  Origin'
<1>0. tx[t] \in Tx /\ tx[t].room \in Rooms /\ row[tx[t].room] \in Row
  BY DEF Typed, TypeOK, Tx
<1>1. UNCHANGED <<db, wasMentor>> /\ \A s \in Threads \ {t} : tx'[s] = tx[s]
  BY DEF SetSolved, StampLastAt, SaveMentorChatMessage, Done, history, Typed, TypeOK
<1>2. ASSUME NEW img \in Row, NEW pc \in {"insert", "write"}, tx[t].room \in Live,
             tx[t].op # "send" \/ pc # "write",
             img.mentee = row[tx[t].room].mentee, img.mentor = row[tx[t].room].mentor,
             tx' = [tx EXCEPT ![t].pc = pc, ![t].img = img]
      PROVE  Origin'
  <2>1. /\ tx'[t].room = tx[t].room /\ tx'[t].img = img
        /\ tx'[t].op # "send" \/ tx'[t].pc # "write"
    BY <1>0, <1>2 DEF Typed, TypeOK, Tx
  <2>2. /\ created' = created /\ deleted' = deleted /\ row' = row
        /\ wasMentor' = wasMentor
    BY <1>1 DEF db
  <2>3. img.mentor = NoUser \/ <<img.mentor, tx[t].room>> \in wasMentor
    BY <1>0, <1>2 DEF Origin, RowOK
  <2>4. tx[t].room \in created \ deleted /\ img.mentee = row[tx[t].room].mentee
    BY <1>2 DEF Live
  <2>5. ImageOK(t)'
    BY <2>1, <2>2, <2>3, <2>4 DEF ImageOK, Holding, Live
  <2> QED
    BY <1>1, <2>5, OriginFrame
<1>3. CASE SetSolved(t)
  <2>1. /\ Solved(row[tx[t].room]) \in Row
        /\ Solved(row[tx[t].room]).mentee = row[tx[t].room].mentee
        /\ Solved(row[tx[t].room]).mentor = row[tx[t].room].mentor
    BY <1>0 DEF Solved, Row
  <2> QED
    BY <1>1, <1>2, <1>3, <2>1, DoneFrame DEF SetSolved
<1>4. CASE StampLastAt(t)
  <2> DEFINE img == StampDisconnect(row[tx[t].room], tx[t].user, clock)
  <2>1. /\ img \in Row
        /\ img.mentee = row[tx[t].room].mentee /\ img.mentor = row[tx[t].room].mentor
    BY <1>0 DEF StampDisconnect, Row, Typed, TypeOK
  <2> QED
    BY <1>1, <1>2, <1>4, <2>1, DoneFrame DEF StampLastAt
<1>5. CASE SaveMentorChatMessage(t)
  BY <1>0, <1>1, <1>2, <1>5, DoneFrame DEF SaveMentorChatMessage
<1> QED
  BY <1>3, <1>4, <1>5

LEMMA InsertOrigin ==
  ASSUME Typed, Origin, NEW t \in Threads, InsertMessage(t)
  PROVE  Origin'
<1> DEFINE old == tx[t].img
           new == UpdateLastAt(old, tx[t].user, clock + 1)
<1>0. tx[t] \in Tx /\ old \in Row
  BY DEF Typed, TypeOK, Tx
<1>1. UNCHANGED <<db, wasMentor>> /\ \A s \in Threads \ {t} : tx'[s] = tx[s]
  BY DEF InsertMessage, Done, history, Typed, TypeOK
<1>2. CASE Done(t)
  BY <1>1, <1>2, DoneFrame
<1>3. CASE /\ MaySend(old, tx[t].user)
           /\ tx' = [tx EXCEPT ![t].pc = "write", ![t].at = clock,
                       ![t].img = UpdateLastAt(@, tx[t].user, clock + 1)]
  <2>1. new.mentee = old.mentee /\ new.mentor = old.mentor
    BY <1>0 DEF UpdateLastAt, Row
  <2>2. tx' = [tx EXCEPT ![t] = [@ EXCEPT !.pc = "write", !.at = clock, !.img = new]]
    BY <1>3
  <2> HIDE DEF new
  <2>3. /\ tx'[t].room = tx[t].room /\ tx'[t].op = tx[t].op
        /\ tx'[t].user = tx[t].user /\ tx'[t].img = new
    BY <1>0, <2>2 DEF Typed, TypeOK, Tx
  <2>4. ImageOK(t)
    BY DEF Origin
  <2>5. tx[t].op = "send" /\ tx[t].pc = "insert"
    BY DEF InsertMessage
  <2>6. /\ created' = created /\ deleted' = deleted /\ row' = row
        /\ wasMentor' = wasMentor
    BY <1>1 DEF db
  <2>7. tx[t].user \in {old.mentee, old.mentor}
    BY <1>3 DEF MaySend, Participants
  <2>8. ImageOK(t)'
    BY <2>1, <2>3, <2>4, <2>5, <2>6, <2>7 DEF ImageOK, Holding, Live
  <2> QED
    BY <1>1, <2>8, OriginFrame
<1> QED
  BY <1>2, <1>3 DEF InsertMessage

(* The commit puts the image into the row: every other handler that holds  *)
(* the room still has its mentee, and the mentor written is one who joined.*)
LEMMA CommitOrigin ==
  ASSUME Typed, Origin, NEW t \in Threads, CommitRoom(t)
  PROVE  Origin'
<1> DEFINE r == tx[t].room
           img == tx[t].img
           m == [room |-> r, sender |-> tx[t].user, at |-> tx[t].at]
<1>0. tx[t] \in Tx /\ r \in Rooms
  BY DEF Typed, TypeOK, Tx
<1>1. CASE Done(t) /\ UNCHANGED <<row, msgs, wasMentor, wasLeft>>
  <2>1. UNCHANGED <<db, wasMentor>>
    BY <1>1 DEF CommitRoom, db
  <2> QED
    BY <1>1, <2>1, DoneFrame
<1>2. CASE /\ r \in Live
           /\ row' = [row EXCEPT ![r] = img]
           /\ msgs' = IF tx[t].op = "send" THEN msgs \cup {m} ELSE msgs
           /\ wasMentor' = IF tx[t].op = "join" THEN wasMentor \cup {<<tx[t].user, r>>}
                                                ELSE wasMentor
           /\ IF Announces(tx[t].op) THEN tx' = [tx EXCEPT ![t].pc = "notify"] ELSE Done(t)
  <2>1. /\ created' = created /\ deleted' = deleted
        /\ tx[t].pc = "write" /\ tx[t].op # "delete"
    BY DEF CommitRoom
  <2>2. /\ r \in created \ deleted /\ img.mentee = row[r].mentee
        /\ \/ img.mentor = NoUser \/ <<img.mentor, r>> \in wasMentor
           \/ tx[t].op = "join" /\ img.mentor = tx[t].user
        /\ tx[t].op = "send" => tx[t].user \in {img.mentee, img.mentor}
    BY <1>2, <2>1 DEF Origin, ImageOK, Holding, Live
  <2>3. /\ row'[r] = img
        /\ \A q \in Rooms : row'[q].mentee = row[q].mentee
        /\ \A q \in Rooms \ {r} : row'[q] = row[q]
        /\ wasMentor \subseteq wasMentor'
    BY <1>0, <1>2, <2>2 DEF Typed, TypeOK
  <2>4. img.mentor = NoUser \/ <<img.mentor, r>> \in wasMentor'
    BY <1>2, <2>2
  <2>5. ASSUME NEW q \in Rooms PROVE RowOK(q)'
    BY <2>1, <2>3, <2>4 DEF Origin, RowOK, Live
  <2>6. ASSUME NEW n \in msgs' PROVE MessageOK(n)'
    <3>1. CASE n \in msgs
      <4>1. MessageOK(n) /\ n.room \in Rooms
        BY <3>1 DEF Origin, Typed, TypeOK, Message
      <4> QED
        BY <2>1, <2>3, <4>1 DEF MessageOK, Live
    <3>2. CASE n = m /\ tx[t].op = "send"
      <4>1. n.room = r /\ n.sender = tx[t].user /\ tx[t].user \in Users
        BY <3>2 DEF Typed, ActorKnown
      <4>2. n.sender = row'[r].mentee \/ <<n.sender, r>> \in wasMentor'
        BY <2>2, <2>3, <2>4, <3>2, <4>1, UsersAssumption
      <4> QED
        BY <2>1, <2>2, <4>1, <4>2 DEF MessageOK, Live
    <3> QED
      BY <1>2, <3>1, <3>2
  <2>7. ASSUME NEW s \in Threads PROVE ImageOK(s)'
    <3>1. CASE s = t
      <4>1. CASE tx' = [tx EXCEPT ![t].pc = "notify"]
        BY <1>0, <3>1, <4>1 DEF ImageOK, Holding, Typed, TypeOK, Tx
      <4>2. CASE Done(t)
        BY <3>1, <4>2 DEF Done, ImageOK, Holding, Idle, Typed, TypeOK
      <4> QED
        BY <1>2, <4>1, <4>2
    <3>2. CASE s # t
      <4>1. tx'[s] = tx[s] /\ ImageOK(s)
        BY <1>2, <3>2 DEF Done, Origin, Typed, TypeOK
      <4>2. tx[s].room \in Rooms
        BY DEF Typed, TypeOK, Tx
      <4> QED
        BY <2>1, <2>3, <4>1, <4>2 DEF ImageOK, Holding, Live
    <3> QED
      BY <3>1, <3>2
  <2> QED
    BY <2>5, <2>6, <2>7 DEF Origin
<1> QED
  BY <1>1, <1>2 DEF CommitRoom

(* The removal takes the messages with the room, and handlers that still   *)
(* hold it will find it gone.                                              *)
LEMMA DeleteOrigin ==
  ASSUME Typed, Origin, NEW t \in Threads, CommitDelete(t)
  PROVE  Origin'
<1> DEFINE r == tx[t].room
<1>0. r \in Rooms
  BY DEF Typed, TypeOK, Tx
<1>1. Done(t) /\ created' = created /\ wasMentor' = wasMentor
  BY DEF CommitDelete, history
<1>2. CASE UNCHANGED <<deleted, row, msgs>>
  <2>1. UNCHANGED <<db, wasMentor>>
    BY <1>1, <1>2 DEF db
  <2> QED
    BY <1>1, <2>1, DoneFrame
<1>3. CASE /\ deleted' = deleted \cup {r}
           /\ row' = [row EXCEPT ![r] = BlankRow]
           /\ msgs' = msgs \ Cascade(r)
  <2>1. \A q \in Rooms \ {r} : row'[q] = row[q]
    BY <1>0, <1>3 DEF Typed, TypeOK
  <2>2. ASSUME NEW q \in Rooms PROVE RowOK(q)'
    BY <1>1, <1>3, <2>1 DEF Origin, RowOK, Live
  <2>3. ASSUME NEW n \in msgs' PROVE MessageOK(n)'
    <3>1. n \in msgs /\ n.room # r
      BY <1>3 DEF Cascade, MessagesOf
    <3>2. MessageOK(n) /\ n.room \in Rooms
      BY <3>1 DEF Origin, Typed, TypeOK, Message
    <3> QED
      BY <1>1, <1>3, <2>1, <3>1, <3>2 DEF MessageOK, Live
  <2>4. ASSUME NEW s \in Threads PROVE ImageOK(s)'
    <3>1. CASE s = t
      BY <1>1, <3>1 DEF Done, ImageOK, Holding, Idle, Typed, TypeOK
    <3>2. CASE s # t
      <4>1. tx'[s] = tx[s] /\ ImageOK(s) /\ tx[s].room \in Rooms
        BY <1>1, <3>2 DEF Done, Origin, Typed, TypeOK, Tx
      <4> QED
        BY <1>1, <1>3, <2>1, <4>1 DEF ImageOK, Holding, Live
    <3> QED
      BY <3>1, <3>2
  <2> QED
    BY <2>2, <2>3, <2>4 DEF Origin
<1> QED
  BY <1>2, <1>3 DEF CommitDelete

LEMMA CreateOrigin ==
  ASSUME Typed, Origin, NEW u \in Users, NEW r \in Rooms, CreateMenteeChatRoom(u, r)
  PROVE  Origin'
<1> DEFINE m == [room |-> r, sender |-> u, at |-> clock]
<1>1. /\ r \notin created /\ created' = created \cup {r} /\ deleted' = deleted
      /\ msgs' = msgs \cup {m} /\ wasMentor' = wasMentor /\ tx' = tx
      /\ \A q \in Rooms \ {r} : row'[q] = row[q]
  BY DEF CreateMenteeChatRoom, history, Typed, TypeOK
<1>2. row'[r].mentee = u /\ row'[r].mentor = NoUser
  <2>1. BlankRow.mentor = NoUser
    BY DEF BlankRow
  <2> QED
    BY <2>1, BlankTyped DEF CreateMenteeChatRoom, Typed, TypeOK, Row
<1>3. r \notin deleted
  BY <1>1 DEF Typed, TypeOK
<1>4. ASSUME NEW q \in Rooms PROVE RowOK(q)'
  BY <1>1, <1>2 DEF Origin, RowOK, Live
<1>5. ASSUME NEW n \in msgs' PROVE MessageOK(n)'
  <2>1. CASE n \in msgs
    <3>1. MessageOK(n) /\ n.room \in Rooms
      BY <2>1 DEF Origin, Typed, TypeOK, Message
    <3>2. n.room # r
      BY <1>1, <3>1 DEF MessageOK, Live
    <3> QED
      BY <1>1, <3>1, <3>2 DEF MessageOK, Live
  <2>2. CASE n = m
    BY <1>1, <1>2, <1>3, <2>2 DEF MessageOK, Live
  <2> QED
    BY <1>1, <2>1, <2>2
<1>6. ASSUME NEW s \in Threads PROVE ImageOK(s)'
  <2>1. ImageOK(s) /\ tx[s].room \in Rooms
    BY DEF Origin, Typed, TypeOK, Tx
  <2> QED
    BY <1>1, <2>1 DEF ImageOK, Holding, Live
<1> QED
  BY <1>4, <1>5, <1>6 DEF Origin

LEMMA NextOrigin == Typed /\ Origin /\ [Next]_vars => Origin'
<1> SUFFICES ASSUME Typed, Origin, [Next]_vars PROVE Origin'
  OBVIOUS
<1>1. ASSUME UNCHANGED <<db, wasMentor, tx>> PROVE Origin'
  <2>1. created' = created /\ deleted' = deleted /\ row' = row /\ msgs' = msgs
    BY <1>1 DEF db
  <2> QED
    BY <1>1, <2>1 DEF Origin, RowOK, MessageOK, ImageOK, Holding, Live
<1>2. ASSUME NEW u \in Users, NEW r \in Rooms, Connect(u, r)
      PROVE  Origin'
  BY <1>1, <1>2 DEF Connect
<1>3. ASSUME UNCHANGED vars PROVE Origin'
  BY <1>1, <1>3 DEF vars, history
<1>4. ASSUME NEW t \in Threads, Broadcast(t) PROVE Origin'
  BY <1>4, DoneFrame DEF Broadcast
<1>5. ASSUME NEW t \in Threads, DeadlockVictim(t) PROVE Origin'
  BY <1>5, DoneFrame DEF DeadlockVictim, history
<1>6. ASSUME Crash PROVE Origin'
  <2>1. /\ created' = created /\ deleted' = deleted /\ row' = row /\ msgs' = msgs
        /\ wasMentor' = wasMentor /\ tx' = [t \in Threads |-> Idle]
    BY <1>6 DEF Crash, db, history
  <2> QED
    BY <2>1 DEF Origin, RowOK, MessageOK, ImageOK, Holding, Live, Idle
<1> QED
  BY <1>2, <1>3, <1>4, <1>5, <1>6, CreateOrigin, RequestOrigin, LoadOrigin, InsertOrigin,
     CommitOrigin, DeleteOrigin DEF Next, Proceed

(* Whatever is replaced, left or removed meanwhile, a message is by the    *)
(* mentee of its room or by a user whose joining was committed.            *)
THEOREM SendersParticipated == Spec => []SenderWasParticipant
<1>1. Origin => SenderWasParticipant
  BY DEF Origin, MessageOK, SenderWasParticipant
<1> QED
  BY <1>1, InitTyped, NextTyped, InitOrigin, NextOrigin, PTL DEF Spec

(* No message outlives its room, nor joins one that is gone.               *)
THEOREM NoOrphans == Spec => []NoOrphanMessage
<1>1. Origin => NoOrphanMessage
  BY DEF Origin, MessageOK, NoOrphanMessage
<1> QED
  BY <1>1, InitTyped, NextTyped, InitOrigin, NextOrigin, PTL DEF Spec

-----------------------------------------------------------------------------
(* A message that was broadcast is stored, or went with its room.          *)
Stored(r, n) == r \in deleted \/ \E m \in msgs : m.room = r /\ m.at = n

(* A handler under way in which a mentor has left had the notice sent, and *)
(* one that is about to broadcast has committed.                           *)
Told(t) ==
  /\ tx[t].op = "exit" /\ tx[t].pc = "load" => <<tx[t].room, "mentor">> \in notices
  /\ Holding(t) /\ tx[t].img.mentorLeft => <<tx[t].room, "mentor">> \in notices
  /\ tx[t].pc = "notify" /\ tx[t].op = "left" => <<tx[t].room, "mentee">> \in wasLeft
  /\ tx[t].pc = "notify" /\ tx[t].op = "send" => Stored(tx[t].room, tx[t].at)

(* The strengthening of the invariants about broadcasts.                   *)
Announced ==
  /\ \A r \in Rooms : row[r].mentorLeft => <<r, "mentor">> \in notices
  /\ \A r \in Rooms : <<r, "mentee">> \in notices => <<r, "mentee">> \in wasLeft
  /\ \A n \in delivered : Stored(n.room, n.at)
  /\ \A t \in Threads : Told(t)

LEMMA InitAnnounced == Init => Announced
BY DEF Init, Announced, Told, Holding, Idle, BlankRow

(* A step that changes neither the database nor what was broadcast.        *)
LEMMA AnnouncedQuiet ==
  ASSUME Announced, NEW t \in Threads, UNCHANGED <<db, notices, delivered, wasLeft>>,
         \A s \in Threads \ {t} : tx'[s] = tx[s], Told(t)'
  PROVE  Announced'
<1>1. row' = row /\ deleted' = deleted /\ msgs' = msgs
  BY DEF db
<1>2. ASSUME NEW s \in Threads \ {t} PROVE Told(s)'
  <2>1. Told(s) /\ tx'[s] = tx[s]
    BY DEF Announced
  <2> QED
    BY <1>1, <2>1 DEF Told, Holding, Stored
<1>3. \A n \in delivered' : Stored(n.room, n.at)'
  <2>1. \A n \in delivered : Stored(n.room, n.at)
    BY DEF Announced
  <2> QED
    BY <1>1, <2>1 DEF Stored
<1> QED
  BY <1>1, <1>2, <1>3 DEF Announced

LEMMA AnnouncedDone ==
  ASSUME Typed, Announced, NEW t \in Threads, Done(t),
         UNCHANGED <<db, notices, delivered, wasLeft>>
  PROVE  Announced'
<1>1. tx'[t] = Idle /\ \A s \in Threads \ {t} : tx'[s] = tx[s]
  BY DEF Done, Typed, TypeOK
<1>2. Told(t)'
  BY <1>1 DEF Told, Holding, Idle
<1> QED
  BY <1>1, <1>2, AnnouncedQuiet

(* A request that loads a room finds there what its topic was told.        *)
LEMMA RequestAnnounced ==
  ASSUME Typed, Announced, NEW t \in Threads, Request(t)
  PROVE  Announced'
<1> PICK u \in Users, r \in Rooms :
  \/ JoinMentorChatRoom(t, u, r)
  \/ MenteeLeftChatRoom(t, u, r)
  \/ DeleteMenteeChatRoom(t, u, r)
  \/ CloseChatRoom(t, u, r)
  \/ PreSend(t, u, r)
  \/ HandlerSessionDisconnect(t, u, r)
  BY DEF Request
<1>0. row[r] \in Row
  BY DEF Typed, TypeOK
<1>1. ASSUME NEW w, Begin(t, w), UNCHANGED <<db, notices, delivered, wasLeft>>,
             w.pc # "notify", w.op = "exit" => w.pc # "load",
             w.pc \in {"insert", "write"} /\ w.op # "delete" =>
               w.room = r /\ w.img.mentorLeft = row[r].mentorLeft
      PROVE  Announced'
  <2>1. tx'[t] = w /\ \A s \in Threads \ {t} : tx'[s] = tx[s]
    BY <1>1 DEF Begin, Typed, TypeOK
  <2>2. Told(t)'
    BY <1>1, <2>1 DEF Told, Holding, Announced
  <2> QED
    BY <1>1, <2>1, <2>2, AnnouncedQuiet
<1>2. CASE JoinMentorChatRoom(t, u, r)
  <2> DEFINE w == Work("join", "write", u, r, [row[r] EXCEPT !.mentor = u])
  <2>1. Begin(t, w) /\ UNCHANGED <<db, notices, delivered, wasLeft>>
    BY <1>2 DEF JoinMentorChatRoom, history
  <2>2. /\ w.op = "join" /\ w.pc = "write" /\ w.room = r
        /\ w.img.mentorLeft = row[r].mentorLeft
    BY <1>0 DEF Work, Row
  <2> HIDE DEF w
  <2> QED
    BY <1>1, <2>1, <2>2
<1>3. CASE MenteeLeftChatRoom(t, u, r)
  <2> DEFINE w == Work("left", "write", u, r, [row[r] EXCEPT !.menteeLeft = TRUE])
  <2>1. Begin(t, w) /\ UNCHANGED <<db, notices, delivered, wasLeft>>
    BY <1>3 DEF MenteeLeftChatRoom, history
  <2>2. /\ w.op = "left" /\ w.pc = "write" /\ w.room = r
        /\ w.img.mentorLeft = row[r].mentorLeft
    BY <1>0 DEF Work, Row
  <2> HIDE DEF w
  <2> QED
    BY <1>1, <2>1, <2>2
<1>4. CASE DeleteMenteeChatRoom(t, u, r)
  <2> DEFINE w == [Work("delete", "write", u, r, BlankRow)
                     EXCEPT !.known = {m.at : m \in MessagesOf(r)}]
  <2>1. Begin(t, w) /\ UNCHANGED <<db, notices, delivered, wasLeft>>
    BY <1>4 DEF DeleteMenteeChatRoom, history
  <2>2. w.op = "delete" /\ w.pc = "write"
    BY DEF Work
  <2> HIDE DEF w
  <2> QED
    BY <1>1, <2>1, <2>2
<1>5. CASE CloseChatRoom(t, u, r)
  <2> DEFINE w == Work("exit", "load", NoUser, r, BlankRow)
  <2>1. /\ Begin(t, w) /\ notices' = notices \cup {<<r, "mentor">>}
        /\ created' = created /\ deleted' = deleted /\ row' = row /\ msgs' = msgs
        /\ delivered' = delivered /\ wasLeft' = wasLeft
    BY <1>5 DEF CloseChatRoom, db
  <2>2. w.op = "exit" /\ w.pc = "load" /\ w.room = r
    BY DEF Work
  <2> HIDE DEF w
  <2>3. tx'[t] = w /\ \A s \in Threads \ {t} : tx'[s] = tx[s]
    BY <2>1 DEF Begin, Typed, TypeOK
  <2>4. Told(t)'
    BY <2>1, <2>2, <2>3 DEF Told, Holding
  <2>5. \A q, n : Stored(q, n) <=> q \in deleted' \/ \E m \in msgs' : m.room = q /\ m.at = n
    BY <2>1 DEF Stored
  <2>6. ASSUME NEW s \in Threads \ {t} PROVE Told(s)'
    <3>1. Told(s) /\ tx'[s] = tx[s]
      BY <2>3 DEF Announced
    <3> QED
      BY <2>1, <2>5, <3>1 DEF Told, Holding, Stored
  <2>7. \A n \in delivered' : Stored(n.room, n.at)'
    BY <2>1, <2>5 DEF Announced, Stored
  <2>8. <<r, "mentor">>[2] # "mentee" /\ \A q : <<q, "mentee">> # <<r, "mentor">>
    OBVIOUS
  <2> QED
    BY <2>1, <2>4, <2>6, <2>7, <2>8 DEF Announced
<1>6. CASE PreSend(t, u, r)
  <2> DEFINE w == Work("send", "load", u, r, BlankRow)
  <2>1. Begin(t, w) /\ UNCHANGED <<db, notices, delivered, wasLeft>>
    BY <1>6 DEF PreSend, history
  <2>2. w.op = "send" /\ w.pc = "load"
    BY DEF Work
  <2> HIDE DEF w
  <2> QED
    BY <1>1, <2>1, <2>2
<1>7. CASE HandlerSessionDisconnect(t, u, r)
  <2> DEFINE w == Work("disconnect", "load", u, r, BlankRow)
  <2>1. Begin(t, w) /\ UNCHANGED <<db, notices, delivered, wasLeft>>
    BY <1>7 DEF HandlerSessionDisconnect, history
  <2>2. w.op = "disconnect" /\ w.pc = "load"
    BY DEF Work
  <2> HIDE DEF w
  <2> QED
    BY <1>1, <2>1, <2>2
<1> QED
  BY <1>2, <1>3, <1>4, <1>5, <1>6, <1>7

(* A handler that loads its room takes up what the topic was told of, and  *)
(* a mentor's exit what it has told it.                                    *)
LEMMA LoadAnnounced ==
  ASSUME Typed, Announced, NEW t \in Threads,
         SetSolved(t) \/ StampLastAt(t) \/ SaveMentorChatMessage(t) \/ InsertMessage(t)
  PROVE  Announced'
<1> DEFINE r == tx[t].room
<1>0. tx[t] \in Tx /\ r \in Rooms /\ row[r] \in Row /\ tx[t].img \in Row /\ Told(t)
  BY DEF Typed, TypeOK, Tx, Announced
<1>1. UNCHANGED <<db, notices, delivered, wasLeft>>
      /\ \A s \in Threads \ {t} : tx'[s] = tx[s]
  BY DEF SetSolved, StampLastAt, SaveMentorChatMessage, InsertMessage, Done, history, Typed, TypeOK
<1>2. CASE Done(t)
  BY <1>1, <1>2, AnnouncedDone
<1>3. ASSUME NEW img, tx'[t].room = r, tx'[t].img = img, tx'[t].pc \in {"insert", "write"},
             img.mentorLeft => <<r, "mentor">> \in notices
      PROVE  Announced'
  <2>1. Told(t)'
    BY <1>1, <1>3 DEF Told, Holding
  <2> QED
    BY <1>1, <2>1, AnnouncedQuiet
<1>4. CASE SetSolved(t) /\ ~Done(t)
  <2> DEFINE img == Solved(row[r])
  <2>1. tx' = [tx EXCEPT ![t].pc = "write", ![t].img = img] /\ <<r, "mentor">> \in notices
    BY <1>0, <1>4 DEF SetSolved, Told
  <2> HIDE DEF img
  <2>2. tx'[t].room = r /\ tx'[t].img = img /\ tx'[t].pc = "write"
    BY <1>0, <2>1 DEF Typed, TypeOK, Tx
  <2> QED
    BY <1>3, <2>1, <2>2
<1>5. CASE StampLastAt(t) /\ ~Done(t)
  <2> DEFINE img == StampDisconnect(row[r], tx[t].user, clock)
  <2>1. tx' = [tx EXCEPT ![t].pc = "write", ![t].img = img]
    BY <1>5 DEF StampLastAt
  <2>2. img.mentorLeft = row[r].mentorLeft
    BY <1>0 DEF StampDisconnect, Row
  <2> HIDE DEF img
  <2>3. tx'[t].room = r /\ tx'[t].img = img /\ tx'[t].pc = "write"
    BY <1>0, <2>1 DEF Typed, TypeOK, Tx
  <2>4. img.mentorLeft => <<r, "mentor">> \in notices
    BY <1>0, <2>2 DEF Announced
  <2> QED
    BY <1>3, <2>3, <2>4
<1>6. CASE InsertMessage(t) /\ ~Done(t)
  <2> DEFINE img == UpdateLastAt(tx[t].img, tx[t].user, clock + 1)
  <2>1. tx' = [tx EXCEPT ![t] = [@ EXCEPT !.pc = "write", !.at = clock, !.img = img]]
    BY <1>6 DEF InsertMessage
  <2>2. img.mentorLeft = tx[t].img.mentorLeft /\ Holding(t)
    BY <1>0, <1>6 DEF UpdateLastAt, Row, InsertMessage, Holding
  <2> HIDE DEF img
  <2>3. tx'[t].room = r /\ tx'[t].img = img /\ tx'[t].pc = "write"
    BY <1>0, <2>1 DEF Typed, TypeOK, Tx
  <2>4. img.mentorLeft => <<r, "mentor">> \in notices
    BY <1>0, <2>2 DEF Told
  <2> QED
    BY <1>3, <2>3, <2>4
<1>7. CASE SaveMentorChatMessage(t) /\ ~Done(t)
  <2>1. tx' = [tx EXCEPT ![t].pc = "insert", ![t].img = row[r]]
    BY <1>7 DEF SaveMentorChatMessage
  <2>2. tx'[t].room = r /\ tx'[t].img = row[r] /\ tx'[t].pc = "insert"
    BY <1>0, <2>1 DEF Typed, TypeOK, Tx
  <2>3. row[r].mentorLeft => <<r, "mentor">> \in notices
    BY <1>0 DEF Announced
  <2> QED
    BY <1>3, <2>2, <2>3
<1> QED
  BY <1>2, <1>4, <1>5, <1>6, <1>7

(* A commit writes what its handler has told, and is told of afterwards.   *)
LEMMA CommitAnnounced ==
  ASSUME Typed, Announced, NEW t \in Threads, CommitRoom(t)
  PROVE  Announced'
<1> DEFINE r == tx[t].room
           op == tx[t].op
           m == [room |-> r, sender |-> tx[t].user, at |-> tx[t].at]
<1>0. tx[t] \in Tx /\ r \in Rooms /\ Told(t) /\ tx \in [Threads -> Tx]
  BY DEF Typed, TypeOK, Tx, Announced
<1>1. CASE Done(t) /\ UNCHANGED <<row, msgs, wasMentor, wasLeft>>
  BY <1>1, AnnouncedDone DEF CommitRoom, db
<1>2. CASE /\ row' = [row EXCEPT ![r] = tx[t].img]
           /\ msgs' = IF op = "send" THEN msgs \cup {m} ELSE msgs
           /\ wasLeft' = CASE op = "left" -> wasLeft \cup {<<r, "mentee">>}
                           [] op = "exit" -> wasLeft \cup {<<r, "mentor">>}
                           [] OTHER -> wasLeft
           /\ IF Announces(op) THEN tx' = [tx EXCEPT ![t].pc = "notify"] ELSE Done(t)
  <2>1. /\ deleted' = deleted /\ notices' = notices /\ delivered' = delivered
        /\ tx[t].pc = "write" /\ op # "delete"
    BY DEF CommitRoom
  <2>2. /\ msgs \subseteq msgs' /\ wasLeft \subseteq wasLeft'
        /\ op = "send" => m \in msgs'
        /\ op = "left" => <<r, "mentee">> \in wasLeft'
    BY <1>2
  <2>3. ASSUME NEW q \in Rooms, row'[q].mentorLeft PROVE <<q, "mentor">> \in notices'
    <3>1. CASE q = r
      BY <1>0, <1>2, <2>1, <2>3, <3>1 DEF Told, Holding, Typed, TypeOK
    <3>2. CASE q # r
      BY <1>0, <1>2, <2>1, <2>3, <3>2 DEF Announced, Typed, TypeOK
    <3> QED
      BY <3>1, <3>2
  <2>4. ASSUME NEW n \in delivered' PROVE Stored(n.room, n.at)'
    <3>1. Stored(n.room, n.at)
      BY <2>1 DEF Announced
    <3> QED
      BY <2>1, <2>2, <3>1 DEF Stored
  <2>5. ASSUME NEW s \in Threads \ {t} PROVE Told(s)'
    <3>1. Told(s) /\ tx'[s] = tx[s]
      BY <1>0, <1>2 DEF Done, Announced
    <3> QED
      BY <2>1, <2>2, <3>1 DEF Told, Holding, Stored
  <2>6. Told(t)'
    <3>1. CASE tx' = [tx EXCEPT ![t].pc = "notify"]
      <4>1. /\ tx'[t].pc = "notify" /\ tx'[t].op = op /\ tx'[t].room = r
            /\ tx'[t].at = tx[t].at
        BY <1>0, <3>1 DEF Tx
      <4>2. op = "send" => m \in msgs' /\ m.room = r /\ m.at = tx[t].at
        BY <2>2
      <4> QED
        BY <2>2, <4>1, <4>2 DEF Told, Holding, Stored
    <3>2. CASE Done(t)
      BY <1>0, <3>2 DEF Done, Told, Holding, Idle
    <3> QED
      BY <1>2, <3>1, <3>2
  <2>7. \A q \in Rooms : <<q, "mentee">> \in notices' => <<q, "mentee">> \in wasLeft'
    BY <2>1, <2>2 DEF Announced
  <2> QED
    BY <2>3, <2>4, <2>5, <2>6, <2>7 DEF Announced
<1> QED
  BY <1>1, <1>2 DEF CommitRoom

(* The removal takes messages, and the room that they were in.             *)
LEMMA DeleteAnnounced ==
  ASSUME Typed, Announced, NEW t \in Threads, CommitDelete(t)
  PROVE  Announced'
<1> DEFINE r == tx[t].room
<1>0. r \in Rooms /\ tx \in [Threads -> Tx]
  BY DEF Typed, TypeOK, Tx
<1>1. /\ Done(t) /\ notices' = notices /\ delivered' = delivered /\ wasLeft' = wasLeft
      /\ created' = created
  BY DEF CommitDelete, history
<1>2. CASE UNCHANGED <<deleted, row, msgs>>
  BY <1>1, <1>2, AnnouncedDone DEF db
<1>3. CASE /\ deleted' = deleted \cup {r}
           /\ row' = [row EXCEPT ![r] = BlankRow]
           /\ msgs' = msgs \ Cascade(r)
  <2>1. \A q, n : Stored(q, n) => q \in deleted' \/ \E m \in msgs' : m.room = q /\ m.at = n
    BY <1>3 DEF Stored, Cascade, MessagesOf
  <2>2. \A q \in Rooms : row'[q].mentorLeft => <<q, "mentor">> \in notices'
    <3>1. BlankRow.mentorLeft = FALSE
      BY DEF BlankRow
    <3>2. \A q \in Rooms : row'[q] = IF q = r THEN BlankRow ELSE row[q]
      BY <1>0, <1>3 DEF Typed, TypeOK
    <3> QED
      BY <1>1, <3>1, <3>2 DEF Announced
  <2>3. ASSUME NEW n \in delivered' PROVE Stored(n.room, n.at)'
    <3>1. Stored(n.room, n.at)
      BY <1>1 DEF Announced
    <3>2. n.room \in deleted' \/ \E m \in msgs' : m.room = n.room /\ m.at = n.at
      BY <2>1, <3>1
    <3> QED
      BY <3>2 DEF Stored
  <2>4. ASSUME NEW s \in Threads PROVE Told(s)'
    <3>1. CASE s = t
      BY <1>0, <1>1, <3>1 DEF Done, Told, Holding, Idle
    <3>2. CASE s # t
      <4>1. Told(s) /\ tx'[s] = tx[s]
        BY <1>0, <1>1, <3>2 DEF Done, Announced
      <4>2. tx[s].pc = "notify" /\ tx[s].op = "send" =>
              \/ tx[s].room \in deleted'
              \/ \E m \in msgs' : m.room = tx[s].room /\ m.at = tx[s].at
        BY <2>1, <4>1 DEF Told
      <4> QED
        BY <1>1, <4>1, <4>2 DEF Told, Holding, Stored
    <3> QED
      BY <3>1, <3>2
  <2> QED
    BY <1>1, <2>2, <2>3, <2>4 DEF Announced
<1> QED
  BY <1>2, <1>3 DEF CommitDelete

LEMMA BroadcastAnnounced ==
  ASSUME Typed, Announced, NEW t \in Threads, Broadcast(t)
  PROVE  Announced'
<1> DEFINE r == tx[t].room
<1>0. r \in Rooms /\ tx \in [Threads -> Tx] /\ Told(t) /\ tx[t].pc = "notify"
  BY DEF Typed, TypeOK, Tx, Announced, Broadcast
<1>1. /\ Done(t) /\ row' = row /\ deleted' = deleted /\ msgs' = msgs /\ wasLeft' = wasLeft
  BY DEF Broadcast, db
<1>2. /\ notices' = notices \/ (tx[t].op = "left" /\ notices' = notices \cup {<<r, "mentee">>})
      /\ \/ delivered' = delivered
         \/ /\ tx[t].op = "send"
            /\ delivered' = delivered \cup {[room |-> r, at |-> tx[t].at]}
  BY DEF Broadcast
<1>3. \A q \in Rooms : <<q, "mentee">> \in notices' => <<q, "mentee">> \in wasLeft'
  BY <1>0, <1>1, <1>2 DEF Told, Announced
<1>4. ASSUME NEW n \in delivered' PROVE Stored(n.room, n.at)'
  <2>1. Stored(n.room, n.at)
    BY <1>0, <1>2 DEF Told, Announced
  <2> QED
    BY <1>1, <2>1 DEF Stored
<1>5. ASSUME NEW s \in Threads PROVE Told(s)'
  <2>1. CASE s = t
    BY <1>0, <1>1, <2>1 DEF Done, Told, Holding, Idle
  <2>2. CASE s # t
    <3>1. Told(s) /\ tx'[s] = tx[s] /\ notices \subseteq notices'
      BY <1>0, <1>1, <1>2, <2>2 DEF Done, Announced
    <3> QED
      BY <1>1, <3>1 DEF Told, Holding, Stored
  <2> QED
    BY <2>1, <2>2
<1>6. \A q \in Rooms : row'[q].mentorLeft => <<q, "mentor">> \in notices'
  BY <1>1, <1>2 DEF Announced
<1> QED
  BY <1>3, <1>4, <1>5, <1>6 DEF Announced

LEMMA CreateAnnounced ==
  ASSUME Typed, Announced, NEW u \in Users, NEW r \in Rooms, CreateMenteeChatRoom(u, r)
  PROVE  Announced'
<1>1. /\ deleted' = deleted /\ tx' = tx /\ notices' = notices
      /\ delivered' = delivered /\ wasLeft' = wasLeft /\ msgs \subseteq msgs'
  BY DEF CreateMenteeChatRoom, history
<1>2. \A q \in Rooms : row'[q].mentorLeft => <<q, "mentor">> \in notices'
  <2>1. BlankRow.mentorLeft = FALSE
    BY DEF BlankRow
  <2>2. row'[r].mentorLeft = BlankRow.mentorLeft
    BY BlankTyped DEF CreateMenteeChatRoom, Typed, TypeOK, Row
  <2>3. \A q \in Rooms \ {r} : row'[q] = row[q]
    BY DEF CreateMenteeChatRoom, Typed, TypeOK
  <2> QED
    BY <1>1, <2>1, <2>2, <2>3 DEF Announced
<1>3. ASSUME NEW n \in delivered' PROVE Stored(n.room, n.at)'
  <2>1. Stored(n.room, n.at)
    BY <1>1 DEF Announced
  <2> QED
    BY <1>1, <2>1 DEF Stored
<1>4. ASSUME NEW s \in Threads PROVE Told(s)'
  <2>1. Told(s)
    BY DEF Announced
  <2> QED
    BY <1>1, <2>1 DEF Told, Holding, Stored
<1> QED
  BY <1>1, <1>2, <1>3, <1>4 DEF Announced

LEMMA NextAnnounced == Typed /\ Announced /\ [Next]_vars => Announced'
<1> SUFFICES ASSUME Typed, Announced, [Next]_vars PROVE Announced'
  OBVIOUS
<1>1. ASSUME UNCHANGED <<db, notices, delivered, wasLeft>>,
             tx' = tx \/ tx' = [t \in Threads |-> Idle]
      PROVE  Announced'
  <2>1. row' = row /\ deleted' = deleted /\ msgs' = msgs
    BY <1>1 DEF db
  <2>2. ASSUME NEW s \in Threads PROVE Told(s)'
    <3>1. Told(s)
      BY DEF Announced
    <3>2. CASE tx' = tx
      BY <1>1, <2>1, <3>1, <3>2 DEF Told, Holding, Stored
    <3>3. CASE tx' = [t \in Threads |-> Idle]
      BY <3>3 DEF Told, Holding, Idle
    <3> QED
      BY <1>1, <3>2, <3>3
  <2>3. ASSUME NEW n \in delivered' PROVE Stored(n.room, n.at)'
    <3>1. Stored(n.room, n.at)
      BY <1>1 DEF Announced
    <3> QED
      BY <2>1, <3>1 DEF Stored
  <2> QED
    BY <1>1, <2>1, <2>2, <2>3 DEF Announced
<1>2. ASSUME NEW u \in Users, NEW r \in Rooms, Connect(u, r) PROVE Announced'
  BY <1>1, <1>2 DEF Connect
<1>3. CASE Crash \/ UNCHANGED vars
  BY <1>1, <1>3 DEF Crash, vars, history
<1>4. ASSUME NEW t \in Threads, DeadlockVictim(t) PROVE Announced'
  BY <1>4, AnnouncedDone DEF DeadlockVictim, history
<1> QED
  BY <1>2, <1>3, <1>4, CreateAnnounced, RequestAnnounced, LoadAnnounced, CommitAnnounced,
     DeleteAnnounced, BroadcastAnnounced DEF Next, Proceed

LEMMA AlwaysAnnounced == Spec => []Announced
BY InitTyped, NextTyped, InitAnnounced, NextAnnounced, PTL DEF Spec

(* sendMessage shows nobody a message that the history does not hold.      *)
THEOREM ShownIsStored == Spec => []BroadcastPersisted
<1>1. Announced => BroadcastPersisted
  BY DEF Announced, Stored, BroadcastPersisted, MessagesOf
<1> QED
  BY <1>1, AlwaysAnnounced, PTL

(* No row says that a mentor left without closeChatRoom's notice of it.    *)
THEOREM ExitsAnnounced == Spec => []MentorLeftAnnounced
<1>1. Typed /\ Announced => MentorLeftAnnounced
  BY DEF Announced, MentorLeftAnnounced, Typed, TypeOK
<1> QED
  BY <1>1, InitTyped, NextTyped, AlwaysAnnounced, PTL DEF Spec

(* deleteMenteeChatRoom announces only departures that were committed.     *)
THEOREM NoticesCommitted == Spec => []MenteeNoticeCommitted
<1>1. Announced => MenteeNoticeCommitted
  BY DEF Announced, MenteeNoticeCommitted
<1> QED
  BY <1>1, AlwaysAnnounced, PTL

-----------------------------------------------------------------------------
(* With one thread the row is as the handler under way loaded it but for   *)
(* the change it makes, a frame's room is still open, and its message is   *)
(* new.                                                                    *)
Alone == \A s, t \in Threads : s = t

Change(op, img, rec) ==
  /\ op \in {"join", "left", "exit", "send", "disconnect"}
  /\ IF op = "join" THEN img.mentor # NoUser ELSE img.mentor = rec.mentor
  /\ IF op = "left" THEN img.menteeLeft ELSE img.menteeLeft = rec.menteeLeft
  /\ IF op = "exit" THEN img.mentorLeft ELSE img.mentorLeft = rec.mentorLeft

UpToDate(t) ==
  LET r == tx[t].room IN
  /\ Holding(t) =>
       /\ r \in Live /\ Change(tx[t].op, tx[t].img, row[r])
       /\ tx[t].op = "send" => Writable(row[r])
  /\ Inserted(t, r) => tx[t].at < clock /\ \A m \in msgs : m.at # tx[t].at

Serial ==
  /\ \A m \in msgs : m.at < clock
  /\ \A t \in Threads : UpToDate(t)

(* A step that writes no row, only what thread t works at.                 *)
LEMMA SerialFrame ==
  ASSUME Typed, Serial, NEW t \in Threads, UNCHANGED db, clock' \in {clock, clock + 1},
         \A s \in Threads \ {t} : tx'[s] = tx[s],
         UpToDate(t)'
  PROVE  Serial'
<1>0. clock \in Nat /\ msgs \subseteq Message /\ \A s \in Threads : tx[s].at \in Nat
  BY DEF Typed, TypeOK, Tx
<1>1. \A m \in msgs' : m.at < clock'
  BY <1>0 DEF Serial, db, Message
<1>2. ASSUME NEW s \in Threads \ {t} PROVE UpToDate(s)'
  BY <1>0, <1>2 DEF Serial, UpToDate, Holding, Inserted, Live, db
<1> QED
  BY <1>1, <1>2 DEF Serial

LEMMA SerialDone ==
  ASSUME Typed, Serial, NEW t \in Threads, Done(t), UNCHANGED <<db, clock>>
  PROVE  Serial'
<1>1. tx'[t] = Idle /\ \A s \in Threads \ {t} : tx'[s] = tx[s]
  BY DEF Done, Typed, TypeOK
<1>2. UpToDate(t)'
  BY <1>1 DEF UpToDate, Holding, Inserted, Idle
<1> QED
  BY <1>1, <1>2, SerialFrame

LEMMA SerialBegin ==
  ASSUME Typed, Serial, NEW t \in Threads, NEW w, Begin(t, w), UNCHANGED <<db, clock>>,
         w.pc \in {"insert", "write"} /\ w.op # "delete" =>
           /\ w.room \in Live /\ Change(w.op, w.img, row[w.room])
           /\ w.op = "send" => w.pc = "insert" /\ Writable(row[w.room])
  PROVE  Serial'
<1>1. tx'[t] = w /\ \A s \in Threads \ {t} : tx'[s] = tx[s]
  BY DEF Begin, Typed, TypeOK
<1>2. UpToDate(t)'
  BY <1>1 DEF UpToDate, Holding, Inserted, Live, db
<1> QED
  BY <1>1, <1>2, SerialFrame

LEMMA RequestSerial ==
  ASSUME Typed, Serial, NEW t \in Threads, Request(t)
  PROVE  Serial' /\ UNCHANGED db
<1> PICK u \in Users, r \in Rooms :
  \/ JoinMentorChatRoom(t, u, r)
  \/ MenteeLeftChatRoom(t, u, r)
  \/ DeleteMenteeChatRoom(t, u, r)
  \/ CloseChatRoom(t, u, r)
  \/ PreSend(t, u, r)
  \/ HandlerSessionDisconnect(t, u, r)
  BY DEF Request
<1>0. row[r] \in Row /\ u # NoUser
  BY UsersAssumption DEF Typed, TypeOK
<1>1. CASE JoinMentorChatRoom(t, u, r)
  <2> DEFINE w == Work("join", "write", u, r, [row[r] EXCEPT !.mentor = u])
  <2>1. Begin(t, w) /\ r \in Live /\ UNCHANGED <<db, clock>>
    BY <1>1 DEF JoinMentorChatRoom
  <2>2. w.op = "join" /\ w.room = r /\ Change(w.op, w.img, row[r])
    BY <1>0 DEF Work, Row, Change
  <2> HIDE DEF w
  <2> QED
    BY <2>1, <2>2, SerialBegin
<1>2. CASE MenteeLeftChatRoom(t, u, r)
  <2> DEFINE w == Work("left", "write", u, r, [row[r] EXCEPT !.menteeLeft = TRUE])
  <2>1. Begin(t, w) /\ r \in Live /\ UNCHANGED <<db, clock>>
    BY <1>2 DEF MenteeLeftChatRoom, GetMenteeChatRoom
  <2>2. w.op = "left" /\ w.room = r /\ Change(w.op, w.img, row[r])
    BY <1>0 DEF Work, Row, Change
  <2> HIDE DEF w
  <2> QED
    BY <2>1, <2>2, SerialBegin
<1>3. CASE DeleteMenteeChatRoom(t, u, r)
  <2> DEFINE w == [Work("delete", "write", u, r, BlankRow)
                     EXCEPT !.known = {m.at : m \in MessagesOf(r)}]
  <2>1. Begin(t, w) /\ UNCHANGED <<db, clock>>
    BY <1>3 DEF DeleteMenteeChatRoom
  <2>2. w.op = "delete"
    BY DEF Work
  <2> HIDE DEF w
  <2> QED
    BY <2>1, <2>2, SerialBegin
<1>4. CASE CloseChatRoom(t, u, r)
  <2> DEFINE w == Work("exit", "load", NoUser, r, BlankRow)
  <2>1. Begin(t, w) /\ UNCHANGED <<db, clock>>
    BY <1>4 DEF CloseChatRoom
  <2>2. w.pc = "load"
    BY DEF Work
  <2> HIDE DEF w
  <2> QED
    BY <2>1, <2>2, SerialBegin
<1>5. CASE PreSend(t, u, r)
  <2> DEFINE w == Work("send", "load", u, r, BlankRow)
  <2>1. Begin(t, w) /\ UNCHANGED <<db, clock>>
    BY <1>5 DEF PreSend
  <2>2. w.pc = "load"
    BY DEF Work
  <2> HIDE DEF w
  <2> QED
    BY <2>1, <2>2, SerialBegin
<1>6. CASE HandlerSessionDisconnect(t, u, r)
  <2> DEFINE w == Work("disconnect", "load", u, r, BlankRow)
  <2>1. Begin(t, w) /\ UNCHANGED <<db, clock>>
    BY <1>6 DEF HandlerSessionDisconnect
  <2>2. w.pc = "load"
    BY DEF Work
  <2> HIDE DEF w
  <2> QED
    BY <2>1, <2>2, SerialBegin
<1> QED
  BY <1>1, <1>2, <1>3, <1>4, <1>5, <1>6

(* A handler goes on and writes no row yet.                                *)
LEMMA LoadSerial ==
  ASSUME Typed, Serial, NEW t \in Threads,
         SetSolved(t) \/ StampLastAt(t) \/ SaveMentorChatMessage(t) \/ InsertMessage(t)
  PROVE  Serial' /\ UNCHANGED db
<1> DEFINE q == tx[t].room
<1>0. /\ tx[t] \in Tx /\ tx \in [Threads -> Tx] /\ q \in Rooms /\ row[q] \in Row
      /\ clock \in Nat /\ msgs \subseteq Message /\ UpToDate(t)
  BY DEF Typed, TypeOK, Tx, Serial
<1>1. UNCHANGED db
  BY DEF SetSolved, StampLastAt, SaveMentorChatMessage, InsertMessage
<1>2. CASE Done(t) /\ clock' = clock
  BY <1>1, <1>2, SerialDone
<1>3. CASE /\ SetSolved(t) /\ q \in Live
           /\ tx' = [tx EXCEPT ![t].pc = "write", ![t].img = Solved(row[q])]
  <2>1. /\ tx'[t] = [tx[t] EXCEPT !.pc = "write", !.img = Solved(row[q])]
        /\ \A s \in Threads \ {t} : tx'[s] = tx[s]
    BY <1>0, <1>3
  <2>2. /\ tx'[t].op = "exit" /\ tx'[t].room = q /\ tx'[t].img = Solved(row[q])
    BY <1>0, <1>3, <2>1 DEF SetSolved, Tx
  <2>3. Change("exit", Solved(row[q]), row[q])
    BY <1>0 DEF Change, Solved, Row
  <2>4. UpToDate(t)'
    BY <1>1, <1>3, <2>2, <2>3 DEF UpToDate, Inserted, Live, db
  <2> QED
    BY <1>1, <1>3, <2>1, <2>4, SerialFrame DEF SetSolved
<1>4. CASE /\ StampLastAt(t) /\ q \in Live
           /\ tx' = [tx EXCEPT ![t].pc = "write",
                               ![t].img = StampDisconnect(row[q], tx[t].user, clock)]
  <2> DEFINE img == StampDisconnect(row[q], tx[t].user, clock)
  <2>1. /\ tx'[t] = [tx[t] EXCEPT !.pc = "write", !.img = img]
        /\ \A s \in Threads \ {t} : tx'[s] = tx[s]
    BY <1>0, <1>4
  <2>2. /\ tx'[t].op = "disconnect" /\ tx'[t].room = q /\ tx'[t].img = img
    BY <1>0, <1>4, <2>1 DEF StampLastAt, Tx
  <2>3. Change("disconnect", img, row[q])
    BY <1>0 DEF Change, StampDisconnect, Row
  <2> HIDE DEF img
  <2>4. UpToDate(t)'
    BY <1>1, <1>4, <2>2, <2>3 DEF UpToDate, Inserted, Live, db
  <2> QED
    BY <1>1, <1>4, <2>1, <2>4, SerialFrame DEF StampLastAt
<1>5. CASE /\ InsertMessage(t) /\ clock' = clock + 1
           /\ tx' = [tx EXCEPT ![t].pc = "write", ![t].at = clock,
                               ![t].img = UpdateLastAt(@, tx[t].user, clock + 1)]
  <2> DEFINE img == UpdateLastAt(tx[t].img, tx[t].user, clock + 1)
  <2>1. /\ tx'[t] = [tx[t] EXCEPT !.pc = "write", !.at = clock, !.img = img]
        /\ \A s \in Threads \ {t} : tx'[s] = tx[s]
    BY <1>0, <1>5
  <2>2. /\ tx'[t].op = "send" /\ tx'[t].room = q /\ tx'[t].img = img /\ tx'[t].at = clock
    BY <1>0, <1>5, <2>1 DEF InsertMessage, Tx
  <2>3. q \in Live /\ Change("send", tx[t].img, row[q]) /\ Writable(row[q])
    BY <1>0, <1>5 DEF InsertMessage, UpToDate, Holding
  <2>4. Change("send", img, row[q])
    BY <1>0, <2>3 DEF Change, UpdateLastAt, Row, Tx
  <2> HIDE DEF img
  <2>5. clock < clock' /\ \A m \in msgs' : m.at # clock
    BY <1>0, <1>1, <1>5 DEF Serial, db, Message
  <2>6. UpToDate(t)'
    BY <1>1, <2>2, <2>3, <2>4, <2>5 DEF UpToDate, Inserted, Live, db
  <2> QED
    BY <1>1, <1>5, <2>1, <2>6, SerialFrame
<1>6. CASE /\ SaveMentorChatMessage(t) /\ q \in Live /\ Writable(row[q])
           /\ tx' = [tx EXCEPT ![t].pc = "insert", ![t].img = row[q]]
  <2>1. /\ tx'[t] = [tx[t] EXCEPT !.pc = "insert", !.img = row[q]]
        /\ \A s \in Threads \ {t} : tx'[s] = tx[s]
    BY <1>0, <1>6
  <2>2. /\ tx'[t].op = "send" /\ tx'[t].pc = "insert" /\ tx'[t].room = q
        /\ tx'[t].img = row[q]
    BY <1>0, <1>6, <2>1 DEF SaveMentorChatMessage, Tx
  <2>3. Change("send", row[q], row[q])
    BY DEF Change
  <2>4. UpToDate(t)'
    BY <1>1, <1>6, <2>2, <2>3 DEF UpToDate, Inserted, Live, db
  <2> QED
    BY <1>1, <1>6, <2>1, <2>4, SerialFrame DEF SaveMentorChatMessage
<1> QED
  BY <1>1, <1>2, <1>3, <1>4, <1>5, <1>6 DEF SetSolved, StampLastAt, SaveMentorChatMessage, InsertMessage

(* The only thread commits, broadcasts or gives up, and serves nothing     *)
(* any more, or has only to broadcast.                                     *)
LEMMA CommitSerial ==
  ASSUME Alone, Typed, Serial, NEW t \in Threads,
         CommitRoom(t) \/ CommitDelete(t) \/ Broadcast(t) \/ DeadlockVictim(t)
  PROVE  Serial'
<1>0. tx \in [Threads -> Tx] /\ tx[t] \in Tx
  BY DEF Typed, TypeOK
<1>1. tx' = [tx EXCEPT ![t] = Idle] \/ tx' = [tx EXCEPT ![t].pc = "notify"]
  BY DEF CommitRoom, CommitDelete, Broadcast, DeadlockVictim, Done
<1>2. tx'[t].pc \notin {"insert", "write"}
  BY <1>0, <1>1 DEF Idle, Tx
<1>3. UpToDate(t)'
  BY <1>2 DEF UpToDate, Holding, Inserted
<1>4. clock' = clock
  BY DEF CommitRoom, CommitDelete, Broadcast, DeadlockVictim
<1>5. \A m \in msgs' : m.at < clock
  <2>1. CASE msgs' \subseteq msgs
    BY <2>1 DEF Serial
  <2>2. CASE /\ CommitRoom(t) /\ tx[t].op = "send"
             /\ msgs' = msgs \cup {[room |-> tx[t].room, sender |-> tx[t].user, at |-> tx[t].at]}
    <3>1. tx[t].at < clock
      BY <2>2 DEF CommitRoom, Serial, UpToDate, Inserted
    <3> QED
      BY <2>2, <3>1 DEF Serial
  <2> QED
    BY <2>1, <2>2 DEF CommitRoom, CommitDelete, Broadcast, DeadlockVictim, db, Cascade
<1> QED
  BY <1>3, <1>4, <1>5 DEF Alone, Serial

LEMMA CreateSerial ==
  ASSUME Typed, Serial, NEW u \in Users, NEW q \in Rooms, CreateMenteeChatRoom(u, q)
  PROVE  Serial'
<1>0. /\ clock \in Nat /\ msgs \subseteq Message
      /\ \A s \in Threads : tx[s].at \in Nat /\ tx[s].room \in Rooms
  BY DEF Typed, TypeOK, Tx
<1>1. /\ q \notin created /\ created' = created \cup {q} /\ deleted' = deleted /\ tx' = tx
      /\ msgs' = msgs \cup {[room |-> q, sender |-> u, at |-> clock]} /\ clock' = clock + 1
      /\ \A r \in Rooms \ {q} : row'[r] = row[r]
  BY DEF CreateMenteeChatRoom, Typed, TypeOK
<1>2. \A m \in msgs' : m.at < clock'
  BY <1>0, <1>1 DEF Serial, Message
<1>3. ASSUME NEW s \in Threads PROVE UpToDate(s)'
  <2> DEFINE r == tx[s].room
  <2>1. Holding(s) => r \in Live /\ r \in Rooms \ {q}
    BY <1>0, <1>1 DEF Serial, UpToDate, Live
  <2>2. Holding(s)' => /\ r \in Live' /\ Change(tx[s].op, tx[s].img, row'[r])
                       /\ tx[s].op = "send" => Writable(row'[r])
    BY <1>1, <2>1 DEF Serial, UpToDate, Holding, Live
  <2>3. Inserted(s, r) => tx[s].at < clock' /\ \A m \in msgs' : m.at # tx[s].at
    BY <1>0, <1>1 DEF Serial, UpToDate
  <2> QED
    BY <1>1, <2>2, <2>3 DEF UpToDate, Inserted
<1> QED
  BY <1>2, <1>3 DEF Serial

LEMMA NextSerial ==
  ASSUME Alone, Typed, Serial, [Next]_vars
  PROVE  Serial'
<1>1. CASE UNCHANGED vars
  BY <1>1 DEF vars, db, Serial, UpToDate, Holding, Inserted, Live
<1>2. CASE Crash
  BY <1>2 DEF Crash, db, Serial, UpToDate, Holding, Inserted, Idle
<1>3. ASSUME NEW u \in Users, NEW r \in Rooms, Connect(u, r) PROVE Serial'
  BY <1>3 DEF Connect, db, Serial, UpToDate, Holding, Inserted, Live
<1> QED
  BY <1>1, <1>2, <1>3, CreateSerial, RequestSerial, LoadSerial, CommitSerial
  DEF Next, Proceed

-----------------------------------------------------------------------------
(* How the abstract state follows the rows and the messages.               *)
Phases  == [r \in Rooms |-> Phase(r)]
Waiting == {r \in Live : row[r].mentor = NoUser /\ ~row[r].menteeLeft}
Logs    == [r \in Rooms |-> MessagesOf(r)]
Shown   == <<Phases, Waiting, Logs>>

(* A step that concerns one room changes nothing of the others.            *)
LEMMA OneRoomMoves ==
  ASSUME Typed, Typed', NEW r \in Rooms,
         \A q \in Rooms \ {r} :
           /\ row'[q] = row[q] /\ MessagesOf(q)' = MessagesOf(q)
           /\ q \in created' <=> q \in created
           /\ q \in deleted' <=> q \in deleted
  PROVE  /\ Phases' = [Phases EXCEPT ![r] = Phase(r)']
         /\ Logs' = [Logs EXCEPT ![r] = MessagesOf(r)']
         /\ Waiting' \ {r} = Waiting \ {r}
<1>1. \A q \in Rooms \ {r} : Phase(q)' = Phase(q)
  BY DEF Phase, Live
<1>2. Phases' = [q \in Rooms |-> Phase(q)'] /\ Phases = [q \in Rooms |-> Phase(q)]
  BY DEF Phases
<1>3. /\ Logs' = [q \in Rooms |-> MessagesOf(q)']
      /\ Logs = [q \in Rooms |-> MessagesOf(q)]
  BY DEF Logs
<1>4. Live \subseteq Rooms /\ Live' \subseteq Rooms
  BY DEF Typed, TypeOK, Live
<1>5. Waiting' \ {r} = Waiting \ {r}
  BY <1>4 DEF Waiting, Live
<1> QED
  BY <1>1, <1>2, <1>3, <1>5

(* createMenteeChatRoom opens a room with its question.                    *)
LEMMA CreateSimulates ==
  ASSUME Typed, Typed', Origin, NEW u \in Users, NEW r \in Rooms, CreateMenteeChatRoom(u, r)
  PROVE  Lifecycle!Next
<1> DEFINE new == [room |-> r, sender |-> u, at |-> clock]
<1>1. /\ r \notin created /\ r \notin deleted /\ created' = created \cup {r} /\ deleted' = deleted
      /\ row' = [row EXCEPT ![r] = [BlankRow EXCEPT !.mentee = u, !.menteeLastAt = clock + 1]]
      /\ msgs' = msgs \cup {new} /\ row \in [Rooms -> Row]
  BY DEF CreateMenteeChatRoom, Typed, TypeOK
<1>2. /\ row'[r].mentor = NoUser /\ row'[r].menteeLeft = FALSE /\ row'[r].mentorLeft = FALSE
      /\ \A q \in Rooms \ {r} : row'[q] = row[q]
  BY <1>1 DEF BlankRow
<1>a. new.room = r
  OBVIOUS
<1> HIDE DEF new
<1>b. \A m \in msgs : m.room # r
  BY <1>1 DEF Origin, MessageOK, Live
<1>3. MessagesOf(r) = {} /\ MessagesOf(r)' = {new}
      /\ \A q \in Rooms \ {r} : MessagesOf(q)' = MessagesOf(q)
  <2>1. MessagesOf(r) = {}
    BY <1>b DEF MessagesOf
  <2>2. MessagesOf(r)' = {new}
    BY <1>1, <1>a, <1>b DEF MessagesOf
  <2>3. ASSUME NEW q \in Rooms \ {r} PROVE MessagesOf(q)' = MessagesOf(q)
    BY <1>1, <1>a DEF MessagesOf
  <2> QED
    BY <2>1, <2>2, <2>3
<1>4. /\ Phases' = [Phases EXCEPT ![r] = Phase(r)']
      /\ Logs' = [Logs EXCEPT ![r] = MessagesOf(r)']
      /\ Waiting' \ {r} = Waiting \ {r}
  BY <1>1, <1>2, <1>3, OneRoomMoves
<1>5. Phases[r] = "none" /\ Phase(r)' = "open" /\ r \in Waiting'
  BY <1>1, <1>2 DEF Phases, Phase, Live, Waiting
<1>6. Waiting' = Waiting \cup {r}
  BY <1>4, <1>5
<1>7. Logs'[r] = {new} /\ Logs' = [Logs EXCEPT ![r] = {new}]
  BY <1>3, <1>4 DEF Logs
<1>8. Lifecycle!Open(r)
  BY <1>4, <1>5, <1>6, <1>7 DEF Lifecycle!Open, Phases, Waiting, Logs
<1> QED
  BY <1>8 DEF Lifecycle!Next

(* The commit of the removal removes the room with its messages.           *)
LEMMA DeleteSimulates ==
  ASSUME Typed, Typed', NEW t \in Threads, CommitDelete(t)
  PROVE  Lifecycle!Next \/ UNCHANGED db
<1> PICK r \in Rooms : r = tx[t].room
  BY DEF Typed, TypeOK, Tx
<1>1. CASE /\ r \in Live /\ deleted' = deleted \cup {r} /\ created' = created
           /\ row' = [row EXCEPT ![r] = BlankRow] /\ msgs' = msgs \ MessagesOf(r)
  <2>1. /\ \A q \in Rooms \ {r} : row'[q] = row[q] /\ MessagesOf(q)' = MessagesOf(q)
        /\ MessagesOf(r)' = {}
    BY <1>1 DEF Typed, TypeOK, MessagesOf
  <2>2. /\ Phases' = [Phases EXCEPT ![r] = Phase(r)']
        /\ Logs' = [Logs EXCEPT ![r] = {}]
        /\ Waiting' \ {r} = Waiting \ {r}
    BY <1>1, <2>1, OneRoomMoves
  <2>3. /\ Phases[r] \in {"open", "closed"} /\ Phase(r)' = "removed" /\ r \notin Waiting'
    BY <1>1 DEF Phases, Phase, Live, Waiting
  <2>4. Waiting' = Waiting \ {r}
    BY <2>2, <2>3
  <2>5. Lifecycle!Remove(r)
    BY <2>2, <2>3, <2>4 DEF Lifecycle!Remove, Phases, Waiting, Logs
  <2> QED
    BY <2>5 DEF Lifecycle!Next
<1> QED
  BY <1>1 DEF CommitDelete, Cascade, db

(* The commit of any other handler is a match, a message, a departure, or  *)
(* nothing that users are shown.                                           *)
LEMMA CommitSimulates ==
  ASSUME Typed, Typed', Serial, NEW t \in Threads, CommitRoom(t)
  PROVE  Lifecycle!Next \/ UNCHANGED Shown
<1> PICK r \in Rooms : r = tx[t].room
  BY DEF Typed, TypeOK, Tx
<1> DEFINE img == tx[t].img
           new == [room |-> r, sender |-> tx[t].user, at |-> tx[t].at]
<1>0. img \in Row /\ row[r] \in Row /\ created' = created /\ deleted' = deleted
  BY DEF CommitRoom, Typed, TypeOK, Tx
<1>1. CASE r \notin Live
  BY <1>0, <1>1 DEF CommitRoom, Shown, Phases, Phase, Waiting, Logs, MessagesOf, Live
<1>2. CASE r \in Live
  <2>1. /\ Change(tx[t].op, img, row[r])
        /\ tx[t].op = "send" => Writable(row[r]) /\ \A m \in msgs : m.at # tx[t].at
    BY <1>2 DEF CommitRoom, Serial, UpToDate, Holding, Inserted
  <2>2. /\ row' = [row EXCEPT ![r] = img]
        /\ msgs' = IF tx[t].op = "send" THEN msgs \cup {new} ELSE msgs
    BY <1>2 DEF CommitRoom
  <2>3. new.room = r /\ new.at = tx[t].at
    OBVIOUS
  <2> HIDE DEF new
  <2>4. /\ row'[r] = img
        /\ \A q \in Rooms \ {r} : row'[q] = row[q] /\ MessagesOf(q)' = MessagesOf(q)
        /\ MessagesOf(r)' = IF tx[t].op = "send" THEN MessagesOf(r) \cup {new} ELSE MessagesOf(r)
    BY <2>2, <2>3 DEF Typed, TypeOK, MessagesOf
  <2> HIDE DEF img
  <2>5. /\ Phases' = [Phases EXCEPT ![r] = Phase(r)']
        /\ Logs' = [Logs EXCEPT ![r] = MessagesOf(r)']
        /\ Waiting' \ {r} = Waiting \ {r}
    BY <1>0, <2>4, OneRoomMoves
  <2>6. /\ Phases[r] = Phase(r) /\ Logs[r] = MessagesOf(r)
        /\ Phase(r) = IF ~row[r].menteeLeft /\ ~row[r].mentorLeft THEN "open" ELSE "closed"
        /\ Phase(r)' = IF ~img.menteeLeft /\ ~img.mentorLeft THEN "open" ELSE "closed"
        /\ r \in Waiting <=> row[r].mentor = NoUser /\ ~row[r].menteeLeft
        /\ r \in Waiting' <=> img.mentor = NoUser /\ ~img.menteeLeft
    BY <1>0, <1>2, <2>4 DEF Phases, Logs, Phase, Waiting, Live
  <2>7. tx[t].op # "send" => Logs' = Logs
    BY <2>4, <2>5, <2>6 DEF Logs
  <2>8. CASE tx[t].op = "join"
    <3>1. Phases' = Phases /\ Waiting' = Waiting \ {r}
      <4>1. /\ img.mentor # NoUser /\ img.menteeLeft = row[r].menteeLeft
            /\ img.mentorLeft = row[r].mentorLeft
        BY <2>1, <2>8 DEF Change
      <4>2. Phase(r)' = Phase(r) /\ r \notin Waiting'
        BY <2>6, <4>1
      <4>3. Phases' = Phases
        BY <2>5, <2>6, <4>2 DEF Phases
      <4> QED
        BY <2>5, <4>2, <4>3
    <3>2. Lifecycle!Match(r)
      BY <2>6, <2>7, <2>8, <3>1 DEF Lifecycle!Match, Phases, Waiting, Logs
    <3> QED
      BY <3>2 DEF Lifecycle!Next
  <2>9. CASE tx[t].op \in {"left", "exit"}
    <3>1. Phase(r)' = "closed" /\ Waiting' \in {Waiting, Waiting \ {r}}
      BY <2>1, <2>5, <2>6, <2>9 DEF Change
    <3>2. Lifecycle!Close(r)
      BY <2>5, <2>6, <2>7, <2>9, <3>1 DEF Lifecycle!Close, Phases, Waiting, Logs
    <3> QED
      BY <3>2 DEF Lifecycle!Next
  <2>10. CASE tx[t].op = "disconnect"
    BY <2>1, <2>5, <2>6, <2>7, <2>10 DEF Change, Shown, Phases
  <2>11. CASE tx[t].op = "send"
    <3>1. Phases' = Phases /\ Waiting' = Waiting /\ Phase(r) = "open"
      <4>1. /\ img.mentor = row[r].mentor /\ img.menteeLeft = row[r].menteeLeft
            /\ img.mentorLeft = row[r].mentorLeft /\ Writable(row[r])
        BY <2>1, <2>11 DEF Change
      <4>2. Phase(r)' = Phase(r) /\ (r \in Waiting' <=> r \in Waiting) /\ Phase(r) = "open"
        BY <2>6, <4>1 DEF Writable
      <4>3. Waiting' = Waiting
        BY <2>5, <4>2
      <4>4. Phases' = Phases
        BY <2>5, <2>6, <4>2 DEF Phases
      <4> QED
        BY <4>2, <4>3, <4>4
    <3>2. new \notin MessagesOf(r)
      BY <2>1, <2>3, <2>11 DEF MessagesOf
    <3>3. /\ Logs' = [Logs EXCEPT ![r] = @ \cup {new}]
          /\ new \in Logs'[r] \ Logs[r]
      <4>1. MessagesOf(r)' = Logs[r] \cup {new}
        BY <2>4, <2>6, <2>11
      <4>2. Logs'[r] = Logs[r] \cup {new}
        BY <4>1 DEF Logs
      <4>3. Logs' = [Logs EXCEPT ![r] = @ \cup {new}]
        BY <2>5, <4>1
      <4>4. new \notin Logs[r]
        BY <2>6, <3>2
      <4> QED
        BY <4>2, <4>3, <4>4
    <3>4. Lifecycle!Post(r)
      BY <2>6, <3>1, <3>3 DEF Lifecycle!Post, Phases, Waiting, Logs
    <3> QED
      BY <3>4 DEF Lifecycle!Next
  <2> QED
    BY <2>1, <2>8, <2>9, <2>10, <2>11 DEF Change
<1> QED
  BY <1>1, <1>2

(* Handlers that are served one after the other, crashes or not, keep what *)
(* the users of a room are shown: it leaves the waiting list for good, it  *)
(* is read-only once a side has left, it goes with its messages.           *)
THEOREM SerialLifecycle == Alone => (Spec => LifecycleSpec)
<1> SUFFICES ASSUME Alone PROVE Spec => LifecycleSpec
  OBVIOUS
<1>1. Init => Serial
  BY DEF Init, Serial, UpToDate, Holding, Inserted, Idle
<1>2. Init => Lifecycle!Init
  BY DEF Init, Lifecycle!Init, Phase, Live, MessagesOf
<1>3. UNCHANGED db => UNCHANGED Shown
  BY DEF db, Shown, Phases, Phase, Waiting, Logs, MessagesOf, Live
<1>4. ASSUME Typed, Origin, Serial, [Next]_vars
      PROVE  Lifecycle!Next \/ UNCHANGED Shown
  <2>1. Typed'
    BY <1>4, NextTyped
  <2>2. CASE UNCHANGED vars \/ Crash
    BY <1>3, <2>2 DEF vars, Crash
  <2>3. ASSUME NEW u \in Users, NEW r \in Rooms, CreateMenteeChatRoom(u, r) \/ Connect(u, r)
        PROVE  Lifecycle!Next \/ UNCHANGED Shown
    BY <1>3, <1>4, <2>1, <2>3, CreateSimulates DEF Connect
  <2>4. ASSUME NEW t \in Threads, Broadcast(t) \/ DeadlockVictim(t)
        PROVE  UNCHANGED Shown
    BY <1>3, <2>4 DEF Broadcast, DeadlockVictim
  <2>5. ASSUME NEW t \in Threads, Request(t) \/ Proceed(t)
        PROVE  Lifecycle!Next \/ UNCHANGED Shown
    BY <1>3, <1>4, <2>1, <2>4, <2>5, RequestSerial, LoadSerial, CommitSimulates, DeleteSimulates
    DEF Proceed
  <2> QED
    BY <1>4, <2>2, <2>3, <2>4, <2>5 DEF Next
<1>5. Typed /\ Origin /\ Serial /\ [Next]_vars => [Lifecycle!Next]_Lifecycle!vars
  BY <1>4 DEF Lifecycle!vars, Shown, Phases, Waiting, Logs
<1>6. Typed /\ Serial /\ [Next]_vars => Serial'
  BY NextSerial
<1> QED
  BY <1>1, <1>2, <1>5, <1>6, InitTyped, NextTyped, InitOrigin, NextOrigin, PTL
  DEF Spec, LifecycleSpec, Lifecycle!Spec

-----------------------------------------------------------------------------
(* Who missed a message has no session in its room.                        *)
Absent == \A x \in missed :
  x.room \in created /\ (x.room \in Live => <<row[x.room].mentee, x.room>> \notin conn)

(* A step keeps the rooms, their mentees, and no session appears.          *)
LEMMA AbsentFrame ==
  ASSUME Absent, missed' = missed, conn' \subseteq conn, created \subseteq created',
         \A r \in created : r \in Live' => r \in Live /\ row'[r].mentee = row[r].mentee
  PROVE  Absent'
BY DEF Absent, Live

LEMMA MenteeKept ==
  ASSUME Typed, Origin, NEW t \in Threads, CommitRoom(t), NEW r \in Live
  PROVE  row'[r].mentee = row[r].mentee
<1>1. row' = row \/ row' = [row EXCEPT ![tx[t].room] = tx[t].img]
  BY DEF CommitRoom
<1>2. r \in Rooms /\ row \in [Rooms -> Row]
  BY DEF Live, Typed, TypeOK
<1>3. tx[t].room = r => tx[t].img.mentee = row[r].mentee
  BY DEF CommitRoom, Origin, ImageOK, Holding
<1> QED
  BY <1>1, <1>2, <1>3

LEMMA NextAbsent ==
  ASSUME Typed, Origin, Absent, [Next]_vars
  PROVE  Absent'
<1>1. CASE UNCHANGED <<db, conn, missed>>
  BY <1>1, AbsentFrame DEF db, Live
<1>2. CASE UNCHANGED vars \/ Crash
  BY <1>2, AbsentFrame DEF vars, db, history, Crash, Live
<1>3. ASSUME NEW u \in Users, NEW q \in Rooms, CreateMenteeChatRoom(u, q) PROVE Absent'
  <2>1. /\ missed' = missed /\ conn' = conn /\ created' = created \cup {q} /\ deleted' = deleted
        /\ q \notin created /\ \A r \in created : row'[r] = row[r]
    BY <1>3 DEF CreateMenteeChatRoom, history, Typed, TypeOK
  <2> QED
    BY <2>1, AbsentFrame DEF Live
<1>4. ASSUME NEW u \in Users, NEW q \in Rooms, Connect(u, q) PROVE Absent'
  <2>1. /\ UNCHANGED db /\ conn' = conn \cup {<<u, q>>}
        /\ missed' = {x \in missed : x.room = q => u # row[q].mentee}
    BY <1>4 DEF Connect
  <2>2. ASSUME NEW x \in missed'
        PROVE  /\ x.room \in created'
               /\ x.room \in Live' => <<row'[x.room].mentee, x.room>> \notin conn'
    <3>1. x \in missed /\ (x.room = q => u # row[q].mentee)
      BY <2>1
    <3> QED
      BY <2>1, <3>1 DEF Absent, db, Live
  <2> QED
    BY <2>2 DEF Absent
<1>5. ASSUME NEW t \in Threads, Request(t) PROVE Absent'
  <2>1. UNCHANGED <<db, missed>> /\ conn' \subseteq conn
    BY <1>5 DEF Request, JoinMentorChatRoom, MenteeLeftChatRoom, DeleteMenteeChatRoom,
                CloseChatRoom, PreSend, HandlerSessionDisconnect, history
  <2> QED
    BY <2>1, AbsentFrame DEF db, Live
<1>6. ASSUME NEW t \in Threads,
             \/ SetSolved(t) \/ StampLastAt(t) \/ SaveMentorChatMessage(t) \/ InsertMessage(t)
             \/ DeadlockVictim(t)
      PROVE  Absent'
  BY <1>1, <1>6 DEF SetSolved, StampLastAt, SaveMentorChatMessage, InsertMessage, DeadlockVictim,
                    history
<1>7. ASSUME NEW t \in Threads, CommitRoom(t) PROVE Absent'
  <2>1. missed' = missed /\ conn' = conn /\ created' = created /\ deleted' = deleted
    BY <1>7 DEF CommitRoom
  <2> QED
    BY <1>7, <2>1, MenteeKept, AbsentFrame DEF Live
<1>8. ASSUME NEW t \in Threads, CommitDelete(t) PROVE Absent'
  <2>1. /\ missed' = missed /\ conn' = conn /\ created' = created
        /\ \/ deleted' = deleted \cup {tx[t].room} /\ row' = [row EXCEPT ![tx[t].room] = BlankRow]
           \/ deleted' = deleted /\ row' = row
    BY <1>8 DEF CommitDelete, history
  <2>2. \A r \in created : r \in Live' => r \in Live /\ row'[r].mentee = row[r].mentee
    BY <2>1 DEF Live, Typed, TypeOK
  <2> QED
    BY <2>1, <2>2, AbsentFrame
<1>9. ASSUME NEW t \in Threads, Broadcast(t) PROVE Absent'
  <2> DEFINE r == tx[t].room
             new == [room |-> r, at |-> tx[t].at]
  <2>1. UNCHANGED <<db, conn>>
    BY <1>9 DEF Broadcast
  <2>2. \/ missed' = missed
        \/ missed' = missed \cup {new} /\ r \in Live /\ <<row[r].mentee, r>> \notin conn
    BY <1>9 DEF Broadcast
  <2>3. new.room = r
    OBVIOUS
  <2> HIDE DEF new, r
  <2> QED
    BY <2>1, <2>2, <2>3 DEF Absent, db, Live
<1> QED
  BY <1>2, <1>3, <1>4, <1>5, <1>6, <1>7, <1>8, <1>9 DEF Next, Proceed

-----------------------------------------------------------------------------
(* What thread t does about room r does not touch message x, which the     *)
(* room's mentee has missed.                                               *)
Spares(t, x) ==
  LET r == x.room IN
  /\ Holds(t, r) => x.at >= tx[t].img.menteeLastAt
  /\ tx[t].op \in {"send", "disconnect"} /\ tx[t].room = r => tx[t].user # row[r].mentee

LEMMA UnreadFrame ==
  ASSUME Typed, NEW x \in missed, CountsAsUnread(x), x \in missed', UNCHANGED db,
         NEW t \in Threads, \A s \in Threads \ {t} : tx'[s] = tx[s], Spares(t, x)'
  PROVE  CountsAsUnread(x)'
<1>1. \A s \in Threads \ {t} : Spares(s, x)'
  BY DEF CountsAsUnread, Spares, Holds, db
<1> QED
  BY <1>1 DEF CountsAsUnread, Spares, db, Live

LEMMA UnreadDone ==
  ASSUME Typed, NEW x \in missed, CountsAsUnread(x), x \in missed', UNCHANGED db,
         NEW t \in Threads, Done(t)
  PROVE  CountsAsUnread(x)'
<1>1. tx'[t] = Idle /\ \A s \in Threads \ {t} : tx'[s] = tx[s]
  BY DEF Done, Typed, TypeOK
<1>2. Spares(t, x)'
  BY <1>1 DEF Spares, Holds, Idle
<1> QED
  BY <1>1, <1>2, UnreadFrame

(* A call that begins loads the stamp as it is, and is not the mentee's.   *)
LEMMA UnreadRequest ==
  ASSUME Typed, Absent, NEW x \in missed, CountsAsUnread(x), NEW t \in Threads, Request(t)
  PROVE  CountsAsUnread(x)'
<1> PICK u \in Users, r \in Rooms :
  \/ JoinMentorChatRoom(t, u, r)
  \/ MenteeLeftChatRoom(t, u, r)
  \/ DeleteMenteeChatRoom(t, u, r)
  \/ CloseChatRoom(t, u, r)
  \/ PreSend(t, u, r)
  \/ HandlerSessionDisconnect(t, u, r)
  BY DEF Request
<1>0. row[r] \in Row /\ tx \in [Threads -> Tx]
  BY DEF Typed, TypeOK
<1>1. UNCHANGED db /\ missed' = missed
  BY DEF JoinMentorChatRoom, MenteeLeftChatRoom, DeleteMenteeChatRoom,
         CloseChatRoom, PreSend, HandlerSessionDisconnect, history
<1>2. PICK w : /\ Begin(t, w) /\ w.room = r
               /\ w.pc \in {"insert", "write"} /\ w.op # "delete" =>
                    w.img.menteeLastAt = row[r].menteeLastAt
               /\ w.op \in {"send", "disconnect"} => w.user = u /\ <<u, r>> \in conn
  <2>1. CASE JoinMentorChatRoom(t, u, r)
    BY <1>0, <2>1 DEF JoinMentorChatRoom, Work, Row
  <2>2. CASE MenteeLeftChatRoom(t, u, r)
    BY <1>0, <2>2 DEF MenteeLeftChatRoom, Work, Row
  <2>3. CASE DeleteMenteeChatRoom(t, u, r)
    BY <2>3 DEF DeleteMenteeChatRoom, Work
  <2>4. CASE CloseChatRoom(t, u, r)
    BY <2>4 DEF CloseChatRoom, Work
  <2>5. CASE PreSend(t, u, r)
    BY <2>5 DEF PreSend, Work
  <2>6. CASE HandlerSessionDisconnect(t, u, r)
    BY <2>6 DEF HandlerSessionDisconnect, Work
  <2> QED
    BY <2>1, <2>2, <2>3, <2>4, <2>5, <2>6
<1>3. tx'[t] = w /\ \A s \in Threads \ {t} : tx'[s] = tx[s]
  BY <1>0, <1>2 DEF Begin
<1>4. Spares(t, x)'
  BY <1>1, <1>2, <1>3 DEF Spares, Holds, CountsAsUnread, Absent, db
<1> QED
  BY <1>1, <1>3, <1>4, UnreadFrame

(* A handler goes on: only the mentee's own moves the mentee's stamp.      *)
LEMMA UnreadLoad ==
  ASSUME Typed, Origin, NEW x \in missed, CountsAsUnread(x), NEW t \in Threads,
         SetSolved(t) \/ StampLastAt(t) \/ SaveMentorChatMessage(t) \/ InsertMessage(t)
  PROVE  CountsAsUnread(x)'
<1> DEFINE q == tx[t].room
<1>0. /\ tx[t] \in Tx /\ tx \in [Threads -> Tx] /\ row[q] \in Row /\ tx[t].img \in Row
      /\ NoUser \notin Users
  BY UsersAssumption DEF Typed, TypeOK, Tx
<1>1. UNCHANGED db /\ missed' = missed
  BY DEF SetSolved, StampLastAt, SaveMentorChatMessage, InsertMessage, history
<1>2. CASE Done(t)
  BY <1>1, <1>2, UnreadDone
<1>3. ASSUME NEW w, tx'[t] = w, \A s \in Threads \ {t} : tx'[s] = tx[s],
             w.op = tx[t].op, w.room = q, w.user = tx[t].user,
             q = x.room => x.at >= w.img.menteeLastAt
      PROVE  CountsAsUnread(x)'
  <2>1. Spares(t, x)'
    BY <1>1, <1>3 DEF Spares, Holds, CountsAsUnread, db
  <2> QED
    BY <1>1, <1>3, <2>1, UnreadFrame
<1>4. CASE /\ SetSolved(t)
           /\ tx' = [tx EXCEPT ![t].pc = "write", ![t].img = Solved(row[q])]
  <2>1. Solved(row[q]).menteeLastAt = row[q].menteeLastAt
    BY <1>0 DEF Solved, Row
  <2> DEFINE w == [tx[t] EXCEPT !.pc = "write", !.img = Solved(row[q])]
  <2>2. tx'[t] = w /\ \A s \in Threads \ {t} : tx'[s] = tx[s]
    BY <1>0, <1>4
  <2>3. w.op = tx[t].op /\ w.room = q /\ w.user = tx[t].user /\ w.img = Solved(row[q])
    BY <1>0 DEF Tx
  <2> HIDE DEF w
  <2> QED
    BY <1>3, <2>1, <2>2, <2>3 DEF CountsAsUnread
<1>5. CASE /\ StampLastAt(t)
           /\ tx' = [tx EXCEPT ![t].pc = "write",
                               ![t].img = StampDisconnect(row[q], tx[t].user, clock)]
  <2> DEFINE img == StampDisconnect(row[q], tx[t].user, clock)
             w == [tx[t] EXCEPT !.pc = "write", !.img = img]
  <2>1. q = x.room => img = row[q]
    BY <1>5 DEF StampLastAt, CountsAsUnread, StampDisconnect
  <2> HIDE DEF img
  <2>2. tx'[t] = w /\ \A s \in Threads \ {t} : tx'[s] = tx[s]
    BY <1>0, <1>5 DEF img
  <2>3. w.op = tx[t].op /\ w.room = q /\ w.user = tx[t].user /\ w.img = img
    BY <1>0 DEF Tx
  <2> HIDE DEF w
  <2> QED
    BY <1>3, <2>1, <2>2, <2>3 DEF CountsAsUnread
<1>6. CASE /\ InsertMessage(t) /\ q \in Live /\ MaySend(tx[t].img, tx[t].user)
           /\ tx' = [tx EXCEPT ![t].pc = "write", ![t].at = clock,
                               ![t].img = UpdateLastAt(@, tx[t].user, clock + 1)]
  <2> DEFINE img == UpdateLastAt(tx[t].img, tx[t].user, clock + 1)
             w == [tx[t] EXCEPT !.pc = "write", !.at = clock, !.img = img]
  <2>1. tx[t].img.mentee = row[q].mentee /\ Holds(t, q) /\ tx[t].op = "send"
    BY <1>6 DEF InsertMessage, Origin, ImageOK, Holding, Holds
  <2>2. q = x.room => img = tx[t].img
    <3>1. q = x.room => tx[t].user # tx[t].img.mentee
      BY <2>1 DEF CountsAsUnread
    <3>2. q = x.room => tx[t].user = tx[t].img.mentor
      BY <1>6, <3>1 DEF MaySend, Participants
    <3> QED
      BY <3>2 DEF UpdateLastAt
  <2> HIDE DEF img
  <2>3. tx'[t] = w /\ \A s \in Threads \ {t} : tx'[s] = tx[s]
    BY <1>0, <1>6 DEF img
  <2>4. w.op = tx[t].op /\ w.room = q /\ w.user = tx[t].user /\ w.img = img
    BY <1>0 DEF Tx
  <2> HIDE DEF w
  <2> QED
    BY <1>3, <2>1, <2>2, <2>3, <2>4 DEF CountsAsUnread
<1>7. CASE /\ SaveMentorChatMessage(t)
           /\ tx' = [tx EXCEPT ![t].pc = "insert", ![t].img = row[q]]
  <2> DEFINE w == [tx[t] EXCEPT !.pc = "insert", !.img = row[q]]
  <2>1. tx'[t] = w /\ \A s \in Threads \ {t} : tx'[s] = tx[s]
    BY <1>0, <1>7
  <2>2. w.op = tx[t].op /\ w.room = q /\ w.user = tx[t].user /\ w.img = row[q]
    BY <1>0 DEF Tx
  <2> HIDE DEF w
  <2> QED
    BY <1>3, <2>1, <2>2 DEF CountsAsUnread
<1> QED
  BY <1>2, <1>4, <1>5, <1>6, <1>7 DEF SetSolved, StampLastAt, SaveMentorChatMessage, InsertMessage

(* A commit writes a stamp that the message is newer than.                 *)
LEMMA UnreadCommit ==
  ASSUME Typed, Origin, NEW x \in missed, CountsAsUnread(x), NEW t \in Threads,
         CommitRoom(t) \/ CommitDelete(t), x.room \in Live'
  PROVE  CountsAsUnread(x)'
<1> DEFINE r == x.room
<1>0. /\ r \in Live /\ r \in Rooms /\ row \in [Rooms -> Row] /\ tx[t] \in Tx
      /\ tx \in [Threads -> Tx]
  BY DEF CountsAsUnread, Live, Typed, TypeOK
<1>1. missed' = missed /\ created' = created
  BY DEF CommitRoom, CommitDelete, history
<1>2. row'[r].mentee = row[r].mentee /\ x.at >= row'[r].menteeLastAt
  <2>1. CASE CommitRoom(t)
    <3>1. row' = row \/ (row' = [row EXCEPT ![tx[t].room] = tx[t].img] /\ Holds(t, tx[t].room))
      BY <2>1 DEF CommitRoom, Holds
    <3>2. x.at >= row'[r].menteeLastAt
      BY <1>0, <3>1 DEF CountsAsUnread
    <3> QED
      BY <1>0, <2>1, <3>2, MenteeKept
  <2>2. CASE CommitDelete(t)
    <3>1. row'[r] = row[r]
      BY <1>0, <2>2 DEF CommitDelete, Live
    <3> QED
      BY <3>1 DEF CountsAsUnread
  <2> QED
    BY <2>1, <2>2
<1>3. ASSUME NEW s \in Threads PROVE Spares(s, x)'
  <2>1. CASE s # t
    <3>1. tx'[s] = tx[s]
      BY <1>0, <2>1 DEF CommitRoom, CommitDelete, Done
    <3> QED
      BY <1>2, <3>1 DEF Spares, Holds, CountsAsUnread
  <2>2. CASE s = t
    <3>1. \/ tx'[t] = Idle
          \/ tx'[t] = [tx[t] EXCEPT !.pc = "notify"]
      BY <1>0 DEF CommitRoom, CommitDelete, Done
    <3>2. \/ tx'[t].op = "none" /\ tx'[t].pc = "idle"
          \/ /\ tx'[t].pc = "notify" /\ tx'[t].op = tx[t].op
             /\ tx'[t].room = tx[t].room /\ tx'[t].user = tx[t].user
      BY <1>0, <3>1 DEF Idle, Tx
    <3> QED
      BY <1>2, <2>2, <3>2 DEF Spares, Holds, CountsAsUnread
  <2> QED
    BY <2>1, <2>2
<1> QED
  BY <1>1, <1>2, <1>3 DEF CountsAsUnread, Spares

(* What a mentee has missed stays unread until the mentee is back: no      *)
(* handler of somebody else moves the mentee's stamp past it, not with a   *)
(* stale copy of the room either (updateLastAt, handlerSessionDisconnect). *)
THEOREM UnreadStays == Spec => UnreadSettles
<1> DEFINE Kept == \A x \in missed :
             CountsAsUnread(x) /\ x \in missed' /\ x.room \in Live' => CountsAsUnread(x)'
<1>1. ASSUME Typed, Origin, Absent, [Next]_vars PROVE Kept
  <2> SUFFICES ASSUME NEW x \in missed, CountsAsUnread(x), x \in missed', x.room \in Live'
               PROVE  CountsAsUnread(x)'
    OBVIOUS
  <2>1. CASE UNCHANGED <<db, tx>>
    BY <2>1 DEF CountsAsUnread, Holds, db, Live
  <2>2. CASE UNCHANGED vars \/ \E u \in Users, q \in Rooms : Connect(u, q)
    BY <2>1, <2>2 DEF vars, Connect
  <2>3. CASE Crash
    BY <2>3 DEF Crash, CountsAsUnread, Holds, Idle, db, Live
  <2>4. ASSUME NEW u \in Users, NEW q \in Rooms, CreateMenteeChatRoom(u, q)
        PROVE  CountsAsUnread(x)'
    <3>1. tx' = tx /\ q \notin created /\ deleted' = deleted /\ \A r \in created : row'[r] = row[r]
      BY <1>1, <2>4 DEF CreateMenteeChatRoom, Typed, TypeOK
    <3> QED
      BY <3>1 DEF CountsAsUnread, Holds, Live
  <2>5. ASSUME NEW t \in Threads, Broadcast(t) \/ DeadlockVictim(t)
        PROVE  CountsAsUnread(x)'
    BY <1>1, <2>5, UnreadDone DEF Broadcast, DeadlockVictim
  <2> QED
    BY <1>1, <2>2, <2>3, <2>4, <2>5, UnreadRequest, UnreadLoad, UnreadCommit DEF Next, Proceed
<1> HIDE DEF Kept
<1>2. Init => Absent
  BY DEF Init, Absent
<1>3. Typed /\ Origin /\ Absent /\ [Next]_vars => Absent'
  BY NextAbsent
<1>4. Spec => [][Kept]_vars
  BY <1>1, <1>2, <1>3, InitTyped, NextTyped, InitOrigin, NextOrigin, PTL DEF Spec
<1> QED
  BY <1>4 DEF UnreadSettles, Kept

-----------------------------------------------------------------------------
(* The times that messages bear                                            *)

(* A handler in the state w has inserted a message that was not shown yet. *)
Sends(w) == w.op = "send" /\ w.pc \in {"write", "notify"}

(* Messages bear different times, those that are not stored or not shown   *)
(* yet included.                                                           *)
Stamped ==
  /\ \A m \in msgs : m.at < clock
  /\ \A n \in delivered : n.at < clock
  /\ \A t \in Threads : Sends(tx[t]) =>
       /\ tx[t].at < clock
       /\ tx[t].pc = "write" => \A m \in msgs : m.at # tx[t].at
       /\ \A n \in delivered : n.at # tx[t].at
       /\ \A s \in Threads \ {t} : Sends(tx[s]) => tx[s].at # tx[t].at

(* Only staff join, and a mentor's exit is what it says.                   *)
Entitled(w) ==
  /\ w.op = "join" => w.user \in Mentors \cup Admins
  /\ w.op = "exit" /\ w.pc = "write" => w.img.mentorLeft

(* The strengthening that lets a step be seen in RoomTopic.                *)
Posting ==
  /\ Stamped
  /\ \A t \in Threads : Entitled(tx[t])
  /\ \A u \in Users, r \in Rooms : <<u, r>> \in wasMentor => r \in created

(* What a request, a load or an insert does: it changes what its thread    *)
(* works at, and perhaps tells of a mentor's exit.                         *)
Quiet(t) ==
  /\ UNCHANGED <<created, deleted, row, msgs, delivered, wasMentor, wasLeft>>
  /\ notices' = notices \/ \E r \in Rooms : notices' = notices \cup {<<r, "mentor">>}
  /\ tx[t].pc # "notify"
  /\ \E w : /\ tx' = [tx EXCEPT ![t] = w] /\ w.pc # "notify" /\ Entitled(w)
            /\ \/ clock' = clock /\ ~Sends(w)
               \/ clock' = clock + 1 /\ w.at = clock

LEMMA RequestQuiet ==
  ASSUME Typed, NEW t \in Threads, Request(t)
  PROVE  Quiet(t)
<1> PICK u \in Users, r \in Rooms :
  \/ JoinMentorChatRoom(t, u, r)
  \/ MenteeLeftChatRoom(t, u, r)
  \/ DeleteMenteeChatRoom(t, u, r)
  \/ CloseChatRoom(t, u, r)
  \/ PreSend(t, u, r)
  \/ HandlerSessionDisconnect(t, u, r)
  BY DEF Request
<1>1. /\ UNCHANGED <<created, deleted, row, msgs, delivered, wasMentor, wasLeft>>
      /\ clock' = clock /\ tx[t] = Idle
      /\ notices' = notices \/ \E q \in Rooms : notices' = notices \cup {<<q, "mentor">>}
  BY DEF JoinMentorChatRoom, MenteeLeftChatRoom, DeleteMenteeChatRoom, CloseChatRoom,
     PreSend, HandlerSessionDisconnect, Begin, db, history
<1>2. ASSUME NEW w, Begin(t, w), w.pc # "notify", w.op = "exit" => w.pc = "load",
             w.op = "join" => w.user \in Mentors \cup Admins, w.op = "send" => w.pc = "load"
      PROVE  Quiet(t)
  <2>1. tx' = [tx EXCEPT ![t] = w] /\ Entitled(w) /\ ~Sends(w) /\ tx[t].pc # "notify"
    BY <1>1, <1>2 DEF Begin, Entitled, Sends, Idle
  <2> QED
    BY <1>1, <1>2, <2>1 DEF Quiet
<1>3. ASSUME NEW op, NEW pc, NEW v, NEW img
      PROVE  /\ Work(op, pc, v, r, img).op = op /\ Work(op, pc, v, r, img).pc = pc
             /\ Work(op, pc, v, r, img).user = v
  BY DEF Work
<1>4. CASE JoinMentorChatRoom(t, u, r)
  <2>1. PICK img : Begin(t, Work("join", "write", u, r, img)) /\ u \in Mentors \cup Admins
    BY <1>4 DEF JoinMentorChatRoom
  <2> QED
    BY <1>2, <1>3, <2>1
<1>5. CASE MenteeLeftChatRoom(t, u, r)
  <2>1. PICK img : Begin(t, Work("left", "write", u, r, img))
    BY <1>5 DEF MenteeLeftChatRoom
  <2> QED
    BY <1>2, <1>3, <2>1
<1>6. CASE DeleteMenteeChatRoom(t, u, r)
  <2> DEFINE w == [Work("delete", "write", u, r, BlankRow)
                     EXCEPT !.known = {m.at : m \in MessagesOf(r)}]
  <2>1. Begin(t, w)
    BY <1>6 DEF DeleteMenteeChatRoom
  <2>2. w.op = "delete" /\ w.pc = "write"
    BY DEF Work
  <2> HIDE DEF w
  <2> QED
    BY <1>2, <2>1, <2>2
<1>7. CASE CloseChatRoom(t, u, r)
  <2>1. Begin(t, Work("exit", "load", NoUser, r, BlankRow))
    BY <1>7 DEF CloseChatRoom
  <2> QED
    BY <1>2, <1>3, <2>1
<1>8. CASE PreSend(t, u, r)
  <2>1. Begin(t, Work("send", "load", u, r, BlankRow))
    BY <1>8 DEF PreSend
  <2> QED
    BY <1>2, <1>3, <2>1
<1>9. CASE HandlerSessionDisconnect(t, u, r)
  <2>1. Begin(t, Work("disconnect", "load", u, r, BlankRow))
    BY <1>9 DEF HandlerSessionDisconnect
  <2> QED
    BY <1>2, <1>3, <2>1
<1> QED
  BY <1>4, <1>5, <1>6, <1>7, <1>8, <1>9

LEMMA LoadQuiet ==
  ASSUME Typed, NEW t \in Threads,
         \/ SetSolved(t) \/ StampLastAt(t) \/ SaveMentorChatMessage(t) \/ InsertMessage(t)
         \/ DeadlockVictim(t)
  PROVE  Quiet(t)
<1> DEFINE r == tx[t].room
<1>0. /\ tx[t] \in Tx /\ r \in Rooms /\ row[r] \in Row
      /\ Entitled(Idle) /\ ~Sends(Idle) /\ Idle.pc # "notify"
  BY DEF Typed, TypeOK, Tx, Entitled, Sends, Idle
<1>1. /\ UNCHANGED <<created, deleted, row, msgs, delivered, wasMentor, wasLeft, notices>>
      /\ tx[t].pc # "notify"
  BY DEF SetSolved, StampLastAt, SaveMentorChatMessage, InsertMessage, DeadlockVictim, db, history
<1>2. CASE Done(t) /\ clock' = clock
  BY <1>0, <1>1, <1>2 DEF Done, Quiet
<1>3. CASE SetSolved(t) /\ ~Done(t)
  <2> DEFINE w == [tx[t] EXCEPT !.pc = "write", !.img = Solved(row[r])]
  <2>1. tx' = [tx EXCEPT ![t] = w] /\ clock' = clock /\ tx[t].op = "exit"
    BY <1>3 DEF SetSolved
  <2>2. Solved(row[r]).mentorLeft
    BY <1>0 DEF Solved, Row
  <2>3. w.op = "exit" /\ w.pc = "write" /\ w.img.mentorLeft
    BY <1>0, <2>1, <2>2 DEF Tx
  <2> HIDE DEF w
  <2> QED
    BY <1>1, <2>1, <2>3 DEF Quiet, Entitled, Sends
<1>4. CASE StampLastAt(t) /\ ~Done(t)
  <2> DEFINE w == [tx[t] EXCEPT !.pc = "write", !.img = StampDisconnect(row[r], tx[t].user, clock)]
  <2>1. tx' = [tx EXCEPT ![t] = w] /\ clock' = clock /\ tx[t].op = "disconnect"
    BY <1>4 DEF StampLastAt
  <2>2. w.op = "disconnect" /\ w.pc = "write"
    BY <1>0, <2>1 DEF Tx
  <2> HIDE DEF w
  <2> QED
    BY <1>1, <2>1, <2>2 DEF Quiet, Entitled, Sends
<1>5. CASE InsertMessage(t) /\ ~(Done(t) /\ clock' = clock)
  <2> DEFINE w == [tx[t] EXCEPT !.pc = "write", !.at = clock,
                                !.img = UpdateLastAt(@, tx[t].user, clock + 1)]
  <2>1. tx' = [tx EXCEPT ![t] = w] /\ clock' = clock + 1 /\ tx[t].op = "send"
    BY <1>5 DEF InsertMessage
  <2>2. w.op = "send" /\ w.pc = "write" /\ w.at = clock
    BY <1>0, <2>1 DEF Tx
  <2> HIDE DEF w
  <2> QED
    BY <1>1, <2>1, <2>2 DEF Quiet, Entitled
<1>6. CASE SaveMentorChatMessage(t) /\ ~Done(t)
  <2> DEFINE w == [tx[t] EXCEPT !.pc = "insert", !.img = row[r]]
  <2>1. tx' = [tx EXCEPT ![t] = w] /\ clock' = clock /\ tx[t].op = "send"
    BY <1>6 DEF SaveMentorChatMessage
  <2>2. w.op = "send" /\ w.pc = "insert"
    BY <1>0, <2>1 DEF Tx
  <2> HIDE DEF w
  <2> QED
    BY <1>1, <2>1, <2>2 DEF Quiet, Entitled, Sends
<1> QED
  BY <1>2, <1>3, <1>4, <1>5, <1>6
  DEF SetSolved, StampLastAt, SaveMentorChatMessage, DeadlockVictim, InsertMessage

(* A step of one thread stores and shows no message but the thread's own,  *)
(* and takes no time but the present one.                                  *)
LEMMA StampedThread ==
  ASSUME Typed, Stamped, NEW t \in Threads, NEW w, tx' = [tx EXCEPT ![t] = w],
         \/ clock' = clock /\ (Sends(w) => Sends(tx[t]) /\ w.at = tx[t].at)
         \/ clock' = clock + 1 /\ w.at = clock,
         Sends(w) /\ w.pc = "write" /\ Sends(tx[t]) => tx[t].pc = "write" \/ clock' = clock + 1,
         \A m \in msgs' : m \in msgs \/
           (Sends(tx[t]) /\ tx[t].pc = "write" /\ m.at = tx[t].at
            /\ (Sends(w) => w.pc = "notify" /\ clock' = clock)),
         \A n \in delivered' : n \in delivered \/
           (Sends(tx[t]) /\ n.at = tx[t].at /\ ~Sends(w))
  PROVE  Stamped'
<1>0. /\ tx \in [Threads -> Tx] /\ clock \in Nat /\ clock <= clock' /\ clock' \in Nat
      /\ \A s \in Threads : tx[s].at \in Nat
      /\ \A m \in msgs : m.at \in Nat /\ m.at < clock
      /\ \A n \in delivered : n.at \in Nat /\ n.at < clock
  BY DEF Typed, TypeOK, Tx, Message, Stamped
<1>1. tx'[t] = w /\ \A s \in Threads \ {t} : tx'[s] = tx[s]
  BY <1>0
<1>2. ASSUME NEW s \in Threads, Sends(tx[s])
      PROVE  /\ tx[s].at < clock /\ \A n \in delivered : n.at # tx[s].at
             /\ tx[s].pc = "write" => \A m \in msgs : m.at # tx[s].at
             /\ \A u \in Threads \ {s} : Sends(tx[u]) => tx[u].at # tx[s].at
  BY <1>2 DEF Stamped
<1>3. (\A m \in msgs' : m.at < clock') /\ \A n \in delivered' : n.at < clock'
  BY <1>0, <1>2
<1>4. ASSUME Sends(w)
      PROVE  /\ w.at < clock' /\ \A n \in delivered' : n.at # w.at
             /\ w.pc = "write" => \A m \in msgs' : m.at # w.at
             /\ \A s \in Threads \ {t} : Sends(tx[s]) => tx[s].at # w.at
  <2>1. CASE clock' = clock
    BY <1>0, <1>2, <1>4, <2>1
  <2>2. CASE clock' = clock + 1 /\ w.at = clock
    BY <1>0, <1>2, <1>4, <2>2
  <2> QED
    BY <2>1, <2>2
<1>5. ASSUME NEW s \in Threads \ {t}, Sends(tx[s])
      PROVE  /\ tx[s].at < clock' /\ \A n \in delivered' : n.at # tx[s].at
             /\ tx[s].pc = "write" => \A m \in msgs' : m.at # tx[s].at
             /\ \A u \in Threads \ {s} : Sends(tx'[u]) => tx'[u].at # tx[s].at
  <2>1. \A u \in Threads \ {s} : Sends(tx[u]) => tx[u].at # tx[s].at
    BY <1>2, <1>5
  <2>2. tx[s].at < clock /\ \A n \in delivered : n.at # tx[s].at
    BY <1>2, <1>5
  <2>3. tx[s].pc = "write" => \A m \in msgs : m.at # tx[s].at
    BY <1>2, <1>5
  <2> QED
    BY <1>0, <1>1, <1>4, <1>5, <2>1, <2>2, <2>3
<1> QED
  BY <1>1, <1>3, <1>4, <1>5 DEF Stamped

LEMMA QuietPosts ==
  ASSUME Typed, Posting, NEW t \in Threads, Quiet(t)
  PROVE  Posting'
<1> PICK w : /\ tx' = [tx EXCEPT ![t] = w] /\ w.pc # "notify" /\ Entitled(w)
             /\ \/ clock' = clock /\ ~Sends(w)
                \/ clock' = clock + 1 /\ w.at = clock
  BY DEF Quiet
<1>1. msgs' = msgs /\ delivered' = delivered /\ wasMentor' = wasMentor /\ created' = created
  BY DEF Quiet
<1>2. Stamped'
  <2>1. clock' = clock => ~Sends(w)
    BY DEF Typed, TypeOK
  <2> QED
    BY <1>1, <2>1, StampedThread DEF Posting
<1>3. \A s \in Threads : Entitled(tx'[s])
  BY DEF Posting, Typed, TypeOK
<1>4. \A s \in Threads : Entitled(tx[s])'
  BY <1>3 DEF Entitled
<1> QED
  BY <1>1, <1>2, <1>4 DEF Posting

(* What a commit does: nothing, or one thing to the room.                  *)
LEMMA CommitRoomDoes ==
  ASSUME Typed, NEW t \in Threads, CommitRoom(t)
  PROVE  LET r == tx[t].room
             new == [room |-> r, sender |-> tx[t].user, at |-> tx[t].at]
         IN
         /\ tx[t].pc = "write" /\ tx[t].op # "delete"
         /\ UNCHANGED <<created, deleted, clock, notices, delivered>>
         /\ \/ Done(t) /\ UNCHANGED <<row, msgs, wasMentor, wasLeft>>
            \/ /\ r \in Live /\ row' = [row EXCEPT ![r] = tx[t].img]
               /\ msgs' = IF tx[t].op = "send" THEN msgs \cup {new} ELSE msgs
               /\ wasMentor' = IF tx[t].op = "join" THEN wasMentor \cup {<<tx[t].user, r>>}
                                                    ELSE wasMentor
               /\ wasLeft' = IF tx[t].op = "left" THEN wasLeft \cup {<<r, "mentee">>}
                             ELSE IF tx[t].op = "exit" THEN wasLeft \cup {<<r, "mentor">>}
                             ELSE wasLeft
               /\ tx' = [tx EXCEPT ![t] = IF tx[t].op \in {"left", "send"}
                                            THEN [tx[t] EXCEPT !.pc = "notify"] ELSE Idle]
BY DEF CommitRoom, Announces, Done

LEMMA CommitRoomPosts ==
  ASSUME Typed, Posting, NEW t \in Threads, CommitRoom(t)
  PROVE  Posting'
<1> DEFINE new == [room |-> tx[t].room, sender |-> tx[t].user, at |-> tx[t].at]
           w == IF tx[t].op \in {"left", "send"} /\ ~Done(t)
                  THEN [tx[t] EXCEPT !.pc = "notify"] ELSE Idle
<1>0. /\ tx[t] \in Tx /\ tx[t].pc = "write" /\ tx[t].op # "delete" /\ tx \in [Threads -> Tx]
      /\ created' = created /\ clock' = clock /\ delivered' = delivered /\ clock \in Nat
  BY CommitRoomDoes DEF Typed, TypeOK
<1>1. Entitled(Idle) /\ ~Sends(Idle)
  BY DEF Entitled, Sends, Idle
<1>2. tx' = [tx EXCEPT ![t] = w]
  <2>1. CASE Done(t)
    BY <2>1 DEF Done
  <2>2. CASE ~Done(t)
    BY <2>2, CommitRoomDoes
  <2> QED
    BY <2>1, <2>2
<1>3. /\ msgs' = msgs \/ (tx[t].op = "send" /\ msgs' = msgs \cup {new})
      /\ wasMentor' = wasMentor \/ (tx[t].op = "join" /\ tx[t].room \in Live
                                    /\ wasMentor' = wasMentor \cup {<<tx[t].user, tx[t].room>>})
  BY CommitRoomDoes
<1>4. /\ Sends(w) => Sends(tx[t]) /\ w.at = tx[t].at /\ w.pc = "notify"
      /\ Entitled(w)
  <2>1. CASE w = Idle
    BY <1>1, <2>1
  <2>2. CASE w = [tx[t] EXCEPT !.pc = "notify"] /\ tx[t].op \in {"left", "send"}
    <3>1. w.op = tx[t].op /\ w.at = tx[t].at /\ w.pc = "notify"
      BY <1>0, <2>2 DEF Tx
    <3> QED
      BY <1>0, <2>2, <3>1 DEF Sends, Entitled
  <2> QED
    BY <2>1, <2>2
<1>5. new.at = tx[t].at
  OBVIOUS
<1> HIDE DEF w, new
<1>6. Stamped'
  <2>1. \A m \in msgs' : m \in msgs \/
          (Sends(tx[t]) /\ tx[t].pc = "write" /\ m.at = tx[t].at
           /\ (Sends(w) => w.pc = "notify" /\ clock' = clock))
    BY <1>0, <1>3, <1>4, <1>5 DEF Sends
  <2> QED
    BY <1>0, <1>2, <1>4, <2>1, StampedThread DEF Posting
<1>7. \A s \in Threads : Entitled(tx'[s])
  BY <1>0, <1>2, <1>4 DEF Posting
<1>8. \A s \in Threads : Entitled(tx[s])'
  BY <1>7 DEF Entitled
<1>9. \A u \in Users, r \in Rooms : <<u, r>> \in wasMentor' => r \in created'
  BY <1>0, <1>3 DEF Posting, Live
<1> QED
  BY <1>6, <1>8, <1>9 DEF Posting

(* The other steps that end a handler.                                     *)
LEMMA EndPosts ==
  ASSUME Typed, Posting, NEW t \in Threads, CommitDelete(t) \/ Broadcast(t)
  PROVE  Posting'
<1>0. /\ tx \in [Threads -> Tx] /\ tx' = [tx EXCEPT ![t] = Idle]
      /\ clock' = clock /\ clock \in Nat /\ msgs' \subseteq msgs
      /\ created' = created /\ wasMentor' = wasMentor
      /\ Entitled(Idle) /\ ~Sends(Idle)
  BY DEF CommitDelete, Broadcast, Done, db, history, Typed, TypeOK, Entitled, Sends, Idle
<1>1. \A n \in delivered' : n \in delivered \/ (Sends(tx[t]) /\ n.at = tx[t].at /\ ~Sends(Idle))
  BY <1>0 DEF CommitDelete, Broadcast, history, Sends
<1>2. Stamped'
  BY <1>0, <1>1, StampedThread DEF Posting
<1>3. \A s \in Threads : Entitled(tx'[s])
  BY <1>0 DEF Posting
<1>4. \A s \in Threads : Entitled(tx[s])'
  BY <1>3 DEF Entitled
<1> QED
  BY <1>0, <1>2, <1>4 DEF Posting

LEMMA CreatePosts ==
  ASSUME Typed, Posting, NEW u \in Users, NEW r \in Rooms, CreateMenteeChatRoom(u, r)
  PROVE  Posting'
<1>0. /\ clock' = clock + 1 /\ clock \in Nat /\ tx' = tx /\ delivered' = delivered
      /\ wasMentor' = wasMentor /\ created \subseteq created'
      /\ \A m \in msgs' : m \in msgs \/ m.at = clock
      /\ \A m \in msgs : m.at \in Nat
      /\ \A n \in delivered : n.at \in Nat
      /\ \A t \in Threads : tx[t].at \in Nat
  BY DEF CreateMenteeChatRoom, history, Typed, TypeOK, Tx, Message
<1>1. (\A m \in msgs' : m.at < clock') /\ \A n \in delivered' : n.at < clock'
  BY <1>0 DEF Posting, Stamped
<1>2. ASSUME NEW t \in Threads, Sends(tx[t])
      PROVE  /\ tx[t].at < clock'
             /\ tx[t].pc = "write" => \A m \in msgs' : m.at # tx[t].at
             /\ \A n \in delivered' : n.at # tx[t].at
             /\ \A s \in Threads \ {t} : Sends(tx[s]) => tx[s].at # tx[t].at
  BY <1>0, <1>2 DEF Posting, Stamped
<1>3. Stamped'
  BY <1>0, <1>1, <1>2 DEF Stamped
<1> QED
  BY <1>0, <1>3 DEF Posting, Entitled

LEMMA NextPosts == Typed /\ Posting /\ [Next]_vars => Posting'
<1> SUFFICES ASSUME Typed, Posting, [Next]_vars PROVE Posting'
  OBVIOUS
<1>1. ASSUME UNCHANGED <<tx, clock, msgs, delivered, created, wasMentor>> PROVE Posting'
  BY <1>1 DEF Posting, Stamped, Entitled
<1>2. CASE UNCHANGED vars
  BY <1>1, <1>2 DEF vars, db, history
<1>3. ASSUME NEW u \in Users, NEW r \in Rooms, Connect(u, r) PROVE Posting'
  BY <1>1, <1>3 DEF Connect, db
<1>4. CASE Crash
  <2>1. \A t \in Threads : tx'[t] = Idle
    BY <1>4 DEF Crash
  <2>2. /\ clock' = clock /\ msgs' = msgs /\ delivered' = delivered
        /\ created' = created /\ wasMentor' = wasMentor
    BY <1>4 DEF Crash, db, history
  <2>3. Entitled(Idle) /\ ~Sends(Idle)
    BY DEF Entitled, Sends, Idle
  <2>4. Stamped'
    BY <2>1, <2>2, <2>3 DEF Posting, Stamped, Sends
  <2>5. \A t \in Threads : Entitled(tx[t])'
    BY <2>1, <2>3 DEF Entitled
  <2> QED
    BY <2>2, <2>4, <2>5 DEF Posting
<1> QED
  BY <1>2, <1>3, <1>4, RequestQuiet, LoadQuiet, QuietPosts, CommitRoomPosts, EndPosts, CreatePosts
  DEF Next, Proceed

-----------------------------------------------------------------------------
(* What RoomTopic sees of a step                                           *)
Existences == [r \in Rooms |-> Existence(r)]
Rolls      == [r \in Rooms |-> Members(r)]
TopicVars  ==
  <<Existences, Rolls, Logs, Outbox, delivered, Leaving, wasLeft, notices>>

(* A step on no room or on one.                                            *)
LEMMA RoomsSame ==
  ASSUME UNCHANGED <<created, deleted, row, wasMentor>>
  PROVE  Existences' = Existences /\ Rolls' = Rolls
BY DEF Existences, Existence, Rolls, Members, Live

LEMMA LogsSame ==
  ASSUME UNCHANGED msgs
  PROVE  Logs' = Logs
BY DEF Logs, MessagesOf

LEMMA LogsGrow ==
  ASSUME NEW r \in Rooms, NEW m, m.room = r, msgs' = msgs \cup {m}
  PROVE  Logs' = [Logs EXCEPT ![r] = @ \cup {m}] /\ m \in Logs'[r]
<1>1. MessagesOf(r)' = MessagesOf(r) \cup {m}
  BY DEF MessagesOf
<1>2. ASSUME NEW q \in Rooms \ {r} PROVE MessagesOf(q)' = MessagesOf(q)
  BY DEF MessagesOf
<1> QED
  BY <1>1, <1>2 DEF Logs

(* The times at which messages are stored.                                 *)
LEMMA NewSaid ==
  ASSUME NEW n, \A m \in msgs : m.at # n.at
  PROVE  Topic!IsNew(n)
BY DEF Topic!IsNew, MessagesOf

(* What a thread that does not broadcast works at leaves the topic alone.  *)
LEMMA TellingKept ==
  ASSUME Typed, NEW t \in Threads, NEW w, tx' = [tx EXCEPT ![t] = w],
         tx[t].pc # "notify", w.pc # "notify"
  PROVE  Outbox' = Outbox /\ Leaving' = Leaving
<1>1. tx'[t] = w /\ \A s \in Threads \ {t} : tx'[s] = tx[s]
  BY DEF Typed, TypeOK
<1>2. ASSUME NEW op PROVE Telling(op)' = Telling(op) /\ \A s \in Telling(op) : tx'[s] = tx[s]
  BY <1>1 DEF Telling
<1>3. Telling("send")' = Telling("send") /\ Telling("left")' = Telling("left")
  BY <1>2
<1> QED
  BY <1>2, <1>3 DEF Outbox, Leaving

(* A handler that has committed goes on to its broadcast.                  *)
LEMMA TellingAdded ==
  ASSUME Typed, NEW t \in Threads, tx' = [tx EXCEPT ![t] = [tx[t] EXCEPT !.pc = "notify"]],
         tx[t].pc # "notify"
  PROVE  LET x == [room |-> tx[t].room, at |-> tx[t].at] IN
         /\ Outbox' = IF tx[t].op = "send" THEN Outbox \cup {x} ELSE Outbox
         /\ Leaving' = IF tx[t].op = "left" THEN Leaving \cup {tx[t].room} ELSE Leaving
<1>0. tx[t] \in Tx /\ tx \in [Threads -> Tx]
  BY DEF Typed, TypeOK
<1>1. /\ tx'[t].pc = "notify" /\ tx'[t].op = tx[t].op
      /\ tx'[t].room = tx[t].room /\ tx'[t].at = tx[t].at
      /\ \A s \in Threads \ {t} : tx'[s] = tx[s]
  BY <1>0 DEF Tx
<1>2. ASSUME NEW op
      PROVE  /\ Telling(op)' = IF tx[t].op = op THEN Telling(op) \cup {t} ELSE Telling(op)
             /\ \A s \in Telling(op) : tx'[s] = tx[s]
  BY <1>1 DEF Telling
<1>3. /\ Telling("send")' = IF tx[t].op = "send" THEN Telling("send") \cup {t} ELSE Telling("send")
      /\ Telling("left")' = IF tx[t].op = "left" THEN Telling("left") \cup {t} ELSE Telling("left")
  BY <1>2
<1>4. /\ \A s \in Telling("send") : tx'[s] = tx[s]
      /\ \A s \in Telling("left") : tx'[s] = tx[s]
  BY <1>2
<1> QED
  BY <1>1, <1>3, <1>4 DEF Outbox, Leaving

(* A broadcast takes what it tells from what is to be told; another one of *)
(* the same departure may be left.                                         *)
LEMMA TellingDone ==
  ASSUME Typed, Stamped, NEW t \in Threads, Done(t), tx[t].pc = "notify"
  PROVE  LET x == [room |-> tx[t].room, at |-> tx[t].at] IN
         /\ tx[t].op = "send" => x \in Outbox /\ Outbox' = Outbox \ {x} /\ Leaving' = Leaving
         /\ tx[t].op = "left" => /\ tx[t].room \in Leaving /\ Outbox' = Outbox
                                 /\ Leaving' \in {Leaving, Leaving \ {tx[t].room}}
<1> DEFINE x == [room |-> tx[t].room, at |-> tx[t].at]
<1>0. tx \in [Threads -> Tx] /\ Idle.pc = "idle"
  BY DEF Typed, TypeOK, Idle
<1>1. tx'[t] = Idle /\ \A s \in Threads \ {t} : tx'[s] = tx[s]
  BY <1>0 DEF Done
<1>2. ASSUME NEW op
      PROVE  /\ Telling(op)' = Telling(op) \ {t}
             /\ \A s \in Telling(op) \ {t} : tx'[s] = tx[s]
             /\ t \in Telling(op) <=> tx[t].op = op
  BY <1>0, <1>1 DEF Telling
<1>3. /\ Outbox' = {[room |-> tx[s].room, at |-> tx[s].at] : s \in Telling("send") \ {t}}
      /\ Leaving' = {tx[s].room : s \in Telling("left") \ {t}}
  <2>1. /\ Telling("send")' = Telling("send") \ {t} /\ Telling("left")' = Telling("left") \ {t}
        /\ \A s \in Telling("send") \ {t} : tx'[s] = tx[s]
        /\ \A s \in Telling("left") \ {t} : tx'[s] = tx[s]
    BY <1>2
  <2> QED
    BY <2>1 DEF Outbox, Leaving
<1>4. CASE tx[t].op = "send"
  <2>1. t \in Telling("send") /\ t \notin Telling("left")
    BY <1>4 DEF Telling
  <2>2. ASSUME NEW s \in Telling("send") \ {t} PROVE tx[s].at # tx[t].at
    BY <1>4, <2>1 DEF Stamped, Sends, Telling
  <2>3. Outbox' = Outbox \ {x} /\ x \in Outbox
    BY <1>3, <2>1, <2>2 DEF Outbox
  <2>4. Leaving' = Leaving
    BY <1>3, <2>1 DEF Leaving
  <2> QED
    BY <1>4, <2>3, <2>4
<1>5. CASE tx[t].op = "left"
  <2>1. t \in Telling("left") /\ t \notin Telling("send")
    BY <1>5 DEF Telling
  <2>2. Leaving = Leaving' \cup {tx[t].room}
    BY <1>3, <2>1 DEF Leaving
  <2>3. Outbox' = Outbox
    BY <1>3, <2>1 DEF Outbox
  <2> QED
    BY <1>5, <2>2, <2>3
<1> QED
  BY <1>4, <1>5

-----------------------------------------------------------------------------
(* Steps of MentorChat as steps of RoomTopic                               *)

LEMMA QuietTopic ==
  ASSUME Typed, NEW t \in Threads, Quiet(t)
  PROVE  Topic!Next \/ UNCHANGED TopicVars
<1>1. /\ UNCHANGED <<created, deleted, row, msgs, delivered, wasMentor, wasLeft>>
      /\ tx[t].pc # "notify"
  BY DEF Quiet
<1>2. PICK w : tx' = [tx EXCEPT ![t] = w] /\ w.pc # "notify"
  BY DEF Quiet
<1>3. /\ Existences' = Existences /\ Rolls' = Rolls /\ Logs' = Logs
      /\ Outbox' = Outbox /\ Leaving' = Leaving
  BY <1>1, <1>2, RoomsSame, LogsSame, TellingKept
<1>4. CASE notices' = notices
  BY <1>1, <1>3, <1>4 DEF TopicVars
<1>5. ASSUME NEW r \in Rooms, notices' = notices \cup {<<r, "mentor">>}
      PROVE  Topic!Next
  <2>1. Topic!TellMentorLeaves(r)
    BY <1>1, <1>3, <1>5 DEF Topic!TellMentorLeaves, Existences, Rolls, Logs
  <2> QED
    BY <2>1 DEF Topic!Next
<1> QED
  BY <1>4, <1>5 DEF Quiet

(* The commit of a joining, a departure, a message, or nothing of these.   *)
LEMMA CommitRoomTopic ==
  ASSUME Typed, Origin, Announced, Posting, NEW t \in Threads, CommitRoom(t)
  PROVE  Topic!Next \/ UNCHANGED TopicVars
<1> PICK r \in Rooms : r = tx[t].room
  BY DEF Typed, TypeOK, Tx
<1> DEFINE new == [room |-> r, sender |-> tx[t].user, at |-> tx[t].at]
           img == tx[t].img
           op == tx[t].op
<1>0. /\ tx[t].pc = "write" /\ op # "delete" /\ Holding(t)
      /\ UNCHANGED <<created, deleted, clock, notices, delivered>>
      /\ tx \in [Threads -> Tx] /\ tx[t] \in Tx /\ row \in [Rooms -> Row] /\ Idle.pc = "idle"
  BY CommitRoomDoes DEF Typed, TypeOK, Idle, Holding
<1>1. CASE Done(t) /\ UNCHANGED <<row, msgs, wasMentor, wasLeft>>
  <2>1. Outbox' = Outbox /\ Leaving' = Leaving
    BY <1>0, <1>1, TellingKept DEF Done
  <2> QED
    BY <1>0, <1>1, <2>1, RoomsSame, LogsSame DEF TopicVars
<1>2. CASE /\ r \in Live /\ row' = [row EXCEPT ![r] = img]
           /\ msgs' = IF op = "send" THEN msgs \cup {new} ELSE msgs
           /\ wasMentor' = IF op = "join" THEN wasMentor \cup {<<tx[t].user, r>>} ELSE wasMentor
           /\ wasLeft' = IF op = "left" THEN wasLeft \cup {<<r, "mentee">>}
                         ELSE IF op = "exit" THEN wasLeft \cup {<<r, "mentor">>} ELSE wasLeft
           /\ tx' = [tx EXCEPT ![t] = IF op \in {"left", "send"}
                                        THEN [tx[t] EXCEPT !.pc = "notify"] ELSE Idle]
  <2>1. Existences' = Existences /\ Existences[r] = "open"
    BY <1>0, <1>2 DEF Existences, Existence, Live
  <2>2. \A q \in Rooms : q \in Live => row'[q].mentee = row[q].mentee
    <3>1. img.mentee = row[r].mentee
      BY <1>0, <1>2 DEF Origin, ImageOK
    <3> QED
      BY <1>0, <1>2, <3>1
  <2>3. Live' = Live
    BY <1>0 DEF Live
  <2>4. ASSUME wasMentor' = wasMentor PROVE Rolls' = Rolls
    <3>1. \A q \in Rooms : Members(q)' = Members(q)
      BY <2>2, <2>3, <2>4 DEF Members
    <3> QED
      BY <3>1 DEF Rolls
  <2>5. ASSUME op \notin {"left", "send"} PROVE Outbox' = Outbox /\ Leaving' = Leaving
    BY <1>0, <1>2, <2>5, TellingKept
  <2>6. CASE op = "join"
    <3> PICK u \in Users : u = tx[t].user /\ u \in Mentors \cup Admins
      BY <1>0, <2>6 DEF Posting, Entitled, Typed, ActorKnown
    <3>1. wasMentor' = wasMentor \cup {<<u, r>>}
      BY <1>2, <2>6
    <3>2. /\ Members(r)' = Members(r) \cup {u}
          /\ \A q \in Rooms \ {r} : Members(q)' = Members(q)
      BY <1>2, <2>2, <2>3, <3>1 DEF Members
    <3>3. Rolls' = [Rolls EXCEPT ![r] = @ \cup {u}]
      BY <3>2 DEF Rolls
    <3>4. Logs' = Logs /\ wasLeft' = wasLeft
      BY <1>2, <2>6, LogsSame
    <3>5. Topic!Join(r, u)
      BY <1>0, <2>1, <2>5, <2>6, <3>3, <3>4 DEF Topic!Join, Existences, Rolls, Logs
    <3> QED
      BY <3>5 DEF Topic!Next
  <2>7. CASE op = "send"
    <3> HIDE DEF new
    <3>1. new.room = r /\ new.sender = tx[t].user /\ new.at = tx[t].at
      BY DEF new
    <3>2. Rolls' = Rolls /\ wasLeft' = wasLeft /\ msgs' = msgs \cup {new}
      BY <1>2, <2>4, <2>7
    <3>3. Logs' = [Logs EXCEPT ![r] = @ \cup {new}] /\ new \in Logs'[r]
      BY <3>1, <3>2, LogsGrow
    <3>4. /\ \A m \in msgs : m.at # new.at
          /\ \A n \in delivered : n.at # new.at
          /\ \A s \in Threads \ {t} : Sends(tx[s]) => tx[s].at # new.at
      BY <1>0, <2>7, <3>1 DEF Posting, Stamped, Sends
    <3>5. Topic!IsNew(new)
      BY <3>4, NewSaid
    <3> DEFINE x == [room |-> r, at |-> new.at]
    <3>6. x \notin Outbox \cup delivered
      <4>1. x.at = new.at
        OBVIOUS
      <4>2. \A y \in Outbox : \E s \in Threads \ {t} : Sends(tx[s]) /\ y.at = tx[s].at
        BY <1>0 DEF Outbox, Telling, Sends
      <4> QED
        BY <3>4, <4>1, <4>2
    <3>7. Outbox' = Outbox \cup {x} /\ Leaving' = Leaving
      <4>1. tx' = [tx EXCEPT ![t] = [tx[t] EXCEPT !.pc = "notify"]]
        BY <1>2, <2>7
      <4> QED
        BY <1>0, <2>7, <3>1, <4>1, TellingAdded
    <3>8. new.sender \in Rolls[r]
      <4>1. tx[t].user \in Users
        BY <2>7 DEF Typed, ActorKnown
      <4>2. /\ tx[t].user \in {img.mentee, img.mentor} /\ img.mentee = row[r].mentee
            /\ img.mentor = NoUser \/ <<img.mentor, r>> \in wasMentor
        BY <1>0, <1>2, <2>7 DEF Origin, ImageOK
      <4>3. tx[t].user \in Members(r)
        BY <1>2, <4>1, <4>2, UsersAssumption DEF Members
      <4> QED
        BY <3>1, <4>3 DEF Rolls
    <3>9. Topic!Store(r)
      BY <1>0, <2>1, <3>2, <3>3, <3>5, <3>6, <3>7, <3>8
      DEF Topic!Store, Existences, Rolls, Logs
    <3> QED
      BY <3>9 DEF Topic!Next
  <2>8. CASE op = "left"
    <3>1. Rolls' = Rolls /\ Logs' = Logs /\ wasLeft' = wasLeft \cup {<<r, "mentee">>}
      BY <1>2, <2>4, <2>8, LogsSame
    <3>2. Outbox' = Outbox /\ Leaving' = Leaving \cup {r}
      <4>1. tx' = [tx EXCEPT ![t] = [tx[t] EXCEPT !.pc = "notify"]]
        BY <1>2, <2>8
      <4> QED
        BY <1>0, <2>8, <4>1, TellingAdded
    <3>3. Topic!MenteeLeaves(r)
      BY <1>0, <2>1, <3>1, <3>2 DEF Topic!MenteeLeaves, Existences, Rolls, Logs
    <3> QED
      BY <3>3 DEF Topic!Next
  <2>9. CASE op = "exit"
    <3>1. Rolls' = Rolls /\ Logs' = Logs /\ wasLeft' = wasLeft \cup {<<r, "mentor">>}
      BY <1>2, <2>4, <2>9, LogsSame
    <3>2. <<r, "mentor">> \in notices
      BY <1>0, <2>9 DEF Posting, Entitled, Announced, Told
    <3>3. Topic!MentorLeaves(r)
      BY <1>0, <2>1, <2>5, <2>9, <3>1, <3>2 DEF Topic!MentorLeaves, Existences, Rolls, Logs
    <3> QED
      BY <3>3 DEF Topic!Next
  <2>10. CASE op \notin {"join", "send", "left", "exit"}
    <3>1. Rolls' = Rolls /\ Logs' = Logs /\ wasLeft' = wasLeft
      BY <1>2, <2>4, <2>10, LogsSame
    <3> QED
      BY <1>0, <2>1, <2>5, <2>10, <3>1 DEF TopicVars
  <2> QED
    BY <2>6, <2>7, <2>8, <2>9, <2>10
<1> QED
  BY <1>1, <1>2, CommitRoomDoes

(* The commit of a removal.                                                *)
LEMMA CommitDeleteTopic ==
  ASSUME Typed, NEW t \in Threads, CommitDelete(t)
  PROVE  Topic!Next \/ UNCHANGED TopicVars
<1> PICK r \in Rooms : r = tx[t].room
  BY DEF Typed, TypeOK, Tx
<1>1. /\ tx' = [tx EXCEPT ![t] = Idle] /\ tx[t].pc = "write" /\ Idle.pc = "idle"
      /\ UNCHANGED <<created, delivered, wasMentor, wasLeft, notices>>
      /\ row \in [Rooms -> Row]
  BY DEF CommitDelete, Done, history, Idle, Typed, TypeOK
<1>2. Outbox' = Outbox /\ Leaving' = Leaving
  BY <1>1, TellingKept
<1>3. CASE UNCHANGED <<deleted, row, msgs>>
  BY <1>1, <1>2, <1>3, RoomsSame, LogsSame DEF TopicVars
<1>4. CASE /\ r \in Live /\ deleted' = deleted \cup {r}
           /\ row' = [row EXCEPT ![r] = BlankRow] /\ msgs' = msgs \ MessagesOf(r)
  <2>1. /\ Existence(r) = "open" /\ Existence(r)' = "removed"
        /\ \A q \in Rooms \ {r} : Existence(q)' = Existence(q)
    BY <1>1, <1>4 DEF Existence, Live
  <2>2. Members(r)' = {} /\ \A q \in Rooms \ {r} : Members(q)' = Members(q)
    BY <1>1, <1>4 DEF Members, Live
  <2>3. MessagesOf(r)' = {} /\ \A q \in Rooms \ {r} : MessagesOf(q)' = MessagesOf(q)
    BY <1>4 DEF MessagesOf
  <2>4. /\ Existences[r] = "open" /\ Existences' = [Existences EXCEPT ![r] = "removed"]
        /\ Rolls' = [Rolls EXCEPT ![r] = {}] /\ Logs' = [Logs EXCEPT ![r] = {}]
    BY <2>1, <2>2, <2>3 DEF Existences, Rolls, Logs
  <2>5. Topic!Remove(r)
    BY <1>1, <1>2, <2>4 DEF Topic!Remove, Existences, Rolls, Logs
  <2> QED
    BY <2>5 DEF Topic!Next
<1> QED
  BY <1>3, <1>4 DEF CommitDelete, Cascade

LEMMA BroadcastTopic ==
  ASSUME Typed, Posting, NEW t \in Threads, Broadcast(t)
  PROVE  Topic!Next
<1> PICK r \in Rooms : r = tx[t].room
  BY DEF Typed, TypeOK, Tx
<1> DEFINE x == [room |-> r, at |-> tx[t].at]
<1>1. /\ Done(t) /\ tx[t].pc = "notify"
      /\ UNCHANGED <<created, deleted, row, msgs, wasMentor, wasLeft>>
  BY DEF Broadcast, db
<1>2. Existences' = Existences /\ Rolls' = Rolls /\ Logs' = Logs
  BY <1>1, RoomsSame, LogsSame
<1>3. CASE /\ tx[t].op = "left" /\ notices' = notices \cup {<<r, "mentee">>}
           /\ delivered' = delivered
  <2>1. r \in Leaving /\ Outbox' = Outbox /\ Leaving' \in {Leaving, Leaving \ {r}}
    BY <1>1, <1>3, TellingDone DEF Posting
  <2>2. Topic!TellMenteeLeft(r)
    BY <1>1, <1>2, <1>3, <2>1 DEF Topic!TellMenteeLeft, Existences, Rolls, Logs
  <2> QED
    BY <2>2 DEF Topic!Next
<1>4. CASE /\ tx[t].op = "send" /\ delivered' = delivered \cup {x} /\ notices' = notices
  <2>1. x \in Outbox /\ Outbox' = Outbox \ {x} /\ Leaving' = Leaving
    BY <1>1, <1>4, TellingDone DEF Posting
  <2>2. Topic!Show(x)
    BY <1>1, <1>2, <1>4, <2>1 DEF Topic!Show, Existences, Rolls, Logs
  <2> QED
    BY <2>1, <2>2 DEF Topic!Next
<1> QED
  BY <1>3, <1>4 DEF Broadcast

LEMMA CreateTopic ==
  ASSUME Typed, Origin, Posting, NEW u \in Users, NEW r \in Rooms, CreateMenteeChatRoom(u, r)
  PROVE  Topic!Next
<1> DEFINE new == [room |-> r, sender |-> u, at |-> clock]
<1>1. /\ r \notin created /\ r \notin deleted /\ created' = created \cup {r}
      /\ UNCHANGED <<deleted, tx, delivered, wasMentor, wasLeft, notices>>
      /\ row' = [row EXCEPT ![r] = [BlankRow EXCEPT !.mentee = u, !.menteeLastAt = clock + 1]]
      /\ msgs' = msgs \cup {new} /\ row \in [Rooms -> Row]
  BY DEF CreateMenteeChatRoom, history, Typed, TypeOK
<1>2. row'[r].mentee = u /\ \A q \in Rooms \ {r} : row'[q] = row[q]
  BY <1>1 DEF BlankRow
<1>3. new.room = r /\ new.sender = u /\ new.at = clock
  OBVIOUS
<1> HIDE DEF new
<1>4. /\ Existence(r) = "none" /\ Existence(r)' = "open"
      /\ \A q \in Rooms \ {r} : Existence(q)' = Existence(q)
  BY <1>1 DEF Existence
<1>5. Members(r)' = {u} /\ \A q \in Rooms \ {r} : Members(q)' = Members(q)
  <2>1. \A v \in Users : <<v, r>> \notin wasMentor
    BY <1>1 DEF Posting
  <2> QED
    BY <1>1, <1>2, <2>1 DEF Members, Live
<1>6. /\ Existences[r] = "none" /\ Existences' = [Existences EXCEPT ![r] = "open"]
      /\ Rolls' = [Rolls EXCEPT ![r] = {u}]
  BY <1>4, <1>5 DEF Existences, Rolls
<1>7. Logs' = [Logs EXCEPT ![r] = {new}] /\ new \in Logs'[r]
  <2>1. Logs[r] = {}
    BY <1>1 DEF Origin, MessageOK, Live, Logs, MessagesOf
  <2>2. Logs' = [Logs EXCEPT ![r] = @ \cup {new}] /\ new \in Logs'[r]
    BY <1>1, <1>3, LogsGrow
  <2> QED
    BY <2>1, <2>2
<1>8. Topic!IsNew(new)
  <2>1. \A m \in msgs : m.at # new.at
    BY <1>3 DEF Posting, Stamped, Typed, TypeOK, Message
  <2> QED
    BY <2>1, NewSaid
<1>9. Outbox' = Outbox /\ Leaving' = Leaving
  BY <1>1 DEF Outbox, Leaving, Telling
<1>10. Topic!Open(r, u)
  BY <1>1, <1>3, <1>6, <1>7, <1>8, <1>9 DEF Topic!Open, Existences, Rolls, Logs
<1> QED
  BY <1>10 DEF Topic!Next

(* However handlers overlap, fail or are cut off, the history of a room    *)
(* and its topic keep what RoomTopic promises: only members write, what is *)
(* shown was stored and is shown once, departures are told of as they are, *)
(* and a room goes with its messages (sendMessage, closeChatRoom,          *)
(* deleteMenteeChatRoom, joinMentorChatRoom).                              *)
THEOREM KeepsTopic == Spec => TopicSpec
<1>1. Init => Topic!Init
  <2> SUFFICES ASSUME Init PROVE Topic!Init
    OBVIOUS
  <2>1. Telling("send") = {} /\ Telling("left") = {}
    BY DEF Init, Telling, Idle
  <2> QED
    BY <2>1 DEF Init, Topic!Init, Existence, Members, Live, MessagesOf, Outbox, Leaving
<1>2. Init => Posting
  BY DEF Init, Posting, Stamped, Sends, Entitled, Idle
<1>3. ASSUME Typed, Origin, Announced, Posting, [Next]_vars
      PROVE  Topic!Next \/ UNCHANGED TopicVars
  <2>1. CASE UNCHANGED <<created, deleted, row, msgs, wasMentor, tx, delivered, wasLeft, notices>>
    BY <2>1, RoomsSame, LogsSame DEF TopicVars, Outbox, Leaving, Telling
  <2>2. CASE UNCHANGED vars \/ \E u \in Users, r \in Rooms : Connect(u, r)
    BY <2>1, <2>2 DEF vars, db, history, Connect
  <2>3. ASSUME NEW u \in Users, NEW r \in Rooms, CreateMenteeChatRoom(u, r)
        PROVE  Topic!Next
    BY <1>3, <2>3, CreateTopic
  <2>4. ASSUME NEW t \in Threads, Request(t) \/ Proceed(t) \/ DeadlockVictim(t)
        PROVE  Topic!Next \/ UNCHANGED TopicVars
    BY <1>3, <2>4, RequestQuiet, LoadQuiet, QuietTopic, CommitRoomTopic, CommitDeleteTopic,
       BroadcastTopic DEF Proceed
  <2>5. CASE Crash
    <3>1. /\ UNCHANGED <<created, deleted, row, msgs, wasMentor, delivered, wasLeft, notices>>
          /\ tx' = [t \in Threads |-> Idle] /\ Idle.pc = "idle"
      BY <2>5 DEF Crash, db, history, Idle
    <3>2. Telling("send")' = {} /\ Telling("left")' = {}
      BY <3>1 DEF Telling
    <3>3. Outbox' = {} /\ Leaving' = {}
      BY <3>2 DEF Outbox, Leaving
    <3>4. Topic!Stop
      BY <3>1, <3>3, RoomsSame, LogsSame DEF Topic!Stop, Existences, Rolls, Logs
    <3> QED
      BY <3>4 DEF Topic!Next
  <2> QED
    BY <1>3, <2>2, <2>3, <2>4, <2>5 DEF Next
<1>4. Typed /\ Origin /\ Announced /\ Posting /\ [Next]_vars => [Topic!Next]_Topic!vars
  BY <1>3 DEF Topic!vars, TopicVars, Existences, Rolls, Logs
<1>5. Typed /\ Posting /\ [Next]_vars => Posting'
  BY NextPosts
<1> QED
  BY <1>1, <1>2, <1>4, <1>5, InitTyped, NextTyped, InitOrigin, NextOrigin, AlwaysAnnounced, PTL
  DEF Spec, TopicSpec, Topic!Spec
=============================================================================

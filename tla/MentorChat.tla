----------------------------- MODULE MentorChat -----------------------------
(***************************************************************************)
(* The mentor chat: rooms a mentee opens, that a mentor joins, in which    *)
(* both exchange messages over STOMP, and that one of them closes.         *)
(*                                                                         *)
(* Every request or frame is served by a thread.  A handler is split where *)
(* another thread can get in between: the arrival of a frame, the read     *)
(* that loads the room, the insert of a message, the commit, the           *)
(* broadcast.  What a handler does between two such points is one action.  *)
(*                                                                         *)
(* The database is the one the application is deployed on (MySQL, InnoDB,  *)
(* REPEATABLE READ) as Hibernate uses it: MentorChatRoom has no @Version   *)
(* and no @DynamicUpdate, so the commit of a transaction that changed a    *)
(* room writes EVERY column of the row, with the values it had loaded;     *)
(* inserting a message takes a shared lock on the room it refers to; a     *)
(* transaction that would wait in a cycle of locks is rolled back.         *)
(***************************************************************************)
EXTENDS Naturals

CONSTANTS
  Users,      \* registered users
  Mentors,    \* those with role MENTOR
  Admins,     \* those with role ADMIN
  Rooms,      \* ids a chat room may be given
  Threads,    \* server threads; one is set aside for a frame when it arrives
  NoUser,     \* null in the column mentor_id
  MaxRequests, \* bound: requests and frames handled in a run
  Crashes     \* whether the server may crash and restart

ASSUME UsersAssumption ==
  /\ Mentors \subseteq Users
  /\ Admins \subseteq Users
  /\ NoUser \notin Users
  /\ Users # {} /\ Rooms # {}
ASSUME BoundsAssumption == MaxRequests \in Nat /\ Crashes \in BOOLEAN

VARIABLES
  created,   \* rooms whose row was inserted at some time
  deleted,   \* those whose row is gone again
  row,       \* the row of each room
  msgs,      \* committed messages
  clock,     \* the time, in messages inserted so far
  conn,      \* open STOMP sessions, by user and room
  tx,        \* what each thread is doing
  requests,  \* requests and frames handled so far
  notices,   \* "left" notices broadcast so far
  delivered, \* chat messages broadcast so far
  missed,    \* messages broadcast while the mentee was offline, as she is since
  wasMentor, \* users that were at some time the mentor of a room
  wasLeft    \* departures committed so far

db      == <<created, deleted, row, msgs>>
history == <<notices, delivered, missed, wasMentor, wasLeft>>
vars    == <<db, clock, conn, tx, requests, history>>

-----------------------------------------------------------------------------
Side == {"mentee", "mentor"}

(* The columns that handlers decide on.  Of the two columns that unread    *)
(* counts are taken against, menteeLastAt stands for both.                 *)
Row == [mentee : Users, mentor : Users \cup {NoUser},
        menteeLeft : BOOLEAN, mentorLeft : BOOLEAN, menteeLastAt : Nat]

Message == [room : Rooms, sender : Users, at : Nat]

Op == {"none", "join", "left", "delete", "exit", "send", "disconnect"}
Pc == {"idle", "load", "insert", "write", "notify"}

(* A thread's handler: img is the loaded room as the handler has changed   *)
(* it, that is, the row its commit will write; at is the createdAt of the  *)
(* message it inserted; known are the messages loaded with the room.       *)
Tx == [op : Op, pc : Pc, user : Users \cup {NoUser}, room : Rooms,
       img : Row, at : Nat, known : SUBSET Nat]

AnyRoom == CHOOSE r \in Rooms : TRUE
AnyUser == CHOOSE u \in Users : TRUE
BlankRow == [mentee |-> AnyUser, mentor |-> NoUser,
             menteeLeft |-> FALSE, mentorLeft |-> FALSE, menteeLastAt |-> 0]
Idle == [op |-> "none", pc |-> "idle", user |-> NoUser, room |-> AnyRoom,
         img |-> BlankRow, at |-> 0, known |-> {}]

Live == created \ deleted
MessagesOf(r) == {m \in msgs : m.room = r}
Participants(rec) == {rec.mentee, rec.mentor} \ {NoUser}

(* A definition with an underscore in its name is a plausible mistake in   *)
(* the one below it, kept to confirm that some property notices it.        *)

(* "The chat room is read-only" once a side has left.                      *)
Writable_MentorForgotten(rec) == ~rec.menteeLeft
Writable(rec) == ~rec.menteeLeft /\ ~rec.mentorLeft

(* setSolved.                                                              *)
Solved_MentorDropped(rec) == [rec EXCEPT !.mentorLeft = TRUE, !.mentor = NoUser]
Solved_MenteeDropped(rec) == [rec EXCEPT !.mentorLeft = TRUE, !.mentee = NoUser]
Solved(rec) == [rec EXCEPT !.mentorLeft = TRUE]

(* updateLastAt stamps the sender's own column, the mentor's first; a      *)
(* sender who is neither makes it throw.                                   *)
MaySend_Anyone(rec, u) == TRUE
MaySend(rec, u) == u \in Participants(rec)
UpdateLastAt(rec, u, now) ==
  IF rec.mentor = u THEN rec ELSE [rec EXCEPT !.menteeLastAt = now]

(* The disconnect listener looks at the mentee first.                      *)
StampDisconnect_OneColumn(rec, u, now) == [rec EXCEPT !.menteeLastAt = now]
StampDisconnect(rec, u, now) ==
  IF rec.mentee = u THEN [rec EXCEPT !.menteeLastAt = now] ELSE rec

(* The messages that go with a room: CascadeType.REMOVE.                   *)
Cascade_None(r) == {}
Cascade(r) == MessagesOf(r)

(* Handlers that broadcast once their transaction is committed.            *)
Announces_SendOnly(op) == op = "send"
Announces(op) == op \in {"left", "send"}

(* Thread t has loaded room r in a transaction (or as a detached entity)   *)
(* whose commit will write the row back.                                   *)
Holds(t, r) ==
  tx[t].room = r /\ tx[t].pc \in {"insert", "write"} /\ tx[t].op # "delete"

(* Thread t has inserted a message for room r and not committed: it holds  *)
(* a shared lock on the row of the room.                                   *)
Inserted(t, r) == tx[t].room = r /\ tx[t].op = "send" /\ tx[t].pc = "write"

(* The exclusive lock a commit needs on the row of room r.                 *)
CanLock(t, r) == \A s \in Threads \ {t} : ~Inserted(s, r)

(* Idle thread t takes a request up.                                       *)
Begin(t, work) ==
  /\ requests < MaxRequests /\ requests' = requests + 1
  /\ tx[t] = Idle /\ tx' = [tx EXCEPT ![t] = work]
Work(op, pc, u, r, img) ==
  [op |-> op, pc |-> pc, user |-> u, room |-> r, img |-> img, at |-> 0, known |-> {}]
Done(t) == tx' = [tx EXCEPT ![t] = Idle]

-----------------------------------------------------------------------------
Init ==
  /\ created = {} /\ deleted = {}
  /\ row = [r \in Rooms |-> BlankRow]
  /\ msgs = {} /\ clock = 0 /\ conn = {} /\ requests = 0
  /\ tx = [t \in Threads |-> Idle]
  /\ notices = {} /\ delivered = {} /\ missed = {}
  /\ wasMentor = {} /\ wasLeft = {}

(* POST /mentee/room.  Nobody knows the id of the room before the commit,  *)
(* so the handler is one step: the room and its first message, the         *)
(* mentee's question.                                                      *)
CreateMenteeChatRoom(u, r) ==
  /\ r \notin created
  /\ created' = created \cup {r}
  /\ row' = [row EXCEPT ![r] = [BlankRow EXCEPT !.mentee = u,
                                                !.menteeLastAt = clock + 1]]
  /\ msgs' = msgs \cup {[room |-> r, sender |-> u, at |-> clock]}
  /\ clock' = clock + 1
  /\ UNCHANGED <<deleted, conn, tx, requests, history>>

(* PUT /mentor/room/join: findByIdAndMenteeLeftFalse, then joinMentor.     *)
JoinMentorChatRoom(t, u, r) ==
  /\ u \in Mentors \cup Admins
  /\ r \in Live /\ ~row[r].menteeLeft
  /\ Begin(t, Work("join", "write", u, r, [row[r] EXCEPT !.mentor = u]))
  /\ UNCHANGED <<db, clock, conn, history>>

(* getMenteeChatRoom: the room, for its mentee, who has not left it.       *)
GetMenteeChatRoom(u, r) ==
  r \in Live /\ ~row[r].menteeLeft /\ row[r].mentee = u

(* DELETE /mentee/room: the mentee leaves.                                 *)
MenteeLeftChatRoom_NoticeFirst(t, u, r) ==
  /\ GetMenteeChatRoom(u, r)
  /\ notices' = notices \cup {<<r, "mentee">>}
  /\ Begin(t, Work("left", "write", u, r, [row[r] EXCEPT !.menteeLeft = TRUE]))
  /\ UNCHANGED <<db, clock, conn, delivered, missed, wasMentor, wasLeft>>

MenteeLeftChatRoom(t, u, r) ==
  /\ GetMenteeChatRoom(u, r)
  /\ Begin(t, Work("left", "write", u, r, [row[r] EXCEPT !.menteeLeft = TRUE]))
  /\ UNCHANGED <<db, clock, conn, history>>

(* DELETE /mentee/room?movedToAI=true: the room is removed, and with it    *)
(* the messages that are loaded now.                                       *)
DeleteMenteeChatRoom(t, u, r) ==
  /\ GetMenteeChatRoom(u, r)
  /\ Begin(t, [Work("delete", "write", u, r, BlankRow)
                 EXCEPT !.known = {m.at : m \in MessagesOf(r)}])
  /\ UNCHANGED <<db, clock, conn, history>>

(* PUT /mentor/room/exit: the notice goes out, then setSolved is called.   *)
(* No room is loaded yet: the path may hold any id, of a room that is gone *)
(* or was never made; that u is the mentor of the room is never checked.   *)
CloseChatRoom_NoNotice(t, u, r) ==
  /\ u \in Mentors \cup Admins
  /\ Begin(t, Work("exit", "load", NoUser, r, BlankRow))
  /\ UNCHANGED <<db, clock, conn, history>>

CloseChatRoom(t, u, r) ==
  /\ u \in Mentors \cup Admins
  /\ notices' = notices \cup {<<r, "mentor">>}
  /\ Begin(t, Work("exit", "load", NoUser, r, BlankRow))
  /\ UNCHANGED <<db, clock, conn, delivered, missed, wasMentor, wasLeft>>

(* setSolved; a room that is not there ends the handler with an exception, *)
(* and one whose mentor has left already is not changed, so not written.   *)
SetSolved(t) ==
  LET r == tx[t].room IN
  /\ tx[t].op = "exit" /\ tx[t].pc = "load"
  /\ \/ /\ r \in Live /\ ~row[r].mentorLeft
        /\ tx' = [tx EXCEPT ![t].pc = "write", ![t].img = Solved(row[r])]
     \/ (r \in Live => row[r].mentorLeft) /\ Done(t)
  /\ UNCHANGED <<db, clock, conn, requests, history>>

-----------------------------------------------------------------------------
(* A CONNECT frame that the interceptor lets through: the room exists and  *)
(* the user is an admin, its mentee or its mentor.  A session for a room   *)
(* whose mentor column is null is refused to everyone but the mentee.      *)
Connect(u, r) ==
  /\ r \in Live /\ <<u, r>> \notin conn
  /\ u \in Admins \cup Participants(row[r])
  /\ conn' = conn \cup {<<u, r>>}
  /\ missed' = {x \in missed : x.room = r => u # row[r].mentee}
  /\ UNCHANGED <<db, clock, tx, requests, notices, delivered, wasMentor, wasLeft>>

(* A SEND frame of an open session, for the session's own room, arrives.   *)
(* It then waits for a thread of the inbound pool; the session may be gone *)
(* by the time it is handled, and nobody looks again.                      *)
PreSend(t, u, r) ==
  /\ <<u, r>> \in conn
  /\ Begin(t, Work("send", "load", u, r, BlankRow))
  /\ UNCHANGED <<db, clock, conn, history>>

(* The room is loaded; it must be there and not be left.                   *)
SaveMentorChatMessage(t) ==
  LET r == tx[t].room
      open == r \in Live /\ Writable(row[r])
  IN
  /\ tx[t].op = "send" /\ tx[t].pc = "load"
  /\ \/ open /\ tx' = [tx EXCEPT ![t].pc = "insert", ![t].img = row[r]]
     \/ ~open /\ Done(t)
  /\ UNCHANGED <<db, clock, conn, requests, history>>

(* The message is inserted, which fails when the room is gone, and then    *)
(* updateLastAt throws, which rolls the insert back, for a sender who is   *)
(* neither the mentee nor the mentor in the room as it was loaded.         *)
InsertMessage_Broadcast(t) ==
  LET r == tx[t].room
      accepted == r \in Live /\ MaySend(tx[t].img, tx[t].user)
  IN
  /\ tx[t].op = "send" /\ tx[t].pc = "insert" /\ accepted
  /\ clock' = clock + 1
  /\ delivered' = delivered \cup {[room |-> r, at |-> clock]}
  /\ tx' = [tx EXCEPT ![t].pc = "write", ![t].at = clock]
  /\ UNCHANGED <<db, conn, requests, notices, missed, wasMentor, wasLeft>>

InsertMessage(t) ==
  LET r == tx[t].room
      u == tx[t].user
      accepted == r \in Live /\ MaySend(tx[t].img, u)
  IN
  /\ tx[t].op = "send" /\ tx[t].pc = "insert"
  /\ \/ /\ accepted
        /\ clock' = clock + 1
        /\ tx' = [tx EXCEPT ![t].pc = "write", ![t].at = clock,
                            ![t].img = UpdateLastAt(@, u, clock + 1)]
     \/ ~accepted /\ Done(t) /\ UNCHANGED clock
  /\ UNCHANGED <<db, conn, requests, history>>

(* The session of user u in room r is gone; the listener loads the room in *)
(* a transaction of its own and stamps the user's column.                  *)
HandlerSessionDisconnect(t, u, r) ==
  /\ <<u, r>> \in conn
  /\ conn' = conn \ {<<u, r>>}
  /\ Begin(t, Work("disconnect", "load", u, r, BlankRow))
  /\ UNCHANGED <<db, clock, history>>

(* A user who is the mentee, else the mentor, has the column stamped; the  *)
(* detached room is then saved.  Anyone else's session changes nothing.    *)
StampLastAt(t) ==
  LET r == tx[t].room
      u == tx[t].user
      concerned == r \in Live /\ u \in Participants(row[r])
  IN
  /\ tx[t].op = "disconnect" /\ tx[t].pc = "load"
  /\ \/ /\ concerned
        /\ tx' = [tx EXCEPT ![t].pc = "write",
                            ![t].img = StampDisconnect(row[r], u, clock)]
     \/ ~concerned /\ Done(t)
  /\ UNCHANGED <<db, clock, conn, requests, history>>

-----------------------------------------------------------------------------
(* The commit of every handler but the removal: the whole row is written,  *)
(* whatever it holds by now.  A row that is gone fails the handler (no row *)
(* updated, or merge of a room that is not there).                         *)
CommitRoom(t) ==
  LET r == tx[t].room
      op == tx[t].op
      img == tx[t].img
  IN
  /\ tx[t].pc = "write" /\ op # "delete" /\ CanLock(t, r)
  /\ \/ /\ r \in Live
        /\ row' = [row EXCEPT ![r] = img]
        /\ msgs' = IF op = "send"
                     THEN msgs \cup {[room |-> r, sender |-> tx[t].user, at |-> tx[t].at]}
                     ELSE msgs
        /\ wasMentor' = IF op = "join" THEN wasMentor \cup {<<tx[t].user, r>>} ELSE wasMentor
        /\ wasLeft' = CASE op = "left" -> wasLeft \cup {<<r, "mentee">>}
                        [] op = "exit" -> wasLeft \cup {<<r, "mentor">>}
                        [] OTHER -> wasLeft
        /\ IF Announces(op) THEN tx' = [tx EXCEPT ![t].pc = "notify"] ELSE Done(t)
     \/ r \notin Live /\ Done(t) /\ UNCHANGED <<row, msgs, wasMentor, wasLeft>>
  /\ UNCHANGED <<created, deleted, clock, conn, requests, notices, delivered, missed>>

(* The commit of the removal: the messages loaded with the room, then the  *)
(* room.  A message committed since makes the foreign key refuse it.       *)
CommitDelete(t) ==
  LET r == tx[t].room
      removable == r \in Live /\ {m.at : m \in MessagesOf(r)} \subseteq tx[t].known
  IN
  /\ tx[t].pc = "write" /\ tx[t].op = "delete" /\ CanLock(t, r)
  /\ \/ /\ removable
        /\ deleted' = deleted \cup {r}
        /\ row' = [row EXCEPT ![r] = BlankRow]
        /\ msgs' = msgs \ Cascade(r)
     \/ ~removable /\ UNCHANGED <<deleted, row, msgs>>
  /\ Done(t)
  /\ UNCHANGED <<created, clock, conn, requests, history>>

(* After the commit the message or the notice goes to the topic of the     *)
(* room, and to those who have a session in it.                            *)
Broadcast(t) ==
  LET r == tx[t].room
      mentee == row[r].mentee
  IN
  /\ tx[t].pc = "notify"
  /\ \/ /\ tx[t].op = "left"
        /\ notices' = notices \cup {<<r, "mentee">>}
        /\ UNCHANGED <<delivered, missed>>
     \/ /\ tx[t].op = "send"
        /\ delivered' = delivered \cup {[room |-> r, at |-> tx[t].at]}
        /\ missed' = IF r \in Live /\ mentee # tx[t].user /\ <<mentee, r>> \notin conn
                       THEN missed \cup {[room |-> r, at |-> tx[t].at]}
                       ELSE missed
        /\ UNCHANGED notices
  /\ Done(t)
  /\ UNCHANGED <<db, clock, conn, requests, wasMentor, wasLeft>>

(* Two transactions that need each other's lock on a room: one of them has *)
(* inserted a message, both want to write the row.  The database rolls one *)
(* back and its handler ends with an exception.                            *)
DeadlockVictim_Undetected(t) == FALSE /\ UNCHANGED vars

DeadlockVictim(t) ==
  LET r == tx[t].room IN
  /\ tx[t].pc = "write"
  /\ \E s \in Threads \ {t} :
       /\ tx[s].pc = "write" /\ tx[s].room = r
       /\ Inserted(s, r) \/ Inserted(t, r)
  /\ Done(t)
  /\ UNCHANGED <<db, clock, conn, requests, history>>

(* The server stops and starts again: open transactions are rolled back,   *)
(* sessions are gone without a disconnect handler, broadcasts are lost.    *)
Crash ==
  /\ Crashes
  /\ tx' = [t \in Threads |-> Idle]
  /\ conn' = {}
  /\ UNCHANGED <<db, clock, requests, history>>

-----------------------------------------------------------------------------
Request(t) == \E u \in Users, r \in Rooms :
  \/ JoinMentorChatRoom(t, u, r)
  \/ MenteeLeftChatRoom(t, u, r)
  \/ DeleteMenteeChatRoom(t, u, r)
  \/ CloseChatRoom(t, u, r)
  \/ PreSend(t, u, r)
  \/ HandlerSessionDisconnect(t, u, r)

Proceed(t) ==
  \/ SetSolved(t)
  \/ SaveMentorChatMessage(t)
  \/ InsertMessage(t)
  \/ StampLastAt(t)
  \/ CommitRoom(t)
  \/ CommitDelete(t)
  \/ Broadcast(t)

Next ==
  \/ \E u \in Users, r \in Rooms : CreateMenteeChatRoom(u, r) \/ Connect(u, r)
  \/ \E t \in Threads : Request(t) \/ Proceed(t) \/ DeadlockVictim(t)
  \/ Crash

(* A thread that serves a handler goes on with it, and the database breaks *)
(* lock cycles; users need not do anything.                                *)
Fairness == \A t \in Threads : WF_vars(Proceed(t)) /\ WF_vars(DeadlockVictim(t))

Spec == Init /\ [][Next]_vars
FairSpec == Spec /\ Fairness

-----------------------------------------------------------------------------
(* The state has the shape the columns and the handlers give it.           *)
TypeOK ==
  /\ created \subseteq Rooms /\ deleted \subseteq created
  /\ row \in [Rooms -> Row]
  /\ msgs \subseteq Message /\ clock \in Nat /\ requests \in Nat
  /\ conn \subseteq Users \X Rooms
  /\ tx \in [Threads -> Tx]
  /\ notices \subseteq Rooms \X Side /\ delivered \subseteq [room : Rooms, at : Nat]
  /\ missed \subseteq [room : Rooms, at : Nat]
  /\ wasMentor \subseteq Users \X Rooms /\ wasLeft \subseteq Rooms \X Side

(* Whatever is replaced, left or removed while a frame waits for its       *)
(* thread, a message in the history of a room is by its mentee or by a     *)
(* user whose joining of that room was committed.                          *)
SenderWasParticipant ==
  \A m \in msgs : m.sender = row[m.room].mentee \/ <<m.sender, m.room>> \in wasMentor

(* The messages of a room are removed with it, those included that were    *)
(* being sent when the removal began (deleteMenteeChatRoom, the cascade).  *)
NoOrphanMessage == \A m \in msgs : m.room \in Live

(* Nobody is shown a message that the history does not hold: a message is  *)
(* broadcast after its commit (sendMessage), and then stays in the history *)
(* as long as its room does.                                               *)
BroadcastPersisted ==
  \A n \in delivered : n.room \in deleted \/ \E m \in MessagesOf(n.room) : m.at = n.at

(* A room that says its mentor left has told so to its topic: the notice   *)
(* precedes setSolved in closeChatRoom.                                    *)
MentorLeftAnnounced ==
  \A r \in created : row[r].mentorLeft => <<r, "mentor">> \in notices

(* A notice that the mentee left is never sent for a departure that was    *)
(* not committed (deleteMenteeChatRoom in the controller).                 *)
MenteeNoticeCommitted ==
  \A r \in Rooms : <<r, "mentee">> \in notices => <<r, "mentee">> \in wasLeft

(* Once a flag is set and every handler that holds the room has it set,    *)
(* the room is closed for good: no message is added, no flag is cleared.   *)
(* What can undo a departure is only a handler that loaded the room before *)
(* the departure was committed.                                            *)
Left(rec, side) == IF side = "mentee" THEN rec.menteeLeft ELSE rec.mentorLeft

ClosedFor(r, side) ==
  /\ r \in Live /\ Left(row[r], side)
  /\ \A t \in Threads : Holds(t, r) => Left(tx[t].img, side)

ClosedSettles ==
  [][\A r \in Rooms, side \in Side :
       ClosedFor(r, side) /\ r \in Live' =>
         ClosedFor(r, side)' /\ MessagesOf(r)' = MessagesOf(r)]_vars

(* Once a room has a mentor and every handler that holds it has one, it    *)
(* has a mentor for good and is not offered to mentors any more            *)
(* (findByMentorNullAndMenteeLeftFalse, the waiting list).                 *)
Matched(r) ==
  /\ r \in Live /\ row[r].mentor # NoUser
  /\ \A t \in Threads : Holds(t, r) => tx[t].img.mentor # NoUser

MatchSettles == [][\A r \in Rooms : Matched(r) /\ r \in Live' => Matched(r)']_vars

(* A message that the absent mentee missed and that counts as unread stays *)
(* unread until she is back, whatever the mentor and the mentor's sessions *)
(* do, once no frame and no disconnection of her own is being handled.     *)
CountsAsUnread(x) ==
  /\ x \in missed /\ x.room \in Live /\ x.at >= row[x.room].menteeLastAt
  /\ \A t \in Threads :
       /\ Holds(t, x.room) => x.at >= tx[t].img.menteeLastAt
       /\ tx[t].op \in {"send", "disconnect"} /\ tx[t].room = x.room
            => tx[t].user # row[x.room].mentee

UnreadSettles ==
  [][\A x \in missed :
       CountsAsUnread(x) /\ x \in missed' /\ x.room \in Live' => CountsAsUnread(x)']_vars

(* Every handler ends: transactions never wait for each other for ever,    *)
(* though every commit needs a lock that an insert of another may hold.    *)
HandlersFinish == \A t \in Threads : tx[t].pc # "idle" ~> tx[t].pc = "idle"

(* The topic is told of every departure of a mentee, unless the server     *)
(* crashes between the commit and the broadcast.                           *)
MenteeLeaveAnnounced ==
  \A r \in Rooms : <<r, "mentee">> \in wasLeft ~> <<r, "mentee">> \in notices

-----------------------------------------------------------------------------
(* Handlers that are served one after the other implement the lifecycle    *)
(* that users are shown.  Concurrent ones do not: see below.               *)
Phase(r) ==
  CASE r \notin created -> "none"
    [] r \in deleted -> "removed"
    [] r \in Live /\ ~row[r].menteeLeft /\ ~row[r].mentorLeft -> "open"
    [] OTHER -> "closed"

Lifecycle == INSTANCE RoomLifecycle WITH
  phase <- [r \in Rooms |-> Phase(r)],
  waiting <- {r \in Live : row[r].mentor = NoUser /\ ~row[r].menteeLeft},
  log <- [r \in Rooms |-> MessagesOf(r)]

LifecycleSpec == Lifecycle!Spec

-----------------------------------------------------------------------------
(* Handlers that overlap, fail or are cut off keep what RoomTopic promises *)
(* of the history of a room and of its topic.                              *)
Existence(r) ==
  IF r \notin created THEN "none" ELSE IF r \in deleted THEN "removed" ELSE "open"
Members(r) ==
  {u \in Users : r \in Live /\ (u = row[r].mentee \/ <<u, r>> \in wasMentor)}
Telling(op) == {t \in Threads : tx[t].pc = "notify" /\ tx[t].op = op}
Outbox == {[room |-> tx[t].room, at |-> tx[t].at] : t \in Telling("send")}
Leaving == {tx[t].room : t \in Telling("left")}

Topic == INSTANCE RoomTopic WITH
  Staff <- Mentors \cup Admins,
  phase <- [r \in Rooms |-> Existence(r)],
  members <- [r \in Rooms |-> Members(r)],
  log <- [r \in Rooms |-> MessagesOf(r)],
  outbox <- Outbox, shown <- delivered,
  leaving <- Leaving, departed <- wasLeft, told <- notices

TopicSpec == Topic!Spec

-----------------------------------------------------------------------------
(* What the program says of itself and does not keep.                      *)

(* Who leaves has left: the departure of a participant is not undone.      *)
DepartureKept ==
  \A r \in Live, s \in Side : <<r, s>> \in wasLeft => Left(row[r], s)

(* One mentee, one mentor: a room that has a mentor is not given another.  *)
OneMentor ==
  \A u, v \in Users, r \in Rooms :
    <<u, r>> \in wasMentor /\ <<v, r>> \in wasMentor => u = v
=============================================================================

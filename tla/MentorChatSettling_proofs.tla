---------------------- MODULE MentorChatSettling_proofs ----------------------
(***************************************************************************)
(* What a handler can undo: only what was committed after it had loaded    *)
(* the room.  When every handler that holds the room has seen a departure  *)
(* or a match, it stays.                                                   *)
(***************************************************************************)
EXTENDS MentorChat_proofs

Fact == Side \cup {"matched"}

(* Fact f is in a row: a side has left, or there is a mentor.              *)
Has(rec, f) == IF f = "matched" THEN rec.mentor # NoUser ELSE Left(rec, f)

Settled(r, f) ==
  /\ r \in Live /\ Has(row[r], f)
  /\ \A t \in Threads : Holds(t, r) => Has(tx[t].img, f)

(* A frame whose handler holds the room loaded it while it was open.       *)
SentWhileOpen ==
  \A t \in Threads :
    tx[t].op = "send" /\ tx[t].pc \in {"insert", "write"} => Writable(tx[t].img)

(* What handlers make of a loaded room keeps its facts.                    *)
LEMMA HasKept ==
  ASSUME NEW rec \in Row, NEW u \in Users, NEW f \in Fact, Has(rec, f)
  PROVE  /\ Has([rec EXCEPT !.mentor = u], f)
         /\ Has([rec EXCEPT !.menteeLeft = TRUE], f)
         /\ Has(Solved(rec), f)
         /\ \A v, n : Has(UpdateLastAt(rec, v, n), f) /\ Has(StampDisconnect(rec, v, n), f)
BY UsersAssumption DEF Row, Has, Left, Fact, Side, Solved, UpdateLastAt, StampDisconnect

(* A step that writes no row, only what thread t works at.                 *)
LEMMA SettledFrame ==
  ASSUME NEW r \in Rooms, NEW f \in Fact, Settled(r, f), NEW t \in Threads, UNCHANGED db,
         \A s \in Threads \ {t} : tx'[s] = tx[s],
         Holds(t, r)' => Has(tx'[t].img, f)
  PROVE  Settled(r, f)'
<1>1. row' = row /\ created' = created /\ deleted' = deleted
  BY DEF db
<1>2. \A s \in Threads \ {t} : (Holds(s, r)' => Holds(s, r)) /\ tx'[s] = tx[s]
  BY DEF Holds
<1> QED
  BY <1>1, <1>2 DEF Settled, Live

LEMMA SettledDone ==
  ASSUME Typed, NEW r \in Rooms, NEW f \in Fact, Settled(r, f), NEW t \in Threads, UNCHANGED db,
         Done(t)
  PROVE  Settled(r, f)'
<1>1. ~Holds(t, r)' /\ \A s \in Threads \ {t} : tx'[s] = tx[s]
  BY DEF Done, Holds, Idle, Typed, TypeOK
<1> QED
  BY <1>1, SettledFrame

LEMMA SettledBegin ==
  ASSUME Typed, NEW r \in Rooms, NEW f \in Fact, Settled(r, f), NEW t \in Threads, UNCHANGED db,
         NEW w, Begin(t, w),
         /\ w.room = r /\ w.pc \in {"insert", "write"} /\ w.op # "delete" => Has(w.img, f)
  PROVE  Settled(r, f)'
<1>1. tx'[t] = w /\ \A s \in Threads \ {t} : tx'[s] = tx[s]
  BY DEF Begin, Typed, TypeOK
<1>2. Holds(t, r)' => Has(tx'[t].img, f)
  BY <1>1 DEF Holds
<1> QED
  BY <1>1, <1>2, SettledFrame

LEMMA SettledRequest ==
  ASSUME Typed, NEW r \in Rooms, NEW f \in Fact, Settled(r, f), NEW t \in Threads, Request(t)
  PROVE  Settled(r, f)'
<1> PICK u \in Users, q \in Rooms :
  \/ JoinMentorChatRoom(t, u, q)
  \/ MenteeLeftChatRoom(t, u, q)
  \/ DeleteMenteeChatRoom(t, u, q)
  \/ CloseChatRoom(t, u, q)
  \/ PreSend(t, u, q)
  \/ HandlerSessionDisconnect(t, u, q)
  BY DEF Request
<1>0. row[r] \in Row /\ Has(row[r], f)
  BY DEF Typed, TypeOK, Settled
<1>1. CASE JoinMentorChatRoom(t, u, q)
  <2> DEFINE w == Work("join", "write", u, q, [row[q] EXCEPT !.mentor = u])
  <2>1. Begin(t, w) /\ UNCHANGED db
    BY <1>1 DEF JoinMentorChatRoom
  <2>2. w.room = r => Has(w.img, f)
    BY <1>0, HasKept DEF Work
  <2> HIDE DEF w
  <2> QED
    BY <2>1, <2>2, SettledBegin
<1>2. CASE MenteeLeftChatRoom(t, u, q)
  <2> DEFINE w == Work("left", "write", u, q, [row[q] EXCEPT !.menteeLeft = TRUE])
  <2>1. Begin(t, w) /\ UNCHANGED db
    BY <1>2 DEF MenteeLeftChatRoom
  <2>2. w.room = r => Has(w.img, f)
    BY <1>0, HasKept DEF Work
  <2> HIDE DEF w
  <2> QED
    BY <2>1, <2>2, SettledBegin
<1>3. CASE DeleteMenteeChatRoom(t, u, q)
  <2> DEFINE w == [Work("delete", "write", u, q, BlankRow)
                     EXCEPT !.known = {m.at : m \in MessagesOf(q)}]
  <2>1. Begin(t, w) /\ UNCHANGED db
    BY <1>3 DEF DeleteMenteeChatRoom
  <2>2. w.op = "delete"
    BY DEF Work
  <2> HIDE DEF w
  <2> QED
    BY <2>1, <2>2, SettledBegin
<1>4. CASE CloseChatRoom(t, u, q)
  <2> DEFINE w == Work("exit", "load", NoUser, q, BlankRow)
  <2>1. Begin(t, w) /\ UNCHANGED db
    BY <1>4 DEF CloseChatRoom
  <2>2. w.pc = "load"
    BY DEF Work
  <2> HIDE DEF w
  <2> QED
    BY <2>1, <2>2, SettledBegin
<1>5. CASE PreSend(t, u, q)
  <2> DEFINE w == Work("send", "load", u, q, BlankRow)
  <2>1. Begin(t, w) /\ UNCHANGED db
    BY <1>5 DEF PreSend
  <2>2. w.pc = "load"
    BY DEF Work
  <2> HIDE DEF w
  <2> QED
    BY <2>1, <2>2, SettledBegin
<1>6. CASE HandlerSessionDisconnect(t, u, q)
  <2> DEFINE w == Work("disconnect", "load", u, q, BlankRow)
  <2>1. Begin(t, w) /\ UNCHANGED db
    BY <1>6 DEF HandlerSessionDisconnect
  <2>2. w.pc = "load"
    BY DEF Work
  <2> HIDE DEF w
  <2> QED
    BY <2>1, <2>2, SettledBegin
<1> QED
  BY <1>1, <1>2, <1>3, <1>4, <1>5, <1>6

LEMMA SettledLoad ==
  ASSUME Typed, NEW r \in Rooms, NEW f \in Fact, Settled(r, f), NEW t \in Threads,
         SetSolved(t) \/ StampLastAt(t) \/ SaveMentorChatMessage(t) \/ InsertMessage(t)
  PROVE  Settled(r, f)'
<1>0. tx[t] \in Tx /\ tx[t].room \in Rooms /\ row[r] \in Row /\ tx[t].img \in Row
  BY DEF Typed, TypeOK, Tx
<1>1. UNCHANGED db /\ \A s \in Threads \ {t} : tx'[s] = tx[s]
  BY DEF SetSolved, StampLastAt, SaveMentorChatMessage, InsertMessage, Done, Typed, TypeOK
<1>2. ASSUME NEW img, tx'[t].room = tx[t].room, tx'[t].img = img,
             tx[t].room = r => Has(img, f)
      PROVE  Settled(r, f)'
  <2>1. Holds(t, r)' => Has(tx'[t].img, f)
    BY <1>2 DEF Holds
  <2> QED
    BY <1>1, <2>1, SettledFrame
<1>3. CASE Done(t)
  BY <1>1, <1>3, SettledDone
<1>4. CASE SetSolved(t) /\ ~Done(t)
  <2> DEFINE img == Solved(row[tx[t].room])
  <2>1. tx' = [tx EXCEPT ![t].pc = "write", ![t].img = img]
    BY <1>4 DEF SetSolved
  <2>2. tx[t].room = r => Has(img, f)
    BY <1>0, HasKept, UsersAssumption DEF Settled
  <2> HIDE DEF img
  <2>3. tx'[t].room = tx[t].room /\ tx'[t].img = img
    BY <1>0, <2>1 DEF Typed, TypeOK, Tx
  <2> QED
    BY <1>2, <2>2, <2>3
<1>5. CASE StampLastAt(t) /\ ~Done(t)
  <2> DEFINE img == StampDisconnect(row[tx[t].room], tx[t].user, clock)
  <2>1. tx' = [tx EXCEPT ![t].pc = "write", ![t].img = img]
    BY <1>5 DEF StampLastAt
  <2>2. tx[t].room = r => Has(img, f)
    BY <1>0, HasKept, UsersAssumption DEF Settled
  <2> HIDE DEF img
  <2>3. tx'[t].room = tx[t].room /\ tx'[t].img = img
    BY <1>0, <2>1 DEF Typed, TypeOK, Tx
  <2> QED
    BY <1>2, <2>2, <2>3
<1>6. CASE InsertMessage(t) /\ ~Done(t)
  <2> DEFINE img == UpdateLastAt(tx[t].img, tx[t].user, clock + 1)
  <2>1. tx' = [tx EXCEPT ![t] = [@ EXCEPT !.pc = "write", !.at = clock, !.img = img]]
    BY <1>6 DEF InsertMessage
  <2>2. tx[t].room = r => Has(img, f)
    <3>1. tx[t].op = "send" /\ tx[t].pc = "insert"
      BY <1>6 DEF InsertMessage
    <3>2. tx[t].room = r => Has(tx[t].img, f)
      BY <3>1 DEF Settled, Holds
    <3> QED
      BY <1>0, <3>2, HasKept, UsersAssumption
  <2> HIDE DEF img
  <2>3. tx'[t].room = tx[t].room /\ tx'[t].img = img
    BY <1>0, <2>1 DEF Typed, TypeOK, Tx
  <2> QED
    BY <1>2, <2>2, <2>3
<1>7. CASE SaveMentorChatMessage(t) /\ ~Done(t)
  <2> DEFINE img == row[tx[t].room]
  <2>1. tx' = [tx EXCEPT ![t].pc = "insert", ![t].img = img]
    BY <1>7 DEF SaveMentorChatMessage
  <2>2. tx[t].room = r => Has(img, f)
    BY DEF Settled
  <2> HIDE DEF img
  <2>3. tx'[t].room = tx[t].room /\ tx'[t].img = img
    BY <1>0, <2>1 DEF Typed, TypeOK, Tx
  <2> QED
    BY <1>2, <2>2, <2>3
<1> QED
  BY <1>3, <1>4, <1>5, <1>6, <1>7

(* The row is written by a handler that held it, and so has the fact.      *)
LEMMA SettledCommit ==
  ASSUME Typed, NEW r \in Rooms, NEW f \in Fact, Settled(r, f), NEW t \in Threads,
         CommitRoom(t)
  PROVE  Settled(r, f)'
<1>0. tx[t] \in Tx /\ tx[t].room \in Rooms
  BY DEF Typed, TypeOK, Tx
<1>1. created' = created /\ deleted' = deleted
  BY DEF CommitRoom
<1>2. /\ tx'[t].pc \in {"idle", "notify"}
      /\ \A s \in Threads \ {t} : tx'[s] = tx[s]
  <2>1. CASE tx' = [tx EXCEPT ![t].pc = "notify"]
    BY <1>0, <2>1 DEF Typed, TypeOK, Tx
  <2>2. CASE Done(t)
    BY <2>2 DEF Done, Idle, Typed, TypeOK
  <2> QED
    BY <2>1, <2>2 DEF CommitRoom
<1>3. Has(row'[r], f)
  <2>1. CASE row' = row
    BY <2>1 DEF Settled
  <2>2. CASE row' = [row EXCEPT ![tx[t].room] = tx[t].img]
    <3>1. CASE tx[t].room = r
      <4>1. Has(tx[t].img, f)
        BY <3>1 DEF Settled, Holds, CommitRoom
      <4> QED
        BY <2>2, <3>1, <4>1 DEF Typed, TypeOK
    <3>2. CASE tx[t].room # r
      BY <2>2, <3>2 DEF Settled, Typed, TypeOK
    <3> QED
      BY <3>1, <3>2
  <2> QED
    BY <2>1, <2>2 DEF CommitRoom
<1>4. ASSUME NEW s \in Threads, Holds(s, r)' PROVE Has(tx'[s].img, f)
  <2>1. s # t /\ tx'[s] = tx[s] /\ Holds(s, r)
    BY <1>2, <1>4 DEF Holds
  <2> QED
    BY <2>1 DEF Settled
<1> QED
  BY <1>1, <1>3, <1>4 DEF Settled, Live

(* The removal of another room.                                            *)
LEMMA SettledDelete ==
  ASSUME Typed, NEW r \in Rooms, NEW f \in Fact, Settled(r, f), NEW t \in Threads,
         CommitDelete(t), r \in Live'
  PROVE  Settled(r, f)'
<1>1. ~Holds(t, r)' /\ \A s \in Threads \ {t} : tx'[s] = tx[s]
  BY DEF CommitDelete, Done, Holds, Idle, Typed, TypeOK
<1>2. row'[r] = row[r]
  <2>1. CASE row' = row
    BY <2>1
  <2>2. CASE /\ row' = [row EXCEPT ![tx[t].room] = BlankRow]
             /\ deleted' = deleted \cup {tx[t].room}
    BY <2>2 DEF Live, Typed, TypeOK
  <2> QED
    BY <2>1, <2>2 DEF CommitDelete
<1>3. ASSUME NEW s \in Threads, Holds(s, r)' PROVE Has(tx'[s].img, f)
  BY <1>1, <1>3 DEF Holds, Settled
<1>4. Has(row'[r], f)
  BY <1>2 DEF Settled
<1> QED
  BY <1>3, <1>4 DEF Settled

(* A fact every handler has seen is never lost while the room is there.    *)
LEMMA SettledNext ==
  ASSUME Typed, NEW r \in Rooms, NEW f \in Fact, Settled(r, f), [Next]_vars, r \in Live'
  PROVE  Settled(r, f)'
<1>1. CASE UNCHANGED vars
  BY <1>1 DEF vars, db, Settled, Live, Holds
<1>2. ASSUME NEW u \in Users, NEW q \in Rooms, CreateMenteeChatRoom(u, q)
      PROVE  Settled(r, f)'
  <2>1. /\ q # r /\ tx' = tx
        /\ row' = [row EXCEPT ![q] = [BlankRow EXCEPT !.mentee = u, !.menteeLastAt = clock + 1]]
    BY <1>2 DEF CreateMenteeChatRoom, Settled, Live
  <2>2. row'[r] = row[r]
    BY <2>1 DEF Typed, TypeOK
  <2> QED
    BY <2>1, <2>2 DEF Settled, Holds
<1>3. ASSUME NEW u \in Users, NEW q \in Rooms, Connect(u, q)
      PROVE  Settled(r, f)'
  BY <1>3 DEF Connect, db, Settled, Live, Holds
<1>4. ASSUME NEW t \in Threads, Request(t) PROVE Settled(r, f)'
  BY <1>4, SettledRequest
<1>5. ASSUME NEW t \in Threads, Proceed(t) PROVE Settled(r, f)'
  <2>1. CASE SetSolved(t) \/ StampLastAt(t) \/ SaveMentorChatMessage(t) \/ InsertMessage(t)
    BY <2>1, SettledLoad
  <2>2. CASE CommitRoom(t)
    BY <2>2, SettledCommit
  <2>3. CASE CommitDelete(t)
    BY <2>3, SettledDelete
  <2>4. CASE Broadcast(t)
    <3>1. UNCHANGED db /\ Done(t)
      BY <2>4 DEF Broadcast
    <3> QED
      BY <3>1, SettledDone
  <2> QED
    BY <1>5, <2>1, <2>2, <2>3, <2>4 DEF Proceed
<1>6. ASSUME NEW t \in Threads, DeadlockVictim(t) PROVE Settled(r, f)'
  <2>1. UNCHANGED db /\ Done(t)
    BY <1>6 DEF DeadlockVictim
  <2> QED
    BY <2>1, SettledDone
<1>7. CASE Crash
  <2>1. UNCHANGED db /\ \A t \in Threads : ~Holds(t, r)'
    BY <1>7 DEF Crash, Holds, Idle
  <2> QED
    BY <2>1 DEF db, Settled, Live
<1> QED
  BY <1>1, <1>2, <1>3, <1>4, <1>5, <1>6, <1>7 DEF Next

(* The thread of a frame keeps the room it found open until its commit.    *)
LEMMA SentWhileOpenNext ==
  ASSUME Typed, SentWhileOpen, [Next]_vars
  PROVE  SentWhileOpen'
<1> SUFFICES ASSUME NEW s \in Threads, tx'[s].op = "send", tx'[s].pc \in {"insert", "write"}
             PROVE  Writable(tx'[s].img)
  BY DEF SentWhileOpen
<1>0. tx \in [Threads -> Tx] /\ row \in [Rooms -> Row]
  BY DEF Typed, TypeOK
<1>1. CASE tx'[s] = tx[s]
  BY <1>1 DEF SentWhileOpen
<1>2. CASE tx'[s] = Idle
  BY <1>2 DEF Idle
<1>3. ASSUME NEW t \in Threads, Request(t) PROVE Writable(tx'[s].img)
  <2>1. s = t => tx'[s].op # "send" \/ tx'[s].pc = "load"
    BY <1>0, <1>3 DEF Request, Begin, Work, JoinMentorChatRoom, MenteeLeftChatRoom,
          DeleteMenteeChatRoom, CloseChatRoom, PreSend, HandlerSessionDisconnect
  <2>2. CASE s # t
    <3>1. \E w : tx' = [tx EXCEPT ![t] = w]
      BY <1>3 DEF Request, Begin, JoinMentorChatRoom, MenteeLeftChatRoom,
            DeleteMenteeChatRoom, CloseChatRoom, PreSend, HandlerSessionDisconnect
    <3> QED
      BY <1>0, <1>1, <2>2, <3>1
  <2> QED
    BY <2>1, <2>2
<1>4. ASSUME NEW t \in Threads, Proceed(t) PROVE Writable(tx'[s].img)
  <2>1. CASE SetSolved(t) \/ StampLastAt(t)
    <3>1. s = t => tx'[s] = Idle \/ tx'[s].op \in {"exit", "disconnect"}
      BY <1>0, <2>1 DEF SetSolved, StampLastAt, Done, Tx
    <3>2. s # t => tx'[s] = tx[s]
      BY <1>0, <2>1 DEF SetSolved, StampLastAt, Done
    <3> QED
      BY <1>1, <1>2, <3>1, <3>2
  <2>2. CASE InsertMessage(t)
    <3>1. CASE tx' = [tx EXCEPT ![t] = [@ EXCEPT !.pc = "write", !.at = clock,
                                  !.img = UpdateLastAt(tx[t].img, tx[t].user, clock + 1)]]
      <4>1. s # t => tx'[s] = tx[s]
        BY <1>0, <3>1
      <4>2. tx[t] \in Tx /\ tx[t].img \in Row /\ Writable(tx[t].img)
        BY <1>0, <2>2 DEF Tx, InsertMessage, SentWhileOpen
      <4>3. Writable(UpdateLastAt(tx[t].img, tx[t].user, clock + 1))
        BY <4>2 DEF Row, Writable, UpdateLastAt
      <4>4. s = t => tx'[s].img = UpdateLastAt(tx[t].img, tx[t].user, clock + 1)
        BY <1>0, <3>1, <4>2 DEF Tx
      <4> QED
        BY <1>1, <4>1, <4>3, <4>4
    <3>2. CASE Done(t)
      BY <1>0, <1>1, <1>2, <3>2 DEF Done
    <3> QED
      BY <2>2, <3>1, <3>2 DEF InsertMessage
  <2>3. CASE CommitRoom(t) \/ CommitDelete(t) \/ Broadcast(t)
    <3>1. CASE Done(t)
      BY <1>0, <1>1, <1>2, <3>1 DEF Done
    <3>2. CASE tx' = [tx EXCEPT ![t].pc = "notify"]
      BY <1>0, <1>1, <3>2 DEF Tx
    <3> QED
      BY <2>3, <3>1, <3>2 DEF CommitRoom, CommitDelete, Broadcast
  <2>4. CASE SaveMentorChatMessage(t)
    <3>1. s # t => tx'[s] = tx[s]
      BY <1>0, <2>4 DEF SaveMentorChatMessage, Done
    <3>2. CASE tx' = [tx EXCEPT ![t].pc = "insert", ![t].img = row[tx[t].room]]
               /\ Writable(row[tx[t].room])
      BY <1>0, <1>1, <3>1, <3>2 DEF Tx
    <3>3. CASE Done(t)
      BY <1>0, <1>1, <1>2, <3>3 DEF Done
    <3> QED
      BY <2>4, <3>2, <3>3 DEF SaveMentorChatMessage
  <2> QED
    BY <1>4, <2>1, <2>2, <2>3, <2>4 DEF Proceed
<1>5. CASE Crash
  BY <1>2, <1>5 DEF Crash
<1>6. ASSUME NEW t \in Threads, DeadlockVictim(t) PROVE Writable(tx'[s].img)
  BY <1>0, <1>1, <1>2, <1>6 DEF DeadlockVictim, Done
<1>7. ASSUME NEW u \in Users, NEW q \in Rooms, CreateMenteeChatRoom(u, q) \/ Connect(u, q)
      PROVE  Writable(tx'[s].img)
  BY <1>1, <1>7 DEF CreateMenteeChatRoom, Connect
<1>8. CASE UNCHANGED vars
  BY <1>1, <1>8 DEF vars
<1> QED
  BY <1>3, <1>4, <1>5, <1>6, <1>7, <1>8 DEF Next

(* A message joins a room only by a frame that loaded the room while it    *)
(* was open, and so not after a departure that every handler has seen.     *)
LEMMA HistoryKept ==
  ASSUME Typed, SentWhileOpen, NEW r \in Rooms, NEW side \in Side, Settled(r, side),
         [Next]_vars, r \in Live'
  PROVE  MessagesOf(r)' = MessagesOf(r)
<1>1. CASE msgs' = msgs
  BY <1>1 DEF MessagesOf
<1>2. ASSUME NEW u \in Users, NEW q \in Rooms, CreateMenteeChatRoom(u, q)
      PROVE  MessagesOf(r)' = MessagesOf(r)
  BY <1>2 DEF CreateMenteeChatRoom, MessagesOf, Settled, Live
<1>3. ASSUME NEW t \in Threads, CommitRoom(t)
      PROVE  MessagesOf(r)' = MessagesOf(r)
  <2>1. CASE tx[t].op = "send" /\ tx[t].room = r
    <3>1. tx[t].pc = "write" /\ Has(tx[t].img, side) /\ Writable(tx[t].img)
      BY <1>3, <2>1 DEF CommitRoom, Settled, Holds, SentWhileOpen
    <3> QED
      BY <3>1 DEF Has, Left, Writable, Side
  <2>2. CASE msgs' = msgs \cup {[room |-> tx[t].room, sender |-> tx[t].user, at |-> tx[t].at]}
             /\ tx[t].room # r
    BY <2>2 DEF MessagesOf
  <2> QED
    BY <1>1, <1>3, <2>1, <2>2 DEF CommitRoom
<1>4. ASSUME NEW t \in Threads, CommitDelete(t)
      PROVE  MessagesOf(r)' = MessagesOf(r)
  <2>1. CASE deleted' = deleted \cup {tx[t].room} /\ msgs' = msgs \ Cascade(tx[t].room)
    <3>1. tx[t].room # r
      BY <2>1 DEF Live
    <3> QED
      BY <2>1, <3>1 DEF MessagesOf, Cascade
  <2> QED
    BY <1>1, <1>4, <2>1 DEF CommitDelete
<1>5. ASSUME NEW t \in Threads, Request(t) PROVE msgs' = msgs
  BY <1>5 DEF Request, JoinMentorChatRoom, MenteeLeftChatRoom, DeleteMenteeChatRoom,
        CloseChatRoom, PreSend, HandlerSessionDisconnect, db
<1>6. ASSUME NEW t \in Threads,
             \/ SetSolved(t) \/ StampLastAt(t) \/ SaveMentorChatMessage(t)
             \/ InsertMessage(t) \/ Broadcast(t) \/ DeadlockVictim(t)
      PROVE  msgs' = msgs
  BY <1>6 DEF SetSolved, StampLastAt, SaveMentorChatMessage, InsertMessage, Broadcast, DeadlockVictim, db
<1>7. ASSUME NEW u \in Users, NEW q \in Rooms, Connect(u, q) PROVE msgs' = msgs
  BY <1>7 DEF Connect, db
<1>8. CASE Crash \/ UNCHANGED vars
  BY <1>1, <1>8 DEF Crash, vars, db
<1> QED
  BY <1>1, <1>2, <1>3, <1>4, <1>5, <1>6, <1>7, <1>8 DEF Next, Proceed

(* A departure that every handler holding the room has seen is final: it   *)
(* is not undone and no message is added (setSolved, menteeLeftChatRoom,   *)
(* the read-only check of saveMentorChatMessage).                          *)
THEOREM DeparturesSettle == Spec => ClosedSettles
<1>1. Init => Typed /\ SentWhileOpen
  BY InitTyped DEF Init, SentWhileOpen, Idle
<1>2. Typed /\ SentWhileOpen /\ [Next]_vars => (Typed /\ SentWhileOpen)'
  BY NextTyped, SentWhileOpenNext
<1> DEFINE Kept == \A r \in Rooms, side \in Side :
                     ClosedFor(r, side) /\ r \in Live' =>
                       ClosedFor(r, side)' /\ MessagesOf(r)' = MessagesOf(r)
<1>3. ASSUME Typed, SentWhileOpen, [Next]_vars PROVE Kept
  <2> SUFFICES ASSUME NEW r \in Rooms, NEW side \in Side, ClosedFor(r, side), r \in Live'
               PROVE  ClosedFor(r, side)' /\ MessagesOf(r)' = MessagesOf(r)
    OBVIOUS
  <2>1. Settled(r, side) /\ side \in Fact
    BY DEF ClosedFor, Settled, Has, Side, Fact
  <2>2. Settled(r, side)'
    BY <1>3, <2>1, SettledNext
  <2>3. ClosedFor(r, side)'
    BY <2>2 DEF ClosedFor, Settled, Has, Side
  <2> QED
    BY <1>3, <2>1, <2>3, HistoryKept
<1> HIDE DEF Kept
<1>4. Spec => [][Kept]_vars
  BY <1>1, <1>2, <1>3, PTL DEF Spec
<1> QED
  BY <1>4 DEF ClosedSettles, Kept

(* A match that every handler holding the room has seen is final: the room *)
(* is never without a mentor again (joinMentor, and the waiting list).     *)
THEOREM MatchesSettle == Spec => MatchSettles
<1> DEFINE Kept == \A r \in Rooms : Matched(r) /\ r \in Live' => Matched(r)'
<1>1. ASSUME Typed, [Next]_vars PROVE Kept
  <2> SUFFICES ASSUME NEW r \in Rooms, Matched(r), r \in Live' PROVE Matched(r)'
    OBVIOUS
  <2>1. Settled(r, "matched") /\ "matched" \in Fact
    BY DEF Matched, Settled, Has, Fact
  <2>2. Settled(r, "matched")'
    BY <1>1, <2>1, SettledNext
  <2> QED
    BY <2>2 DEF Matched, Settled, Has
<1> HIDE DEF Kept
<1>2. Spec => [][Kept]_vars
  BY <1>1, InitTyped, NextTyped, PTL DEF Spec
<1> QED
  BY <1>2 DEF MatchSettles, Kept
=============================================================================

-------------------------- MODULE MentorChat_proofs --------------------------
(***************************************************************************)
(* Theorems about MentorChat, for any users, rooms and threads and any     *)
(* bound on the requests.                                                  *)
(***************************************************************************)
EXTENDS MentorChat, TLAPS

LEMMA BlankTyped == BlankRow \in Row /\ Idle \in Tx
<1>1. AnyRoom \in Rooms /\ AnyUser \in Users
  BY UsersAssumption, Zenon DEF AnyRoom, AnyUser
<1>2. BlankRow \in Row
  BY <1>1 DEF BlankRow, Row
<1> QED
  BY <1>1, <1>2 DEF Idle, Tx, Op, Pc

(* Only a registered user joins or sends.                                  *)
ActorKnown ==
  \A t \in Threads : tx[t].op \in {"join", "send"} => tx[t].user \in Users

Typed == TypeOK /\ ActorKnown

LEMMA WorkTyped ==
  ASSUME NEW op \in Op, NEW pc \in Pc, NEW u \in Users \cup {NoUser},
         NEW r \in Rooms, NEW img \in Row
  PROVE  /\ Work(op, pc, u, r, img) \in Tx
         /\ Work(op, pc, u, r, img).op = op
         /\ Work(op, pc, u, r, img).user = u
BY DEF Work, Tx

(* What the handlers make of a loaded room is a row again.                 *)
LEMMA ImageTyped ==
  ASSUME NEW rec \in Row, NEW u \in Users, NEW n \in Nat
  PROVE  /\ [rec EXCEPT !.mentor = u] \in Row
         /\ [rec EXCEPT !.menteeLeft = TRUE] \in Row
         /\ Solved(rec) \in Row
         /\ UpdateLastAt(rec, u, n) \in Row
         /\ StampDisconnect(rec, u, n) \in Row
BY DEF Row, Solved, UpdateLastAt, StampDisconnect

LEMMA Codes ==
  /\ {"join", "left", "delete", "exit", "send", "disconnect"} \subseteq Op
  /\ {"idle", "load", "insert", "write", "notify"} \subseteq Pc
BY DEF Op, Pc

LEMMA InitTyped == Init => Typed
<1> SUFFICES ASSUME Init PROVE Typed
  OBVIOUS
<1>1. ActorKnown
  BY DEF Init, ActorKnown, Idle
<1>2. TypeOK
  BY BlankTyped DEF Init, TypeOK
<1> QED BY <1>1, <1>2 DEF Typed

LEMMA RequestTyped ==
  ASSUME Typed, NEW t \in Threads, Request(t)
  PROVE  Typed'
<1> USE DEF db, history
<1> PICK u \in Users, r \in Rooms :
  \/ JoinMentorChatRoom(t, u, r)
  \/ MenteeLeftChatRoom(t, u, r)
  \/ DeleteMenteeChatRoom(t, u, r)
  \/ CloseChatRoom(t, u, r)
  \/ PreSend(t, u, r)
  \/ HandlerSessionDisconnect(t, u, r)
  BY DEF Request
<1>0. row[r] \in Row
  BY DEF Typed, TypeOK
<1>1. ASSUME NEW w \in Tx, Begin(t, w), w.op \in {"join", "send"} => w.user \in Users
      PROVE  /\ tx' \in [Threads -> Tx] /\ requests' \in Nat
             /\ ActorKnown'
  BY <1>1 DEF Begin, Typed, TypeOK, ActorKnown
<1>2. CASE JoinMentorChatRoom(t, u, r)
  <2> DEFINE img == [row[r] EXCEPT !.mentor = u]
             w == Work("join", "write", u, r, img)
  <2>1. w \in Tx /\ w.user = u
    <3>1. img \in Row
      BY <1>0, ImageTyped, 0 \in Nat
    <3> HIDE DEF img
    <3> QED
      BY <3>1, Codes, WorkTyped
  <2>2. Begin(t, w)
    BY <1>2 DEF JoinMentorChatRoom
  <2> QED
    BY <1>1, <1>2, <2>1, <2>2 DEF JoinMentorChatRoom, Typed, TypeOK
<1>3. CASE MenteeLeftChatRoom(t, u, r)
  <2> DEFINE img == [row[r] EXCEPT !.menteeLeft = TRUE]
             w == Work("left", "write", u, r, img)
  <2>1. w \in Tx /\ w.op = "left"
    <3>1. img \in Row
      BY <1>0, ImageTyped, 0 \in Nat
    <3> HIDE DEF img
    <3> QED
      BY <3>1, Codes, WorkTyped
  <2>2. Begin(t, w)
    BY <1>3 DEF MenteeLeftChatRoom
  <2> QED
    BY <1>1, <1>3, <2>1, <2>2 DEF MenteeLeftChatRoom, Typed, TypeOK
<1>4. CASE DeleteMenteeChatRoom(t, u, r)
  <2> DEFINE k == {m.at : m \in MessagesOf(r)}
             b == Work("delete", "write", u, r, BlankRow)
             w == [b EXCEPT !.known = k]
  <2>1. k \subseteq Nat
    BY DEF Typed, TypeOK, MessagesOf, Message
  <2>2. b \in Tx /\ b.op = "delete"
    BY BlankTyped, WorkTyped, Codes
  <2>3. w \in Tx /\ w.op = "delete"
    BY <2>1, <2>2 DEF Tx
  <2>4. Begin(t, w)
    BY <1>4 DEF DeleteMenteeChatRoom
  <2> HIDE DEF w
  <2>5. tx' \in [Threads -> Tx] /\ requests' \in Nat /\ ActorKnown'
    BY <1>1, <2>3, <2>4
  <2> QED
    BY <1>4, <2>5 DEF DeleteMenteeChatRoom, Typed, TypeOK
<1>5. CASE CloseChatRoom(t, u, r)
  <2> DEFINE w == Work("exit", "load", NoUser, r, BlankRow)
  <2>1. w \in Tx /\ w.op = "exit"
    <3>1. NoUser \in Users \cup {NoUser}
      OBVIOUS
    <3> QED
      BY <3>1, BlankTyped, Codes DEF Work, Tx
  <2>2. Begin(t, w)
    BY <1>5 DEF CloseChatRoom
  <2>3. notices' \subseteq Rooms \X Side
    BY <1>5 DEF CloseChatRoom, Typed, TypeOK, Side
  <2> QED
    BY <1>1, <1>5, <2>1, <2>2, <2>3 DEF CloseChatRoom, Typed, TypeOK
<1>6. CASE PreSend(t, u, r)
  <2> DEFINE w == Work("send", "load", u, r, BlankRow)
  <2>1. w \in Tx /\ w.user = u
    BY BlankTyped, WorkTyped, Codes
  <2>2. Begin(t, w)
    BY <1>6 DEF PreSend
  <2> QED
    BY <1>1, <1>6, <2>1, <2>2 DEF PreSend, Typed, TypeOK
<1>7. CASE HandlerSessionDisconnect(t, u, r)
  <2> DEFINE w == Work("disconnect", "load", u, r, BlankRow)
  <2>1. w \in Tx /\ w.op = "disconnect"
    BY BlankTyped, WorkTyped, Codes
  <2>2. Begin(t, w)
    BY <1>7 DEF HandlerSessionDisconnect
  <2> QED
    BY <1>1, <1>7, <2>1, <2>2 DEF HandlerSessionDisconnect, Typed, TypeOK
<1> QED
  BY <1>2, <1>3, <1>4, <1>5, <1>6, <1>7

LEMMA ProceedTyped ==
  ASSUME Typed, NEW t \in Threads, Proceed(t) \/ DeadlockVictim(t)
  PROVE  Typed'
<1> USE DEF db, history
<1>0. tx[t] \in Tx /\ tx[t].room \in Rooms /\ row[tx[t].room] \in Row
  BY DEF Typed, TypeOK, Tx
<1>1. ASSUME Done(t)
      PROVE  tx' \in [Threads -> Tx] /\ ActorKnown'
  BY <1>1, BlankTyped DEF Done, Typed, TypeOK, ActorKnown, Idle
<1>2. ASSUME NEW pc \in Pc, NEW img \in Row,
             tx' = [tx EXCEPT ![t].pc = pc, ![t].img = img]
      PROVE  tx' \in [Threads -> Tx] /\ ActorKnown'
  BY <1>2 DEF Typed, TypeOK, ActorKnown, Tx
<1>3. CASE SetSolved(t)
  <2>1. tx' \in [Threads -> Tx] /\ ActorKnown'
    <3>1. Solved(row[tx[t].room]) \in Row
      BY <1>0 DEF Row, Solved
    <3> QED
      BY <1>1, <1>2, <1>3, <3>1, Codes DEF SetSolved
  <2> QED
    BY <1>3, <2>1 DEF SetSolved, Typed, TypeOK
<1>4. CASE InsertMessage(t)
  <2>1. ASSUME tx[t].op = "send"
        PROVE  UpdateLastAt(tx[t].img, tx[t].user, clock + 1) \in Row
    <3>1. tx[t].user \in Users /\ tx[t].img \in Row /\ clock + 1 \in Nat
      BY <1>0, <2>1 DEF Typed, TypeOK, ActorKnown, Tx
    <3> QED
      BY <3>1, ImageTyped
  <2>2. tx' \in [Threads -> Tx] /\ ActorKnown' /\ clock' \in Nat
    <3>1. CASE Done(t) /\ UNCHANGED clock
      BY <1>1, <3>1 DEF Typed, TypeOK
    <3>2. CASE /\ clock' = clock + 1
               /\ tx' = [tx EXCEPT ![t].pc = "write", ![t].at = clock,
                           ![t].img = UpdateLastAt(@, tx[t].user, clock + 1)]
      <4> DEFINE img == UpdateLastAt(tx[t].img, tx[t].user, clock + 1)
      <4>1. img \in Row /\ clock \in Nat /\ clock' \in Nat
        BY <1>4, <2>1, <3>2 DEF InsertMessage, Typed, TypeOK
      <4>2. tx' = [tx EXCEPT ![t] = [@ EXCEPT !.pc = "write", !.at = clock, !.img = img]]
        BY <3>2
      <4> HIDE DEF img
      <4> QED
        BY <4>1, <4>2, Codes DEF Typed, TypeOK, ActorKnown, Tx
    <3> QED
      BY <1>4, <3>1, <3>2 DEF InsertMessage
  <2> QED
    BY <1>4, <2>2 DEF InsertMessage, Typed, TypeOK
<1>10. CASE SaveMentorChatMessage(t)
  <2>1. tx' \in [Threads -> Tx] /\ ActorKnown'
    BY <1>0, <1>1, <1>2, <1>10, Codes DEF SaveMentorChatMessage
  <2> QED
    BY <1>10, <2>1 DEF SaveMentorChatMessage, Typed, TypeOK
<1>5. CASE StampLastAt(t)
  <2>1. tx' \in [Threads -> Tx] /\ ActorKnown'
    <3>1. StampDisconnect(row[tx[t].room], tx[t].user, clock) \in Row
      BY <1>0 DEF Typed, TypeOK, Row, StampDisconnect
    <3> QED
      BY <1>1, <1>2, <1>5, <3>1, Codes DEF StampLastAt
  <2> QED
    BY <1>5, <2>1 DEF StampLastAt, Typed, TypeOK
<1>6. CASE CommitRoom(t)
  <2> DEFINE r == tx[t].room
             op == tx[t].op
             m == [room |-> r, sender |-> tx[t].user, at |-> tx[t].at]
  <2>1. CASE r \notin Live /\ Done(t) /\ UNCHANGED <<row, msgs, wasMentor, wasLeft>>
    BY <1>1, <1>6, <2>1 DEF CommitRoom, Typed, TypeOK
  <2>2. CASE /\ r \in Live
             /\ row' = [row EXCEPT ![r] = tx[t].img]
             /\ msgs' = IF op = "send" THEN msgs \cup {m} ELSE msgs
             /\ wasMentor' = IF op = "join" THEN wasMentor \cup {<<tx[t].user, r>>}
                                            ELSE wasMentor
             /\ wasLeft' = CASE op = "left" -> wasLeft \cup {<<r, "mentee">>}
                             [] op = "exit" -> wasLeft \cup {<<r, "mentor">>}
                             [] OTHER -> wasLeft
             /\ IF Announces(op) THEN tx' = [tx EXCEPT ![t].pc = "notify"] ELSE Done(t)
    <3>1. row' \in [Rooms -> Row]
      BY <1>0, <2>2 DEF Typed, TypeOK, Tx
    <3>2. msgs' \subseteq Message
      <4>1. ASSUME op = "send" PROVE m \in Message
        BY <1>0, <4>1 DEF Typed, ActorKnown, Tx, Message
      <4> QED
        BY <2>2, <4>1 DEF Typed, TypeOK
    <3>3. wasMentor' \subseteq Users \X Rooms
      BY <1>0, <2>2 DEF Typed, TypeOK, ActorKnown
    <3>4. wasLeft' \subseteq Rooms \X Side
      BY <1>0, <2>2 DEF Typed, TypeOK, Side
    <3>5. tx' \in [Threads -> Tx] /\ ActorKnown'
      <4>1. CASE tx' = [tx EXCEPT ![t].pc = "notify"]
        BY <4>1, Codes DEF Typed, TypeOK, ActorKnown, Tx
      <4> QED
        BY <1>1, <2>2, <4>1
    <3> QED
      BY <1>6, <3>1, <3>2, <3>3, <3>4, <3>5 DEF CommitRoom, Typed, TypeOK
  <2> QED
    BY <1>6, <2>1, <2>2 DEF CommitRoom
<1>7. CASE CommitDelete(t)
  <2>1. created' = created /\ deleted' \subseteq created /\ msgs' \subseteq Message
    BY <1>7 DEF CommitDelete, Typed, TypeOK, Live
  <2>2. row' \in [Rooms -> Row]
    BY <1>7, BlankTyped DEF CommitDelete, Typed, TypeOK
  <2>3. tx' \in [Threads -> Tx] /\ ActorKnown'
    BY <1>1, <1>7 DEF CommitDelete
  <2> QED
    BY <1>7, <2>1, <2>2, <2>3 DEF CommitDelete, Typed, TypeOK
<1>8. CASE Broadcast(t)
  <2>1. tx' \in [Threads -> Tx] /\ ActorKnown'
    BY <1>1, <1>8 DEF Broadcast
  <2>2. /\ [room |-> tx[t].room, at |-> tx[t].at] \in [room : Rooms, at : Nat]
        /\ <<tx[t].room, "mentee">> \in Rooms \X Side
    BY <1>0 DEF Tx, Side
  <2>3. /\ notices' \subseteq Rooms \X Side
        /\ delivered' \subseteq [room : Rooms, at : Nat]
        /\ missed' \subseteq [room : Rooms, at : Nat]
    BY <1>8, <2>2 DEF Broadcast, Typed, TypeOK
  <2> QED
    BY <1>8, <2>1, <2>3 DEF Broadcast, Typed, TypeOK
<1>9. CASE DeadlockVictim(t)
  <2>1. tx' \in [Threads -> Tx] /\ ActorKnown'
    BY <1>1, <1>9 DEF DeadlockVictim
  <2> QED
    BY <1>9, <2>1 DEF DeadlockVictim, Typed, TypeOK
<1> QED
  BY <1>3, <1>4, <1>5, <1>6, <1>7, <1>8, <1>9, <1>10 DEF Proceed

LEMMA NextTyped == Typed /\ [Next]_vars => Typed'
<1> USE DEF db, history
<1> SUFFICES ASSUME Typed, [Next]_vars PROVE Typed'
  OBVIOUS
<1>1. ASSUME NEW u \in Users, NEW r \in Rooms, CreateMenteeChatRoom(u, r)
      PROVE  Typed'
  <2>1. [BlankRow EXCEPT !.mentee = u, !.menteeLastAt = clock + 1] \in Row
    <3>1. clock + 1 \in Nat
      BY DEF Typed, TypeOK
    <3> QED
      BY <3>1, BlankTyped DEF Row
  <2>2. [room |-> r, sender |-> u, at |-> clock] \in Message
    BY DEF Typed, TypeOK, Message
  <2> QED
    BY <1>1, <2>1, <2>2 DEF CreateMenteeChatRoom, Typed, TypeOK, ActorKnown
<1>2. ASSUME NEW u \in Users, NEW r \in Rooms, Connect(u, r)
      PROVE  Typed'
  BY <1>2 DEF Connect, Typed, TypeOK, ActorKnown
<1>3. ASSUME Crash
      PROVE  Typed'
  BY <1>3, BlankTyped DEF Crash, Typed, TypeOK, ActorKnown, Idle
<1>4. ASSUME UNCHANGED vars
      PROVE  Typed'
  BY <1>4 DEF vars, Typed, TypeOK, ActorKnown
<1> QED
  BY <1>1, <1>2, <1>3, <1>4, RequestTyped, ProceedTyped DEF Next

(* Every reachable state has the shape of TypeOK.                          *)
THEOREM TypeCorrect == Spec => []TypeOK
<1>1. Typed => TypeOK
  BY DEF Typed
<1> QED
  BY <1>1, InitTyped, NextTyped, PTL DEF Spec
=============================================================================

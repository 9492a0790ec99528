---------------------------- MODULE AiChat_proofs ----------------------------
(***************************************************************************)
(* Theorems about AiChat, for any rooms, threads and number of permits,    *)
(* with or without crashes; the last is that AiChat implements             *)
(* Conversation.                                                           *)
(***************************************************************************)
EXTENDS AiChat, FiniteSetTheorems, TLAPS

(* What a thread w is doing, when the room ids in g have been handed out.  *)
Asking == {"open", "ask"}

Shape(w, g) ==
  /\ w.op = "none" => w = Idle
  /\ w.op \in Asking => /\ w.pc \in {"permit", "calling", "commit"} /\ w.q # 0
                        /\ w.pc = "commit" => w.a # 0
  /\ w.op = "stream" => /\ w.pc \in {"commit", "streaming", "saving"} /\ w.q # 0
                        /\ w.pc = "saving" => w.a # 0
  /\ w.op = "create" => w.pc = "saving" /\ w.q # 0
  /\ w.op \in {"read", "remove"} => w.pc = "commit"
  /\ w.op # "none" => w.room \in g

Typed ==
  /\ TypeOK
  /\ \A m \in msgs : m.room \in given
  /\ \A t \in Threads : Shape(tx[t], given)

-----------------------------------------------------------------------------
(* Threads one at a time                                                   *)

(* A thread that does nothing has the shape of a thread.                   *)
LEMMA IdleTyped == Idle \in Tx /\ \A g : Shape(Idle, g)
<1>1. \E r : r \in Rooms
  BY ThreadsAssumption
<1>2. (CHOOSE r \in Rooms : TRUE) \in Rooms
  BY <1>1
<1> QED
  BY <1>2 DEF Idle, Tx, Shape, Asking

(* A step of one thread to such a state leaves all threads so.             *)
LEMMA OneThread ==
  ASSUME tx \in [Threads -> Tx], \A s \in Threads : Shape(tx[s], given),
         given \subseteq given', NEW t \in Threads, NEW w \in Tx,
         tx' = [tx EXCEPT ![t] = w], Shape(w, given')
  PROVE  tx' \in [Threads -> Tx] /\ \A s \in Threads : Shape(tx'[s], given')
<1>1. tx' \in [Threads -> Tx] /\ tx'[t] = w /\ \A s \in Threads \ {t} : tx'[s] = tx[s]
  OBVIOUS
<1>2. \A s \in Threads : Shape(tx[s], given')
  BY DEF Shape
<1> QED
  BY <1>1, <1>2

(* In particular one that ends its handler.                                *)
LEMMA DoneTyped ==
  ASSUME Typed, given \subseteq given', NEW t \in Threads, Done(t)
  PROVE  tx' \in [Threads -> Tx] /\ \A s \in Threads : Shape(tx'[s], given')
  BY IdleTyped, OneThread DEF Typed, TypeOK, Done

-----------------------------------------------------------------------------
(* Type correctness                                                        *)

(* A call that a thread takes up.                                          *)
LEMMA BeginTyped ==
  ASSUME Typed, NEW t \in Threads, given \subseteq given', NEW w \in Tx,
         Begin(t, w), Shape(w, given')
  PROVE  /\ tx' \in [Threads -> Tx] /\ \A s \in Threads : Shape(tx'[s], given')
         /\ calls' \in Nat
<1>1. tx' = [tx EXCEPT ![t] = w] /\ calls' = calls + 1
  BY DEF Begin
<1>2. tx \in [Threads -> Tx] /\ (\A s \in Threads : Shape(tx[s], given)) /\ calls \in Nat
  BY DEF Typed, TypeOK
<1>3. tx' \in [Threads -> Tx] /\ \A s \in Threads : Shape(tx'[s], given')
  BY <1>1, <1>2, OneThread
<1> QED
  BY <1>1, <1>2, <1>3

LEMMA CreateAiChatRoomTyped ==
  ASSUME Typed, NEW t \in Threads, NEW r \in Rooms, CreateAiChatRoom(t, r)
  PROVE  Typed'
<1> DEFINE w == Work("open", "permit", r, NewId, {})
<1>1. NewId \in Nat /\ NewId # 0 /\ nextId + 1 \in Nat \ {0}
  BY DEF NewId, Typed, TypeOK
<1>2. w \in Tx /\ w.op = "open" /\ w.pc = "permit" /\ w.room = r /\ w.q = NewId
  BY <1>1 DEF Work, Tx
<1>3. Begin(t, w) /\ given' = given \cup {r} /\ nextId' = nextId + 1
      /\ UNCHANGED <<rooms, lastMessageAt, msgs, read, permits, history>>
  BY DEF CreateAiChatRoom
<1> HIDE DEF w
<1>4. Shape(w, given')
  BY <1>1, <1>2, <1>3 DEF Shape, Asking
<1>5. tx' \in [Threads -> Tx] /\ (\A s \in Threads : Shape(tx'[s], given')) /\ calls' \in Nat
  BY <1>2, <1>3, <1>4, BeginTyped
<1> QED
  BY <1>1, <1>3, <1>5 DEF Typed, TypeOK, history

LEMMA AskTyped ==
  ASSUME Typed, NEW t \in Threads, NEW r \in Rooms, Ask(t, r)
  PROVE  Typed'
<1> DEFINE w == Work("ask", "permit", r, NewId, {})
<1>0. r \in given
  BY DEF Ask, Typed, TypeOK
<1>1. NewId \in Nat /\ NewId # 0 /\ nextId + 1 \in Nat \ {0}
  BY DEF NewId, Typed, TypeOK
<1>2. w \in Tx /\ w.op = "ask" /\ w.pc = "permit" /\ w.room = r /\ w.q = NewId
  BY <1>1 DEF Work, Tx
<1>3. Begin(t, w) /\ nextId' = nextId + 1 /\ msgs' = msgs
      /\ UNCHANGED <<given, rooms, lastMessageAt, read, permits, history>>
  BY DEF Ask, StoredAtInsert
<1> HIDE DEF w
<1>4. Shape(w, given')
  BY <1>0, <1>1, <1>2, <1>3 DEF Shape, Asking
<1>5. tx' \in [Threads -> Tx] /\ (\A s \in Threads : Shape(tx'[s], given')) /\ calls' \in Nat
  BY <1>2, <1>3, <1>4, BeginTyped
<1> QED
  BY <1>1, <1>3, <1>5 DEF Typed, TypeOK, history

LEMMA AskStreamTyped ==
  ASSUME Typed, NEW t \in Threads, NEW r \in Rooms, AskStream(t, r)
  PROVE  Typed'
<1> DEFINE w == Work("stream", "commit", r, NewId, {})
<1>0. r \in given
  BY DEF AskStream, Typed, TypeOK
<1>1. NewId \in Nat /\ NewId # 0 /\ nextId + 1 \in Nat \ {0}
  BY DEF NewId, Typed, TypeOK
<1>2. w \in Tx /\ w.op = "stream" /\ w.pc = "commit" /\ w.room = r /\ w.q = NewId
  BY <1>1 DEF Work, Tx
<1>3. Begin(t, w) /\ nextId' = nextId + 1 /\ UNCHANGED <<db, permits, history>>
  BY DEF AskStream
<1> HIDE DEF w
<1>4. Shape(w, given')
  BY <1>0, <1>1, <1>2, <1>3 DEF Shape, Asking, db
<1>5. tx' \in [Threads -> Tx] /\ (\A s \in Threads : Shape(tx'[s], given')) /\ calls' \in Nat
  BY <1>2, <1>3, <1>4, BeginTyped DEF db
<1> QED
  BY <1>1, <1>3, <1>5 DEF Typed, TypeOK, history, db

LEMMA CreateAiChatMessageTyped ==
  ASSUME Typed, NEW t \in Threads, NEW r \in Rooms, CreateAiChatMessage(t, r)
  PROVE  Typed'
<1> DEFINE w == Work("create", "saving", r, NewId, {})
<1>0. r \in given
  BY DEF CreateAiChatMessage, Typed, TypeOK
<1>1. NewId \in Nat /\ NewId # 0 /\ nextId + 1 \in Nat \ {0}
  BY DEF NewId, Typed, TypeOK
<1>2. w \in Tx /\ w.op = "create" /\ w.pc = "saving" /\ w.room = r /\ w.q = NewId
  BY <1>1 DEF Work, Tx
<1>3. Begin(t, w) /\ nextId' = nextId + 1 /\ UNCHANGED <<db, permits, history>>
  BY DEF CreateAiChatMessage
<1> HIDE DEF w
<1>4. Shape(w, given')
  BY <1>0, <1>1, <1>2, <1>3 DEF Shape, Asking, db
<1>5. tx' \in [Threads -> Tx] /\ (\A s \in Threads : Shape(tx'[s], given')) /\ calls' \in Nat
  BY <1>2, <1>3, <1>4, BeginTyped DEF db
<1> QED
  BY <1>1, <1>3, <1>5 DEF Typed, TypeOK, history, db

LEMMA TryAcquireTyped ==
  ASSUME Typed, NEW t \in Threads, TryAcquire(t)
  PROVE  Typed'
<1>1. tx[t].pc = "permit" /\ tx[t] \in Tx /\ Shape(tx[t], given)
      /\ UNCHANGED <<db, nextId, calls, history>>
  BY DEF TryAcquire, Typed, TypeOK
<1>2. CASE permits > 0 /\ permits' = permits - 1
           /\ tx' = [tx EXCEPT ![t] = [tx[t] EXCEPT !.pc = "calling"]]
  <2> DEFINE w == [tx[t] EXCEPT !.pc = "calling"]
  <2>1. /\ w \in Tx /\ w.pc = "calling" /\ w.op = tx[t].op
        /\ w.q = tx[t].q /\ w.room = tx[t].room
    BY <1>1 DEF Tx
  <2>2. w.op \in Asking
    BY <1>1, <2>1, IdleTyped DEF Shape, Idle, Tx, Asking
  <2> HIDE DEF w
  <2>3. Shape(w, given')
    BY <1>1, <2>1, <2>2 DEF Shape, Asking, db
  <2>4. tx' \in [Threads -> Tx] /\ \A s \in Threads : Shape(tx'[s], given')
    BY <1>1, <1>2, <2>1, <2>3, OneThread DEF Typed, TypeOK, db, w
  <2> QED
    BY <1>1, <1>2, <2>4 DEF Typed, TypeOK, db, history
<1>3. CASE Done(t) /\ permits' = permits
  BY <1>1, <1>3, DoneTyped DEF Typed, TypeOK, db, history
<1> QED
  BY <1>2, <1>3 DEF TryAcquire

LEMMA GenerateChatResponseTyped ==
  ASSUME Typed, NEW t \in Threads, GenerateChatResponse(t)
  PROVE  Typed'
<1>1. tx[t].pc = "calling" /\ tx[t] \in Tx /\ Shape(tx[t], given)
      /\ UNCHANGED <<db, calls, history>>
  BY DEF GenerateChatResponse, Typed, TypeOK
<1>2. permits' \in Nat /\ nextId' \in Nat \ {0} /\ NewId \in Nat \ {0}
  BY DEF GenerateChatResponse, Released, Typed, TypeOK, NewId
<1>3. CASE tx' = [tx EXCEPT ![t] = [tx[t] EXCEPT !.pc = "commit", !.a = NewId]]
  <2> DEFINE w == [tx[t] EXCEPT !.pc = "commit", !.a = NewId]
  <2>1. /\ w \in Tx /\ w.pc = "commit" /\ w.a # 0 /\ w.op = tx[t].op
        /\ w.q = tx[t].q /\ w.room = tx[t].room
    BY <1>1, <1>2 DEF Tx
  <2>2. w.op \in Asking
    BY <1>1, <2>1 DEF Shape, Idle, Tx, Asking
  <2> HIDE DEF w
  <2>3. Shape(w, given')
    BY <1>1, <2>1, <2>2 DEF Shape, Asking, db
  <2>4. tx' \in [Threads -> Tx] /\ \A s \in Threads : Shape(tx'[s], given')
    BY <1>1, <1>3, <2>1, <2>3, OneThread DEF Typed, TypeOK, db, w
  <2> QED
    BY <1>1, <1>2, <2>4 DEF Typed, TypeOK, db, history
<1>4. CASE Done(t)
  BY <1>1, <1>2, <1>4, DoneTyped DEF Typed, TypeOK, db, history
<1> QED
  BY <1>3, <1>4 DEF GenerateChatResponse

(* What exchanges store are messages.                                      *)
LEMMA ExchangeTyped ==
  ASSUME Typed, NEW t \in Threads
  PROVE  /\ tx[t].op \in Asking => Question(t) \in Message
         /\ tx[t].op \in Asking /\ tx[t].pc = "commit" => Answer(t) \in Message
         /\ tx[t].op = "stream" => Question(t) \in Message
         /\ tx[t].pc = "saving" => Saved(t) \subseteq Message
         /\ tx[t].op # "none" =>
              /\ Question(t).room \in given /\ Answer(t).room \in given
              /\ \A m \in Saved(t) : m.room \in given
<1>1. tx[t] \in Tx /\ Shape(tx[t], given)
  BY DEF Typed, TypeOK
<1>2. tx[t].pc = "saving" => tx[t].op \in {"stream", "create"}
  BY <1>1 DEF Shape, Tx, Asking, Idle
<1>3. ASSUME tx[t].pc = "saving"
      PROVE  Saved(t) \subseteq Message
  <2>1. CASE tx[t].op = "stream"
    BY <1>1, <1>3, <2>1 DEF Saved, Question, Answer, Message, Tx, Shape, SenderType
  <2>2. CASE tx[t].op = "create"
    BY <1>1, <1>3, <2>2 DEF Saved, Question, Message, Tx, Shape
  <2> QED
    BY <1>2, <1>3, <2>1, <2>2
<1>4. \A m \in Saved(t) : m.room = tx[t].room
  BY DEF Saved, Question, Answer
<1>5. tx[t].op # "none" => tx[t].room \in given
  BY <1>1 DEF Shape
<1> QED
  BY <1>1, <1>3, <1>4, <1>5 DEF Question, Answer, Message, Tx, Shape, SenderType, Asking

LEMMA CommitAskTyped ==
  ASSUME Typed, NEW t \in Threads, CommitAsk(t)
  PROVE  Typed'
<1>1. tx[t].op \in Asking /\ tx[t].pc = "commit" /\ Done(t)
      /\ rooms' = rooms \cup {tx[t].room} /\ msgs' = msgs \cup {Question(t), Answer(t)}
      /\ lastMessageAt' = [lastMessageAt EXCEPT ![tx[t].room] = tx[t].a]
      /\ UNCHANGED <<given, read, nextId, permits, calls, history>>
  BY DEF CommitAsk, Asking
<1>2. tx[t].room \in given /\ tx[t].a \in Nat
  BY <1>1 DEF Typed, TypeOK, Tx, Shape, Asking
<1>3. /\ Question(t) \in Message /\ Answer(t) \in Message
      /\ Question(t).room \in given /\ Answer(t).room \in given
  BY <1>1, ExchangeTyped DEF Asking
<1>4. tx' \in [Threads -> Tx] /\ \A s \in Threads : Shape(tx'[s], given')
  BY <1>1, DoneTyped
<1> QED
  BY <1>1, <1>2, <1>3, <1>4 DEF Typed, TypeOK, history

LEMMA CommitAskStreamTyped ==
  ASSUME Typed, NEW t \in Threads, CommitAskStream(t)
  PROVE  Typed'
<1> DEFINE w == [tx[t] EXCEPT !.pc = "streaming"]
<1>1. tx[t].op = "stream" /\ tx' = [tx EXCEPT ![t] = w]
      /\ msgs' = msgs \cup {Question(t)}
      /\ lastMessageAt' = [lastMessageAt EXCEPT ![tx[t].room] = tx[t].q]
      /\ UNCHANGED <<given, rooms, read, nextId, permits, calls, history>>
  BY DEF CommitAskStream
<1>2. tx[t] \in Tx /\ Shape(tx[t], given) /\ tx[t].q \in Nat
  BY DEF Typed, TypeOK, Tx
<1>3. /\ w \in Tx /\ w.pc = "streaming" /\ w.op = "stream"
      /\ w.q = tx[t].q /\ w.room = tx[t].room
  BY <1>1, <1>2 DEF Tx
<1> HIDE DEF w
<1>4. Shape(w, given')
  BY <1>1, <1>2, <1>3 DEF Shape, Asking
<1>5. tx' \in [Threads -> Tx] /\ \A s \in Threads : Shape(tx'[s], given')
  BY <1>1, <1>3, <1>4, OneThread DEF Typed, TypeOK
<1>6. Question(t) \in Message /\ Question(t).room \in given
  BY <1>1, ExchangeTyped DEF Asking
<1> QED
  BY <1>1, <1>2, <1>5, <1>6 DEF Typed, TypeOK, history

LEMMA StreamEndsTyped ==
  ASSUME Typed, NEW t \in Threads, StreamEnds(t)
  PROVE  Typed'
<1>1. tx[t].pc = "streaming" /\ tx[t] \in Tx /\ Shape(tx[t], given)
      /\ UNCHANGED <<db, permits, calls, history>>
  BY DEF StreamEnds, Typed, TypeOK
<1>2. tx[t].op = "stream"
  BY <1>1 DEF Tx, Shape, Idle, Asking
<1>3. CASE /\ tx' = [tx EXCEPT ![t] = [tx[t] EXCEPT !.pc = "saving", !.a = NewId]]
           /\ nextId' = nextId + 1
  <2> DEFINE w == [tx[t] EXCEPT !.pc = "saving", !.a = NewId]
  <2>0. NewId \in Nat \ {0} /\ nextId' \in Nat \ {0}
    BY <1>3 DEF Typed, TypeOK, NewId
  <2>1. /\ w \in Tx /\ w.pc = "saving" /\ w.a # 0 /\ w.op = "stream"
        /\ w.q = tx[t].q /\ w.room = tx[t].room
    BY <1>1, <1>2, <2>0 DEF Tx
  <2> HIDE DEF w
  <2>2. Shape(w, given')
    BY <1>1, <1>2, <2>1 DEF Shape, Asking, db
  <2>3. tx' \in [Threads -> Tx] /\ \A s \in Threads : Shape(tx'[s], given')
    BY <1>1, <1>3, <2>1, <2>2, OneThread DEF Typed, TypeOK, db, w
  <2> QED
    BY <1>1, <2>0, <2>3 DEF Typed, TypeOK, db, history
<1>4. CASE Done(t) /\ nextId' = nextId
  BY <1>1, <1>4, DoneTyped DEF Typed, TypeOK, db, history
<1> QED
  BY <1>3, <1>4 DEF StreamEnds

LEMMA CommitMessageTyped ==
  ASSUME Typed, NEW t \in Threads, CommitMessage(t)
  PROVE  Typed'
<1>1. PICK m \in Saved(t) : msgs' = msgs \cup {m}
  BY DEF CommitMessage
<1>2. tx[t].pc = "saving" /\ Done(t)
      /\ UNCHANGED <<given, rooms, lastMessageAt, read, nextId, permits, calls, history>>
  BY DEF CommitMessage
<1>3. tx[t].op # "none"
  <2>1. Shape(tx[t], given) /\ Idle.pc = "idle"
    BY DEF Typed, Idle
  <2> QED
    BY <1>2, <2>1 DEF Shape
<1>4. m \in Message /\ m.room \in given
  BY <1>1, <1>2, <1>3, ExchangeTyped
<1>5. tx' \in [Threads -> Tx] /\ \A s \in Threads : Shape(tx'[s], given')
  BY <1>2, DoneTyped
<1> QED
  BY <1>1, <1>2, <1>4, <1>5 DEF Typed, TypeOK, history

(* Ids of messages, of those a reader has seen, and of questions.          *)
LEMMA IdsTyped ==
  ASSUME Typed
  PROVE  /\ \A m \in msgs : m.id \in Nat /\ m.room \in Rooms /\ UnreadUpTo(m) \subseteq Nat
         /\ \A r \in Rooms : Ids(MessagesOf(r)) \subseteq Nat
         /\ \A t \in Threads : tx[t].q \in Nat /\ tx[t].a \in Nat
                             /\ Uncommitted(t) \subseteq Nat
<1>1. msgs \subseteq Message /\ tx \in [Threads -> Tx]
  BY DEF Typed, TypeOK
<1>2. \A m \in msgs : m.id \in Nat /\ m.room \in Rooms
  BY <1>1 DEF Message
<1>3. \A r \in Rooms : Ids(MessagesOf(r)) \subseteq Nat
  BY <1>2 DEF Ids, MessagesOf
<1>4. \A t \in Threads : tx[t].q \in Nat /\ tx[t].a \in Nat
  BY <1>1 DEF Tx
<1> QED
  BY <1>2, <1>3, <1>4 DEF UnreadUpTo, Uncommitted

LEMMA MarkAsReadUpToTyped ==
  ASSUME Typed, NEW t \in Threads, NEW m \in msgs, MarkAsReadUpTo(t, m)
  PROVE  Typed'
<1> DEFINE w == Work("read", "commit", m.room, m.id, UnreadUpTo(m))
           underWay == UNION {Uncommitted(s) : s \in {s \in Threads : Inserted(s, m.room)}}
<1>1. /\ m.room \in Rooms /\ m.room \in given /\ m.id \in Nat
      /\ UnreadUpTo(m) \subseteq Nat /\ underWay \subseteq Nat
  BY IdsTyped DEF Typed
<1>2. Begin(t, w) /\ overtaken' = overtaken \cup underWay
      /\ UNCHANGED <<db, nextId, permits, erased, readUpTo>>
  BY DEF MarkAsReadUpTo
<1>3. w \in Tx /\ w.op = "read" /\ w.pc = "commit" /\ w.room = m.room
  BY <1>1 DEF Work, Tx
<1> HIDE DEF w, underWay
<1>4. Shape(w, given')
  BY <1>1, <1>2, <1>3 DEF Shape, Asking, db
<1>5. tx' \in [Threads -> Tx] /\ (\A s \in Threads : Shape(tx'[s], given')) /\ calls' \in Nat
  BY <1>2, <1>3, <1>4, BeginTyped DEF db
<1> QED
  BY <1>1, <1>2, <1>5 DEF Typed, TypeOK, db

LEMMA CommitReadTyped ==
  ASSUME Typed, NEW t \in Threads, CommitRead(t)
  PROVE  Typed'
<1>1. tx[t] \in Tx /\ tx[t].q \in Nat /\ tx[t].known \subseteq Nat
  BY DEF Typed, TypeOK, Tx
<1>2. Done(t) /\ UNCHANGED <<given, rooms, lastMessageAt, msgs, nextId, permits, calls,
                             erased, overtaken>>
  BY DEF CommitRead
<1>3. read' \subseteq Nat /\ readUpTo' \in [Rooms -> Nat]
  BY <1>1 DEF CommitRead, Typed, TypeOK
<1>4. tx' \in [Threads -> Tx] /\ \A s \in Threads : Shape(tx'[s], given')
  BY <1>2, DoneTyped
<1> QED
  BY <1>2, <1>3, <1>4 DEF Typed, TypeOK

LEMMA DeleteMessageTyped ==
  ASSUME Typed, NEW m \in msgs, DeleteMessage(m)
  PROVE  Typed'
<1>1. <<m.of, m.sender>> \in Nat \X SenderType
  BY DEF Typed, TypeOK, Message
<1> QED
  BY <1>1 DEF DeleteMessage, Typed, TypeOK

LEMMA DeleteAiChatRoomTyped ==
  ASSUME Typed, NEW t \in Threads, NEW r \in Rooms, DeleteAiChatRoom(t, r)
  PROVE  Typed'
<1> DEFINE w == Work("remove", "commit", r, 0, Ids(MessagesOf(r)))
<1>1. r \in given /\ Ids(MessagesOf(r)) \subseteq Nat
  BY IdsTyped DEF DeleteAiChatRoom, Typed, TypeOK
<1>2. Begin(t, w) /\ UNCHANGED <<db, nextId, permits, history>>
  BY DEF DeleteAiChatRoom
<1>3. w \in Tx /\ w.op = "remove" /\ w.pc = "commit" /\ w.room = r
  BY <1>1 DEF Work, Tx
<1> HIDE DEF w
<1>4. Shape(w, given')
  BY <1>1, <1>2, <1>3 DEF Shape, Asking, db
<1>5. tx' \in [Threads -> Tx] /\ (\A s \in Threads : Shape(tx'[s], given')) /\ calls' \in Nat
  BY <1>2, <1>3, <1>4, BeginTyped DEF db
<1> QED
  BY <1>2, <1>5 DEF Typed, TypeOK, db, history

LEMMA CommitRemoveTyped ==
  ASSUME Typed, NEW t \in Threads, CommitRemove(t)
  PROVE  Typed'
<1>1. Done(t) /\ rooms' \subseteq rooms /\ msgs' \subseteq msgs
      /\ UNCHANGED <<given, lastMessageAt, read, nextId, permits, calls, history>>
  BY DEF CommitRemove
<1>2. tx' \in [Threads -> Tx] /\ \A s \in Threads : Shape(tx'[s], given')
  BY <1>1, DoneTyped
<1> QED
  BY <1>1, <1>2 DEF Typed, TypeOK, history

(* Every step keeps it.                                                    *)
LEMMA TypedStep ==
  ASSUME Typed, [Next]_vars
  PROVE  Typed'
<1>1. ASSUME NEW t \in Threads, Call(t)
      PROVE  Typed'
  BY <1>1, CreateAiChatRoomTyped, AskTyped, AskStreamTyped, CreateAiChatMessageTyped,
     DeleteAiChatRoomTyped, MarkAsReadUpToTyped DEF Call
<1>2. ASSUME NEW t \in Threads, LockWaitFails(t)
      PROVE  Typed'
  BY <1>2, DoneTyped DEF LockWaitFails, Typed, TypeOK, db, history
<1>3. ASSUME NEW t \in Threads, Proceed(t) \/ ModelReplies(t)
      PROVE  Typed'
  BY <1>2, <1>3, TryAcquireTyped, CommitAskTyped, CommitAskStreamTyped, CommitMessageTyped,
     CommitReadTyped, CommitRemoveTyped, GenerateChatResponseTyped, StreamEndsTyped
     DEF Proceed, ModelReplies
<1>4. CASE Crash
  BY <1>4, IdleTyped, LimitsAssumption DEF Crash, Typed, TypeOK, db, history
<1>5. CASE UNCHANGED vars
  BY <1>5 DEF vars, db, history, Typed, TypeOK
<1> QED
  BY <1>1, <1>3, <1>4, <1>5, DeleteMessageTyped DEF Next

LEMMA TypedInit == Init => Typed
<1> SUFFICES ASSUME Init PROVE Typed
  OBVIOUS
<1>1. tx \in [Threads -> Tx] /\ \A t \in Threads : tx[t] = Idle
  BY IdleTyped DEF Init
<1> QED
  BY <1>1, IdleTyped, LimitsAssumption DEF Init, Typed, TypeOK

(* The tables, the threads and the history keep their shape.               *)
THEOREM TypeCorrect == Spec => []TypeOK
<1>1. Typed => TypeOK
  BY DEF Typed
<1> QED
  BY <1>1, TypedInit, TypedStep, PTL DEF Spec

-----------------------------------------------------------------------------
(* Permits                                                                 *)

Counted == Typed /\ PermitsAccounted

(* A thread that neither begins nor ends a call to the model.              *)
LEMMA SameCalling ==
  ASSUME tx \in [Threads -> Tx], NEW t \in Threads, NEW w, tx' = [tx EXCEPT ![t] = w],
         tx[t].pc # "calling", w.pc # "calling"
  PROVE  Calling' = Calling
<1>1. \A s \in Threads : tx'[s] = IF s = t THEN w ELSE tx[s]
  OBVIOUS
<1> QED
  BY <1>1 DEF Calling

LEMMA BeginSameCalling ==
  ASSUME Typed, NEW t \in Threads, NEW w, Begin(t, w), w.pc # "calling"
  PROVE  Calling' = Calling
<1>1. tx' = [tx EXCEPT ![t] = w] /\ tx[t].pc = "idle" /\ tx \in [Threads -> Tx]
  BY DEF Begin, Idle, Typed, TypeOK
<1> QED
  BY <1>1, SameCalling

LEMMA DoneSameCalling ==
  ASSUME Typed, NEW t \in Threads, Done(t), tx[t].pc # "calling"
  PROVE  Calling' = Calling
<1>1. tx' = [tx EXCEPT ![t] = Idle] /\ Idle.pc # "calling" /\ tx \in [Threads -> Tx]
  BY DEF Done, Idle, Typed, TypeOK
<1> QED
  BY <1>1, SameCalling

LEMMA CallSame ==
  ASSUME Typed, NEW t \in Threads, Call(t)
  PROVE  permits' = permits /\ Calling' = Calling
<1>1. ASSUME NEW op, NEW pc, NEW r, NEW q, NEW known,
             Begin(t, Work(op, pc, r, q, known)), pc # "calling"
      PROVE  Calling' = Calling
  <2>1. Work(op, pc, r, q, known).pc # "calling"
    BY <1>1 DEF Work
  <2> QED
    BY <1>1, <2>1, BeginSameCalling
<1>2. ASSUME NEW r \in Rooms, CreateAiChatRoom(t, r)
      PROVE  permits' = permits /\ Calling' = Calling
  BY <1>1, <1>2 DEF CreateAiChatRoom
<1>3. ASSUME NEW r \in Rooms, Ask(t, r)
      PROVE  permits' = permits /\ Calling' = Calling
  BY <1>1, <1>3 DEF Ask
<1>4. ASSUME NEW r \in Rooms, AskStream(t, r)
      PROVE  permits' = permits /\ Calling' = Calling
  BY <1>1, <1>4 DEF AskStream
<1>5. ASSUME NEW r \in Rooms, DeleteAiChatRoom(t, r)
      PROVE  permits' = permits /\ Calling' = Calling
  BY <1>1, <1>5 DEF DeleteAiChatRoom
<1>6. ASSUME NEW m \in msgs, MarkAsReadUpTo(t, m)
      PROVE  permits' = permits /\ Calling' = Calling
  BY <1>1, <1>6 DEF MarkAsReadUpTo
<1>7. ASSUME NEW r \in Rooms, CreateAiChatMessage(t, r)
      PROVE  permits' = permits /\ Calling' = Calling
  BY <1>1, <1>7 DEF CreateAiChatMessage
<1> QED
  BY <1>2, <1>3, <1>4, <1>5, <1>6, <1>7 DEF Call

(* What ends a handler, or a transaction of it, away from the model.       *)
LEMMA CommitSame ==
  ASSUME Typed, NEW t \in Threads,
         \/ CommitAsk(t) \/ CommitAskStream(t) \/ CommitMessage(t) \/ CommitRead(t)
         \/ CommitRemove(t) \/ LockWaitFails(t) \/ StreamEnds(t)
  PROVE  permits' = permits /\ Calling' = Calling
<1>1. tx[t] \in Tx /\ Shape(tx[t], given) /\ tx \in [Threads -> Tx]
  BY DEF Typed, TypeOK
<1>2. CASE CommitAskStream(t)
  <2> DEFINE w == [tx[t] EXCEPT !.pc = "streaming"]
  <2>1. tx' = [tx EXCEPT ![t] = w] /\ tx[t].pc = "commit" /\ permits' = permits
    BY <1>2 DEF CommitAskStream
  <2>2. w.pc # "calling"
    BY <1>1 DEF Tx
  <2> HIDE DEF w
  <2> QED
    BY <1>1, <2>1, <2>2, SameCalling
<1>3. CASE StreamEnds(t) /\ ~Done(t)
  <2> DEFINE w == [tx[t] EXCEPT !.pc = "saving", !.a = NewId]
  <2>1. tx' = [tx EXCEPT ![t] = w] /\ tx[t].pc = "streaming" /\ permits' = permits
    BY <1>3 DEF StreamEnds
  <2>2. w.pc # "calling"
    BY <1>1 DEF Tx
  <2> HIDE DEF w
  <2> QED
    BY <1>1, <2>1, <2>2, SameCalling
<1>4. CASE ~CommitAskStream(t) /\ ~(StreamEnds(t) /\ ~Done(t))
  <2>1. Done(t) /\ permits' = permits
    BY <1>4 DEF CommitAsk, CommitMessage, CommitRead, CommitRemove, LockWaitFails, StreamEnds
  <2>2. tx[t].pc \in {"commit", "streaming", "saving"}
    BY <1>1, <1>4 DEF CommitAsk, CommitMessage, CommitRead, CommitRemove, LockWaitFails,
      StreamEnds, Shape
  <2> QED
    BY <2>1, <2>2, DoneSameCalling
<1> QED
  BY <1>2, <1>3, <1>4

LEMMA CallingFinite == IsFiniteSet(Calling) /\ Calling \subseteq Threads
<1>1. Calling \subseteq Threads
  BY DEF Calling
<1> QED
  BY <1>1, ThreadsAssumption, FS_Subset

LEMMA TryAcquireCounted ==
  ASSUME Counted, NEW t \in Threads, TryAcquire(t)
  PROVE  PermitsAccounted'
<1>1. tx \in [Threads -> Tx] /\ permits \in Nat /\ tx[t].pc = "permit"
  BY DEF Counted, Typed, TypeOK, TryAcquire
<1>2. CASE permits' = permits - 1 /\ tx' = [tx EXCEPT ![t].pc = "calling"]
  <2>1. tx' = [tx EXCEPT ![t] = [tx[t] EXCEPT !.pc = "calling"]]
        /\ [tx[t] EXCEPT !.pc = "calling"].pc = "calling"
    BY <1>1, <1>2 DEF Tx
  <2>2. Calling' = Calling \cup {t} /\ t \notin Calling
    BY <1>1, <2>1 DEF Calling
  <2>3. Cardinality(Calling') = Cardinality(Calling) + 1
    BY <2>2, CallingFinite, FS_AddElement
  <2>4. Cardinality(Calling) \in Nat
    BY CallingFinite, FS_CardinalityType
  <2> QED
    BY <1>1, <1>2, <2>3, <2>4, LimitsAssumption DEF Counted, PermitsAccounted
<1>3. CASE Done(t) /\ permits' = permits
  <2>1. Calling' = Calling
    BY <1>1, <1>3, DoneSameCalling DEF Counted
  <2> QED
    BY <1>3, <2>1 DEF Counted, PermitsAccounted
<1> QED
  BY <1>2, <1>3 DEF TryAcquire

LEMMA GenerateChatResponseCounted ==
  ASSUME Counted, NEW t \in Threads, GenerateChatResponse(t)
  PROVE  PermitsAccounted'
<1>1. tx \in [Threads -> Tx] /\ permits \in Nat /\ tx[t].pc = "calling" /\ t \in Calling
  BY DEF Counted, Typed, TypeOK, GenerateChatResponse, Calling
<1>2. permits' = permits + 1
  BY DEF GenerateChatResponse, Released
<1>3. \E w : tx' = [tx EXCEPT ![t] = w] /\ w.pc # "calling"
  <2>1. CASE Done(t)
    <3>1. tx' = [tx EXCEPT ![t] = Idle] /\ Idle.pc # "calling"
      BY <2>1 DEF Done, Idle
    <3> QED
      BY <3>1
  <2>2. CASE tx' = [tx EXCEPT ![t].pc = "commit", ![t].a = NewId]
    <3> DEFINE w == [tx[t] EXCEPT !.pc = "commit", !.a = NewId]
    <3>1. tx' = [tx EXCEPT ![t] = w] /\ w.pc = "commit"
      BY <1>1, <2>2 DEF Tx
    <3> QED
      BY <3>1
  <2> QED
    BY <2>1, <2>2 DEF GenerateChatResponse
<1>4. Calling' = Calling \ {t}
  BY <1>1, <1>3 DEF Calling
<1>5. Cardinality(Calling') = Cardinality(Calling) - 1
  BY <1>1, <1>4, CallingFinite, FS_RemoveElement
<1>6. Cardinality(Calling) \in Nat
  BY CallingFinite, FS_CardinalityType
<1> QED
  BY <1>1, <1>2, <1>5, <1>6, LimitsAssumption DEF Counted, PermitsAccounted

LEMMA CrashCounted ==
  ASSUME Counted, Crash
  PROVE  PermitsAccounted'
<1>1. Calling' = {} /\ permits' = MAX_CONCURRENT_REQUESTS
  BY DEF Crash, Calling, Idle
<1> QED
  BY <1>1, FS_EmptySet, LimitsAssumption DEF PermitsAccounted

LEMMA CountedStep ==
  ASSUME Counted, [Next]_vars
  PROVE  Counted'
<1>1. Typed'
  BY TypedStep DEF Counted
<1>2. ASSUME permits' = permits, Calling' = Calling
      PROVE  PermitsAccounted'
  <2>1. Cardinality(Calling') = Cardinality(Calling)
    BY <1>2
  <2> QED
    BY <1>2, <2>1 DEF Counted, PermitsAccounted
<1>3. ASSUME NEW t \in Threads, Call(t) \/ Proceed(t) \/ ModelReplies(t)
      PROVE  PermitsAccounted'
  BY <1>2, <1>3, CallSame, CommitSame, TryAcquireCounted, GenerateChatResponseCounted
     DEF Counted, Proceed, ModelReplies
<1>4. ASSUME UNCHANGED <<permits, tx>>
      PROVE  PermitsAccounted'
  BY <1>2, <1>4 DEF Calling
<1>5. ASSUME NEW m \in msgs, DeleteMessage(m)
      PROVE  PermitsAccounted'
  BY <1>4, <1>5 DEF DeleteMessage, Counted
<1>6. ASSUME UNCHANGED vars
      PROVE  PermitsAccounted'
  BY <1>4, <1>6 DEF vars, Counted
<1>7. PermitsAccounted'
  BY <1>3, <1>5, <1>6, CrashCounted DEF Next
<1> QED
  BY <1>1, <1>7 DEF Counted

(* No permit is lost or made, however calls to the model end.              *)
THEOREM PermitsKept == Spec => []PermitsAccounted
<1>1. Init => PermitsAccounted
  <2> SUFFICES ASSUME Init PROVE PermitsAccounted
    OBVIOUS
  <2>1. Calling = {} /\ permits = MAX_CONCURRENT_REQUESTS
    BY DEF Init, Calling, Idle
  <2> QED
    BY <2>1, FS_EmptySet, LimitsAssumption DEF PermitsAccounted
<1>2. Init => Counted
  BY <1>1, TypedInit DEF Counted
<1>3. Counted => PermitsAccounted
  BY DEF Counted
<1> QED
  BY <1>2, <1>3, CountedStep, PTL DEF Spec

-----------------------------------------------------------------------------
(* Messages and rooms                                                      *)

(* Nobody else knows a room that is not committed.                         *)
Opening == \A t \in Threads : tx[t].op = "open" =>
  /\ tx[t].room \notin rooms
  /\ \A s \in Threads \ {t} : tx[s].op # "none" => tx[s].room # tx[t].room

(* A message that is inserted keeps its room from being removed.           *)
Holding(w) ==
  w.op \in {"ask", "create"} \/ (w.op = "stream" /\ w.pc \in {"commit", "saving"})
Anchored == \A t \in Threads : Holding(tx[t]) => tx[t].room \in rooms

Rooted == Typed /\ Opening /\ Anchored /\ NoOrphanMessage

(* A thread that takes a call up, goes on with it or ends it, while the    *)
(* rooms stay as they are.                                                 *)
LEMMA ThreadRooted ==
  ASSUME Typed, Opening, Anchored, NEW t \in Threads, NEW w,
         tx' = [tx EXCEPT ![t] = w], rooms' = rooms,
         \/ w = Idle
         \/ /\ w.op = tx[t].op /\ w.room = tx[t].room
            /\ w.op = "stream" => w.pc = "streaming" \/ w.room \in rooms
         \/ w.op \notin {"none", "open"} /\ w.room \in rooms
         \/ w.op = "open" /\ w.room \notin given
  PROVE  Opening' /\ Anchored'
<1>1. /\ tx \in [Threads -> Tx] /\ rooms \subseteq given
      /\ \A s \in Threads : tx[s].op # "none" => tx[s].room \in given
      /\ Idle.op = "none"
  BY DEF Typed, TypeOK, Shape, Idle
<1>2. tx'[t] = w /\ \A s \in Threads \ {t} : tx'[s] = tx[s]
  BY <1>1
<1>3. Anchored'
  BY <1>1, <1>2 DEF Anchored, Holding
<1>4. ASSUME NEW s \in Threads, tx'[s].op = "open"
      PROVE  /\ tx'[s].room \notin rooms
             /\ \A u \in Threads \ {s} : tx'[u].op # "none" => tx'[u].room # tx'[s].room
  <2>1. CASE s = t
    BY <1>1, <1>2, <1>4, <2>1 DEF Opening
  <2>2. CASE s # t
    BY <1>1, <1>2, <1>4, <2>2 DEF Opening
  <2> QED
    BY <2>1, <2>2
<1> QED
  BY <1>3, <1>4 DEF Opening

LEMMA CallRooted ==
  ASSUME Rooted, NEW t \in Threads, Call(t)
  PROVE  Opening' /\ Anchored' /\ rooms' = rooms /\ msgs' = msgs
<1>1. ASSUME NEW op \in {"open", "ask", "stream", "create", "read", "remove"}, NEW pc,
             NEW r, NEW q, NEW known,
             Begin(t, Work(op, pc, r, q, known)), rooms' = rooms,
             IF op = "open" THEN r \notin given ELSE r \in rooms
      PROVE  Opening' /\ Anchored'
  <2> DEFINE w == Work(op, pc, r, q, known)
  <2>1. w.op = op /\ w.room = r /\ tx' = [tx EXCEPT ![t] = w]
    BY <1>1 DEF Work, Begin
  <2> HIDE DEF w
  <2> QED
    BY <1>1, <2>1, ThreadRooted DEF Rooted
<1>2. ASSUME NEW r \in Rooms, CreateAiChatRoom(t, r)
      PROVE  Opening' /\ Anchored' /\ rooms' = rooms /\ msgs' = msgs
  BY <1>1, <1>2 DEF CreateAiChatRoom
<1>3. ASSUME NEW r \in Rooms, Ask(t, r)
      PROVE  Opening' /\ Anchored' /\ rooms' = rooms /\ msgs' = msgs
  BY <1>1, <1>3 DEF Ask, StoredAtInsert
<1>4. ASSUME NEW r \in Rooms, AskStream(t, r)
      PROVE  Opening' /\ Anchored' /\ rooms' = rooms /\ msgs' = msgs
  BY <1>1, <1>4 DEF AskStream, db
<1>5. ASSUME NEW r \in Rooms, DeleteAiChatRoom(t, r)
      PROVE  Opening' /\ Anchored' /\ rooms' = rooms /\ msgs' = msgs
  BY <1>1, <1>5 DEF DeleteAiChatRoom, db
<1>6. ASSUME NEW m \in msgs, MarkAsReadUpTo(t, m)
      PROVE  Opening' /\ Anchored' /\ rooms' = rooms /\ msgs' = msgs
  <2>1. m.room \in rooms
    BY DEF Rooted, NoOrphanMessage
  <2> QED
    BY <1>1, <1>6, <2>1 DEF MarkAsReadUpTo, db
<1>7. ASSUME NEW r \in Rooms, CreateAiChatMessage(t, r)
      PROVE  Opening' /\ Anchored' /\ rooms' = rooms /\ msgs' = msgs
  BY <1>1, <1>7 DEF CreateAiChatMessage, db
<1> QED
  BY <1>2, <1>3, <1>4, <1>5, <1>6, <1>7 DEF Call

(* The thread of a handler that ends or goes on without touching rooms.    *)
LEMMA MoveRooted ==
  ASSUME Rooted, NEW t \in Threads,
         \/ TryAcquire(t) \/ GenerateChatResponse(t) \/ CommitAskStream(t)
         \/ CommitMessage(t) \/ CommitRead(t) \/ LockWaitFails(t) \/ StreamEnds(t)
  PROVE  Opening' /\ Anchored' /\ rooms' = rooms
<1>1. tx[t] \in Tx /\ tx \in [Threads -> Tx] /\ Shape(tx[t], given) /\ Idle.pc = "idle"
  BY DEF Rooted, Typed, TypeOK, Idle
<1>2. rooms' = rooms
  BY DEF TryAcquire, GenerateChatResponse, CommitAskStream, CommitMessage, CommitRead,
         LockWaitFails, StreamEnds, db
<1>3. CASE Done(t)
  BY <1>2, <1>3, ThreadRooted DEF Done, Rooted
<1>4. CASE TryAcquire(t) /\ ~Done(t)
  <2> DEFINE w == [tx[t] EXCEPT !.pc = "calling"]
  <2>1. tx' = [tx EXCEPT ![t] = w] /\ tx[t].pc = "permit"
    BY <1>1, <1>4 DEF TryAcquire
  <2>2. w.op = tx[t].op /\ w.room = tx[t].room /\ w.op # "stream"
    BY <1>1, <2>1 DEF Tx, Shape
  <2> HIDE DEF w
  <2> QED
    BY <1>2, <2>1, <2>2, ThreadRooted DEF Rooted
<1>5. CASE GenerateChatResponse(t) /\ ~Done(t)
  <2> DEFINE w == [tx[t] EXCEPT !.pc = "commit", !.a = NewId]
  <2>1. tx' = [tx EXCEPT ![t] = w] /\ tx[t].pc = "calling"
    BY <1>1, <1>5 DEF GenerateChatResponse
  <2>2. w.op = tx[t].op /\ w.room = tx[t].room /\ w.op # "stream"
    BY <1>1, <2>1 DEF Tx, Shape
  <2> HIDE DEF w
  <2> QED
    BY <1>2, <2>1, <2>2, ThreadRooted DEF Rooted
<1>6. CASE CommitAskStream(t)
  <2> DEFINE w == [tx[t] EXCEPT !.pc = "streaming"]
  <2>1. tx' = [tx EXCEPT ![t] = w]
    BY <1>6 DEF CommitAskStream
  <2>2. w.op = tx[t].op /\ w.room = tx[t].room /\ w.pc = "streaming"
    BY <1>1 DEF Tx
  <2> HIDE DEF w
  <2> QED
    BY <1>2, <2>1, <2>2, ThreadRooted DEF Rooted
<1>7. CASE StreamEnds(t) /\ ~Done(t)
  <2> DEFINE w == [tx[t] EXCEPT !.pc = "saving", !.a = NewId]
  <2>1. tx' = [tx EXCEPT ![t] = w] /\ tx[t].room \in rooms
    BY <1>7 DEF StreamEnds
  <2>2. w.op = tx[t].op /\ w.room = tx[t].room
    BY <1>1 DEF Tx
  <2> HIDE DEF w
  <2> QED
    BY <1>2, <2>1, <2>2, ThreadRooted DEF Rooted
<1>8. CommitMessage(t) \/ CommitRead(t) \/ LockWaitFails(t) => Done(t)
  BY DEF CommitMessage, CommitRead, LockWaitFails
<1> QED
  BY <1>3, <1>4, <1>5, <1>6, <1>7, <1>8

(* A room that is stored was nobody's but its opener's.                    *)
LEMMA CommitAskRooted ==
  ASSUME Rooted, NEW t \in Threads, CommitAsk(t)
  PROVE  Opening' /\ Anchored' /\ NoOrphanMessage'
<1>1. /\ rooms' = rooms \cup {tx[t].room} /\ msgs' = msgs \cup {Question(t), Answer(t)}
      /\ tx' = [tx EXCEPT ![t] = Idle] /\ tx[t].op \in Asking
  BY DEF CommitAsk, Asking, Done
<1>2. tx \in [Threads -> Tx] /\ Idle.op = "none"
  BY DEF Rooted, Typed, TypeOK, Idle
<1>3. tx'[t] = Idle /\ \A s \in Threads \ {t} : tx'[s] = tx[s]
  BY <1>1, <1>2
<1>4. Question(t).room = tx[t].room /\ Answer(t).room = tx[t].room
  BY DEF Question, Answer
<1>5. Anchored'
  BY <1>1, <1>2, <1>3 DEF Rooted, Anchored, Holding
<1>6. \A s \in Threads \ {t} : tx[s].op = "open" => tx[s].room # tx[t].room
  BY <1>1 DEF Rooted, Opening, Asking
<1>7. Opening'
  BY <1>1, <1>2, <1>3, <1>6 DEF Rooted, Opening
<1> QED
  BY <1>1, <1>4, <1>5, <1>7 DEF Rooted, NoOrphanMessage

(* A room that is removed had no message inserted in it.                   *)
LEMMA CommitRemoveRooted ==
  ASSUME Rooted, NEW t \in Threads, CommitRemove(t)
  PROVE  Opening' /\ Anchored' /\ NoOrphanMessage'
<1> DEFINE r == tx[t].room
<1>1. /\ \/ rooms' = rooms \ {r} /\ msgs' = msgs \ MessagesOf(r)
         \/ rooms' = rooms /\ msgs' = msgs
      /\ CanLock(t, r) /\ tx[t].op = "remove"
      /\ tx' = [tx EXCEPT ![t] = Idle]
  BY DEF CommitRemove, Done, Cascade
<1>2. tx \in [Threads -> Tx] /\ Idle.op = "none" /\ \A s \in Threads : Shape(tx[s], given)
  BY DEF Rooted, Typed, TypeOK, Idle
<1>3. tx'[t] = Idle /\ \A s \in Threads \ {t} : tx'[s] = tx[s]
  BY <1>1, <1>2
<1>4. ASSUME NEW s \in Threads \ {t}, Holding(tx[s])
      PROVE  tx[s].room # r
  <2>1. tx[s].op \in {"ask", "stream", "create"}
        /\ tx[s].pc \in {"permit", "calling", "commit", "saving"}
    BY <1>2, <1>4 DEF Shape, Asking, Holding
  <2> QED
    BY <1>1, <2>1 DEF CanLock, Inserted
<1>5. Anchored'
  BY <1>1, <1>2, <1>3, <1>4 DEF Rooted, Anchored, Holding
<1>6. Opening'
  BY <1>1, <1>2, <1>3 DEF Rooted, Opening
<1> QED
  BY <1>1, <1>5, <1>6 DEF Rooted, NoOrphanMessage, MessagesOf

LEMMA RootedStep ==
  ASSUME Rooted, [Next]_vars
  PROVE  Rooted'
<1>1. Typed'
  BY TypedStep DEF Rooted
<1>2. ASSUME NEW t \in Threads, Call(t)
      PROVE  Rooted'
  BY <1>1, <1>2, CallRooted DEF Rooted, NoOrphanMessage
<1>3. ASSUME NEW t \in Threads,
             \/ TryAcquire(t) \/ GenerateChatResponse(t) \/ StreamEnds(t)
             \/ CommitRead(t) \/ LockWaitFails(t)
      PROVE  Rooted'
  <2>1. msgs' = msgs
    BY <1>3 DEF TryAcquire, GenerateChatResponse, StreamEnds, CommitRead, LockWaitFails, db
  <2> QED
    BY <1>1, <1>3, <2>1, MoveRooted DEF Rooted, NoOrphanMessage
<1>4. ASSUME NEW t \in Threads, CommitAskStream(t)
      PROVE  Rooted'
  <2>1. msgs' = msgs \cup {Question(t)} /\ Question(t).room = tx[t].room
    BY <1>4 DEF CommitAskStream, Question
  <2>2. tx[t].room \in rooms
    BY <1>4 DEF CommitAskStream, Rooted, Anchored, Holding
  <2> QED
    BY <1>1, <1>4, <2>1, <2>2, MoveRooted DEF Rooted, NoOrphanMessage
<1>5. ASSUME NEW t \in Threads, CommitMessage(t)
      PROVE  Rooted'
  <2> PICK n \in Saved(t) : msgs' = msgs \cup {n}
    BY <1>5 DEF CommitMessage
  <2>1. n.room = tx[t].room
    BY DEF Saved, Question, Answer
  <2>2. tx[t].pc = "saving" /\ Shape(tx[t], given) /\ tx[t] \in Tx /\ Idle.pc = "idle"
    BY <1>5 DEF CommitMessage, Rooted, Typed, TypeOK, Idle
  <2>3. Holding(tx[t])
    BY <2>2 DEF Holding, Shape, Tx, Asking
  <2>4. tx[t].room \in rooms
    BY <2>3 DEF Rooted, Anchored
  <2> QED
    BY <1>1, <1>5, <2>1, <2>4, MoveRooted DEF Rooted, NoOrphanMessage
<1>6. ASSUME NEW t \in Threads, CommitAsk(t) \/ CommitRemove(t)
      PROVE  Rooted'
  BY <1>1, <1>6, CommitAskRooted, CommitRemoveRooted DEF Rooted
<1>7. ASSUME UNCHANGED <<tx, rooms>>, \A m \in msgs' : m \in msgs \/ m.room \in rooms
      PROVE  Rooted'
  BY <1>1, <1>7 DEF Rooted, Opening, Anchored, NoOrphanMessage
<1>8. ASSUME NEW m \in msgs, DeleteMessage(m)
      PROVE  Rooted'
  BY <1>7, <1>8 DEF DeleteMessage
<1>9. CASE Crash
  BY <1>1, <1>9 DEF Crash, Idle, Rooted, Opening, Anchored, Holding, NoOrphanMessage, db
<1>10. CASE UNCHANGED vars
  BY <1>7, <1>10 DEF vars, db
<1> QED
  BY <1>2, <1>3, <1>4, <1>5, <1>6, <1>8, <1>9, <1>10
     DEF Next, Proceed, ModelReplies

LEMMA RootedInit == Init => Rooted
<1> SUFFICES ASSUME Init PROVE Rooted
  OBVIOUS
<1>1. \A t \in Threads : tx[t].op = "none"
  BY DEF Init, Idle
<1> QED
  BY <1>1, TypedInit DEF Init, Rooted, Opening, Anchored, Holding, NoOrphanMessage

(* No message is left of a room that was removed, and none comes late.     *)
THEOREM NoOrphans == Spec => []NoOrphanMessage
<1>1. Rooted => NoOrphanMessage
  BY DEF Rooted
<1> QED
  BY <1>1, RootedInit, RootedStep, PTL DEF Spec

-----------------------------------------------------------------------------
(* Questions and answers                                                   *)

(* What s said in the exchange of is there, in room r, or was removed by   *)
(* itself.                                                                 *)
Together(via, of, r, s) ==
  \/ \E n \in msgs : n.via = via /\ n.of = of /\ n.sender = s /\ n.room = r
  \/ <<of, s>> \in erased

Paired == \A m \in msgs : m.via = "ask" \/ (m.via = "stream" /\ m.sender = "AI") =>
  \A s \in {"HUMAN", "AI"} : Together(m.via, m.of, m.room, s)

(* The question that a stream answers is there as long as its room is.     *)
Answering(w) == w.op = "stream" /\ w.pc \in {"streaming", "saving"}
Streaming == \A t \in Threads : Answering(tx[t]) =>
  tx[t].room \notin rooms \/ Together("stream", tx[t].q, tx[t].room, "HUMAN")

Kept == Rooted /\ Paired /\ Streaming

(* No step but the commit of its question begins a stream.                 *)
SameStreams == \A s \in Threads : Answering(tx'[s]) =>
  Answering(tx[s]) /\ tx'[s].q = tx[s].q /\ tx'[s].room = tx[s].room

LEMMA NoNewStream ==
  ASSUME Rooted, NEW t \in Threads,
         \/ Call(t) \/ TryAcquire(t) \/ GenerateChatResponse(t) \/ CommitAsk(t)
         \/ CommitMessage(t) \/ CommitRead(t) \/ CommitRemove(t) \/ LockWaitFails(t)
         \/ StreamEnds(t)
  PROVE  SameStreams
<1>1. tx \in [Threads -> Tx] /\ tx[t] \in Tx /\ Idle.op = "none" /\ Shape(tx[t], given)
  BY DEF Rooted, Typed, TypeOK, Idle
<1>2. ASSUME NEW w, tx' = [tx EXCEPT ![t] = w], ~Answering(w)
      PROVE  SameStreams
  BY <1>1, <1>2 DEF SameStreams
<1>3. ASSUME NEW op, NEW pc, NEW r, NEW q, NEW known,
             Begin(t, Work(op, pc, r, q, known)), op # "stream" \/ pc = "commit"
      PROVE  SameStreams
  <2>1. tx' = [tx EXCEPT ![t] = Work(op, pc, r, q, known)]
        /\ Work(op, pc, r, q, known).pc = pc /\ Work(op, pc, r, q, known).op = op
    BY <1>3 DEF Begin, Work
  <2> QED
    BY <1>2, <1>3, <2>1 DEF Answering
<1>4. CASE Call(t)
  <2>1. ASSUME NEW r \in Rooms, CreateAiChatRoom(t, r)
        PROVE  SameStreams
    BY <1>3, <2>1 DEF CreateAiChatRoom
  <2>2. ASSUME NEW r \in Rooms, Ask(t, r)
        PROVE  SameStreams
    BY <1>3, <2>2 DEF Ask
  <2>3. ASSUME NEW r \in Rooms, AskStream(t, r)
        PROVE  SameStreams
    BY <1>3, <2>3 DEF AskStream
  <2>4. ASSUME NEW r \in Rooms, CreateAiChatMessage(t, r)
        PROVE  SameStreams
    BY <1>3, <2>4 DEF CreateAiChatMessage
  <2>5. ASSUME NEW r \in Rooms, DeleteAiChatRoom(t, r)
        PROVE  SameStreams
    BY <1>3, <2>5 DEF DeleteAiChatRoom
  <2>6. ASSUME NEW m \in msgs, MarkAsReadUpTo(t, m)
        PROVE  SameStreams
    BY <1>3, <2>6 DEF MarkAsReadUpTo
  <2> QED
    BY <1>4, <2>1, <2>2, <2>3, <2>4, <2>5, <2>6 DEF Call
<1>5. CASE Done(t)
  BY <1>1, <1>2, <1>5 DEF Done, Answering
<1>6. CASE TryAcquire(t) /\ ~Done(t)
  <2>1. [tx[t] EXCEPT !.pc = "calling"].pc = "calling"
    BY <1>1 DEF Tx
  <2> QED
    BY <1>2, <1>6, <2>1 DEF TryAcquire, Answering
<1>7. CASE GenerateChatResponse(t) /\ ~Done(t)
  <2>1. [tx[t] EXCEPT !.pc = "commit", !.a = NewId].pc = "commit"
    BY <1>1 DEF Tx
  <2> QED
    BY <1>2, <1>7, <2>1 DEF GenerateChatResponse, Answering
<1>8. CASE StreamEnds(t) /\ ~Done(t)
  <2> DEFINE w == [tx[t] EXCEPT !.pc = "saving", !.a = NewId]
  <2>1. tx' = [tx EXCEPT ![t] = w] /\ tx[t].pc = "streaming"
    BY <1>8 DEF StreamEnds
  <2>2. w.op = tx[t].op /\ w.q = tx[t].q /\ w.room = tx[t].room
    BY <1>1 DEF Tx
  <2> HIDE DEF w
  <2>3. tx'[t] = w /\ \A s \in Threads \ {t} : tx'[s] = tx[s]
    BY <1>1, <2>1
  <2> QED
    BY <2>1, <2>2, <2>3 DEF SameStreams, Answering
<1>9. CommitAsk(t) \/ CommitMessage(t) \/ CommitRead(t) \/ CommitRemove(t) \/ LockWaitFails(t)
        => Done(t)
  BY DEF CommitAsk, CommitMessage, CommitRead, CommitRemove, LockWaitFails
<1> QED
  BY <1>4, <1>5, <1>6, <1>7, <1>8, <1>9

(* What grows the table and has its new messages paired keeps all of them; *)
(* no stream may begin or see its room come back.                          *)
LEMMA GrowKept ==
  ASSUME Paired, Streaming, msgs \subseteq msgs', erased \subseteq erased',
         \A m \in msgs' \ msgs :
           m.via = "ask" \/ (m.via = "stream" /\ m.sender = "AI") =>
             \A s \in {"HUMAN", "AI"} : Together(m.via, m.of, m.room, s)',
         SameStreams,
         \A s \in Threads : Answering(tx'[s]) /\ tx[s].room \notin rooms =>
           tx[s].room \notin rooms'
  PROVE  Paired' /\ Streaming'
<1>1. \A via, of, r, s : Together(via, of, r, s) => Together(via, of, r, s)'
  BY DEF Together
<1>2. Paired'
  BY <1>1 DEF Paired
<1>3. Streaming'
  <2> SUFFICES ASSUME NEW s \in Threads, Answering(tx'[s])
               PROVE  \/ tx'[s].room \notin rooms'
                      \/ Together("stream", tx[s].q, tx[s].room, "HUMAN")'
    BY DEF Streaming, Answering
  <2> PICK q, room : q = tx[s].q /\ room = tx[s].room
    OBVIOUS
  <2>1. Answering(tx[s]) /\ tx'[s].q = q /\ tx'[s].room = room
    BY DEF SameStreams
  <2>2. room \notin rooms \/ Together("stream", q, room, "HUMAN")
    BY <2>1 DEF Streaming
  <2> QED
    BY <1>1, <2>1, <2>2
<1> QED
  BY <1>2, <1>3

LEMMA CommitAskKept ==
  ASSUME Kept, NEW t \in Threads, CommitAsk(t)
  PROVE  Paired' /\ Streaming'
<1> PICK q, r : q = tx[t].q /\ r = tx[t].room
  OBVIOUS
<1>1. /\ rooms' = rooms \cup {r} /\ msgs' = msgs \cup {Question(t), Answer(t)}
      /\ tx[t].op \in Asking /\ erased' = erased
  BY DEF CommitAsk, Asking, history
<1>2. /\ Question(t).via = "ask" /\ Question(t).of = q /\ Question(t).room = r
      /\ Answer(t).via = "ask" /\ Answer(t).of = q /\ Answer(t).room = r
  BY <1>1 DEF Question, Answer, Asking
<1>3. Question(t).sender = "HUMAN" /\ Answer(t).sender = "AI"
  BY DEF Question, Answer
<1>4. \A s \in {"HUMAN", "AI"} : Together("ask", q, r, s)'
  BY <1>1, <1>2, <1>3 DEF Together
<1>5. \A m \in msgs' \ msgs : m.via = "ask" /\ m.of = q /\ m.room = r
  BY <1>1, <1>2
<1>0. SameStreams
  BY NoNewStream DEF Kept
<1>6. ASSUME NEW s \in Threads, Answering(tx'[s])
      PROVE  tx[s].room \notin rooms => tx[s].room \notin rooms'
  <2>1. tx[s].op = "stream"
    BY <1>0, <1>6 DEF SameStreams, Answering
  <2>2. s # t
    BY <2>1 DEF CommitAsk
  <2>3. CASE tx[t].op = "ask"
    BY <1>1, <2>1, <2>3 DEF Kept, Rooted, Anchored, Holding
  <2>4. CASE tx[t].op = "open"
    BY <1>1, <2>1, <2>2, <2>4 DEF Kept, Rooted, Opening
  <2> QED
    BY <1>1, <2>3, <2>4 DEF Asking
<1> QED
  BY <1>0, <1>1, <1>4, <1>5, <1>6, GrowKept DEF Kept

LEMMA CommitAskStreamKept ==
  ASSUME Kept, NEW t \in Threads, CommitAskStream(t)
  PROVE  Paired' /\ Streaming'
<1> PICK q, r : q = tx[t].q /\ r = tx[t].room
  OBVIOUS
<1> DEFINE w == [tx[t] EXCEPT !.pc = "streaming"]
<1>1. /\ msgs' = msgs \cup {Question(t)} /\ tx[t].op = "stream" /\ tx' = [tx EXCEPT ![t] = w]
      /\ rooms' = rooms /\ erased' = erased
  BY DEF CommitAskStream, history
<1>2. /\ Question(t).via = "stream" /\ Question(t).of = q /\ Question(t).room = r
      /\ Question(t).sender = "HUMAN"
  BY <1>1 DEF Question
<1>3. tx[t] \in Tx /\ tx \in [Threads -> Tx]
  BY DEF Kept, Rooted, Typed, TypeOK
<1>4. w.q = q /\ w.room = r
  BY <1>3 DEF Tx
<1> HIDE DEF w
<1>5. tx'[t] = w /\ \A s \in Threads \ {t} : tx'[s] = tx[s]
  BY <1>1, <1>3
<1>6. \A via, of, room, s : Together(via, of, room, s) => Together(via, of, room, s)'
  BY <1>1 DEF Together
<1>7. Together("stream", q, r, "HUMAN")'
  BY <1>1, <1>2 DEF Together
<1>8. Paired'
  BY <1>1, <1>2, <1>6 DEF Kept, Paired
<1>9. ASSUME NEW s \in Threads, Answering(tx'[s])
      PROVE  tx'[s].room \notin rooms' \/ Together("stream", tx[s].q, tx[s].room, "HUMAN")'
  <2> PICK q2, r2 : q2 = tx'[s].q /\ r2 = tx'[s].room
    OBVIOUS
  <2>1. CASE s = t
    <3>1. q2 = q /\ r2 = r
      BY <1>4, <1>5, <2>1
    <3> QED
      BY <1>7, <3>1
  <2>2. CASE s # t
    <3>1. Answering(tx[s]) /\ q2 = tx[s].q /\ r2 = tx[s].room
      BY <1>5, <1>9, <2>2 DEF Answering
    <3>2. r2 \notin rooms \/ Together("stream", q2, r2, "HUMAN")
      BY <3>1 DEF Kept, Streaming
    <3> QED
      BY <1>1, <1>6, <3>2
  <2> QED
    BY <2>1, <2>2
<1> QED
  BY <1>8, <1>9 DEF Streaming, Answering

(* A message saved by create: the answer of a stream, whose room is still  *)
(* there and so its question, or one that belongs to no exchange.          *)
LEMMA CommitMessageKept ==
  ASSUME Kept, NEW t \in Threads, CommitMessage(t)
  PROVE  Paired' /\ Streaming'
<1> PICK q, r : q = tx[t].q /\ r = tx[t].room
  OBVIOUS
<1>1. PICK m \in Saved(t) : msgs' = msgs \cup {m}
  BY DEF CommitMessage
<1>2. rooms' = rooms /\ erased' = erased /\ tx[t].pc = "saving"
  BY DEF CommitMessage, history
<1>3. tx[t] \in Tx /\ Shape(tx[t], given) /\ Idle.pc = "idle"
  BY DEF Kept, Rooted, Typed, TypeOK, Idle
<1>4. tx[t].op \in {"stream", "create"} /\ r \in rooms
  BY <1>2, <1>3 DEF Shape, Tx, Asking, Kept, Rooted, Anchored, Holding
<1>5. SameStreams
  BY NoNewStream DEF Kept
<1>6. CASE tx[t].op = "stream"
  <2>1. m.via = "stream" /\ m.of = q /\ m.room = r /\ m.sender = "AI"
    BY <1>6 DEF Saved, Answer, Question
  <2>2. Together("stream", q, r, "HUMAN")
    BY <1>2, <1>4, <1>6 DEF Kept, Streaming, Answering
  <2>3. \A s \in {"HUMAN", "AI"} : Together("stream", q, r, s)'
    BY <1>1, <1>2, <2>1, <2>2 DEF Together
  <2> QED
    BY <1>1, <1>2, <1>5, <2>1, <2>3, GrowKept DEF Kept
<1>7. CASE tx[t].op = "create"
  <2>1. m.via = "create"
    BY <1>7 DEF Saved, Question
  <2> QED
    BY <1>1, <1>2, <1>5, <2>1, GrowKept DEF Kept
<1> QED
  BY <1>4, <1>6, <1>7

(* The messages of a room go together.                                     *)
LEMMA CommitRemoveKept ==
  ASSUME Kept, NEW t \in Threads, CommitRemove(t)
  PROVE  Paired' /\ Streaming'
<1> PICK r : r = tx[t].room
  OBVIOUS
<1>1. erased' = erased /\ SameStreams
  BY NoNewStream DEF CommitRemove, history, Kept
<1>2. CASE msgs' = msgs /\ rooms' = rooms
  BY <1>1, <1>2, GrowKept DEF Kept
<1>3. CASE rooms' = rooms \ {r} /\ msgs' = {m \in msgs : m.room # r}
  <2>1. \A via, of, room, s :
          room # r /\ Together(via, of, room, s) => Together(via, of, room, s)'
    BY <1>1, <1>3 DEF Together
  <2>2. Paired'
    BY <1>3, <2>1 DEF Kept, Paired
  <2>3. ASSUME NEW s \in Threads, Answering(tx'[s])
        PROVE  tx'[s].room \notin rooms' \/ Together("stream", tx[s].q, tx[s].room, "HUMAN")'
    <3> PICK q, room : q = tx'[s].q /\ room = tx'[s].room
      OBVIOUS
    <3>1. Answering(tx[s]) /\ q = tx[s].q /\ room = tx[s].room
      BY <1>1, <2>3 DEF SameStreams
    <3>2. room \notin rooms \/ Together("stream", q, room, "HUMAN")
      BY <3>1 DEF Kept, Streaming
    <3> QED
      BY <1>3, <2>1, <3>2
  <2>4. \A s \in Threads : Answering(tx'[s]) => tx'[s].q = tx[s].q /\ tx'[s].room = tx[s].room
    BY <1>1 DEF SameStreams
  <2> QED
    BY <2>2, <2>3, <2>4 DEF Streaming, Answering
<1> QED
  BY <1>2, <1>3 DEF CommitRemove, Cascade, MessagesOf

(* One that is removed by itself is remembered.                            *)
LEMMA DeleteMessageKept ==
  ASSUME Kept, NEW m \in msgs, DeleteMessage(m)
  PROVE  Paired' /\ Streaming'
<1>1. /\ msgs' = msgs \ {m} /\ erased' = erased \cup {<<m.of, m.sender>>}
      /\ rooms' = rooms /\ tx' = tx
  BY DEF DeleteMessage
<1>2. \A via, of, room, s : Together(via, of, room, s) => Together(via, of, room, s)'
  BY <1>1 DEF Together
<1>3. Paired'
  BY <1>1, <1>2 DEF Kept, Paired
<1>4. Streaming'
  BY <1>1, <1>2 DEF Kept, Streaming, Answering
<1> QED
  BY <1>3, <1>4

LEMMA KeptStep ==
  ASSUME Kept, [Next]_vars
  PROVE  Kept'
<1>1. Rooted'
  BY RootedStep DEF Kept
<1>2. ASSUME msgs' = msgs, erased' = erased, rooms' = rooms, SameStreams
      PROVE  Paired' /\ Streaming'
  BY <1>2, GrowKept DEF Kept
<1>3. ASSUME NEW t \in Threads, Call(t)
      PROVE  Paired' /\ Streaming'
  <2>1. erased' = erased
    BY <1>3 DEF Call, CreateAiChatRoom, Ask, AskStream, CreateAiChatMessage,
       DeleteAiChatRoom, MarkAsReadUpTo, history
  <2> QED
    BY <1>2, <1>3, <2>1, NoNewStream, CallRooted DEF Kept
<1>4. ASSUME NEW t \in Threads,
             \/ TryAcquire(t) \/ GenerateChatResponse(t) \/ StreamEnds(t)
             \/ CommitRead(t) \/ LockWaitFails(t)
      PROVE  Paired' /\ Streaming'
  <2>1. msgs' = msgs /\ erased' = erased /\ rooms' = rooms
    BY <1>4 DEF TryAcquire, GenerateChatResponse, StreamEnds, CommitRead, LockWaitFails,
       db, history
  <2> QED
    BY <1>2, <1>4, <2>1, NoNewStream DEF Kept
<1>5. ASSUME NEW t \in Threads,
             CommitAsk(t) \/ CommitAskStream(t) \/ CommitRemove(t) \/ CommitMessage(t)
      PROVE  Paired' /\ Streaming'
  BY <1>5, CommitAskKept, CommitAskStreamKept, CommitRemoveKept, CommitMessageKept
<1>6. CASE Crash
  <2>1. /\ msgs' = msgs /\ erased' = erased /\ rooms' = rooms
        /\ \A s \in Threads : ~Answering(tx'[s])
    BY <1>6 DEF Crash, Idle, db, history, Answering
  <2> QED
    BY <1>1, <1>2, <2>1 DEF Kept, SameStreams
<1>7. CASE UNCHANGED vars
  BY <1>1, <1>2, <1>7 DEF Kept, vars, db, history, SameStreams, Answering
<1> QED
  BY <1>1, <1>3, <1>4, <1>5, <1>6, <1>7, DeleteMessageKept
     DEF Kept, Next, Proceed, ModelReplies

(* A question that was answered at once and its answer are stored and go   *)
(* together; a streamed answer is not there without its question.          *)
THEOREM ExchangesTogether == Spec => []ExchangeTogether
<1>1. Init => Kept
  BY RootedInit DEF Init, Idle, Kept, Paired, Streaming, Answering
<1>2. Kept => ExchangeTogether
  <2> SUFFICES ASSUME Kept PROVE ExchangeTogether
    OBVIOUS
  <2> QED
    BY DEF Kept, Paired, Together, ExchangeTogether
<1> QED
  BY <1>1, <1>2, KeptStep, PTL DEF Spec

-----------------------------------------------------------------------------
(* Ids and time                                                            *)

(* All ids are older than the next one, an answer's newer than its         *)
(* question's.                                                             *)
HasAnswer(w) ==
  (w.op \in Asking /\ w.pc = "commit") \/ (w.op = "stream" /\ w.pc = "saving")
InOrder(w) == HasAnswer(w) => w.q < w.a

Dated ==
  /\ \A m \in msgs : m.id < nextId
  /\ \A r \in Rooms : readUpTo[r] < nextId
  /\ \A t \in Threads :
       /\ tx[t].q < nextId /\ tx[t].a < nextId
       /\ InOrder(tx[t])

(* What a step may do to a thread and to messages.                         *)
LEMMA DatedGrow ==
  ASSUME Typed, Dated, nextId' \in Nat, nextId <= nextId',
         \A m \in msgs' : m \in msgs \/ (m.id \in Nat /\ m.id < nextId'),
         \A r \in Rooms : readUpTo'[r] \in Nat /\ readUpTo'[r] < nextId',
         \A t \in Threads :
           \/ tx'[t] = tx[t]
           \/ /\ tx'[t].q \in Nat /\ tx'[t].q < nextId'
              /\ tx'[t].a \in Nat /\ tx'[t].a < nextId'
              /\ InOrder(tx'[t])
  PROVE  Dated'
<1>1. /\ nextId \in Nat /\ \A m \in msgs : m.id \in Nat
      /\ \A t \in Threads : tx[t].q \in Nat /\ tx[t].a \in Nat
  BY DEF Typed, TypeOK, Message, Tx
<1>2. \A m \in msgs' : m.id < nextId'
  BY <1>1 DEF Dated
<1>3. \A t \in Threads : tx'[t].q < nextId' /\ tx'[t].a < nextId'
  BY <1>1 DEF Dated
<1>4. \A t \in Threads : InOrder(tx'[t])
  BY DEF Dated
<1> QED
  BY <1>2, <1>3, <1>4 DEF Dated, InOrder, HasAnswer

(* The state before a step, as arithmetic needs it.                        *)
LEMMA Numbers ==
  ASSUME Typed, Dated
  PROVE  /\ nextId \in Nat \ {0} /\ NewId = nextId /\ Idle.q = 0 /\ Idle.a = 0
         /\ Idle.op = "none" /\ Idle.pc = "idle"
         /\ \A m \in msgs : m.id \in Nat /\ m.id < nextId /\ m.room \in Rooms
         /\ \A r \in Rooms : readUpTo[r] \in Nat /\ readUpTo[r] < nextId
         /\ \A t \in Threads : /\ tx[t] \in Tx
                               /\ tx[t].q \in Nat /\ tx[t].a \in Nat /\ tx[t].room \in Rooms
                               /\ tx[t].q < nextId /\ tx[t].a < nextId
         /\ tx \in [Threads -> Tx]
<1>1. msgs \subseteq Message /\ tx \in [Threads -> Tx] /\ readUpTo \in [Rooms -> Nat]
      /\ nextId \in Nat \ {0}
  BY DEF Typed, TypeOK
<1>2. \A m \in msgs : m.id \in Nat /\ m.id < nextId /\ m.room \in Rooms
  BY <1>1 DEF Message, Dated
<1>3. \A r \in Rooms : readUpTo[r] \in Nat /\ readUpTo[r] < nextId
  BY <1>1 DEF Dated
<1>4. \A t \in Threads : /\ tx[t] \in Tx
                         /\ tx[t].q \in Nat /\ tx[t].a \in Nat /\ tx[t].room \in Rooms
                         /\ tx[t].q < nextId /\ tx[t].a < nextId
  BY <1>1 DEF Tx, Dated
<1> QED
  BY <1>1, <1>2, <1>3, <1>4 DEF NewId, Idle

-----------------------------------------------------------------------------
(* Readers                                                                 *)

(* What a reader of room r, who has seen the message with id k and loaded  *)
(* the messages in known, does not have, he has overtaken.                 *)
Coming(s, r) == IF Inserted(s, r) THEN Uncommitted(s) ELSE {}

Covers(r, k, known) ==
  /\ k < nextId
  /\ \A m \in msgs : m.room = r /\ m.id <= k => m.id \in known \cup read \cup overtaken
  /\ \A s \in Threads : \A i \in Coming(s, r) : i <= k => i \in overtaken

Reading == \A t \in Threads :
  tx[t].op = "read" => Covers(tx[t].room, tx[t].q, tx[t].known)

(* So has one who was answered.                                            *)
InsertedSeen == \A s \in Threads, r \in Rooms :
  \A i \in Coming(s, r) : i <= readUpTo[r] => i \in overtaken

Seen == Typed /\ Dated /\ Reading /\ InsertedSeen /\ ReadUpToSeen

(* Where a message of a step comes from, that no reader has seen.          *)
Unseen(m) ==
  \/ m.id >= nextId
  \/ \E s \in Threads : m.id \in Coming(s, m.room)

(* Steps that are not a reader's.                                          *)
LEMMA OthersSeen ==
  ASSUME Seen, nextId' \in Nat, nextId <= nextId', read \subseteq read',
         overtaken \subseteq overtaken', readUpTo' = readUpTo,
         \A m \in msgs' : m \in msgs \/ (m.id \in Nat /\ m.room \in Rooms /\ Unseen(m)),
         \A s \in Threads, r \in Rooms :
           \A i \in Coming(s, r)' : i \in Coming(s, r) \/ i = nextId,
         \A s \in Threads : tx'[s].op = "read" => tx'[s] = tx[s]
  PROVE  Reading' /\ InsertedSeen' /\ ReadUpToSeen'
<1>1. /\ nextId \in Nat \ {0} /\ \A m \in msgs : m.id \in Nat /\ m.room \in Rooms
      /\ \A r \in Rooms : readUpTo[r] \in Nat /\ readUpTo[r] < nextId
      /\ \A t \in Threads : tx[t].q \in Nat /\ tx[t].room \in Rooms
  BY Numbers DEF Seen
<1>2. ASSUME NEW r \in Rooms, NEW k \in Nat, NEW known, Covers(r, k, known)
      PROVE  Covers(r, k, known)'
  <2>1. k < nextId'
    BY <1>1, <1>2 DEF Covers
  <2>2. ASSUME NEW m \in msgs', m.room = r, m.id <= k
        PROVE  m.id \in known \cup read' \cup overtaken'
    BY <1>1, <1>2, <2>2 DEF Covers, Unseen
  <2>3. ASSUME NEW s \in Threads, NEW i \in Coming(s, r)', i <= k
        PROVE  i \in overtaken'
    BY <1>1, <1>2, <2>3 DEF Covers
  <2> QED
    BY <2>1, <2>2, <2>3 DEF Covers
<1>3. Reading'
  <2> SUFFICES ASSUME NEW t \in Threads, tx'[t].op = "read"
               PROVE  Covers(tx[t].room, tx[t].q, tx[t].known)'
    BY DEF Reading
  <2> PICK r, k, known : r = tx[t].room /\ k = tx[t].q /\ known = tx[t].known
    OBVIOUS
  <2>1. tx'[t] = tx[t] /\ Covers(r, k, known) /\ r \in Rooms /\ k \in Nat
    BY <1>1 DEF Seen, Reading
  <2>2. Covers(r, k, known)'
    BY <1>2, <2>1
  <2> QED
    BY <2>1, <2>2
<1>4. InsertedSeen'
  BY <1>1 DEF Seen, InsertedSeen
<1>5. ReadUpToSeen'
  <2> SUFFICES ASSUME NEW m \in msgs', m.id <= readUpTo[m.room]
               PROVE  m.id \in read' \/ m.id \in overtaken'
    BY DEF ReadUpToSeen
  <2>1. CASE m \in msgs
    BY <2>1 DEF Seen, ReadUpToSeen
  <2>2. CASE m \notin msgs
    BY <1>1, <2>2 DEF Seen, InsertedSeen, Unseen
  <2> QED
    BY <2>1, <2>2
<1> QED
  BY <1>3, <1>4, <1>5

(* A thread that was v goes on as w, other than to read: it ends, goes on  *)
(* with its question, inserts one or begins to remove a room.              *)
Onward(v, w, next) ==
  \/ w = Idle
  \/ /\ w.op = v.op /\ w.q = v.q /\ w.room = v.room /\ w.a \in Nat /\ w.a < next
     /\ InOrder(w) /\ (w.a = v.a \/ w.a = nextId)
     /\ w.pc \in {"permit", "calling", "commit"} => v.pc \in {"permit", "calling", "commit"}
     /\ w.pc = "saving" => w.op = "stream" /\ w.a = nextId
  \/ /\ w.q = nextId /\ w.a = 0 /\ nextId < next
     /\ w.op \in Asking => w.pc # "commit"
     /\ w.op = "stream" => w.pc # "saving"
  \/ w.op = "remove" /\ w.q = 0 /\ w.a = 0

(* What that changes for readers.                                          *)
LEMMA ThreadSeen ==
  ASSUME Seen, NEW t \in Threads, NEW w, tx' = [tx EXCEPT ![t] = w],
         w.op # "read", nextId' \in Nat, nextId <= nextId',
         Onward(tx[t], w, nextId')
  PROVE  /\ \A s \in Threads, r \in Rooms :
              \A i \in Coming(s, r)' : i \in Coming(s, r) \/ i = nextId
         /\ \A s \in Threads : tx'[s].op = "read" => tx'[s] = tx[s]
         /\ \A s \in Threads :
              \/ tx'[s] = tx[s]
              \/ /\ tx'[s].q \in Nat /\ tx'[s].q < nextId'
                 /\ tx'[s].a \in Nat /\ tx'[s].a < nextId'
                 /\ InOrder(tx'[s])
<1>1. /\ nextId \in Nat \ {0} /\ Idle.q = 0 /\ Idle.a = 0 /\ Idle.op = "none"
      /\ Idle.pc = "idle" /\ tx \in [Threads -> Tx]
      /\ \A s \in Threads : tx[s].q \in Nat /\ tx[s].q < nextId
  BY Numbers DEF Seen
<1>2. tx'[t] = w /\ \A s \in Threads \ {t} : tx'[s] = tx[s]
  BY <1>1
<1>3. ASSUME NEW s \in Threads, NEW r \in Rooms, NEW i \in Coming(s, r)'
      PROVE  i \in Coming(s, r) \/ i = nextId
  <2>1. CASE s = t
    BY <1>1, <1>2, <1>3, <2>1 DEF Coming, Uncommitted, Inserted, Onward, Asking
  <2>2. CASE s # t
    BY <1>2, <1>3, <2>2 DEF Coming, Uncommitted, Inserted
  <2> QED
    BY <2>1, <2>2
<1>4. ASSUME NEW s \in Threads
      PROVE  \/ tx'[s] = tx[s]
             \/ /\ tx'[s].q \in Nat /\ tx'[s].q < nextId'
                /\ tx'[s].a \in Nat /\ tx'[s].a < nextId'
                /\ InOrder(tx'[s])
  <2>1. CASE s = t
    <3>1. w.q \in Nat /\ w.q < nextId' /\ w.a \in Nat /\ w.a < nextId'
      BY <1>1 DEF Onward
    <3>2. InOrder(w)
      BY <1>1 DEF Asking, Onward, InOrder, HasAnswer
    <3> QED
      BY <1>2, <2>1, <3>1, <3>2
  <2>2. CASE s # t
    BY <1>2, <2>2
  <2> QED
    BY <2>1, <2>2
<1>5. \A s \in Threads : tx'[s].op = "read" => tx'[s] = tx[s]
  BY <1>2
<1> QED
  BY <1>3, <1>4, <1>5

(* What such a step needs to keep what readers have seen.                  *)
LEMMA StepSeen ==
  ASSUME Seen, NEW t \in Threads, NEW w, tx' = [tx EXCEPT ![t] = w], Typed',
         w.op # "read", nextId' \in Nat, nextId <= nextId',
         Onward(tx[t], w, nextId'),
         read' = read, overtaken' = overtaken, readUpTo' = readUpTo,
         \A m \in msgs' : m \in msgs \/
           (m.id \in Nat /\ m.id < nextId' /\ m.room \in Rooms /\ Unseen(m))
  PROVE  Seen'
<1>1. /\ \A s \in Threads, r \in Rooms :
           \A i \in Coming(s, r)' : i \in Coming(s, r) \/ i = nextId
      /\ \A s \in Threads : tx'[s].op = "read" => tx'[s] = tx[s]
      /\ \A s \in Threads :
           \/ tx'[s] = tx[s]
           \/ /\ tx'[s].q \in Nat /\ tx'[s].q < nextId'
              /\ tx'[s].a \in Nat /\ tx'[s].a < nextId'
              /\ InOrder(tx'[s])
  BY ThreadSeen
<1>2. nextId \in Nat /\ \A r \in Rooms : readUpTo'[r] \in Nat /\ readUpTo'[r] < nextId'
  <2>1. nextId \in Nat /\ \A r \in Rooms : readUpTo[r] \in Nat /\ readUpTo[r] < nextId
    BY Numbers DEF Seen
  <2> QED
    BY <2>1
<1>3. Dated'
  <2>1. \A m \in msgs' : m \in msgs \/ (m.id \in Nat /\ m.id < nextId')
    OBVIOUS
  <2> QED
    BY <1>1, <1>2, <2>1, DatedGrow DEF Seen
<1>4. Reading' /\ InsertedSeen' /\ ReadUpToSeen'
  <2>1. \A m \in msgs' : m \in msgs \/ (m.id \in Nat /\ m.room \in Rooms /\ Unseen(m))
    OBVIOUS
  <2> QED
    BY <1>1, <2>1, OthersSeen
<1> QED
  BY <1>3, <1>4 DEF Seen

(* A step without a message.                                               *)
LEMMA QuietSeen ==
  ASSUME Seen, NEW t \in Threads, NEW w, tx' = [tx EXCEPT ![t] = w], Typed',
         w.op # "read", nextId' \in Nat, nextId <= nextId', Onward(tx[t], w, nextId'),
         read' = read, overtaken' = overtaken, readUpTo' = readUpTo, msgs' \subseteq msgs
  PROVE  Seen'
<1>1. \A m \in msgs' : m \in msgs \/
        (m.id \in Nat /\ m.id < nextId' /\ m.room \in Rooms /\ Unseen(m))
  OBVIOUS
<1> QED
  BY <1>1, StepSeen

LEMMA CallSeen ==
  ASSUME Seen, NEW t \in Threads, NEW r \in Rooms, Typed',
         \/ CreateAiChatRoom(t, r) \/ Ask(t, r) \/ AskStream(t, r)
         \/ CreateAiChatMessage(t, r) \/ DeleteAiChatRoom(t, r)
  PROVE  Seen'
<1>1. nextId \in Nat /\ NewId = nextId
  BY Numbers DEF Seen
<1>2. ASSUME NEW op \in {"open", "ask", "stream", "create"}, NEW pc,
             op \in Asking => pc # "commit", op = "stream" => pc # "saving",
             Begin(t, Work(op, pc, r, NewId, {})), nextId' = nextId + 1,
             msgs' = msgs, read' = read, UNCHANGED history
      PROVE  Seen'
  <2> DEFINE w == Work(op, pc, r, NewId, {})
  <2>1. w.op = op /\ w.pc = pc /\ w.q = nextId /\ w.a = 0 /\ tx' = [tx EXCEPT ![t] = w]
    BY <1>1, <1>2 DEF Work, Begin
  <2> HIDE DEF w
  <2>2. Onward(tx[t], w, nextId')
    BY <1>1, <1>2, <2>1 DEF Onward
  <2>5. /\ nextId' \in Nat /\ nextId <= nextId' /\ read' = read
        /\ overtaken' = overtaken /\ readUpTo' = readUpTo /\ msgs' \subseteq msgs
    BY <1>1, <1>2, <2>1, <2>2 DEF history
  <2> QED
    BY <1>1, <1>2, <2>1, <2>2, <2>5, QuietSeen
<1>3. CASE CreateAiChatRoom(t, r)
  BY <1>2, <1>3 DEF CreateAiChatRoom
<1>4. CASE Ask(t, r)
  BY <1>2, <1>4 DEF Ask, StoredAtInsert
<1>5. CASE AskStream(t, r)
  BY <1>2, <1>5 DEF AskStream, db, Asking
<1>6. CASE DeleteAiChatRoom(t, r)
  <2> DEFINE w == Work("remove", "commit", r, 0, Ids(MessagesOf(r)))
  <2>1. /\ w.op = "remove" /\ w.q = 0 /\ w.a = 0 /\ tx' = [tx EXCEPT ![t] = w]
        /\ UNCHANGED <<db, nextId, history>>
    BY <1>6 DEF DeleteAiChatRoom, Work, Begin
  <2> HIDE DEF w
  <2>2. Onward(tx[t], w, nextId')
    BY <2>1 DEF Onward
  <2>5. /\ nextId' \in Nat /\ nextId <= nextId' /\ read' = read
        /\ overtaken' = overtaken /\ readUpTo' = readUpTo /\ msgs' \subseteq msgs
    BY <1>1, <2>1, <2>2 DEF history, db
  <2> QED
    BY <1>1, <2>1, <2>2, <2>5, QuietSeen
<1>7. CASE CreateAiChatMessage(t, r)
  BY <1>2, <1>7 DEF CreateAiChatMessage, db, Asking
<1> QED
  BY <1>3, <1>4, <1>5, <1>6, <1>7

(* Handlers that end without a message.                                    *)
LEMMA DoneSeen ==
  ASSUME Seen, NEW t \in Threads, Done(t), Typed', nextId' = nextId, msgs' \subseteq msgs,
         read' = read, UNCHANGED history
  PROVE  Seen'
<1>1. nextId \in Nat /\ Idle.op = "none" /\ tx' = [tx EXCEPT ![t] = Idle]
  BY Numbers DEF Seen, Done
<1>2. Onward(tx[t], Idle, nextId')
  BY DEF Onward
<1>3. /\ nextId' \in Nat /\ nextId <= nextId' /\ read' = read
      /\ overtaken' = overtaken /\ readUpTo' = readUpTo /\ msgs' \subseteq msgs
  BY <1>1, <1>2 DEF history
<1> QED
  BY <1>1, <1>2, <1>3, QuietSeen

LEMMA TryAcquireSeen ==
  ASSUME Seen, NEW t \in Threads, TryAcquire(t), Typed'
  PROVE  Seen'
<1>1. /\ nextId' = nextId /\ msgs' = msgs /\ read' = read /\ UNCHANGED history
      /\ tx[t].pc = "permit"
  BY DEF TryAcquire, db
<1>2. CASE Done(t)
  BY <1>1, <1>2, DoneSeen
<1>3. CASE ~Done(t)
  <2> DEFINE w == [tx[t] EXCEPT !.pc = "calling"]
  <2>1. tx' = [tx EXCEPT ![t] = w]
    BY <1>3 DEF TryAcquire
  <2>2. /\ nextId \in Nat /\ tx[t] \in Tx /\ Shape(tx[t], given)
        /\ tx[t].a \in Nat /\ tx[t].a < nextId
    BY Numbers DEF Seen, Typed
  <2>3. /\ w.op = tx[t].op /\ w.q = tx[t].q /\ w.room = tx[t].room /\ w.a = tx[t].a
        /\ w.pc = "calling" /\ w.op # "read"
    BY <1>1, <2>2 DEF Tx, Shape
  <2> HIDE DEF w
  <2>4. Onward(tx[t], w, nextId')
    BY <1>1, <2>2, <2>3 DEF Onward, InOrder, HasAnswer
  <2>5. /\ nextId' \in Nat /\ nextId <= nextId' /\ read' = read
        /\ overtaken' = overtaken /\ readUpTo' = readUpTo /\ msgs' \subseteq msgs
    BY <1>1, <2>1, <2>2, <2>3, <2>4 DEF history
  <2> QED
    BY <1>1, <2>1, <2>2, <2>3, <2>4, <2>5, QuietSeen
<1> QED
  BY <1>2, <1>3

LEMMA GenerateChatResponseSeen ==
  ASSUME Seen, NEW t \in Threads, GenerateChatResponse(t), Typed'
  PROVE  Seen'
<1>1. /\ msgs' = msgs /\ read' = read /\ UNCHANGED history /\ tx[t].pc = "calling"
  BY DEF GenerateChatResponse, db
<1>2. CASE Done(t) /\ nextId' = nextId
  BY <1>1, <1>2, DoneSeen
<1>3. CASE /\ tx' = [tx EXCEPT ![t].pc = "commit", ![t].a = NewId]
           /\ nextId' = nextId + 1
  <2> DEFINE w == [tx[t] EXCEPT !.pc = "commit", !.a = NewId]
  <2>1. tx' = [tx EXCEPT ![t] = w]
    BY <1>3
  <2>2. /\ nextId \in Nat /\ NewId = nextId /\ tx[t] \in Tx /\ Shape(tx[t], given)
        /\ tx[t].q \in Nat /\ tx[t].q < nextId
    BY Numbers DEF Seen, Typed
  <2>3. /\ w.op = tx[t].op /\ w.q = tx[t].q /\ w.room = tx[t].room /\ w.a = nextId
        /\ w.pc = "commit" /\ w.op # "read"
    BY <1>1, <2>2 DEF Tx, Shape
  <2> HIDE DEF w
  <2>4. Onward(tx[t], w, nextId')
    BY <1>1, <1>3, <2>2, <2>3 DEF Onward, InOrder, HasAnswer
  <2>5. /\ nextId' \in Nat /\ nextId <= nextId' /\ read' = read
        /\ overtaken' = overtaken /\ readUpTo' = readUpTo /\ msgs' \subseteq msgs
    BY <1>1, <1>3, <2>1, <2>2, <2>3, <2>4 DEF history
  <2> QED
    BY <1>1, <1>3, <2>1, <2>2, <2>3, <2>4, <2>5, QuietSeen
<1> QED
  BY <1>2, <1>3 DEF GenerateChatResponse

(* A commit brings messages that a reader of their room was told to be on  *)
(* their way.                                                              *)
LEMMA CommitAskSeen ==
  ASSUME Seen, NEW t \in Threads, CommitAsk(t), Typed'
  PROVE  Seen'
<1>1. /\ msgs' = msgs \cup {Question(t), Answer(t)} /\ nextId' = nextId /\ read' = read
      /\ UNCHANGED history /\ tx[t].op \in Asking /\ tx[t].pc = "commit"
      /\ tx' = [tx EXCEPT ![t] = Idle]
  BY DEF CommitAsk, Done, Asking
<1>2. /\ nextId \in Nat /\ Idle.op = "none" /\ tx[t].room \in Rooms
      /\ tx[t].q \in Nat /\ tx[t].q < nextId /\ tx[t].a \in Nat /\ tx[t].a < nextId
  BY Numbers DEF Seen
<1>3. tx[t].q # 0 /\ tx[t].a # 0
  BY <1>1 DEF Seen, Typed, Shape
<1>4. /\ Question(t).id = tx[t].q /\ Question(t).room = tx[t].room
      /\ Answer(t).id = tx[t].a /\ Answer(t).room = tx[t].room
  BY DEF Question, Answer
<1>5. tx[t].q \in Coming(t, tx[t].room) /\ tx[t].a \in Coming(t, tx[t].room)
  BY <1>1, <1>3 DEF Coming, Inserted, Uncommitted, Asking
<1>6. Unseen(Question(t)) /\ Unseen(Answer(t))
  BY <1>4, <1>5 DEF Unseen
<1>7. \A m \in msgs' : m \in msgs \/
        (m.id \in Nat /\ m.id < nextId' /\ m.room \in Rooms /\ Unseen(m))
  BY <1>1, <1>2, <1>4, <1>6
<1>8. Onward(tx[t], Idle, nextId')
  BY DEF Onward
<1>9. /\ nextId' \in Nat /\ nextId <= nextId' /\ Idle.op # "read"
      /\ overtaken' = overtaken /\ readUpTo' = readUpTo
  BY <1>1, <1>2 DEF history
<1> QED
  BY <1>1, <1>7, <1>8, <1>9, StepSeen

LEMMA CommitAskStreamSeen ==
  ASSUME Seen, NEW t \in Threads, CommitAskStream(t), Typed'
  PROVE  Seen'
<1> DEFINE w == [tx[t] EXCEPT !.pc = "streaming"]
<1>1. /\ msgs' = msgs \cup {Question(t)} /\ nextId' = nextId /\ read' = read
      /\ UNCHANGED history /\ tx[t].op = "stream" /\ tx[t].pc = "commit"
      /\ tx' = [tx EXCEPT ![t] = w]
  BY DEF CommitAskStream
<1>2. /\ nextId \in Nat /\ tx[t] \in Tx /\ tx[t].room \in Rooms
      /\ tx[t].q \in Nat /\ tx[t].q < nextId /\ tx[t].a \in Nat /\ tx[t].a < nextId
  BY Numbers DEF Seen
<1>3. Question(t).id = tx[t].q /\ Question(t).room = tx[t].room /\ tx[t].q # 0
  BY <1>1 DEF Question, Seen, Typed, Shape
<1>4. tx[t].q \in Coming(t, tx[t].room)
  BY <1>1, <1>3 DEF Coming, Inserted, Uncommitted
<1>5. Unseen(Question(t))
  BY <1>3, <1>4 DEF Unseen
<1>6. \A m \in msgs' : m \in msgs \/
        (m.id \in Nat /\ m.id < nextId' /\ m.room \in Rooms /\ Unseen(m))
  BY <1>1, <1>2, <1>3, <1>5
<1>7. /\ w.op = "stream" /\ w.op = tx[t].op /\ w.q = tx[t].q /\ w.room = tx[t].room
      /\ w.a = tx[t].a /\ w.pc = "streaming"
  BY <1>1, <1>2 DEF Tx
<1> HIDE DEF w
<1>8. Onward(tx[t], w, nextId')
  BY <1>1, <1>2, <1>7 DEF Onward, InOrder, HasAnswer, Asking
<1>9. /\ nextId' \in Nat /\ nextId <= nextId' /\ w.op # "read"
      /\ overtaken' = overtaken /\ readUpTo' = readUpTo
  BY <1>1, <1>2, <1>7 DEF history
<1> QED
  BY <1>1, <1>6, <1>8, <1>9, StepSeen

(* The answer of a stream gets an id that nobody has seen.                 *)
LEMMA StreamEndsSeen ==
  ASSUME Seen, NEW t \in Threads, StreamEnds(t), Typed'
  PROVE  Seen'
<1>1. /\ msgs' = msgs /\ read' = read /\ UNCHANGED history /\ tx[t].pc = "streaming"
  BY DEF StreamEnds, db
<1>2. CASE Done(t) /\ nextId' = nextId
  BY <1>1, <1>2, DoneSeen
<1>3. CASE /\ tx' = [tx EXCEPT ![t].pc = "saving", ![t].a = NewId]
           /\ nextId' = nextId + 1
  <2> DEFINE w == [tx[t] EXCEPT !.pc = "saving", !.a = NewId]
  <2>1. tx' = [tx EXCEPT ![t] = w]
    BY <1>3
  <2>2. /\ nextId \in Nat /\ NewId = nextId /\ tx[t] \in Tx /\ Shape(tx[t], given)
        /\ tx[t].q \in Nat /\ tx[t].q < nextId /\ Idle.pc = "idle"
    BY Numbers DEF Seen, Typed
  <2>3. tx[t].op = "stream"
    BY <1>1, <2>2 DEF Shape, Tx, Asking
  <2>4. /\ w.op = tx[t].op /\ w.q = tx[t].q /\ w.room = tx[t].room /\ w.a = nextId
        /\ w.pc = "saving" /\ w.op # "read"
    BY <2>2, <2>3 DEF Tx
  <2> HIDE DEF w
  <2>5. Onward(tx[t], w, nextId')
    BY <1>3, <2>2, <2>3, <2>4 DEF Onward, InOrder, HasAnswer
  <2>6. /\ nextId' \in Nat /\ nextId <= nextId' /\ read' = read
        /\ overtaken' = overtaken /\ readUpTo' = readUpTo /\ msgs' \subseteq msgs
    BY <1>1, <1>3, <2>2 DEF history
  <2> QED
    BY <2>1, <2>4, <2>5, <2>6, QuietSeen
<1> QED
  BY <1>2, <1>3 DEF StreamEnds

LEMMA CommitMessageSeen ==
  ASSUME Seen, NEW t \in Threads, CommitMessage(t), Typed'
  PROVE  Seen'
<1>1. PICK m \in Saved(t) : msgs' = msgs \cup {m}
  BY DEF CommitMessage
<1>2. /\ nextId' = nextId /\ read' = read /\ UNCHANGED history /\ tx[t].pc = "saving"
      /\ tx' = [tx EXCEPT ![t] = Idle]
  BY DEF CommitMessage, Done
<1>3. /\ nextId \in Nat /\ Idle.op = "none" /\ Idle.pc = "idle" /\ tx[t].room \in Rooms
      /\ tx[t] \in Tx /\ Shape(tx[t], given)
      /\ tx[t].q \in Nat /\ tx[t].q < nextId /\ tx[t].a \in Nat /\ tx[t].a < nextId
  BY Numbers DEF Seen, Typed
<1>4. tx[t].op \in {"stream", "create"}
  BY <1>2, <1>3 DEF Shape, Tx, Asking
<1>5. m.room = tx[t].room /\ m.id = IF tx[t].op = "stream" THEN tx[t].a ELSE tx[t].q
  BY DEF Saved, Question, Answer
<1>6. m.id \in Coming(t, m.room)
  BY <1>2, <1>3, <1>4, <1>5 DEF Coming, Inserted, Uncommitted, Shape
<1>7. \A n \in msgs' : n \in msgs \/
        (n.id \in Nat /\ n.id < nextId' /\ n.room \in Rooms /\ Unseen(n))
  BY <1>1, <1>2, <1>3, <1>5, <1>6 DEF Unseen
<1>8. Onward(tx[t], Idle, nextId')
  BY DEF Onward
<1>9. /\ nextId' \in Nat /\ nextId <= nextId' /\ Idle.op # "read"
      /\ overtaken' = overtaken /\ readUpTo' = readUpTo
  BY <1>2, <1>3 DEF history
<1> QED
  BY <1>2, <1>7, <1>8, <1>9, StepSeen

LEMMA DeleteMessageSeen ==
  ASSUME Seen, NEW m \in msgs, Typed', DeleteMessage(m)
  PROVE  Seen'
<1>1. /\ tx' = tx /\ read' = read /\ overtaken' = overtaken /\ readUpTo' = readUpTo
      /\ nextId' = nextId /\ msgs' \subseteq msgs
  BY DEF DeleteMessage
<1> QED
  BY <1>1 DEF Seen, Dated, InOrder, HasAnswer, Reading, Covers, Coming, Inserted, Uncommitted,
     InsertedSeen, ReadUpToSeen

LEMMA EndsSeen ==
  ASSUME Seen, NEW t \in Threads, CommitRemove(t) \/ LockWaitFails(t), Typed'
  PROVE  Seen'
<1>1. /\ Done(t) /\ nextId' = nextId /\ msgs' \subseteq msgs /\ read' = read
      /\ UNCHANGED history
  BY DEF CommitRemove, LockWaitFails, db
<1> QED
  BY <1>1, DoneSeen

LEMMA CrashSeen ==
  ASSUME Seen, Crash, Typed'
  PROVE  Seen'
<1>1. /\ msgs' = msgs /\ nextId' = nextId /\ read' = read /\ overtaken' = overtaken
      /\ readUpTo' = readUpTo /\ \A s \in Threads : tx'[s] = Idle
  BY DEF Crash, db, history
<1>2. /\ nextId \in Nat \ {0} /\ Idle.q = 0 /\ Idle.a = 0 /\ Idle.op = "none"
      /\ \A r \in Rooms : readUpTo[r] \in Nat /\ readUpTo[r] < nextId
  BY Numbers DEF Seen
<1>3. Dated'
  <2>1. \A s \in Threads :
          /\ tx'[s].q \in Nat /\ tx'[s].q < nextId' /\ tx'[s].a \in Nat /\ tx'[s].a < nextId'
          /\ InOrder(tx'[s])
    BY <1>1, <1>2 DEF Asking, InOrder, HasAnswer
  <2> QED
    BY <1>1, <1>2, <2>1, DatedGrow DEF Seen
<1>4. Reading' /\ InsertedSeen' /\ ReadUpToSeen'
  <2>1. \A s \in Threads, r \in Rooms : Coming(s, r)' = {}
    BY <1>1, <1>2 DEF Coming, Inserted
  <2>2. \A s \in Threads : tx'[s].op # "read"
    BY <1>1, <1>2
  <2> QED
    BY <1>1, <1>2, <2>1, <2>2, OthersSeen
<1> QED
  BY <1>3, <1>4 DEF Seen

(* A reader who comes has what is there, and overtakes what is on its way. *)
LEMMA MarkAsReadUpToSeen ==
  ASSUME Seen, NEW t \in Threads, NEW m \in msgs, MarkAsReadUpTo(t, m), Typed'
  PROVE  Seen'
<1> DEFINE w == Work("read", "commit", m.room, m.id, UnreadUpTo(m))
           came == UNION {Uncommitted(s) : s \in {s \in Threads : Inserted(s, m.room)}}
<1>1. /\ msgs' = msgs /\ nextId' = nextId /\ read' = read /\ readUpTo' = readUpTo
      /\ overtaken' = overtaken \cup came /\ tx' = [tx EXCEPT ![t] = w]
      /\ w.op = "read" /\ w.q = m.id /\ w.a = 0 /\ w.room = m.room
      /\ w.known = UnreadUpTo(m)
  BY DEF MarkAsReadUpTo, Begin, Work, db
<1> HIDE DEF w
<1>2. /\ nextId \in Nat \ {0} /\ m.id \in Nat /\ m.id < nextId /\ m.room \in Rooms
      /\ \A r \in Rooms : readUpTo[r] \in Nat /\ readUpTo[r] < nextId
      /\ tx \in [Threads -> Tx]
  BY Numbers DEF Seen
<1>3. tx'[t] = w /\ \A s \in Threads \ {t} : tx'[s] = tx[s]
  BY <1>1, <1>2
<1>4. Dated'
  <2>1. \A s \in Threads :
          \/ tx'[s] = tx[s]
          \/ /\ tx'[s].q \in Nat /\ tx'[s].q < nextId' /\ tx'[s].a \in Nat /\ tx'[s].a < nextId'
             /\ InOrder(tx'[s])
    BY <1>1, <1>2, <1>3 DEF Asking, InOrder, HasAnswer
  <2> QED
    BY <1>1, <1>2, <2>1, DatedGrow DEF Seen
<1>5. \A s \in Threads : \A r : \A i \in Coming(s, r)' : i \in Coming(s, r)
  BY <1>1, <1>3 DEF Coming, Inserted, Uncommitted
<1>6. Reading'
  <2>1. ASSUME NEW s \in Threads, s # t, tx'[s].op = "read"
        PROVE  Covers(tx[s].room, tx[s].q, tx[s].known)'
    <3> PICK r, k, known : r = tx[s].room /\ k = tx[s].q /\ known = tx[s].known
      OBVIOUS
    <3>1. tx'[s] = tx[s] /\ Covers(r, k, known)
      BY <1>3, <2>1 DEF Seen, Reading
    <3>2. Covers(r, k, known)'
      BY <1>1, <1>5, <3>1 DEF Covers
    <3> QED
      BY <3>1, <3>2
  <2>2. ASSUME tx'[t].op = "read"
        PROVE  Covers(tx[t].room, tx[t].q, tx[t].known)'
    <3> PICK r, k, known : r = m.room /\ k = m.id /\ known = UnreadUpTo(m)
      OBVIOUS
    <3>1. \A n \in msgs : n.room = r /\ n.id <= k => n.id \in known \cup read
      BY DEF UnreadUpTo, MessagesOf, Ids
    <3>2. \A s \in Threads : \A i \in Coming(s, r) : i \in overtaken'
      BY <1>1 DEF Coming
    <3>3. Covers(r, k, known)'
      BY <1>1, <1>2, <1>5, <3>1, <3>2 DEF Covers
    <3> QED
      BY <1>1, <1>3, <3>3
  <2> QED
    BY <2>1, <2>2 DEF Reading
<1>7. InsertedSeen'
  BY <1>1, <1>5 DEF Seen, InsertedSeen
<1>8. ReadUpToSeen'
  BY <1>1 DEF Seen, ReadUpToSeen
<1> QED
  BY <1>4, <1>6, <1>7, <1>8 DEF Seen

(* One who is answered has marked what he had.                             *)
LEMMA CommitReadSeen ==
  ASSUME Seen, NEW t \in Threads, CommitRead(t), Typed'
  PROVE  Seen'
<1>1. CASE UNCHANGED <<read, readUpTo>>
  BY <1>1, DoneSeen DEF CommitRead, history
<1>2. CASE /\ read' = read \cup tx[t].known
           /\ readUpTo' = [readUpTo EXCEPT ![tx[t].room] =
                             IF tx[t].q > @ THEN tx[t].q ELSE @]
  <2>1. /\ msgs' = msgs /\ nextId' = nextId /\ overtaken' = overtaken
        /\ tx' = [tx EXCEPT ![t] = Idle] /\ tx[t].op = "read"
    BY DEF CommitRead, Done
  <2>2. /\ nextId \in Nat \ {0} /\ Idle.q = 0 /\ Idle.a = 0 /\ Idle.op = "none"
        /\ Idle.pc = "idle" /\ tx \in [Threads -> Tx]
        /\ \A n \in msgs : n.id \in Nat /\ n.room \in Rooms
        /\ \A r \in Rooms : readUpTo[r] \in Nat /\ readUpTo[r] < nextId
        /\ \A s \in Threads : tx[s].q \in Nat /\ tx[s].q < nextId /\ tx[s].room \in Rooms
    BY Numbers DEF Seen
  <2>3. tx'[t] = Idle /\ \A s \in Threads \ {t} : tx'[s] = tx[s]
    BY <2>1, <2>2
  <2>4. \A r \in Rooms :
          readUpTo'[r] = readUpTo[r] \/ (r = tx[t].room /\ readUpTo'[r] = tx[t].q)
    BY <1>2 DEF Seen, Typed, TypeOK
  <2>5. \A s \in Threads : \A r : \A i \in Coming(s, r)' : i \in Coming(s, r)
    BY <2>2, <2>3 DEF Coming, Inserted, Uncommitted
  <2>6. Covers(tx[t].room, tx[t].q, tx[t].known)
    BY <2>1 DEF Seen, Reading
  <2>7. Dated'
    <3>1. \A r \in Rooms : readUpTo'[r] \in Nat /\ readUpTo'[r] < nextId'
      BY <2>1, <2>2, <2>4
    <3>2. \A s \in Threads :
            \/ tx'[s] = tx[s]
            \/ /\ tx'[s].q \in Nat /\ tx'[s].q < nextId' /\ tx'[s].a \in Nat /\ tx'[s].a < nextId'
               /\ InOrder(tx'[s])
      BY <2>1, <2>2, <2>3 DEF Asking, InOrder, HasAnswer
    <3> QED
      BY <2>1, <2>2, <3>1, <3>2, DatedGrow DEF Seen
  <2>8. Reading'
    <3> SUFFICES ASSUME NEW s \in Threads, tx'[s].op = "read"
                 PROVE  Covers(tx[s].room, tx[s].q, tx[s].known)'
      BY DEF Reading
    <3> PICK r, k, known : r = tx[s].room /\ k = tx[s].q /\ known = tx[s].known
      OBVIOUS
    <3>1. tx'[s] = tx[s] /\ Covers(r, k, known)
      BY <2>2, <2>3 DEF Seen, Reading
    <3>2. Covers(r, k, known)'
      BY <1>2, <2>1, <2>5, <3>1 DEF Covers
    <3> QED
      BY <3>1, <3>2
  <2>9. InsertedSeen'
    BY <2>1, <2>4, <2>5, <2>6 DEF Seen, InsertedSeen, Covers
  <2>10. ReadUpToSeen'
    BY <1>2, <2>1, <2>2, <2>4, <2>6 DEF Seen, ReadUpToSeen, Covers
  <2> QED
    BY <2>7, <2>8, <2>9, <2>10 DEF Seen
<1> QED
  BY <1>1, <1>2 DEF CommitRead

LEMMA SeenStep ==
  ASSUME Seen, [Next]_vars
  PROVE  Seen'
<1>1. Typed'
  BY TypedStep DEF Seen
<1>2. ASSUME NEW t \in Threads, Call(t) PROVE Seen'
  BY <1>1, <1>2, CallSeen, MarkAsReadUpToSeen DEF Call
<1>3. ASSUME NEW t \in Threads, Proceed(t) PROVE Seen'
  BY <1>1, <1>3, TryAcquireSeen, CommitAskSeen, CommitAskStreamSeen, CommitMessageSeen,
     CommitReadSeen, EndsSeen DEF Proceed
<1>4. ASSUME NEW t \in Threads, ModelReplies(t) PROVE Seen'
  BY <1>1, <1>4, GenerateChatResponseSeen, StreamEndsSeen DEF ModelReplies
<1>5. CASE UNCHANGED vars
  <2>1. /\ msgs' = msgs /\ tx' = tx /\ nextId' = nextId /\ read' = read
        /\ overtaken' = overtaken /\ readUpTo' = readUpTo
    BY <1>5 DEF vars, db, history
  <2> QED
    BY <1>1, <2>1 DEF Seen, Dated, InOrder, HasAnswer, Reading, Covers, Coming, Inserted,
       Uncommitted, InsertedSeen, ReadUpToSeen
<1> QED
  BY <1>1, <1>2, <1>3, <1>4, <1>5, DeleteMessageSeen, CrashSeen DEF Next

LEMMA SeenInit == Init => Seen
<1> SUFFICES ASSUME Init PROVE Seen
  OBVIOUS
<1>1. Typed /\ Idle.q = 0 /\ Idle.a = 0 /\ Idle.op = "none"
  BY TypedInit DEF Idle
<1> QED
  BY <1>1 DEF Init, Seen, Dated, InOrder, HasAnswer, Reading, InsertedSeen, Coming, Inserted,
     ReadUpToSeen, Asking

(* Whatever is asked, answered, streamed, removed or read at the same      *)
(* time, what is older than the message a room was answered as read up to  *)
(* is read, or was not committed yet when a reader came.                   *)
THEOREM ReadersSeeAll == Spec => []ReadUpToSeen
<1>1. Seen => ReadUpToSeen
  BY DEF Seen
<1> QED
  BY <1>1, SeenInit, SeenStep, PTL DEF Spec

-----------------------------------------------------------------------------
(* Ids that are not shared                                                 *)

(* The ids of the rows that a handler in the state w has inserted; they    *)
(* are not shown yet, but the question of a stream is.                     *)
Held(w, i) ==
  \/ w.op \in Asking \cup {"stream", "create"} /\ w.q = i
  \/ HasAnswer(w) /\ w.a = i

Hidden(w, i) == Held(w, i) /\ (Answering(w) => HasAnswer(w) /\ w.a = i)

Apart ==
  /\ \A s, t \in Threads, i \in Nat : Held(tx[s], i) /\ Held(tx[t], i) => s = t
  /\ \A t \in Threads, m \in msgs : ~Hidden(tx[t], m.id)

(* Ids that are there are older than the next one.                         *)
LEMMA HeldOld ==
  ASSUME Seen
  PROVE  /\ nextId \in Nat /\ NewId = nextId /\ tx \in [Threads -> Tx]
         /\ \A t \in Threads, i \in Nat : Held(tx[t], i) => i < nextId
         /\ \A m \in msgs : m.id \in Nat /\ m.id < nextId
         /\ \A i : ~Held(Idle, i) /\ ~Hidden(Idle, i)
<1>1. \A i : ~Held(Idle, i) /\ ~Hidden(Idle, i)
  BY DEF Idle, Held, Hidden, HasAnswer, Asking
<1>2. \A t \in Threads, i \in Nat : Held(tx[t], i) => i < nextId
  BY Numbers DEF Seen, Held
<1> QED
  BY <1>1, <1>2, Numbers DEF Seen

(* A step of one thread takes no id but the next one, and shows none but   *)
(* its own and the next one.                                               *)
LEMMA ThreadApart ==
  ASSUME Seen, Apart, NEW t \in Threads, NEW w, tx' = [tx EXCEPT ![t] = w],
         \A i \in Nat : Held(w, i) => Held(tx[t], i) \/ i = nextId,
         \A i \in Nat : Hidden(w, i) => Hidden(tx[t], i) \/ i = nextId,
         \A m \in msgs' : m \in msgs \/
           (m.id \in Nat /\ ~Hidden(w, m.id) /\ (m.id = nextId \/ Held(tx[t], m.id)))
  PROVE  Apart'
<1>0. /\ nextId \in Nat /\ tx \in [Threads -> Tx]
      /\ \A s \in Threads, i \in Nat : Held(tx[s], i) => i < nextId
      /\ \A m \in msgs : m.id \in Nat /\ m.id < nextId
  BY HeldOld
<1>1. tx'[t] = w /\ \A s \in Threads \ {t} : tx'[s] = tx[s]
  BY <1>0
<1>2. ASSUME NEW s \in Threads \ {t}, NEW i \in Nat, Held(tx[s], i) PROVE ~Held(w, i)
  <2>1. ~Held(tx[t], i)
    BY <1>2 DEF Apart
  <2>2. i # nextId
    BY <1>0, <1>2
  <2> QED
    BY <2>1, <2>2
<1>3. ASSUME NEW s \in Threads, NEW u \in Threads, NEW i \in Nat,
             Held(tx'[s], i), Held(tx'[u], i)
      PROVE  s = u
  <2>1. CASE s = t /\ u # t
    BY <1>1, <1>2, <1>3, <2>1
  <2>2. CASE s # t /\ u = t
    BY <1>1, <1>2, <1>3, <2>2
  <2>3. CASE s # t /\ u # t
    BY <1>1, <1>3, <2>3 DEF Apart
  <2> QED
    BY <2>1, <2>2, <2>3
<1>4. ASSUME NEW s \in Threads, NEW m \in msgs', Hidden(tx'[s], m.id)
      PROVE  FALSE
  <2>1. CASE s = t
    <3>1. Hidden(w, m.id)
      BY <1>1, <1>4, <2>1
    <3>2. m \in msgs /\ m.id \in Nat /\ m.id < nextId
      BY <1>0, <3>1
    <3>3. Hidden(tx[t], m.id) \/ m.id = nextId
      BY <3>1, <3>2
    <3> QED
      BY <1>0, <3>2, <3>3 DEF Apart
  <2>2. CASE s # t
    <3>1. Hidden(tx[s], m.id) /\ Held(tx[s], m.id)
      BY <1>1, <1>4, <2>2 DEF Hidden
    <3>2. m \notin msgs
      BY <3>1 DEF Apart
    <3>3. m.id \in Nat /\ (m.id = nextId \/ Held(tx[t], m.id))
      BY <3>2
    <3>4. m.id # nextId
      BY <1>0, <3>1, <3>3
    <3> QED
      BY <2>2, <3>1, <3>3, <3>4 DEF Apart
  <2> QED
    BY <2>1, <2>2
<1> QED
  BY <1>3, <1>4 DEF Apart

LEMMA DoneApart ==
  ASSUME Seen, Apart, NEW t \in Threads, Done(t),
         \A m \in msgs' : m \in msgs \/ (m.id \in Nat /\ (m.id = nextId \/ Held(tx[t], m.id)))
  PROVE  Apart'
<1>1. /\ tx' = [tx EXCEPT ![t] = Idle]
      /\ \A i \in Nat : Held(Idle, i) => Held(tx[t], i) \/ i = nextId
      /\ \A i \in Nat : Hidden(Idle, i) => Hidden(tx[t], i) \/ i = nextId
      /\ \A m \in msgs' : m \in msgs \/
           (m.id \in Nat /\ ~Hidden(Idle, m.id) /\ (m.id = nextId \/ Held(tx[t], m.id)))
  BY HeldOld DEF Done
<1> QED
  BY <1>1, ThreadApart

LEMMA CallApart ==
  ASSUME Seen, Apart, NEW t \in Threads, Call(t)
  PROVE  Apart'
<1>0. nextId \in Nat /\ NewId = nextId
  BY HeldOld
<1>1. ASSUME NEW op \in {"open", "ask", "stream", "create", "read", "remove"}, NEW pc, NEW r,
             NEW q, NEW known, Begin(t, Work(op, pc, r, q, known)), msgs' = msgs,
             op \in Asking \cup {"stream", "create"} => q = nextId,
             op \in Asking => pc # "commit", op = "stream" => pc # "saving"
      PROVE  Apart'
  <2> DEFINE w == Work(op, pc, r, q, known)
  <2>1. w.op = op /\ w.pc = pc /\ w.q = q /\ tx' = [tx EXCEPT ![t] = w]
    BY <1>1 DEF Work, Begin
  <2> HIDE DEF w
  <2>2. \A i \in Nat : Held(w, i) => i = nextId
    BY <1>1, <2>1 DEF Held, HasAnswer
  <2> QED
    BY <1>1, <2>1, <2>2, ThreadApart DEF Hidden
<1>2. ASSUME NEW r \in Rooms, CreateAiChatRoom(t, r) \/ Ask(t, r)
      PROVE  Apart'
  BY <1>0, <1>1, <1>2 DEF CreateAiChatRoom, Ask, StoredAtInsert
<1>3. ASSUME NEW r \in Rooms, AskStream(t, r)
      PROVE  Apart'
  BY <1>0, <1>1, <1>3 DEF AskStream, db, Asking
<1>4. ASSUME NEW r \in Rooms, DeleteAiChatRoom(t, r)
      PROVE  Apart'
  BY <1>1, <1>4 DEF DeleteAiChatRoom, db, Asking
<1>5. ASSUME NEW m \in msgs, MarkAsReadUpTo(t, m)
      PROVE  Apart'
  BY <1>1, <1>5 DEF MarkAsReadUpTo, db, Asking
<1>6. ASSUME NEW r \in Rooms, CreateAiChatMessage(t, r)
      PROVE  Apart'
  BY <1>0, <1>1, <1>6 DEF CreateAiChatMessage, db, Asking
<1> QED
  BY <1>2, <1>3, <1>4, <1>5, <1>6 DEF Call

(* What a handler shows is what it has inserted.                           *)
LEMMA ShownHeld ==
  ASSUME Seen, NEW t \in Threads, tx[t].op \in Asking \cup {"stream"}
  PROVE  /\ Question(t).id = tx[t].q /\ tx[t].q \in Nat /\ Held(tx[t], Question(t).id)
         /\ Question(t).room = tx[t].room /\ Question(t).sender = "HUMAN"
         /\ Question(t).of = tx[t].q
         /\ Answer(t).id = tx[t].a /\ tx[t].a \in Nat
         /\ Answer(t).room = tx[t].room /\ Answer(t).sender = "AI" /\ Answer(t).of = tx[t].q
         /\ HasAnswer(tx[t]) => Held(tx[t], Answer(t).id)
  BY Numbers DEF Seen, Question, Answer, Held

LEMMA SavedHeld ==
  ASSUME Seen, NEW t \in Threads, tx[t].pc = "saving", NEW m \in Saved(t)
  PROVE  /\ m.id \in Nat /\ m.room = tx[t].room /\ m.of = tx[t].q
         /\ tx[t].op \in {"stream", "create"} /\ Hidden(tx[t], m.id)
         /\ tx[t].op = "stream" => m.id = tx[t].a /\ m.sender = "AI"
         /\ tx[t].op = "create" => m.id = tx[t].q
<1>1. /\ tx[t] \in Tx /\ Shape(tx[t], given) /\ Idle.pc = "idle"
      /\ tx[t].q \in Nat /\ tx[t].a \in Nat
  BY Numbers DEF Seen, Typed
<1>2. tx[t].op \in {"stream", "create"}
  BY <1>1 DEF Shape, Tx, Asking
<1>3. CASE tx[t].op = "stream"
  <2>1. m.id = tx[t].a /\ m.room = tx[t].room /\ m.of = tx[t].q /\ m.sender = "AI"
    BY <1>3 DEF Saved, Answer, Question
  <2> QED
    BY <1>1, <1>3, <2>1 DEF Hidden, Held, HasAnswer
<1>4. CASE tx[t].op = "create"
  <2>1. m.id = tx[t].q /\ m.room = tx[t].room /\ m.of = tx[t].q
    BY <1>4 DEF Saved, Question
  <2> QED
    BY <1>1, <1>4, <2>1 DEF Hidden, Held, Answering
<1> QED
  BY <1>2, <1>3, <1>4

LEMMA StepApart ==
  ASSUME Seen, Apart, NEW t \in Threads, Proceed(t) \/ ModelReplies(t)
  PROVE  Apart'
<1>0. nextId \in Nat /\ NewId = nextId /\ tx[t] \in Tx /\ Shape(tx[t], given)
  BY HeldOld DEF Seen, Typed, TypeOK
<1>1. CASE TryAcquire(t) /\ ~Done(t)
  <2> DEFINE w == [tx[t] EXCEPT !.pc = "calling"]
  <2>1. tx' = [tx EXCEPT ![t] = w] /\ tx[t].pc = "permit" /\ msgs' = msgs
    BY <1>1 DEF TryAcquire, db
  <2>2. w.op = tx[t].op /\ w.q = tx[t].q /\ w.pc = "calling"
    BY <1>0 DEF Tx
  <2> HIDE DEF w
  <2>3. \A i \in Nat : Held(w, i) => Hidden(tx[t], i)
    BY <2>1, <2>2 DEF Held, Hidden, HasAnswer, Answering
  <2> QED
    BY <2>1, <2>3, ThreadApart DEF Hidden
<1>2. CASE GenerateChatResponse(t) /\ ~Done(t)
  <2> DEFINE w == [tx[t] EXCEPT !.pc = "commit", !.a = NewId]
  <2>1. tx' = [tx EXCEPT ![t] = w] /\ tx[t].pc = "calling" /\ msgs' = msgs
    BY <1>2 DEF GenerateChatResponse, db
  <2>2. w.op = tx[t].op /\ w.q = tx[t].q /\ w.pc = "commit" /\ w.a = nextId
    BY <1>0 DEF Tx
  <2> HIDE DEF w
  <2>3. \A i \in Nat : Held(w, i) => Hidden(tx[t], i) \/ i = nextId
    BY <1>0, <2>1, <2>2 DEF Held, Hidden, HasAnswer, Answering, Shape
  <2> QED
    BY <2>1, <2>3, ThreadApart DEF Hidden
<1>3. CASE CommitAsk(t)
  <2>1. /\ Done(t) /\ msgs' = msgs \cup {Question(t), Answer(t)}
        /\ tx[t].op \in Asking /\ tx[t].pc = "commit"
    BY <1>3 DEF CommitAsk, Asking
  <2>2. /\ Question(t).id \in Nat /\ Held(tx[t], Question(t).id)
        /\ Answer(t).id \in Nat /\ Held(tx[t], Answer(t).id)
    BY <2>1, ShownHeld DEF HasAnswer
  <2> QED
    BY <2>1, <2>2, DoneApart
<1>4. CASE CommitAskStream(t)
  <2> DEFINE w == [tx[t] EXCEPT !.pc = "streaming"]
  <2>1. tx' = [tx EXCEPT ![t] = w] /\ tx[t].op = "stream" /\ msgs' = msgs \cup {Question(t)}
    BY <1>4 DEF CommitAskStream
  <2>2. w.op = "stream" /\ w.q = tx[t].q /\ w.pc = "streaming"
    BY <1>0, <2>1 DEF Tx
  <2>3. Question(t).id \in Nat /\ Held(tx[t], Question(t).id)
    BY <2>1, ShownHeld
  <2> HIDE DEF w
  <2>4. \A i \in Nat : (Held(w, i) => Held(tx[t], i)) /\ ~Hidden(w, i)
    BY <2>1, <2>2 DEF Held, Hidden, HasAnswer, Answering, Asking
  <2> QED
    BY <2>1, <2>3, <2>4, ThreadApart
<1>5. CASE StreamEnds(t) /\ ~Done(t)
  <2> DEFINE w == [tx[t] EXCEPT !.pc = "saving", !.a = NewId]
  <2>1. tx' = [tx EXCEPT ![t] = w] /\ tx[t].pc = "streaming" /\ msgs' = msgs
    BY <1>5 DEF StreamEnds, db
  <2>2. w.op = tx[t].op /\ w.q = tx[t].q /\ w.pc = "saving" /\ w.a = nextId
    BY <1>0 DEF Tx
  <2>3. tx[t].op = "stream"
    BY <1>0, <2>1 DEF Shape, Tx, Asking, Idle
  <2> HIDE DEF w
  <2>4. \A i \in Nat : Held(w, i) => Held(tx[t], i) \/ i = nextId
    BY <2>1, <2>2, <2>3 DEF Held, HasAnswer, Asking
  <2>5. \A i \in Nat : Hidden(w, i) => i = nextId
    BY <2>2, <2>3 DEF Hidden, Answering
  <2> QED
    BY <2>1, <2>4, <2>5, ThreadApart
<1>8. CASE CommitMessage(t)
  <2> PICK m \in Saved(t) : msgs' = msgs \cup {m}
    BY <1>8 DEF CommitMessage
  <2>1. Done(t) /\ tx[t].pc = "saving"
    BY <1>8 DEF CommitMessage
  <2>2. m.id \in Nat /\ Held(tx[t], m.id)
    BY <2>1, SavedHeld DEF Hidden
  <2> QED
    BY <2>1, <2>2, DoneApart
<1>6. CASE CommitRead(t) \/ CommitRemove(t) \/ LockWaitFails(t)
  <2>1. Done(t) /\ msgs' \subseteq msgs
    BY <1>6 DEF CommitRead, CommitRemove, LockWaitFails, db
  <2> QED
    BY <2>1, DoneApart
<1>7. CASE Done(t) /\ (TryAcquire(t) \/ GenerateChatResponse(t) \/ StreamEnds(t))
  <2>1. msgs' = msgs
    BY <1>7 DEF TryAcquire, GenerateChatResponse, StreamEnds, db
  <2> QED
    BY <1>7, <2>1, DoneApart
<1> QED
  BY <1>1, <1>2, <1>3, <1>4, <1>5, <1>6, <1>7, <1>8 DEF Proceed, ModelReplies

LEMMA ApartStep ==
  ASSUME Seen, Apart, [Next]_vars
  PROVE  Apart'
<1>0. /\ nextId \in Nat /\ NewId = nextId /\ \A i : ~Held(Idle, i) /\ ~Hidden(Idle, i)
      /\ \A t \in Threads, i \in Nat : Held(tx[t], i) => i < nextId
  BY HeldOld
<1>1. ASSUME tx' = tx, msgs' \subseteq msgs
      PROVE  Apart'
  BY <1>1 DEF Apart, Hidden
<1>2. ASSUME NEW m \in msgs, DeleteMessage(m)
      PROVE  Apart'
  BY <1>1, <1>2 DEF DeleteMessage
<1>3. CASE Crash
  <2>1. \A t \in Threads : tx'[t] = Idle
    BY <1>3 DEF Crash
  <2> QED
    BY <1>0, <2>1 DEF Apart
<1>4. CASE UNCHANGED vars
  BY <1>1, <1>4 DEF vars, db
<1> QED
  BY <1>2, <1>3, <1>4, CallApart, StepApart DEF Next

-----------------------------------------------------------------------------
(* What Conversation sees of a step                                        *)

(* The messages that rooms show are all there are.                         *)
LEMMA SaidAll ==
  ASSUME Typed
  PROVE  Talk!Said = msgs
  BY DEF Typed, TypeOK, Message, Talk!Said, Logs, MessagesOf

(* Messages of one room come or go.                                        *)
LEMMA LogGrows ==
  ASSUME NEW r \in Rooms, NEW N, \A m \in N : m.room = r, msgs' = msgs \cup N
  PROVE  Logs' = [Logs EXCEPT ![r] = @ \cup N] /\ Logs'[r] = MessagesOf(r) \cup N
<1>1. MessagesOf(r)' = MessagesOf(r) \cup N
  BY DEF MessagesOf
<1>2. ASSUME NEW s \in Rooms \ {r} PROVE MessagesOf(s)' = MessagesOf(s)
  BY DEF MessagesOf
<1> QED
  BY <1>1, <1>2 DEF Logs

LEMMA LogShrinks ==
  ASSUME NEW r \in Rooms, NEW N, \A m \in N : m.room = r, msgs' = msgs \ N
  PROVE  Logs' = [Logs EXCEPT ![r] = @ \ N]
<1>1. MessagesOf(r)' = MessagesOf(r) \ N
  BY DEF MessagesOf
<1>2. ASSUME NEW s \in Rooms \ {r} PROVE MessagesOf(s)' = MessagesOf(s)
  BY DEF MessagesOf
<1> QED
  BY <1>1, <1>2 DEF Logs

(* A thread that opens no room, before and after, changes no phase.        *)
LEMMA PhasesKept ==
  ASSUME Typed, NEW t \in Threads, NEW w, tx' = [tx EXCEPT ![t] = w],
         rooms' = rooms, given' = given,
         w.op = "open" <=> tx[t].op = "open",
         w.op = "open" => w.room = tx[t].room
  PROVE  Phases' = Phases
<1>1. tx'[t] = w /\ \A s \in Threads \ {t} : tx'[s] = tx[s]
  BY DEF Typed, TypeOK
<1>2. ASSUME NEW r \in Rooms PROVE Phase(r)' = Phase(r)
  <2>1. \A s \in Threads : tx'[s].op = "open" /\ tx'[s].room = r
                           <=> tx[s].op = "open" /\ tx[s].room = r
    BY <1>1
  <2> QED
    BY <2>1 DEF Phase, Opened
<1> QED
  BY <1>2 DEF Phases

(* Nor does one that changes no thread.                                    *)
LEMMA PhasesSame ==
  ASSUME UNCHANGED <<tx, rooms, given>>
  PROVE  Phases' = Phases
  BY DEF Phases, Phase, Opened

(* A thread that is and was not the subscription of a stream, or goes on   *)
(* with it.                                                                *)
LEMMA AwaitedKept ==
  ASSUME Typed, NEW t \in Threads, NEW w, tx' = [tx EXCEPT ![t] = w],
         \/ ~Answering(tx[t]) /\ ~Answering(w)
         \/ Answering(tx[t]) /\ Answering(w) /\ w.q = tx[t].q /\ w.room = tx[t].room
  PROVE  Awaited' = Awaited
<1>1. tx'[t] = w /\ \A s \in Threads \ {t} : tx'[s] = tx[s]
  BY DEF Typed, TypeOK
<1>2. Streams' = Streams
  BY <1>1 DEF Streams, Answering
<1>3. \A s \in Streams : tx'[s].q = tx[s].q /\ tx'[s].room = tx[s].room
  BY <1>1 DEF Streams, Answering
<1> QED
  BY <1>2, <1>3 DEF Awaited

(* A handler that ends: nobody awaits its stream any more.                 *)
LEMMA DoneAwaits ==
  ASSUME Rooted, Seen, Apart, NEW t \in Threads, Done(t)
  PROVE  Awaited' = IF Answering(tx[t]) THEN Awaited \ {<<tx[t].room, tx[t].q>>}
                                        ELSE Awaited
<1>0. /\ tx \in [Threads -> Tx] /\ given \subseteq Rooms
      /\ \A s \in Threads : Shape(tx[s], given) /\ tx[s].q \in Nat
      /\ tx' = [tx EXCEPT ![t] = Idle] /\ Idle.op = "none" /\ Idle.pc = "idle"
  BY Numbers DEF Done, Seen, Typed, TypeOK
<1>1. tx'[t] = Idle /\ \A s \in Threads \ {t} : tx'[s] = tx[s]
  BY <1>0
<1>2. Streams' = Streams \ {t}
  BY <1>0, <1>1 DEF Streams
<1>3. ASSUME NEW s \in Streams \ {t} PROVE tx[s].q # tx[t].q \/ ~Answering(tx[t])
  <2>1. \A u \in Threads : Answering(tx[u]) => Held(tx[u], tx[u].q)
    BY DEF Held, Answering
  <2>2. Answering(tx[s]) /\ s \in Threads /\ s # t
    BY DEF Streams, Answering
  <2> QED
    BY <1>0, <2>1, <2>2 DEF Apart
<1>4. Awaited' = {<<tx[s].room, tx[s].q>> : s \in Streams \ {t}}
  <2>1. \A s \in Streams \ {t} : tx'[s] = tx[s]
    BY <1>1 DEF Streams
  <2> QED
    BY <1>2, <2>1 DEF Awaited
<1> QED
  <2>1. CASE Answering(tx[t])
    BY <1>3, <1>4, <2>1 DEF Awaited, Streams
  <2>2. CASE ~Answering(tx[t])
    BY <1>4, <2>2 DEF Awaited, Streams, Answering
  <2> QED
    BY <2>1, <2>2

(* If it ends without a message, Conversation gives up what it was about   *)
(* to open or to stream.                                                   *)
LEMMA DoneGivesUp ==
  ASSUME Rooted, Seen, Apart, NEW t \in Threads, Done(t),
         UNCHANGED <<rooms, given, msgs, read>>
  PROVE  Talk!GiveUp
<1>0. /\ tx \in [Threads -> Tx] /\ given \subseteq Rooms
      /\ \A s \in Threads : Shape(tx[s], given)
      /\ tx' = [tx EXCEPT ![t] = Idle] /\ Idle.op = "none"
  BY Numbers DEF Done, Seen, Typed, TypeOK
<1>1. tx'[t] = Idle /\ \A s \in Threads \ {t} : tx'[s] = tx[s]
  BY <1>0
<1>5. Logs' = Logs /\ Awaited' \subseteq Awaited
  BY DoneAwaits DEF Logs, MessagesOf
<1>6. CASE tx[t].op # "open"
  <2>1. Phases' = Phases
    BY <1>0, <1>6, PhasesKept DEF Seen
  <2>2. Phases' = [r \in Rooms |-> IF r \in {} THEN "gone" ELSE Phases[r]]
    BY <2>1 DEF Phases
  <2>3. {} \in SUBSET {r \in Rooms : Phases[r] = "none"}
    OBVIOUS
  <2> QED
    BY <1>5, <2>2, <2>3 DEF Talk!GiveUp
<1>7. CASE tx[t].op = "open"
  <2> PICK o \in Rooms : o = tx[t].room
    BY <1>0 DEF Tx
  <2>1. /\ o \in given /\ o \notin rooms
        /\ \A s \in Threads \ {t} : tx[s].op = "open" => tx[s].room # o
    BY <1>0, <1>7 DEF Shape, Rooted, Opening
  <2>a. Phase(o) = "none"
    BY <1>7, <2>1 DEF Phase, Opened
  <2>b. ~Opened(o)'
    BY <1>0, <1>1, <2>1 DEF Opened
  <2>2. Phase(o) = "none" /\ Phase(o)' = "gone"
    BY <2>1, <2>a, <2>b DEF Phase
  <2>3. ASSUME NEW r \in Rooms \ {o} PROVE Phase(r)' = Phase(r)
    <3>1. \A s \in Threads : tx'[s].op = "open" /\ tx'[s].room = r
                             <=> tx[s].op = "open" /\ tx[s].room = r
      BY <1>0, <1>1
    <3> QED
      BY <3>1 DEF Phase, Opened
  <2>4. Phases' = [r \in Rooms |-> IF r \in {o} THEN "gone" ELSE Phases[r]]
    <3>1. \A r \in Rooms : Phase(r)' = IF r \in {o} THEN "gone" ELSE Phase(r)
      BY <2>2, <2>3
    <3> QED
      BY <3>1 DEF Phases
  <2>5. {o} \in SUBSET {r \in Rooms : Phases[r] = "none"}
    BY <1>0, <2>1, <2>2 DEF Phases
  <2> QED
    BY <1>5, <2>4, <2>5 DEF Talk!GiveUp
<1> QED
  BY <1>6, <1>7

-----------------------------------------------------------------------------
(* Steps of AiChat as steps of Conversation                                *)

(* A call that is taken up shows nothing.                                  *)
LEMMA CallTalks ==
  ASSUME Rooted, Seen, Apart, NEW t \in Threads, Call(t)
  PROVE  UNCHANGED <<Phases, Logs, Awaited, read>>
<1>1. msgs' = msgs /\ rooms' = rooms /\ Logs' = Logs
  BY CallRooted DEF Logs, MessagesOf
<1>2. ASSUME NEW op, NEW pc, op # "stream" \/ pc = "commit", NEW r, NEW q, NEW known,
             Begin(t, Work(op, pc, r, q, known))
      PROVE  /\ Awaited' = Awaited
             /\ op # "open" /\ given' = given => Phases' = Phases
  <2> DEFINE w == Work(op, pc, r, q, known)
  <2>1. /\ w.op = op /\ w.pc = pc /\ tx' = [tx EXCEPT ![t] = w]
        /\ tx[t].op = "none" /\ tx[t].pc = "idle"
    BY <1>2 DEF Work, Begin, Idle
  <2> HIDE DEF w
  <2> QED
    BY <1>1, <1>2, <2>1, AwaitedKept, PhasesKept DEF Seen, Answering
<1>3. ASSUME NEW r \in Rooms, CreateAiChatRoom(t, r)
      PROVE  UNCHANGED <<Phases, Awaited, read>>
  <2> DEFINE w == Work("open", "permit", r, NewId, {})
  <2>1. Awaited' = Awaited /\ read' = read
    BY <1>2, <1>3 DEF CreateAiChatRoom
  <2>2. /\ w.op = "open" /\ w.room = r /\ tx' = [tx EXCEPT ![t] = w] /\ tx[t].op = "none"
        /\ r \notin given /\ given' = given \cup {r} /\ tx \in [Threads -> Tx]
        /\ rooms \subseteq given
    BY <1>3 DEF CreateAiChatRoom, Work, Begin, Idle, Seen, Typed, TypeOK
  <2> HIDE DEF w
  <2>3. tx'[t] = w /\ \A s \in Threads \ {t} : tx'[s] = tx[s]
    BY <2>2
  <2>4. Phase(r)' = Phase(r)
    BY <1>1, <2>2, <2>3 DEF Phase, Opened
  <2>5. ASSUME NEW o \in Rooms \ {r} PROVE Phase(o)' = Phase(o)
    <3>1. \A s \in Threads : tx'[s].op = "open" /\ tx'[s].room = o
                             <=> tx[s].op = "open" /\ tx[s].room = o
      BY <2>2, <2>3
    <3> QED
      BY <1>1, <2>2, <3>1 DEF Phase, Opened
  <2> QED
    BY <2>1, <2>4, <2>5 DEF Phases
<1>4. ASSUME NEW r \in Rooms,
             \/ Ask(t, r) \/ AskStream(t, r)
             \/ CreateAiChatMessage(t, r) \/ DeleteAiChatRoom(t, r)
      PROVE  UNCHANGED <<Phases, Awaited, read>>
  BY <1>2, <1>4 DEF Ask, AskStream, CreateAiChatMessage, DeleteAiChatRoom, db
<1>5. ASSUME NEW m \in msgs, MarkAsReadUpTo(t, m)
      PROVE  UNCHANGED <<Phases, Awaited, read>>
  BY <1>2, <1>5 DEF MarkAsReadUpTo, db
<1> QED
  BY <1>1, <1>3, <1>4, <1>5 DEF Call

(* The commit of an ask is the exchange, or the room with it.              *)
LEMMA CommitAskTalks ==
  ASSUME Rooted, Seen, Apart, NEW t \in Threads, CommitAsk(t)
  PROVE  Talk!Next
<1> PICK r \in Rooms : r = tx[t].room
  BY Numbers DEF Seen
<1> DEFINE q == Question(t)
           a == Answer(t)
<1>1. /\ tx[t].op \in Asking /\ tx[t].pc = "commit" /\ rooms' = rooms \cup {r}
      /\ msgs' = msgs \cup {q, a} /\ given' = given /\ read' = read
      /\ tx' = [tx EXCEPT ![t] = Idle] /\ Idle.op = "none" /\ Idle.pc = "idle"
  BY DEF CommitAsk, Asking, Done, Idle
<1>2. /\ q.id = tx[t].q /\ q.room = r /\ q.sender = "HUMAN" /\ q.of = tx[t].q
      /\ a.id = tx[t].a /\ a.room = r /\ a.sender = "AI" /\ a.of = tx[t].q
      /\ Hidden(tx[t], q.id) /\ Hidden(tx[t], a.id)
  BY <1>1, ShownHeld DEF Hidden, HasAnswer, Answering, Asking
<1>3. /\ r \in Rooms /\ r \in given /\ tx \in [Threads -> Tx] /\ tx[t].q < tx[t].a
      /\ rooms \subseteq given
  BY <1>1, Numbers DEF Seen, Dated, InOrder, HasAnswer, Typed, TypeOK, Shape, Asking
<1> HIDE DEF q, a
<1>4. Talk!Exchange(q, a) /\ Talk!IsNew(q) /\ Talk!IsNew(a)
  <2>1. \A m \in msgs : m.id # q.id /\ m.id # a.id
    BY <1>2 DEF Apart
  <2>2. Talk!Said = msgs
    BY SaidAll DEF Seen
  <2> QED
    BY <1>2, <1>3, <2>1, <2>2 DEF Talk!Exchange, Talk!IsNew
<1>5. /\ Logs' = [Logs EXCEPT ![r] = @ \cup {q, a}] /\ q \in Logs'[r] /\ a \in Logs'[r]
  <2>1. \A m \in {q, a} : m.room = r
    BY <1>2
  <2>2. Logs' = [Logs EXCEPT ![r] = @ \cup {q, a}] /\ Logs'[r] = MessagesOf(r) \cup {q, a}
    BY <1>1, <1>3, <2>1, LogGrows
  <2> QED
    BY <2>2
<1>6. Awaited' = Awaited
  BY <1>1, AwaitedKept DEF Seen, Answering
<1>7. CASE tx[t].op = "ask"
  <2>1. r \in rooms /\ rooms' = rooms
    BY <1>1, <1>7 DEF Rooted, Anchored, Holding
  <2>2. Phases' = Phases
    BY <1>1, <1>7, <2>1, PhasesKept DEF Seen
  <2>3. Phases[r] = "open"
    BY <1>3, <2>1 DEF Phases, Phase
  <2>4. Talk!Answered(r)
    BY <1>1, <1>4, <1>5, <1>6, <2>2, <2>3 DEF Talk!Answered
  <2> QED
    BY <1>3, <2>4 DEF Talk!Next
<1>8. CASE tx[t].op = "open"
  <2>1. r \notin rooms /\ \A s \in Threads \ {t} : tx[s].op = "open" => tx[s].room # r
    BY <1>8 DEF Rooted, Opening
  <2>2. tx'[t] = Idle /\ \A s \in Threads \ {t} : tx'[s] = tx[s]
    BY <1>1, <1>3
  <2>a. Opened(r)
    BY <1>8 DEF Opened
  <2>3. Phase(r) = "none" /\ Phase(r)' = "open"
    BY <1>1, <2>1, <2>a DEF Phase
  <2>4. ASSUME NEW o \in Rooms \ {r} PROVE Phase(o)' = Phase(o)
    <3>1. \A s \in Threads : tx'[s].op = "open" /\ tx'[s].room = o
                             <=> tx[s].op = "open" /\ tx[s].room = o
      BY <1>1, <2>2
    <3> QED
      BY <1>1, <3>1 DEF Phase, Opened
  <2>5. Phases[r] = "none" /\ Phases' = [Phases EXCEPT ![r] = "open"]
    <3>1. \A o \in Rooms : Phase(o)' = IF o = r THEN "open" ELSE Phase(o)
      BY <2>3, <2>4
    <3> QED
      BY <1>3, <2>3, <3>1 DEF Phases
  <2>6. MessagesOf(r) = {}
    BY <2>1 DEF Rooted, NoOrphanMessage, MessagesOf
  <2>7. Logs' = [Logs EXCEPT ![r] = {q, a}]
    BY <1>5, <2>6, <1>3 DEF Logs
  <2>8. Talk!Open(r)
    BY <1>1, <1>4, <1>5, <1>6, <2>5, <2>7 DEF Talk!Open
  <2> QED
    BY <1>3, <2>8 DEF Talk!Next
<1> QED
  BY <1>1, <1>7, <1>8 DEF Asking

(* The commit of a stream's question.                                      *)
LEMMA CommitAskStreamTalks ==
  ASSUME Rooted, Seen, Apart, NEW t \in Threads, CommitAskStream(t)
  PROVE  Talk!Next
<1> DEFINE r == tx[t].room
           q == Question(t)
           w == [tx[t] EXCEPT !.pc = "streaming"]
<1>1. /\ tx[t].op = "stream" /\ tx[t].pc = "commit" /\ UNCHANGED <<rooms, given, read>>
      /\ msgs' = msgs \cup {q} /\ tx' = [tx EXCEPT ![t] = w]
  BY DEF CommitAskStream
<1>2. /\ q.id = tx[t].q /\ q.room = r /\ q.sender = "HUMAN" /\ q.of = tx[t].q
      /\ Hidden(tx[t], q.id) /\ q.id \in Nat
  BY <1>1, ShownHeld DEF Hidden, Answering
<1>3. /\ r \in Rooms /\ r \in rooms /\ tx \in [Threads -> Tx]
      /\ w.op = "stream" /\ w.room = r /\ w.q = tx[t].q /\ w.pc = "streaming"
  BY <1>1, Numbers DEF Seen, Rooted, Anchored, Holding, Tx
<1> HIDE DEF q, w
<1>4. Talk!IsNew(q)
  <2>1. \A m \in msgs : m.id # q.id
    BY <1>2 DEF Apart
  <2>2. Talk!Said = msgs
    BY SaidAll DEF Seen
  <2> QED
    BY <2>1, <2>2 DEF Talk!IsNew
<1>5. Logs' = [Logs EXCEPT ![r] = @ \cup {q}] /\ q \in Logs'[r]
  <2>1. \A m \in {q} : m.room = r
    BY <1>2
  <2>2. Logs' = [Logs EXCEPT ![r] = @ \cup {q}] /\ Logs'[r] = MessagesOf(r) \cup {q}
    BY <1>1, <1>3, <2>1, LogGrows
  <2> QED
    BY <2>2
<1>6. Phases' = Phases
  BY <1>1, <1>3, PhasesKept DEF Seen
<1>7. Phases[r] = "open"
  BY <1>3 DEF Phases, Phase
<1>8. tx'[t] = w /\ \A s \in Threads \ {t} : tx'[s] = tx[s]
  BY <1>1, <1>3
<1>9. Streams' = Streams \cup {t} /\ t \notin Streams
  BY <1>1, <1>3, <1>8 DEF Streams
<1>10. Awaited' = Awaited \cup {<<r, q.id>>}
  <2>1. \A s \in Streams : tx'[s] = tx[s]
    BY <1>8, <1>9 DEF Streams
  <2> QED
    BY <1>2, <1>3, <1>8, <1>9, <2>1 DEF Awaited
<1>11. <<r, q.id>> \notin Awaited
  <2> SUFFICES ASSUME NEW s \in Streams, tx[s].q = q.id PROVE FALSE
    BY DEF Awaited
  <2>1. Held(tx[s], q.id) /\ s \in Threads
    BY DEF Streams, Held
  <2> QED
    BY <1>2, <1>9, <2>1 DEF Apart, Hidden
<1>12. Talk!Asked(r)
  BY <1>1, <1>2, <1>4, <1>5, <1>6, <1>7, <1>10, <1>11 DEF Talk!Asked
<1> QED
  BY <1>3, <1>12 DEF Talk!Next

(* A stream that is complete shows nothing yet, one that ends without an   *)
(* answer is given up.                                                     *)
LEMMA StreamEndsTalks ==
  ASSUME Rooted, Seen, Apart, NEW t \in Threads, StreamEnds(t)
  PROVE  Talk!Next \/ UNCHANGED <<Phases, Logs, Awaited, read>>
<1>1. tx[t].pc = "streaming" /\ UNCHANGED <<rooms, given, msgs, read>>
  BY DEF StreamEnds, db
<1>2. CASE Done(t)
  BY <1>1, <1>2, DoneGivesUp DEF Talk!Next
<1>3. CASE ~Done(t)
  <2> DEFINE w == [tx[t] EXCEPT !.pc = "saving", !.a = NewId]
  <2>1. tx' = [tx EXCEPT ![t] = w] /\ tx[t] \in Tx /\ Shape(tx[t], given)
    BY <1>3, Numbers DEF StreamEnds, Seen, Typed
  <2>2. tx[t].op = "stream"
    BY <1>1, <2>1 DEF Shape, Tx, Asking, Idle
  <2>3. w.op = tx[t].op /\ w.room = tx[t].room /\ w.q = tx[t].q /\ w.pc = "saving"
    BY <2>1 DEF Tx
  <2> HIDE DEF w
  <2>4. Awaited' = Awaited
    BY <1>1, <2>1, <2>2, <2>3, AwaitedKept DEF Seen, Answering
  <2>5. Phases' = Phases
    BY <1>1, <2>1, <2>3, PhasesKept DEF Seen
  <2> QED
    BY <1>1, <2>4, <2>5 DEF Logs, MessagesOf
<1> QED
  BY <1>2, <1>3

(* The commit of the answer of a stream, or of a message by itself.        *)
LEMMA CommitMessageTalks ==
  ASSUME Rooted, Seen, Apart, NEW t \in Threads, CommitMessage(t)
  PROVE  Talk!Next
<1> PICK m \in Saved(t) : msgs' = msgs \cup {m}
  BY DEF CommitMessage
<1> PICK r \in Rooms : r = tx[t].room
  BY Numbers DEF Seen
<1>1. /\ tx[t].pc = "saving" /\ Done(t) /\ UNCHANGED <<rooms, given, read>>
      /\ tx' = [tx EXCEPT ![t] = Idle] /\ Idle.op = "none"
  BY DEF CommitMessage, Done, Idle
<1>2. /\ m.room = r /\ m.of = tx[t].q /\ Hidden(tx[t], m.id)
      /\ tx[t].op \in {"stream", "create"}
      /\ tx[t].op = "stream" => m.id = tx[t].a /\ m.sender = "AI"
      /\ tx[t].op = "create" => m.id = tx[t].q
  BY <1>1, SavedHeld
<1>3. r \in rooms
  BY <1>1, <1>2 DEF Rooted, Anchored, Holding
<1>4. Talk!IsNew(m)
  <2>1. Talk!Said = msgs
    BY SaidAll DEF Seen
  <2> QED
    BY <1>2, <2>1 DEF Apart, Talk!IsNew
<1>5. Logs' = [Logs EXCEPT ![r] = @ \cup {m}] /\ m \in Logs'[r]
  <2>1. \A n \in {m} : n.room = r
    BY <1>2
  <2>2. Logs' = [Logs EXCEPT ![r] = @ \cup {m}] /\ Logs'[r] = MessagesOf(r) \cup {m}
    BY <2>1, LogGrows
  <2> QED
    BY <2>2
<1>6. Phases' = Phases /\ Phases[r] = "open"
  <2>1. Phases' = Phases
    BY <1>1, <1>2, PhasesKept DEF Seen
  <2> QED
    BY <1>3, <2>1 DEF Phases, Phase
<1>7. CASE tx[t].op = "stream"
  <2>1. Answering(tx[t]) /\ HasAnswer(tx[t])
    BY <1>1, <1>7 DEF Answering, HasAnswer
  <2>2. m.of < m.id
    BY <1>2, <1>7, <2>1 DEF Seen, Dated, InOrder
  <2>3. Awaited' = Awaited \ {<<r, m.of>>}
    BY <1>1, <1>2, <2>1, DoneAwaits
  <2>4. <<r, m.of>> \in Awaited
    BY <1>2, <2>1 DEF Awaited, Streams, Answering
  <2>5. Talk!Streamed(r)
    BY <1>1, <1>2, <1>4, <1>5, <1>6, <1>7, <2>2, <2>3, <2>4 DEF Talk!Streamed
  <2> QED
    BY <2>5 DEF Talk!Next
<1>8. CASE tx[t].op = "create"
  <2>1. Awaited' = Awaited
    BY <1>1, <1>8, DoneAwaits DEF Answering
  <2>2. Talk!Noted(r)
    BY <1>1, <1>2, <1>4, <1>5, <1>6, <1>8, <2>1 DEF Talk!Noted
  <2> QED
    BY <2>2 DEF Talk!Next
<1> QED
  BY <1>2, <1>7, <1>8

(* Steps around the call to the model, and commits that fail.              *)
LEMMA WaitTalks ==
  ASSUME Rooted, Seen, Apart, NEW t \in Threads,
         TryAcquire(t) \/ GenerateChatResponse(t) \/ LockWaitFails(t)
  PROVE  Talk!Next \/ UNCHANGED <<Phases, Logs, Awaited, read>>
<1>1. UNCHANGED <<rooms, given, msgs, read>>
  BY DEF TryAcquire, GenerateChatResponse, LockWaitFails, db
<1>2. CASE Done(t)
  BY <1>1, <1>2, DoneGivesUp DEF Talk!Next
<1>3. ASSUME NEW w, tx' = [tx EXCEPT ![t] = w], ~Answering(tx[t]), ~Answering(w),
             w.op = tx[t].op, w.room = tx[t].room
      PROVE  UNCHANGED <<Phases, Logs, Awaited, read>>
  <2>1. Awaited' = Awaited /\ Phases' = Phases
    BY <1>1, <1>3, AwaitedKept, PhasesKept DEF Seen
  <2> QED
    BY <1>1, <2>1 DEF Logs, MessagesOf
<1>4. tx[t] \in Tx
  BY Numbers DEF Seen
<1>5. CASE TryAcquire(t) /\ ~Done(t)
  <2> DEFINE w == [tx[t] EXCEPT !.pc = "calling"]
  <2>1. tx' = [tx EXCEPT ![t] = w] /\ tx[t].pc = "permit"
    BY <1>5 DEF TryAcquire
  <2>2. w.op = tx[t].op /\ w.room = tx[t].room /\ w.pc = "calling"
    BY <1>4 DEF Tx
  <2> HIDE DEF w
  <2> QED
    BY <1>3, <2>1, <2>2 DEF Answering
<1>6. CASE GenerateChatResponse(t) /\ ~Done(t)
  <2> DEFINE w == [tx[t] EXCEPT !.pc = "commit", !.a = NewId]
  <2>1. tx' = [tx EXCEPT ![t] = w] /\ tx[t].pc = "calling"
    BY <1>6 DEF GenerateChatResponse
  <2>2. w.op = tx[t].op /\ w.room = tx[t].room /\ w.pc = "commit"
    BY <1>4 DEF Tx
  <2> HIDE DEF w
  <2> QED
    BY <1>3, <2>1, <2>2 DEF Answering
<1> QED
  BY <1>2, <1>5, <1>6 DEF LockWaitFails

(* The commit of a reader marks what is there.                             *)
LEMMA CommitReadTalks ==
  ASSUME Rooted, Seen, Apart, NEW t \in Threads, CommitRead(t)
  PROVE  Talk!Next
<1>1. /\ Done(t) /\ tx[t].op = "read" /\ UNCHANGED <<given, rooms, msgs>>
      /\ \/ tx[t].known \subseteq Ids(msgs) /\ read' = read \cup tx[t].known
         \/ read' = read
  BY DEF CommitRead
<1>2. ~Answering(tx[t]) /\ Idle.op = "none"
  BY <1>1 DEF Answering, Idle
<1>3. Awaited' = Awaited
  BY <1>1, <1>2, DoneAwaits
<1>4. Phases' = Phases
  BY <1>1, <1>2, PhasesKept DEF Seen, Done
<1>5. Logs' = Logs
  BY <1>1 DEF Logs, MessagesOf
<1>6. read \subseteq read' /\ read' \ read \subseteq {m.id : m \in Talk!Said}
  BY <1>1, SaidAll DEF Ids, Seen
<1> QED
  BY <1>3, <1>4, <1>5, <1>6 DEF Talk!Mark, Talk!Next

(* The commit of the removal removes the room, or nothing.                 *)
LEMMA CommitRemoveTalks ==
  ASSUME Rooted, Seen, Apart, NEW t \in Threads, CommitRemove(t)
  PROVE  Talk!Next
<1> PICK r \in Rooms : r = tx[t].room
  BY Numbers DEF Seen
<1>1. /\ Done(t) /\ tx[t].op = "remove" /\ UNCHANGED <<given, read>>
      /\ \/ r \in rooms /\ rooms' = rooms \ {r} /\ msgs' = msgs \ MessagesOf(r)
         \/ UNCHANGED <<rooms, msgs>>
  BY DEF CommitRemove, Cascade
<1>2. CASE UNCHANGED <<rooms, msgs>>
  BY <1>1, <1>2, DoneGivesUp DEF Talk!Next
<1>3. CASE r \in rooms /\ rooms' = rooms \ {r} /\ msgs' = msgs \ MessagesOf(r)
  <2>1. /\ tx' = [tx EXCEPT ![t] = Idle] /\ Idle.op = "none" /\ tx \in [Threads -> Tx]
        /\ rooms \subseteq given /\ ~Answering(tx[t])
    BY <1>1 DEF Answering, Done, Idle, Seen, Typed, TypeOK
  <2>2. tx'[t] = Idle /\ \A s \in Threads \ {t} : tx'[s] = tx[s]
    BY <2>1
  <2>3. \A s \in Threads : tx[s].op = "open" => tx[s].room # r
    BY <1>3 DEF Rooted, Opening
  <2>4. ~Opened(r)'
    BY <1>1, <1>3, <2>1, <2>2, <2>3 DEF Opened
  <2>5. Phase(r) = "open" /\ Phase(r)' = "gone"
    BY <1>3, <2>4 DEF Phase
  <2>6. ASSUME NEW o \in Rooms \ {r} PROVE Phase(o)' = Phase(o)
    <3>1. \A s \in Threads : tx'[s].op = "open" /\ tx'[s].room = o
                             <=> tx[s].op = "open" /\ tx[s].room = o
      BY <1>1, <2>1, <2>2
    <3> QED
      BY <1>1, <1>3, <3>1 DEF Phase, Opened
  <2>7. Phases[r] = "open" /\ Phases' = [Phases EXCEPT ![r] = "gone"]
    <3>1. \A o \in Rooms : Phase(o)' = IF o = r THEN "gone" ELSE Phase(o)
      BY <2>5, <2>6
    <3> QED
      BY <2>5, <3>1 DEF Phases
  <2>8. Logs' = [Logs EXCEPT ![r] = {}]
    <3>1. Logs' = [Logs EXCEPT ![r] = @ \ MessagesOf(r)]
      BY <1>3, LogShrinks DEF MessagesOf
    <3> QED
      BY <3>1 DEF Logs
  <2>9. Awaited' = Awaited
    BY <1>1, <2>1, DoneAwaits
  <2>10. Talk!Remove(r)
    BY <1>1, <2>7, <2>8, <2>9 DEF Talk!Remove
  <2> QED
    BY <2>10 DEF Talk!Next
<1> QED
  BY <1>1, <1>2, <1>3

(* A message that is removed by itself.                                    *)
LEMMA DeleteMessageTalks ==
  ASSUME Rooted, Seen, NEW m \in msgs, DeleteMessage(m)
  PROVE  Talk!Next
<1>1. UNCHANGED <<tx, rooms, given, read>>
  BY DEF DeleteMessage
<1>2. UNCHANGED <<Phases, Awaited>>
  BY <1>1, PhasesSame DEF Awaited, Streams
<1> PICK r \in Rooms : r = m.room
  BY Numbers DEF Seen
<1>3. \A n \in {m} : n.room = r
  OBVIOUS
<1>4. Logs' = [Logs EXCEPT ![r] = @ \ {m}]
  BY <1>3, LogShrinks DEF DeleteMessage
<1>5. m \in Logs[r]
  BY DEF Logs, MessagesOf
<1>6. Talk!Erase(r)
  BY <1>1, <1>2, <1>4, <1>5 DEF Talk!Erase
<1> QED
  BY <1>6 DEF Talk!Next

(* A restart gives up every room not opened yet and every stream.          *)
LEMMA CrashTalks ==
  ASSUME Rooted, Crash
  PROVE  Talk!Next
<1> DEFINE S == {r \in Rooms : Phases[r] = "none" /\ r \in given}
<1>1. /\ \A t \in Threads : tx'[t] = Idle
      /\ Idle.op = "none" /\ Idle.pc = "idle" /\ UNCHANGED <<given, rooms, msgs, read>>
  BY DEF Crash, Idle, db
<1>2. Awaited' \subseteq Awaited /\ Logs' = Logs
  <2>1. Streams' = {}
    BY <1>1 DEF Streams
  <2> QED
    BY <1>1, <2>1 DEF Awaited, Logs, MessagesOf
<1>3. ASSUME NEW r \in Rooms PROVE Phase(r)' = IF r \in S THEN "gone" ELSE Phases[r]
  <2>1. Opened(r)' <=> r \notin given
    BY <1>1 DEF Opened
  <2>2. Phase(r)' = IF r \in rooms THEN "open" ELSE IF r \in given THEN "gone" ELSE "none"
    BY <1>1, <2>1 DEF Phase
  <2>3. r \notin given => Opened(r)
    BY DEF Opened
  <2>4. Phases[r] = IF r \in rooms THEN "open" ELSE IF Opened(r) THEN "none" ELSE "gone"
    BY DEF Phases, Phase
  <2>5. rooms \subseteq given
    BY DEF Rooted, Typed, TypeOK
  <2> QED
    BY <2>2, <2>3, <2>4, <2>5
<1>4. S \in SUBSET {r \in Rooms : Phases[r] = "none"}
  OBVIOUS
<1> HIDE DEF S
<1>5. Phases' = [r \in Rooms |-> IF r \in S THEN "gone" ELSE Phases[r]]
  BY <1>3 DEF Phases
<1>6. Talk!GiveUp
  BY <1>1, <1>2, <1>4, <1>5 DEF Talk!GiveUp
<1> QED
  BY <1>6 DEF Talk!Next

(* Overlapping exchanges, failures, restarts and removals keep what        *)
(* Conversation promises: a room appears with its first exchange, answers  *)
(* come with their questions or once after their streams, nothing changes  *)
(* or comes back (ask, askStream, create, delete).                         *)
THEOREM KeepsConversation == Spec => ConversationSpec
<1>1. Init => Talk!Init
  <2> SUFFICES ASSUME Init PROVE Talk!Init
    OBVIOUS
  <2>1. Streams = {}
    BY DEF Init, Streams, Idle
  <2> QED
    BY <2>1 DEF Init, Talk!Init, Phases, Phase, Opened, Logs, MessagesOf, Awaited
<1>2. Init => Rooted /\ Seen /\ Apart
  <2>1. Init => Apart
    BY DEF Init, Apart, Held, Hidden, HasAnswer, Idle, Asking
  <2> QED
    BY <2>1, RootedInit, SeenInit
<1>3. Rooted /\ Seen /\ Apart /\ [Next]_vars => Rooted' /\ Seen' /\ Apart'
  BY RootedStep, SeenStep, ApartStep
<1>4. Rooted /\ Seen /\ Apart /\ [Next]_vars => [Talk!Next]_Talk!vars
  <2> SUFFICES ASSUME Rooted, Seen, Apart, [Next]_vars
               PROVE  Talk!Next \/ UNCHANGED <<Phases, Logs, Awaited, read>>
    BY DEF Talk!vars
  <2>1. ASSUME NEW t \in Threads, Call(t) \/ Proceed(t) \/ ModelReplies(t)
        PROVE  Talk!Next \/ UNCHANGED <<Phases, Logs, Awaited, read>>
    BY <2>1, CallTalks, CommitAskTalks, CommitAskStreamTalks, CommitMessageTalks,
       StreamEndsTalks, WaitTalks, CommitReadTalks, CommitRemoveTalks
       DEF Proceed, ModelReplies
  <2>2. CASE UNCHANGED vars
    <3>1. UNCHANGED <<tx, rooms, given, msgs, read>>
      BY <2>2 DEF vars, db
    <3> QED
      BY <3>1, PhasesSame DEF Logs, MessagesOf, Awaited, Streams
  <2> QED
    BY <2>1, <2>2, DeleteMessageTalks, CrashTalks DEF Next
<1> QED
  BY <1>1, <1>2, <1>3, <1>4, PTL DEF Spec, ConversationSpec, Talk!Spec
=============================================================================

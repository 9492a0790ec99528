------------------------------- MODULE AiChat -------------------------------
(***************************************************************************)
(* Questions to the AI: a question is stored, the model (Gemini) is asked, *)
(* its answer is stored; in one transaction and one reply (ask), or with   *)
(* the answer streamed and stored by a callback when the stream completes  *)
(* (askStream).  Messages are read and removed, and rooms are, meanwhile.  *)
(*                                                                         *)
(* The database is the deployed one, as in MentorChat: the id of a message *)
(* is taken at its insert, before its transaction commits, and long before *)
(* in an ask; the insert holds a shared lock on the room until then.  The  *)
(* commit of a question writes last_message_at and so needs the room's     *)
(* exclusive lock; that of the answer of a stream does not (create is then *)
(* called outside a transaction, and only its save is one), so that two of *)
(* them in a room may commit in either order.                              *)
(*                                                                         *)
(* Calls that the rate limits refuse change nothing here (RateLimit).      *)
(* Who asks, reads or removes is left out: no handler's effect depends on  *)
(* it.  Texts, titles and the prompt are data.                             *)
(***************************************************************************)
EXTENDS Naturals, FiniteSets

CONSTANTS
  Rooms,                   \* ids a room may be given
  Threads,                 \* server threads, and subscriptions of streams
  MAX_CONCURRENT_REQUESTS, \* permits for calls to the model
  MaxCalls,                \* bound: calls handled in a run
  Crashes                  \* whether the server may crash and restart

ASSUME ThreadsAssumption == IsFiniteSet(Threads) /\ Rooms # {}
ASSUME LimitsAssumption ==
  MAX_CONCURRENT_REQUESTS \in Nat /\ MaxCalls \in Nat /\ Crashes \in BOOLEAN

VARIABLES
  given,         \* room ids handed out so far
  rooms,         \* rooms whose row is there
  lastMessageAt, \* the column last_message_at of each room; 0 is null
  msgs,          \* committed messages
  read,          \* ids of messages with status READ
  nextId,        \* the next message id; it also serves as the time
  permits,       \* free permits
  tx,            \* what each thread is doing
  calls,         \* calls handled so far
  erased,        \* messages removed one by one so far, by exchange and sender
  readUpTo,      \* the last message id a room was answered as read up to
  overtaken      \* ids of messages that were inserted and not committed when a
                 \* reader of their room came

db      == <<given, rooms, lastMessageAt, msgs, read>>
history == <<erased, readUpTo, overtaken>>
vars    == <<db, nextId, permits, tx, calls, history>>

-----------------------------------------------------------------------------
SenderType == {"HUMAN", "AI", "SYSTEM"}

(* of is the id of the question that began the exchange a message is of.   *)
Message == [id : Nat \ {0}, room : Rooms, sender : SenderType,
            via : {"ask", "stream", "create"}, of : Nat]

(* A thread's handler: q and a are the ids of the question (or of the one  *)
(* message of create) and of the answer it has inserted; known are the ids *)
(* of the messages it has loaded.                                          *)
Tx == [op : {"none", "open", "ask", "stream", "create", "read", "remove"},
       pc : {"idle", "permit", "calling", "commit", "streaming", "saving"},
       room : Rooms, q : Nat, a : Nat, known : SUBSET Nat]

Idle == [op |-> "none", pc |-> "idle", room |-> CHOOSE r \in Rooms : TRUE,
         q |-> 0, a |-> 0, known |-> {}]

MessagesOf(r) == {m \in msgs : m.room = r}
Ids(ms) == {m.id : m \in ms}

(* A definition with an underscore in its name is a plausible mistake in   *)
(* the one below it, kept to confirm that some property notices it.        *)

Question(t) == [id |-> tx[t].q, room |-> tx[t].room, sender |-> "HUMAN",
                via |-> IF tx[t].op = "open" THEN "ask" ELSE tx[t].op, of |-> tx[t].q]
Answer(t) == [Question(t) EXCEPT !.id = tx[t].a, !.sender = "AI"]

(* Thread t has inserted a message in room r and not committed: it holds a *)
(* shared lock on the row of the room.                                     *)
Inserted(t, r) ==
  /\ tx[t].room = r /\ tx[t].op \in {"open", "ask", "stream", "create"}
  /\ tx[t].pc \in {"permit", "calling", "commit", "saving"}

(* The ids of what it has inserted and not committed: the question of a    *)
(* stream is committed before its answer is inserted.                      *)
Uncommitted(t) ==
  IF tx[t].op = "stream" /\ tx[t].pc = "saving" THEN {tx[t].a}
                                               ELSE {tx[t].q, tx[t].a} \ {0}

(* The exclusive lock a commit needs on the row of room r.                 *)
CanLock(t, r) == \A s \in Threads \ {t} : ~Inserted(s, r)

(* The id the database gives to the next row (GenerationType.IDENTITY).    *)
NewId_Unset == 0
NewId == nextId

(* What is stored of an exchange whose transaction has inserted its        *)
(* question: nothing before the commit.                                    *)
StoredAtInsert_Autocommit(m) == {m}
StoredAtInsert(m) == {}

(* The messages that go with a room: CascadeType.REMOVE.                   *)
Cascade_None(r) == {}
Cascade(r) == MessagesOf(r)

(* What a reader who has seen m marks: findByRoomIdAndIdLessThanEqual...   *)
UnreadUpTo_LastLeftOut(m) == {id \in Ids(MessagesOf(m.room)) : id < m.id} \ read
UnreadUpTo(m) == {id \in Ids(MessagesOf(m.room)) : id <= m.id} \ read

(* The permit a call that ends gives back: release in the finally block.   *)
Released_OnAnswerOnly(answered) == IF answered THEN 1 ELSE 0
Released(answered) == 1

(* Idle thread t takes a call up.                                          *)
Begin(t, work) ==
  /\ calls < MaxCalls /\ calls' = calls + 1
  /\ tx[t] = Idle /\ tx' = [tx EXCEPT ![t] = work]
Work(op, pc, r, q, known) ==
  [op |-> op, pc |-> pc, room |-> r, q |-> q, a |-> 0, known |-> known]
Done(t) == tx' = [tx EXCEPT ![t] = Idle]

-----------------------------------------------------------------------------
Init ==
  /\ given = {} /\ rooms = {} /\ lastMessageAt = [r \in Rooms |-> 0]
  /\ msgs = {} /\ read = {} /\ nextId = 1
  /\ permits = MAX_CONCURRENT_REQUESTS
  /\ tx = [t \in Threads |-> Idle] /\ calls = 0
  /\ erased = {} /\ readUpTo = [r \in Rooms |-> 0] /\ overtaken = {}

(* POST room: the room and its first question, in the transaction of an    *)
(* ask; nobody knows the room before the commit.                           *)
CreateAiChatRoom(t, r) ==
  /\ r \notin given /\ given' = given \cup {r}
  /\ Begin(t, Work("open", "permit", r, NewId, {}))
  /\ nextId' = nextId + 1
  /\ UNCHANGED <<rooms, lastMessageAt, msgs, read, permits, history>>

(* POST ask: the question is inserted; the call to the model is next.      *)
Ask(t, r) ==
  /\ r \in rooms
  /\ Begin(t, Work("ask", "permit", r, NewId, {}))
  /\ msgs' = msgs \cup StoredAtInsert([id |-> NewId, room |-> r, sender |-> "HUMAN",
                                       via |-> "ask", of |-> NewId])
  /\ nextId' = nextId + 1
  /\ UNCHANGED <<given, rooms, lastMessageAt, read, permits, history>>

(* POST ask-stream: the question is inserted; its commit is next.          *)
AskStream(t, r) ==
  /\ r \in rooms
  /\ Begin(t, Work("stream", "commit", r, NewId, {}))
  /\ nextId' = nextId + 1
  /\ UNCHANGED <<db, permits, history>>

(* POST messages, "only for tests": a message without an exchange.         *)
CreateAiChatMessage(t, r) ==
  /\ r \in rooms
  /\ Begin(t, Work("create", "saving", r, NewId, {}))
  /\ nextId' = nextId + 1
  /\ UNCHANGED <<db, permits, history>>

-----------------------------------------------------------------------------
(* tryAcquire: a permit is got, or none was to be had for 300 ms, which    *)
(* throws and rolls the question back.  The semaphore is fair: one waits   *)
(* behind those who came before.                                           *)
TryAcquire(t) ==
  /\ tx[t].pc = "permit"
  /\ \/ /\ permits > 0 /\ permits' = permits - 1
        /\ tx' = [tx EXCEPT ![t].pc = "calling"]
     \/ /\ permits = 0 \/ \E s \in Threads \ {t} : tx[s].pc = "permit"
        /\ Done(t) /\ UNCHANGED permits
  /\ UNCHANGED <<db, nextId, calls, history>>

(* The model answers, and the answer is inserted; or the call fails or     *)
(* answers nothing, which throws.                                          *)
GenerateChatResponse(t) ==
  /\ tx[t].pc = "calling"
  /\ \/ /\ tx' = [tx EXCEPT ![t].pc = "commit", ![t].a = NewId]
        /\ nextId' = nextId + 1 /\ permits' = permits + Released(TRUE)
     \/ Done(t) /\ permits' = permits + Released(FALSE) /\ UNCHANGED nextId
  /\ UNCHANGED <<db, calls, history>>

(* The commit of an ask, with the room if it is new: both messages, and    *)
(* the time of the answer.                                                 *)
CommitAsk(t) ==
  LET r == tx[t].room IN
  /\ tx[t].op \in {"open", "ask"} /\ tx[t].pc = "commit" /\ CanLock(t, r)
  /\ rooms' = rooms \cup {r}
  /\ msgs' = msgs \cup {Question(t), Answer(t)}
  /\ lastMessageAt' = [lastMessageAt EXCEPT ![r] = tx[t].a]
  /\ Done(t)
  /\ UNCHANGED <<given, read, nextId, permits, calls, history>>

(* The commit of the question of a stream; the model is called after it,   *)
(* when the reply is subscribed to, and without a permit.                  *)
CommitAskStream(t) ==
  LET r == tx[t].room IN
  /\ tx[t].op = "stream" /\ tx[t].pc = "commit" /\ CanLock(t, r)
  /\ msgs' = msgs \cup {Question(t)}
  /\ lastMessageAt' = [lastMessageAt EXCEPT ![r] = tx[t].q]
  /\ tx' = [tx EXCEPT ![t].pc = "streaming"]
  /\ UNCHANGED <<given, rooms, read, nextId, permits, calls, history>>

(* doOnComplete: the answer is inserted.  A room that is gone makes it     *)
(* throw.  A stream that fails or that its client leaves stores nothing.   *)
StreamEnds(t) ==
  /\ tx[t].pc = "streaming"
  /\ \/ /\ tx[t].room \in rooms
        /\ tx' = [tx EXCEPT ![t].pc = "saving", ![t].a = NewId]
        /\ nextId' = nextId + 1
     \/ Done(t) /\ UNCHANGED nextId
  /\ UNCHANGED <<db, permits, calls, history>>

(* The save in create is a transaction of its own, for the answer of a     *)
(* stream and for the message of the endpoint, which names any sender.     *)
(* The time of the room is changed after it and so never stored.           *)
Saved(t) ==
  IF tx[t].op = "stream" THEN {Answer(t)}
                         ELSE {[Question(t) EXCEPT !.sender = s] : s \in SenderType}
CommitMessage_Again(t) ==
  /\ tx[t].pc = "saving"
  /\ \E m \in Saved(t) : msgs' = msgs \cup {m}
  /\ tx' = [tx EXCEPT ![t].pc = "streaming"]
  /\ UNCHANGED <<given, rooms, lastMessageAt, read, nextId, permits, calls, history>>
CommitMessage(t) ==
  /\ tx[t].pc = "saving"
  /\ \E m \in Saved(t) : msgs' = msgs \cup {m}
  /\ Done(t)
  /\ UNCHANGED <<given, rooms, lastMessageAt, read, nextId, permits, calls, history>>

-----------------------------------------------------------------------------
(* PATCH read: the messages up to the last one seen that are not read.     *)
MarkAsReadUpTo(t, m) ==
  /\ m \in msgs
  /\ Begin(t, Work("read", "commit", m.room, m.id, UnreadUpTo(m)))
  /\ overtaken' = overtaken \cup
       UNION {Uncommitted(s) : s \in {s \in Threads : Inserted(s, m.room)}}
  /\ UNCHANGED <<db, nextId, permits, erased, readUpTo>>

(* One that is gone fails the update of all.                               *)
CommitRead(t) ==
  LET r == tx[t].room IN
  /\ tx[t].op = "read"
  /\ \/ /\ tx[t].known \subseteq Ids(msgs)
        /\ read' = read \cup tx[t].known
        /\ readUpTo' = [readUpTo EXCEPT ![r] = IF tx[t].q > @ THEN tx[t].q ELSE @]
     \/ ~(tx[t].known \subseteq Ids(msgs)) /\ UNCHANGED <<read, readUpTo>>
  /\ Done(t)
  /\ UNCHANGED <<given, rooms, lastMessageAt, msgs, nextId, permits, calls, erased, overtaken>>

(* DELETE message.                                                         *)
DeleteMessage(m) ==
  /\ m \in msgs /\ calls < MaxCalls /\ calls' = calls + 1
  /\ msgs' = msgs \ {m}
  /\ erased' = erased \cup {<<m.of, m.sender>>}
  /\ UNCHANGED <<given, rooms, lastMessageAt, read, nextId, permits, tx, readUpTo, overtaken>>

(* DELETE room: the room and the messages that are loaded with it.         *)
DeleteAiChatRoom(t, r) ==
  /\ r \in rooms
  /\ Begin(t, Work("remove", "commit", r, 0, Ids(MessagesOf(r))))
  /\ UNCHANGED <<db, nextId, permits, history>>

(* A message committed since makes the foreign key refuse it; one removed  *)
(* since fails it too.                                                     *)
CommitRemove(t) ==
  LET r == tx[t].room
      removable == r \in rooms /\ tx[t].known = Ids(MessagesOf(r))
  IN
  /\ tx[t].op = "remove" /\ CanLock(t, r)
  /\ \/ removable /\ rooms' = rooms \ {r} /\ msgs' = msgs \ Cascade(r)
     \/ ~removable /\ UNCHANGED <<rooms, msgs>>
  /\ Done(t)
  /\ UNCHANGED <<given, lastMessageAt, read, nextId, permits, calls, history>>

(* A commit that waits for the lock of a room is rolled back, as the       *)
(* victim of a cycle or when it has waited for 50 s.                       *)
LockWaitFails_Never(t) == FALSE /\ UNCHANGED vars
LockWaitFails(t) ==
  /\ tx[t].pc = "commit" /\ tx[t].op # "read" /\ ~CanLock(t, tx[t].room)
  /\ Done(t)
  /\ UNCHANGED <<db, nextId, permits, calls, history>>

(* The server stops and starts again.                                      *)
Crash ==
  /\ Crashes
  /\ tx' = [t \in Threads |-> Idle] /\ permits' = MAX_CONCURRENT_REQUESTS
  /\ UNCHANGED <<db, nextId, calls, history>>

-----------------------------------------------------------------------------
Call(t) ==
  \/ \E r \in Rooms :
       \/ CreateAiChatRoom(t, r) \/ Ask(t, r) \/ AskStream(t, r)
       \/ CreateAiChatMessage(t, r) \/ DeleteAiChatRoom(t, r)
  \/ \E m \in msgs : MarkAsReadUpTo(t, m)

(* What the server does without waiting for the model.                     *)
Proceed(t) ==
  \/ TryAcquire(t)
  \/ CommitAsk(t) \/ CommitAskStream(t) \/ CommitMessage(t)
  \/ CommitRead(t) \/ CommitRemove(t)
  \/ LockWaitFails(t)

ModelReplies(t) == GenerateChatResponse(t) \/ StreamEnds(t)

Next ==
  \/ \E t \in Threads : Call(t) \/ Proceed(t) \/ ModelReplies(t)
  \/ \E m \in msgs : DeleteMessage(m)
  \/ Crash

Spec == Init /\ [][Next]_vars

(* Threads go on and the database ends waits for locks.  That the model    *)
(* replies is up to the model: nothing in the program limits a call.       *)
ServerFair == Spec /\ \A t \in Threads : WF_vars(Proceed(t))
ReplyFair == ServerFair /\ \A t \in Threads : WF_vars(ModelReplies(t))

-----------------------------------------------------------------------------
(* The state has the shape the columns and the handlers give it.           *)
TypeOK ==
  /\ given \subseteq Rooms /\ rooms \subseteq given
  /\ lastMessageAt \in [Rooms -> Nat] /\ msgs \subseteq Message
  /\ read \subseteq Nat /\ nextId \in Nat \ {0} /\ permits \in Nat /\ calls \in Nat
  /\ tx \in [Threads -> Tx]
  /\ erased \subseteq Nat \X SenderType /\ readUpTo \in [Rooms -> Nat] /\ overtaken \subseteq Nat

(* No permit is lost and none is made: whatever call fails, times out or   *)
(* is refused, the permits in use are those of calls under way             *)
(* (generateChatResponse, the finally block).                              *)
Calling == {t \in Threads : tx[t].pc = "calling"}
PermitsAccounted == permits + Cardinality(Calling) = MAX_CONCURRENT_REQUESTS

(* A question that was answered at once and its answer are stored together *)
(* or not at all, whatever fails between them (ask is one transaction);    *)
(* the answer of a stream is not stored without its question.  Afterwards  *)
(* one of the two can only be removed by itself.                           *)
ExchangeTogether ==
  \A m \in msgs : m.via = "ask" \/ (m.via = "stream" /\ m.sender = "AI") =>
    \A s \in {"HUMAN", "AI"} :
      \/ \E n \in msgs : n.via = m.via /\ n.of = m.of /\ n.sender = s
      \/ <<m.of, s>> \in erased

(* No message is left of a room that was removed, and none comes late: not *)
(* from an exchange under way, not from the callback of a stream.          *)
NoOrphanMessage == \A m \in msgs : m.room \in rooms

(* "The messages up to it are marked as read" (AiChatMessageController:127)*)
(* is so for all that were there to be seen: only a message that was       *)
(* inserted and not committed when a reader came stays unread, though its  *)
(* id is lower: of an exchange under way, or the answer of another stream. *)
ReadUpToSeen ==
  \A m \in msgs : m.id <= readUpTo[m.room] => m.id \in read \/ m.id \in overtaken

(* Once the model has replied to all it was asked, every handler ends:     *)
(* exchanges that lock the same room do not wait for each other for ever.  *)
HandlersFinish == \A t \in Threads : tx[t].pc # "idle" ~> tx[t].pc = "idle"

-----------------------------------------------------------------------------
(* Overlapping calls, failures and restarts keep what Conversation         *)
(* promises.  A room is not there yet as long as it may still be committed *)
(* (createAiChatRoom), and gone when its id was given in vain.             *)
Opened(r) == r \notin given \/ \E t \in Threads : tx[t].op = "open" /\ tx[t].room = r
Phase(r) == IF r \in rooms THEN "open" ELSE IF Opened(r) THEN "none" ELSE "gone"
Phases == [r \in Rooms |-> Phase(r)]
Logs == [r \in Rooms |-> MessagesOf(r)]
Streams == {t \in Threads : tx[t].op = "stream" /\ tx[t].pc \in {"streaming", "saving"}}
Awaited == {<<tx[t].room, tx[t].q>> : t \in Streams}

Talk == INSTANCE Conversation WITH phase <- Phases, log <- Logs, pending <- Awaited

ConversationSpec == Talk!Spec

=============================================================================

# Specifications of the MOCI backend

TLA+ modules kept beside the backend of MOCI, a Spring Boot service with which elderly users
ask mentors and an AI for help with digital devices. They model what the handlers do to the
database, to sessions and to each other when requests, frames and callbacks overlap, fail or
are lost, and they are checked with TLC and proved with TLAPS. Java paths below are relative
to `src/main/java/com/moci_3d_backend/`.

## The system

| component | state | operations | interacts with |
|---|---|---|---|
| Mentor chat rooms (`domain/chat/mentor/mentorChatRoom`) | table of rooms: mentee, mentor, two "left" flags, last-seen stamps | create, join, leave (mentee), delete ("moved to AI"), close (mentor), lists | users, messages, sessions, notices |
| Mentor chat messages (`.../mentorChatMessage`) | table of messages | save and broadcast a frame, broadcast a notice, history | rooms (foreign key), broker, files |
| STOMP sessions (`global/security/Stomp*`, `Jwt*`, `global/webSocket`) | open sessions, room per session | handshake, CONNECT and SEND checks, disconnect listener | rooms |
| Archive requests (`domain/archive/archive_request`) | table of requests: status, reviewer, text | create, edit, review, delete, lists | users |
| Public archive and files (`domain/archive/public_archive`, `domain/fileUpload`) | archives, file rows, objects in S3 | create, edit, delete, upload | S3 |
| AI chat (`domain/chat/ai`, `external/ai`) | rooms, messages with a read state, rate limit buckets, permits | ask, stream, list, mark read, delete | Gemini |
| Users and authentication (`domain/user`, `global/security`, `global/rq`) | users, refresh tokens, cookies | register, log in, social log in, refresh, change, withdraw | everything |
| WebRTC signalling (`domain/webRTC`) | none | relay a frame | broker |
| Configuration, seed data, documentation, error and answer formatting | none at run time | | |

Hard to test, and what the models are for: handlers of different threads that load the same
entity and write it back; transactions that wait for each other; a broadcast or a callback
after a commit; a session that ends while a frame of it waits; a server that stops between
two steps; checks whose answer is old when it is used. `PROJECT.json` lists every such place
under `hazards`.

What makes each part correct:

* *Rooms and messages*: only participants write; who left has left; a joined room keeps its
  mentor; no message without a room, none shown that is not stored; notices are true; unread
  counts miss nothing; every handler ends.
* *Archive requests*: a pending request has no reviewer and a decided one has; an approved
  request is not edited or removed by its author; a decision is stored with the text its handler
  had loaded.
* *Public archive and files*: a file belongs to at most one archive; a linked file exists and
  can be downloaded; no object stays behind when its row is deleted.
* *AI chat*: a question gets its answer or an error; permits and buckets are never exceeded or
  lost; the limits neither let through more than they say nor refuse without cause.
* *Users*: a sign-up with a phone number and a first social login find their user id free; the
  two tokens of a browser are of one account; a token of a withdrawn user opens nothing
  for long; settings that can be made once are made once.

## Modules

| module | what it is |
|---|---|
| `MentorChat` | rooms, messages, STOMP sessions and the threads that serve them |
| `RoomLifecycle` | abstract specification: what a room promises its two sides |
| `RoomTopic` | abstract specification: what the history and the topic of a room promise |
| `MCMentorChat` | instances for TLC: symmetry sets |
| `MentorChat_proofs` | type correctness |
| `MentorChatSafety_proofs` | who wrote the messages; no message without a room; broadcasts, notices and unread messages; the handlers implement `RoomTopic`, and with one thread `RoomLifecycle` |
| `MentorChatSettling_proofs` | what stale handlers cannot undo |
| `ArchiveRequests` | requests for material, their authors and the admins who review them |
| `RequestReview` | abstract specification: the review as its two sides are told of it |
| `MCArchiveRequests` | instances for TLC: symmetry sets |
| `ArchiveRequests_proofs` | types; the two columns of a review; decisions; approvals; one thread implements `RequestReview` |
| `AiChat` | questions to the AI: asks, streams, permits, the read state, removals |
| `Conversation` | abstract specification: what a room promises its user |
| `MCAiChat` | instances for TLC: symmetry sets |
| `AiChat_proofs` | types; permits; rooms and messages; exchanges; readers; `AiChat` implements `Conversation` |
| `RateLimit` | the limits on calls to the model, with time and restarts |
| `MCRateLimit` | instances for TLC: symmetry sets |
| `RateLimit_proofs` | types; what a bucket lets through; what it refuses |
| `PublicArchive` | archives, file rows and the objects in S3 |
| `MCPublicArchive` | instances for TLC: symmetry sets |
| `PublicArchive_proofs` | types; rows and objects; links; whose a file is |
| `UserAccounts` | accounts, log in by password and by a provider, the cookies of browsers |
| `Credentials` | abstract specification: what the accounts promise of who gets tokens |
| `MCUserAccounts` | instances for TLC |
| `UserAccounts_proofs` | types; user ids; stale writes; sessions; `UserAccounts` implements `Credentials` |

The handlers of the components touch no row and no variable of each other, but for three
things that the module concerned represents by what the other component may do to it: a chat
message may point to a file (`AttachFile` in `PublicArchive`), an ask passes the rate limits
before it does anything (a call they refuse is no step of `AiChat`), and rows of other tables
can keep an account from being deleted (`Fail` in `UserAccounts`). No module composes them
beyond that. `RoomLifecycle`, `RoomTopic`, `RequestReview`, `Conversation` and `Credentials` are what
four of them promise, and `MentorChat` (the first two), `ArchiveRequests`, `AiChat` and
`UserAccounts` give the refinement mappings (`LifecycleSpec`, `TopicSpec`, `ReviewSpec`,
`ConversationSpec`, `CredentialsSpec`). `RoomLifecycle` and `RequestReview` hold of handlers that are
served one after the other: the code does not keep them otherwise. The other three are kept by
handlers that overlap, fail or are cut off, and say what is left to rely on then.

In each of them `tx[t]` is what thread `t` is in the middle of, and a variable or two record
what happened, for the properties only.

### MentorChat

A *thread* (`tx[t]`) is a thread of the servlet container or of the STOMP inbound channel.
Its record says which handler it runs, where it is (`pc`), and `img`, the entity as the handler
has loaded and changed it. One action is what a handler does between two points where another
thread can get in between:

| code | actions |
|---|---|
| `MenteeChatRoomService.createMenteeChatRoom` | `CreateMenteeChatRoom` (one step: nobody knows the id before the commit) |
| `MentorChatRoomService.joinMentorChatRoom` | `JoinMentorChatRoom`, then `CommitRoom` |
| `ApiV1MenteeChatRoomController.deleteMenteeChatRoom` | `MenteeLeftChatRoom`, `CommitRoom`, `Broadcast`; or `DeleteMenteeChatRoom`, `CommitDelete` |
| `ApiV1MentorChatRoomController.closeChatRoom` | `CloseChatRoom` (the notice, for any id), `SetSolved` (finds the room or not), `CommitRoom` |
| `StompJwtInterceptor.preSend`, CONNECT and SEND | `Connect`; `PreSend` (the session is checked, the frame then waits) |
| `MentorChatMessageService.sendMessage`, `saveMentorChatMessage` | `SaveMentorChatMessage`, `InsertMessage`, `CommitRoom`, `Broadcast` |
| `WebSocketEventListener.handlerSessionDisconnect` | `HandlerSessionDisconnect`, `StampLastAt`, `CommitRoom` |
| the database, the process | `DeadlockVictim`, `Crash` |

A frame is checked against its session when it arrives, and never again: it may be handled when
the session is closed and its disconnect stamped, and then moves the sender's stamp once more.
So `UnreadSettles` is about times when no frame and no disconnect of the mentee is under way.
The notice of an exit goes to the topic of whatever id the path holds, of a room that is gone or
was never made too; `MentorLeftAnnounced` is the converse, which the order of the two calls gives.

The database is modelled from how the code uses it. `MentorChatRoom` has neither `@Version` nor
`@DynamicUpdate`, so a commit writes every column of the row as the handler holds it, and an
entity that is not changed is not written. A row that is gone makes the commit fail. An insert
of a message holds a shared lock on its room until the commit, which needs an exclusive one;
a cycle of such waits costs one transaction. The removal of a room deletes the messages that
were loaded with it, and the foreign key refuses it when another one was committed since.

Abstractions: texts, categories, attachments and names are left out; time is counted in
messages (`clock`), so that two stamps compare as the unread query compares them;
`menteeLastAt` stands for both last-seen columns, which are written and read alike. Queries
change nothing and are represented by the predicates that properties use (the waiting list,
the history, the unread count). `notices`, `delivered`, `missed`, `wasMentor` and `wasLeft`
record what happened, for the properties; no action but `Broadcast`, `Connect` and the commits
touches them and no guard reads them.

### ArchiveRequests

A thread's record holds `seen`, the row as the handler loaded it, and `img`, the entity as the
handler has changed it; the commit writes every column of `img` when the two differ, as
Hibernate does without `@DynamicUpdate`.

| code | actions |
|---|---|
| `ArchiveRequestService.createArchiveRequest` | `CreateArchiveRequest` |
| `updateArchiveRequestWithOwnerCheck` | `UpdateArchiveRequest`, `CommitUpdate` |
| `updateArchiveRequestStatus`, `ArchiveRequest.approve`, `reject` | `UpdateArchiveRequestStatus` (`Reviewed`), `CommitUpdate` |
| `deleteArchiveRequestWithPermissionCheck` | `DeleteArchiveRequest`, `CommitDelete` |

Title, description and category are one value (`Texts`). A call that is refused (no such
request, not the author, approved) changes nothing and is no step. A request may go from any
status to any other: that is what the handler accepts.

### AiChat

`pc` says how far a handler is: before the semaphore (`permit`), in the call to the model
(`calling`), before its commit (`commit`), before the commit of a single message that it has
inserted (`saving`), or `streaming` for the subscription of a stream, which outlives the handler
that began it. `q` and `a` are the ids of the question and of the
answer it has inserted, `known` the messages it has loaded.

| code | actions |
|---|---|
| `AiChatRoomController.createAiChatRoom` | `CreateAiChatRoom`, then as an ask |
| `AiChatMessageService.ask` | `Ask`, `TryAcquire`, `GenerateChatResponse`, `CommitAsk` |
| `GeminiClient.generateChatResponse`, the semaphore | `TryAcquire`, `GenerateChatResponse` (`Released`) |
| `AiChatMessageService.askStream` | `AskStream`, `CommitAskStream`, `StreamEnds` (the callback inserts the answer), `CommitMessage` |
| `create`, called by the test endpoint | `CreateAiChatMessage` (the insert), `CommitMessage` |
| `markAsReadUpTo`, `read` | `MarkAsReadUpTo`, `CommitRead` |
| `delete` of a message | `DeleteMessage` |
| `AiChatRoomService.delete` | `DeleteAiChatRoom`, `CommitRemove` |
| the database, the process | `LockWaitFails`, `Crash` |

Read from how the code uses the database: ids are handed out at the insert
(`GenerationType.IDENTITY`), rows show at the commit; an insert holds a shared lock on the row
of its room; the history an ask loads before it calls the model is a query on messages alone,
so that the pending change of `last_message_at` is written at the commit and needs the
exclusive lock only there. `create` is not transactional itself: in `ask` and `askStream` it
joins their transaction, in the callback of a stream only its `save` is in one, so the change
of the room is lost there. That `save` needs no exclusive lock: two streams of a room may commit
their answers against the order of their ids, as an ask and a stream may.

Abstractions: who calls is left out (no effect depends on it); texts and the prompt are data;
`nextId` is the clock as well, since messages are stamped in the order of their inserts; a call
the rate limits refuse changes nothing here, and what they count is in `RateLimit`. `erased`,
`readUpTo` and `overtaken` record what happened; `overtaken` has the ids that were inserted and
not committed in the room when a reader came (`Uncommitted`), which stay unread.

### RateLimit

A bucket is of bucket4j, which is external: it takes atomically, and it takes from all its
limits or from none. Time goes in ticks; `Minute` and `Day` say how many make a minute and a
day, and the fill is counted in parts of which `Minute` make a token, so that a tick gives
back a whole number of parts.

| code | actions |
|---|---|
| `checkRateLimitsOrThrow`: the three `tryConsume` in their order | `CheckRequests`, `CheckTokens`, `CheckUser` |
| the `ServiceException(429, ...)` after each | `Refused` |
| `getUserBucket` | `MakeBucket` |
| `refillGreedy`, `refillIntervally` | `Refill`, `Renews` in `Tick` |
| the fields of the bean | `Init`, `Fresh` (`Restart`) |

A call that the first bucket refuses changes nothing and is no step. The bucket of a user whose
id is null does not exist, but `ask` and `askStream` always have an actor. A thread holds its
place in the check (`pc`) because other threads take from the same buckets between the three.

What the model shows about the numbers: a bucket that is full lets its whole grant through and
then what comes back, so that up to twice `GLOBAL_RPM` or `USER_RPM` pass within one minute
(`README.md:871` of the repository says ten per minute for a user); what a refused call has
taken from the first buckets is not given back; a restart fills all buckets.

### PublicArchive

A file is an object in S3 (`put`, `gone`) and a row (`saved`, `dropped`), which an archive
(`link`) and a chat message (`attached`) may refer to. A handler loads what it needs in its
first step, deletes objects one at a time, and commits; S3 takes no part in the transaction.

| code | actions |
|---|---|
| `FileUploadController.fileUpload`, `FileUploadService.uploadFileS3` | `UploadFileS3`, then `SaveFileUpload` or `UploadFails` |
| `FileUploadController.fileDelete` | `FileDelete` |
| `PublicArchiveService.createPublicArchive`, `processFiles` | `CreatePublicArchive`, `CommitCreate` |
| `updatePublicArchive`, `updateFiles` | `UpdatePublicArchive`, `DeleteFile`*, then `UpdateRefused` or `CommitUpdate` |
| `deletePublicArchive` | `DeletePublicArchive`, `DeleteFile`*, `CommitDelete` |
| `FileUploadService.deleteFile` | `DeleteFile`, `DeleteFileFails` |
| the database, the process | `CommitFails` |

Abstractions: titles, texts and categories; an edit with `fileIds` null touches no file and is
left out, an empty list is the empty set; a request that names a file twice is refused, as one
that names an unknown file. A crash of the server is, for each handler under way, the failure
of its next step, since nothing but their progress is in memory. `lost` records the files whose
object went by a call that did not delete the row.

Behaviours the model has, and no property excludes because the code does nothing against them:
two archives created at the same time can both link a free file, and the second commit moves it
(`PublicArchiveService.java:242` checks a snapshot); an edit that is refused for a file to add
has already deleted the objects of the files to take out (`:294` before `:309`); a file that a
chat message points to makes the removal of its archive fail after its objects are gone;
`DELETE /file` leaves the row.

### UserAccounts

Columns: `user` (the user id), `level`, `password`; e-mail and name are left out, but the
handlers that change them write the other columns too and are kept. A browser's cookies are
`access[c]` and `refresh[c]`, the account they name. Every account gets its refresh token when
it is made and keeps it, so the token is known by the account.

| code | actions |
|---|---|
| `AuthController.signup`, `UserService.register` | `Register`, `CommitRegister` |
| `AuthController.token`, `UserService.auth` | `Auth`, `Token` |
| `CustomOAuth2UserService.loadUser`, `CustomOAuth2LoginSuccessHandler` | `LoadUser`, `CommitLoadUser`, `OnAuthenticationSuccess` |
| `CustomAuthenticationFilter.work` | `Authenticated`, `Request`; `Reply` when the access token was renewed |
| `updateDigitalLevel`, `updateEmail`, `updatePassword` | the action of the name, `CommitUpdate` |
| `withdrawUser` | `WithdrawUser`, `CommitWithdraw` |
| `AuthController.deleteToken` | `Logout`, `DeleteToken` |
| any other request | `Read`, `EndRead` |
| the database, time | `Fail`, `AccessExpires`, `RefreshExpires` |

A response arrives or is lost (`Respond`), and the responses to the requests a browser has under
way arrive in any order. The client says which `loginType` it registers with and nothing is
checked against it (`AuthController.java:44`): `PHONE` asks whether the user id is taken and
encodes the password, `KAKAO` and `NAVER` do neither. The text these store is taken not to be a
hash itself, so that it matches no password and cannot be changed: `password` is `None` then, as
it is for an account made by a social login. `Registrations` are the user ids and passwords that
are sent; a user id that is null is left out. The row of a withdrawn account is reset in the
model, as it does not exist. The password of a handler is compared with the row it
loaded.

Behaviours the model has and the properties state the conditions of: a registration that does not
ask gives a second account with a user id that has one, and so do two that overlap, after which
`findByUserId` fails for both (no unique index; `UserIdSettles` excepts the first by name and the
second by its condition); a handler that loaded the row before a change takes the change back, so
that a level can be unset again although `UserService.java:138` says "재설정이 불가능합니다" (cannot be set
again); a renewal that overtakes a logout brings the access cookie back.

## Runs

The runs of `MCMentorChat` have one room: no handler touches two, and rooms share only threads.
Two threads suffice for every stale write (one that holds the old row, one that commits in
between) and for the two-transaction deadlock; five requests let a join, a departure, a frame,
a disconnect and an exit meet. Requests are bounded by `MaxRequests`, after which nothing may
be left to do: deadlock is therefore not checked, and that no handler is stuck is checked as
`HandlersFinish`. Mentors and threads are symmetric (not in the run with fairness).

| run | instance | shows |
|---|---|---|
| `chat_mentors` | mentee with role ADMIN, two mentors, 2 threads, 5 requests | who can write; the notice of an exit; what stale handlers cannot undo (`ClosedSettles`, `MatchSettles`, `UnreadSettles`) |
| `chat_crash` | user and admin, 2 threads, 5 requests, crashes | types; nothing is shown that is not stored; a departure's notice is true; overlapping handlers, failures and restarts implement `RoomTopic` |
| `chat_live` | user and admin, 2 threads, 4 requests, fairness | handlers end; a departure is announced |
| `chat_serial` | two mentors and an admin, 1 thread, 5 requests, crashes | handlers served one after the other implement `RoomLifecycle` |
| `chat_departure` | as `chat_mentors` | *violated*: a committed departure is undone by a stale commit |
| `chat_one_mentor` | as `chat_serial`, no crashes | *violated*: a second mentor joins a room that has one |

The runs of `MCArchiveRequests` have one request (no handler touches two), two mentors (the
author and one who is not), two admins and two texts, so that every decision, edit and deletion
has a rival of each kind. Four calls on three threads let two stale commits meet a third; they
are bounded by `MaxCalls`, after which nothing need be left to do. What the admin has read before
the call is no state of the server: an edit that is committed after the reading and before the
call is approved unseen, since the call names no version (`ArchiveRequestService.java:105`).

| run | instance | shows |
|---|---|---|
| `archive_reviews` | 3 threads, 4 calls | types; a pending request has no reviewer and a decided one has; decisions are stored with the text their handler had loaded; an approval that nobody stale is about to write over stays |
| `archive_serial` | 1 thread, 5 calls | handlers served one after the other implement `RequestReview` |

The runs of `MCAiChat` have one permit, so that two asks compete for it.

| run | instance | shows |
|---|---|---|
| `ai_exchanges` | 3 threads, 1 room, 4 calls, crashes, fairness | types; permits add up; questions and answers stay together; no message without a room; readers mark all that was committed when they came; handlers end once the model has replied; overlapping calls, failures and restarts implement `Conversation` |

Three threads let two exchanges wait for each other while a third call reads or removes their
room, or two streams and an ask commit out of the order of their ids. No action touches two
rooms, which share only permits, threads and ids; the same run with two passes too and takes six
times as long.

| run | instance | shows |
|---|---|---|
| `ai_limits` | 2 users, 2 threads, a minute of 2 ticks, a day of 3, 4 ticks, limits of 1 to 3 | types; what a bucket lets through in a stretch of time and in a day; a refusal has a cause |
| `archive_files` | 2 files, 2 archives, 2 threads | types; no object outlives its row; a row without an object is accounted for; links point to what exists; an archive keeps its file |
| `accounts` | 1 phone number, 1 social id, 2 passwords, 1 level, 1 browser, 2 threads, 2 accounts, fairness | types; user ids; stale writes; sessions; who withdrew is locked out; overlapping requests, failures and lost responses implement `Credentials` |

In `ai_limits` a day is not a whole number of minutes, so that a renewal falls into a minute; the
tokens of the global bucket (3) are not a multiple of what a question needs (2), so that a remainder
stays; the second user is refused by what the first has used; `MaxTime` reaches past a renewal and
past a restart. In `archive_files` nothing bounds the run but the ids: a file and an archive live
once. Two handlers are enough, since every property relates a file to one handler that knows it and
one that does not. In `accounts` the phone number is registered with `PHONE` and the social id with
another login type, so that a second account of a user id can come from an overlap, after a
withdrawal, or from a registration that does not ask; a browser can change from the one of the phone
number to the social one. In these three a run can use everything up, so deadlock is not checked.

Three more disagreements with what the repository says were met and can be read off the models,
without a run of their own: a frame whose handler loaded the room before a departure adds its
message after it (`MentorChatMessageService.java:52`; `ClosedSettles` states when it cannot); an
author's edit or deletion let in before an approval is committed over it
(`ArchiveRequestService.java:88`, `:144`; `ApprovalSettles`); the answer of a stream leaves
`last_message_at` at the question (`AiChatMessageService.java:102`: `create` runs outside a
transaction there, so `lastMessageAt` of the detached room is lost; no guard of `AiChat` reads the
column).

Fairness of `MentorChat` (`FairSpec`): a thread that has taken a request goes on with it (the
container runs its threads), and the database breaks a lock cycle (InnoDB detects deadlocks). Users,
sessions and crashes are not assumed to do anything. `AiChat` (`ReplyFair`) assumes the same of
threads and of waits for locks, which InnoDB ends as a cycle or after 50 s, and that the model
replies or fails: that is an assumption about Gemini, since the request factory with the timeouts
(`RestTemplateConfig.java:14`) is built and not used, and nothing in the program ends a call.

`UserAccounts` (`FairSpec`) assumes that threads go on and that the twenty minutes of an access
token end (`application.yml:89`); that is all `WithdrawnLockedOut` needs.

Every property of a passing run is also run against a plausible mistake (the operators with an
underscore in their name) and found violated there.

## Proofs

For every set of users, rooms and threads, and with or without crashes:

* `TypeCorrect`: `Spec => []TypeOK`, by the invariant `Typed`, which adds that a handler that
  writes in somebody's name knows the user (`ActorKnown`); without it a commit could store a
  message whose sender is `NoUser`.
* `SendersParticipated`, `NoOrphans`: by the invariant `Origin`, which says of every message,
  and of every message a thread is about to commit, that its sender is the mentee or has joined,
  that every mentor a row or a loaded room names has joined or is joining, and that a live row
  and its loaded copies agree on the mentee.
* `ShownIsStored`, `ExitsAnnounced`, `NoticesCommitted`: by the invariant `Announced`, which says
  of a thread what will make the property true at its next step: one that is about to broadcast
  has committed, one whose copy says that the mentor left has sent the notice.
* `UnreadStays`: the action property `UnreadSettles`, by the invariant `Absent`: who missed a
  message has no session in its room, so that no frame and no disconnect of hers is taken up
  (both need an open session, `PreSend`, `HandlerSessionDisconnect`). Those taken up before are
  the ones the property excuses, and no other handler moves the stamp past the message.
* `SerialLifecycle`: with one thread (`Alone`) `Spec => LifecycleSpec`, by the invariant `Serial`:
  a handler's copy differs from the row by the change it makes and by nothing else, a frame's room
  is still open, and its message is new. Every commit is then a step of `RoomLifecycle`, every
  other step a stutter.
* `KeepsTopic`: `Spec => TopicSpec`, for overlapping handlers, failures and restarts. `Origin` gives
  that the sender of a message is a member when it is stored, `Announced` that the mentor's
  departure was told of before: the handler of an exit has sent the notice before it looks for the
  room, which `RoomTopic` allows for any id. The invariant `Posting` adds that the time of a message
  a handler is about to store or to show is of no other handler, and of no message of another
  handler, so that what is stored is new and what is shown was stored and not shown; and that only
  staff join, and join a room that was made, and that the copy of an exit says the mentor left
  (`Entitled`). Each commit, broadcast and notice is then one step of `RoomTopic`; loads, failures
  before a commit, sessions and stamps are stutters.
* `DeparturesSettle`, `MatchesSettle`: the action properties `ClosedSettles` and `MatchSettles`.
  One lemma per kind of step shows that a fact (a side has left, there is a mentor) that the row
  and every loaded copy have is kept; `SentWhileOpen`, an invariant of its own, shows that a
  frame about to add its message loaded the room without departures and so is not one of these.

`ArchiveRequests_proofs`, for every set of mentors, admins, requests, texts and threads:

* `TypeCorrect`, `ColumnsAgree`, `DecisionsHold`: by the invariant `Reviewing`. The row alone is
  not inductive: a commit writes what its thread holds, so the invariant says of every loaded
  and of every changed entity what it says of the row.
* `ApprovalsSettle`: the action property `ApprovalSettles`, from the same invariant.
* `SerialReviews`: with one thread `Spec => ReviewSpec`, by the invariant `Serial`: the row is
  still what the handler loaded, and what it writes is an edit of an open request or a decision.

`AiChat_proofs`, for every set of rooms, finite set of threads, and number of permits, with or
without crashes, each invariant resting on the one before:

* `TypeCorrect`: by `Typed`, which adds that a handler's kind and how far it is agree.
* `PermitsKept`: by counting the callers; a step adds one to them or takes one away exactly when
  it takes a permit or gives one back.
* `NoOrphans`: by `Rooted`: a thread that has inserted a message and not committed it has its room
  (`Holding`), since the removal of the room needs a lock that the insert excludes, and a new room
  is known to one thread.
* `ExchangesTogether`: by `Kept`, which also says that a stream under way, its answer inserted or
  not, has its question, or its room is gone, or the question was removed by itself.
* `ReadersSeeAll`: by `Seen`. An id is older than any handed out later (`Dated`); a reader under
  way covers all that is committed, and those inserted and not committed are recorded as
  overtaken (`Reading`, `InsertedSeen`), so that what a commit adds below a reader's last id is
  one of them: a question, an answer, or the answer of another stream. Each step of another
  handler adds only messages that are newer than any reader or recorded as overtaken (`Unseen`).
* `KeepsConversation`: `Spec => ConversationSpec`. A room is not there yet while its first ask may
  still commit it, and gone once its id was given in vain (`Opened`); a stream is pending while
  its subscription is. The invariant `Apart` says that the id of a row that is inserted and not
  shown is of one handler and of no stored message (`Held`, `Hidden`), so that what a commit adds
  is new to everybody, in whatever order the commits come. With
  `Rooted` (the room of a commit is still open) every step is one of `Conversation` or a stutter.

`RateLimit_proofs`, for all limits, users, threads, and lengths of a minute and a day:

* `TypeCorrect`, `MinuteLimit`, `DayLimit`, `NotStricter`: by the invariant `Balance`, an
  account of every bucket and every tick since the start: what it has now is at most what it had
  then, less what was taken, plus what came back, and at least that much unless it was full in
  between; and the same for the days without what comes back. The limits follow from it, as a
  bucket is never overdrawn or overfull.

`PublicArchive_proofs`, for all files, archives and threads, by the invariant `Filing`: what a
handler has loaded and has not deleted yet, or has deleted and not committed yet, is related to
the rows and the bucket.

* `TypeCorrect`, `ObjectsGoFirst`, `FilesDownloadable`, `LinksPoint`: consequences of `Filing`.
* `FileKeptByArchive`: the action property `LinkSettles`, one lemma per kind of step.

`UserAccounts_proofs`, for all user ids, browsers, threads and bounds, by the invariant
`Accounting` (what a handler has in hand names an account that was made, and keeps its user id and
whether it has a password):

* `TypeCorrect`: a consequence; `UserIdKept`, `AccountKept`, `SessionKept`: the action properties
  `UserIdSettles`, `AccountSettles` and `SessionSettles`, by three lemmas on what calls begin,
  what ends of handlers do, and which rows a step keeps. A registration that does not ask is the
  one call that may leave a taken user id with another account under way (`Unasked`).
* `KeepsCredentials`: `Spec => CredentialsSpec`. A handler that may bring tokens or end an account
  is mapped to the grant it got when the filter or `auth` let it in, a social login to the user id
  the provider vouched for. `GrantsKept` and `VouchersKept` say what a step does to these sets (two
  threads may hold the same grant, so a handler that ends may leave it). With `Accounting` (a write
  gives an account the user id it has, and a password only if it had one) and the invariant `Naming`
  (whom a login or a registration under way is for) every call and every end is one step of
  `Credentials` or a stutter. Who logs in with a password has an account that has one and alone has
  its user id; which password it is, is not part of it: `AccountSettles` is about that.
* `LockoutFinal`: who has withdrawn, has no access token and no request under way that brings one
  is locked out for good. This is the safety half of `WithdrawnLockedOut`, and follows from
  `Credentials`: each of its steps leaves such an account shut (`ShutStays`). That the state is
  reached is the other half, and TLC's.

The assumptions are those the modules name on their constants, which TLC evaluates in every run;
`Alone`, that there is one thread, is a hypothesis of `SerialLifecycle` and `SerialReviews` and of
nothing else. Liveness (`HandlersFinish`, `MenteeLeaveAnnounced`, `WithdrawnLockedOut`) is
model-checked only: it is beyond the prover.

## Not modelled

* Reads (lists, counts, history), texts and their conversions, and what the handlers do with
  columns on which nothing depends (titles, categories, e-mail, names).
* The HTTP exchange with Gemini: `AiChat` has its outcomes (an answer, an error, no answer).
* The handshake of a STOMP session copies the caller's identity from the access token into the
  session; heartbeats and the queues of the broker are the framework's.
* Tokens sent in the `Authorization` header, the OAuth2 `state` parameter and the redirects.
* WebRTC signalling relays each frame and keeps no state.
* Configuration, seed data, API documentation, the answer envelope, error formatting and the
  tokenizer of search words keep no state.
* The landing page under `src/main/resources/static` is an exported Next.js page ("API Server")
  with links to Swagger UI and the H2 console: minified bundles of the framework and its chunk
  manifests, generated code. It holds no logic of the service, and the test page beside it is
  operated by hand. None of the JavaScript in the repository is modelled; the models are of the
  Java sources.
* The update of an AI room's title is called by nothing.

Liveness is checked where the code gives a reason for it: handlers of `MentorChat`, `AiChat` and
`UserAccounts`. In `PublicArchive` a handler ends because its steps are finite, whatever fails,
and in `RateLimit` none waits.

## Plan

All components that keep state have a module, checked and proved about. What is left are
properties not stated yet:

* a committed join is kept (`MentorChatRoomService.java:40`), as a departure is in `DepartureKept`;
* a message that reached nobody counts as unread (`WebSocketEventListener.java:46`);
* an edit that was answered with success is kept (`ArchiveRequestService.java:113`);
* asking for the messages after the last one received misses none (`AiChatMessageController.java:85`).

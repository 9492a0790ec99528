----------------------------- MODULE RoomTopic -----------------------------
(***************************************************************************)
(* What the history and the topic of a mentor chat room promise, however   *)
(* many handlers overlap, fail or are cut off by a restart: a message is   *)
(* by a member, is stored once and never changed, is shown at most once    *)
(* and only after that, and goes with its room alone; nobody is a member   *)
(* who has not opened the room or joined it as staff; the mentee's         *)
(* departure is told after the fact and the mentor's before; a room that   *)
(* is gone does not come back.                                             *)
(***************************************************************************)
CONSTANTS Rooms, Users, Staff

VARIABLES
  phase,    \* "none", "open" or "removed"
  members,  \* who opened or joined each room
  log,      \* the messages of each room
  outbox,   \* messages, by room and time, that are stored and still to be shown
  shown,    \* messages that were shown
  leaving,  \* rooms whose topic is still to be told that the mentee left
  departed, \* departures so far, by room and side
  told      \* those the topic was told of

vars == <<phase, members, log, outbox, shown, leaving, departed, told>>

Init ==
  /\ phase = [r \in Rooms |-> "none"]
  /\ members = [r \in Rooms |-> {}] /\ log = [r \in Rooms |-> {}]
  /\ outbox = {} /\ shown = {} /\ leaving = {} /\ departed = {} /\ told = {}

-----------------------------------------------------------------------------
(* No message of any room was stored at the same time.                     *)
IsNew(m) == \A r \in Rooms : \A n \in log[r] : n.at # m.at

(* Which message is added is left open, what it is is not.                 *)
Open(r, u) ==
  /\ phase[r] = "none" /\ phase' = [phase EXCEPT ![r] = "open"]
  /\ members' = [members EXCEPT ![r] = {u}]
  /\ \E m \in log'[r] : m.sender = u /\ IsNew(m) /\ log' = [log EXCEPT ![r] = {m}]
  /\ UNCHANGED <<outbox, shown, leaving, departed, told>>

Join(r, u) ==
  /\ phase[r] = "open" /\ u \in Staff
  /\ members' = [members EXCEPT ![r] = @ \cup {u}]
  /\ UNCHANGED <<phase, log, outbox, shown, leaving, departed, told>>

Store(r) ==
  /\ phase[r] = "open"
  /\ \E m \in log'[r] :
       LET x == [room |-> r, at |-> m.at] IN
       /\ m.sender \in members[r] /\ IsNew(m) /\ x \notin outbox \cup shown
       /\ log' = [log EXCEPT ![r] = @ \cup {m}]
       /\ outbox' = outbox \cup {x}
  /\ UNCHANGED <<phase, members, shown, leaving, departed, told>>

(* A message may be shown when its room is gone already.                   *)
Show(x) ==
  /\ x \in outbox /\ outbox' = outbox \ {x} /\ shown' = shown \cup {x}
  /\ UNCHANGED <<phase, members, log, leaving, departed, told>>

(* The departure of the mentee is told of afterwards, perhaps twice.       *)
MenteeLeaves(r) ==
  /\ phase[r] = "open"
  /\ departed' = departed \cup {<<r, "mentee">>} /\ leaving' = leaving \cup {r}
  /\ UNCHANGED <<phase, members, log, outbox, shown, told>>
TellMenteeLeft(r) ==
  /\ r \in leaving /\ leaving' \in {leaving, leaving \ {r}}
  /\ told' = told \cup {<<r, "mentee">>}
  /\ UNCHANGED <<phase, members, log, outbox, shown, departed>>

(* That of a mentor is told of before, and may fail then: even of a room   *)
(* that nobody has opened.                                                 *)
TellMentorLeaves(r) ==
  /\ told' = told \cup {<<r, "mentor">>}
  /\ UNCHANGED <<phase, members, log, outbox, shown, leaving, departed>>
MentorLeaves(r) ==
  /\ phase[r] = "open" /\ <<r, "mentor">> \in told
  /\ departed' = departed \cup {<<r, "mentor">>}
  /\ UNCHANGED <<phase, members, log, outbox, shown, leaving, told>>

Remove(r) ==
  /\ phase[r] = "open" /\ phase' = [phase EXCEPT ![r] = "removed"]
  /\ members' = [members EXCEPT ![r] = {}] /\ log' = [log EXCEPT ![r] = {}]
  /\ UNCHANGED <<outbox, shown, leaving, departed, told>>

(* The server stops: what was to be shown or told is not.                  *)
Stop ==
  /\ outbox' = {} /\ leaving' = {}
  /\ UNCHANGED <<phase, members, log, shown, departed, told>>

Next ==
  \/ \E r \in Rooms :
       \/ \E u \in Users : Open(r, u) \/ Join(r, u)
       \/ Store(r) \/ MenteeLeaves(r) \/ TellMenteeLeft(r)
       \/ TellMentorLeaves(r) \/ MentorLeaves(r) \/ Remove(r)
  \/ \E x \in outbox : Show(x)
  \/ Stop

Spec == Init /\ [][Next]_vars
=============================================================================

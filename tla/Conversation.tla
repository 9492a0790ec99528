---------------------------- MODULE Conversation ----------------------------
(***************************************************************************)
(* What a room for questions to the AI promises its user, however many     *)
(* calls overlap, fail or are cut off by a restart: it appears with its    *)
(* first question and the answer to it; a question and its answer come     *)
(* together, or the answer of a stream later and once; no message takes    *)
(* the place of another; a message is never changed, and goes by itself or *)
(* with the room; a room that is gone does not come back.                  *)
(***************************************************************************)
EXTENDS Naturals

CONSTANT Rooms

VARIABLES
  phase,   \* "none", "open" or "gone"
  log,     \* the messages of each room
  pending, \* questions whose answer is being streamed: their rooms and ids
  read     \* ids of messages that are marked as read

vars == <<phase, log, pending, read>>

Init ==
  /\ phase = [r \in Rooms |-> "none"]
  /\ log = [r \in Rooms |-> {}]
  /\ pending = {} /\ read = {}

-----------------------------------------------------------------------------
Said == UNION {log[r] : r \in Rooms}
IsNew(m) == \A n \in Said : n.id # m.id

(* q is a question and a the answer to it.                                 *)
Exchange(q, a) ==
  /\ q.sender = "HUMAN" /\ q.of = q.id
  /\ a.sender = "AI" /\ a.of = q.id /\ q.id < a.id

(* Which messages are added is left open, what they are is not.            *)
Open(r) ==
  /\ phase[r] = "none" /\ phase' = [phase EXCEPT ![r] = "open"]
  /\ \E q, a \in log'[r] :
       Exchange(q, a) /\ IsNew(q) /\ IsNew(a) /\ log' = [log EXCEPT ![r] = {q, a}]
  /\ UNCHANGED <<pending, read>>

Answered(r) ==
  /\ phase[r] = "open"
  /\ \E q, a \in log'[r] :
       Exchange(q, a) /\ IsNew(q) /\ IsNew(a) /\ log' = [log EXCEPT ![r] = @ \cup {q, a}]
  /\ UNCHANGED <<phase, pending, read>>

Asked(r) ==
  /\ phase[r] = "open"
  /\ \E q \in log'[r] :
       /\ q.sender = "HUMAN" /\ q.of = q.id /\ IsNew(q) /\ <<r, q.id>> \notin pending
       /\ log' = [log EXCEPT ![r] = @ \cup {q}]
       /\ pending' = pending \cup {<<r, q.id>>}
  /\ UNCHANGED <<phase, read>>

(* The question may have been removed meanwhile, and later messages may    *)
(* have come: two streams need not end in the order of their answers.      *)
Streamed(r) ==
  /\ phase[r] = "open"
  /\ \E a \in log'[r] :
       /\ a.sender = "AI" /\ IsNew(a) /\ a.of < a.id /\ <<r, a.of>> \in pending
       /\ log' = [log EXCEPT ![r] = @ \cup {a}]
       /\ pending' = pending \ {<<r, a.of>>}
  /\ UNCHANGED <<phase, read>>

(* A message without an exchange.                                          *)
Noted(r) ==
  /\ phase[r] = "open"
  /\ \E m \in log'[r] : IsNew(m) /\ m.of = m.id /\ log' = [log EXCEPT ![r] = @ \cup {m}]
  /\ UNCHANGED <<phase, pending, read>>

Erase(r) ==
  /\ \E m \in log[r] : log' = [log EXCEPT ![r] = @ \ {m}]
  /\ UNCHANGED <<phase, pending, read>>

Remove(r) ==
  /\ phase[r] = "open" /\ phase' = [phase EXCEPT ![r] = "gone"]
  /\ log' = [log EXCEPT ![r] = {}]
  /\ UNCHANGED <<pending, read>>

Mark ==
  /\ read \subseteq read' /\ read' \ read \subseteq {m.id : m \in Said}
  /\ UNCHANGED <<phase, log, pending>>

(* Streams end without an answer, and rooms that nobody has seen yet are   *)
(* given up: one that fails, or all at a restart.                          *)
GiveUp ==
  /\ pending' \subseteq pending
  /\ \E S \in SUBSET {r \in Rooms : phase[r] = "none"} :
       phase' = [r \in Rooms |-> IF r \in S THEN "gone" ELSE phase[r]]
  /\ UNCHANGED <<log, read>>

Next ==
  \/ \E r \in Rooms :
       \/ Open(r) \/ Answered(r) \/ Asked(r) \/ Streamed(r) \/ Noted(r)
       \/ Erase(r) \/ Remove(r)
  \/ Mark \/ GiveUp

Spec == Init /\ [][Next]_vars
=============================================================================

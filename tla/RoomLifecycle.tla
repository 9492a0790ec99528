--------------------------- MODULE RoomLifecycle ---------------------------
(***************************************************************************)
(* What a mentor chat room promises its two sides, whatever the handlers,  *)
(* transactions and sessions behind it: it is opened with a question, gets *)
(* a mentor and is off the waiting list for good, takes messages until one *)
(* side leaves, is read-only from then on, and is removed as a whole.      *)
(***************************************************************************)
CONSTANT Rooms

VARIABLES
  phase,    \* "none", "open", "closed" or "removed"
  waiting,  \* rooms on the list offered to mentors
  log       \* the messages of each room

vars == <<phase, waiting, log>>

Init ==
  /\ phase = [r \in Rooms |-> "none"]
  /\ waiting = {}
  /\ log = [r \in Rooms |-> {}]

(* A message is whatever the log holds: which one is added is left open,   *)
(* that it is one is not.                                                  *)
Open(r) ==
  /\ phase[r] = "none"
  /\ phase' = [phase EXCEPT ![r] = "open"]
  /\ waiting' = waiting \cup {r}
  /\ \E m \in log'[r] : log' = [log EXCEPT ![r] = {m}]

Match(r) ==
  /\ phase[r] \in {"open", "closed"}
  /\ waiting' = waiting \ {r}
  /\ UNCHANGED <<phase, log>>

Post(r) ==
  /\ phase[r] = "open"
  /\ \E m \in log'[r] \ log[r] : log' = [log EXCEPT ![r] = @ \cup {m}]
  /\ UNCHANGED <<phase, waiting>>

(* The mentee's departure also takes the room off the list; that of a      *)
(* mentor, who need not be the room's, leaves it there.                    *)
Close(r) ==
  /\ phase[r] \in {"open", "closed"}
  /\ phase' = [phase EXCEPT ![r] = "closed"]
  /\ waiting' \in {waiting, waiting \ {r}}
  /\ UNCHANGED log

Remove(r) ==
  /\ phase[r] \in {"open", "closed"}
  /\ phase' = [phase EXCEPT ![r] = "removed"]
  /\ waiting' = waiting \ {r}
  /\ log' = [log EXCEPT ![r] = {}]

Next == \E r \in Rooms :
  Open(r) \/ Match(r) \/ Post(r) \/ Close(r) \/ Remove(r)

Spec == Init /\ [][Next]_vars
=============================================================================

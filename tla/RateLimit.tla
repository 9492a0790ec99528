------------------------------ MODULE RateLimit ------------------------------
(***************************************************************************)
(* The limits on calls to the model: one bucket of requests and one of     *)
(* tokens for everybody, and a bucket of requests for each user, made when *)
(* the user first calls.  A call takes from one bucket after the other and *)
(* gives nothing back when a later one refuses.                            *)
(*                                                                         *)
(* A bucket of bucket4j (external) takes atomically.  What it grants per   *)
(* minute comes back evenly (refillGreedy), what it grants per day all at  *)
(* once, a day after it was made and every day after (refillIntervally).   *)
(* Time goes in ticks, Minute of them a minute and Day of them a day.  The *)
(* fill is counted in parts of which Minute make a token, so that each     *)
(* tick brings back as many parts as a minute brings tokens.               *)
(***************************************************************************)
EXTENDS Naturals

CONSTANTS
  Users, Threads,
  GLOBAL_RPM, GLOBAL_RPD, GLOBAL_TPM, USER_RPM, USER_RPD,
  Minute, Day,  \* in ticks
  Sizes,        \* tokens a question may need
  None,         \* no user, no time
  MaxTime       \* bound: ticks in a run

ASSUME LimitsAssumption ==
  /\ {GLOBAL_RPM, GLOBAL_RPD, GLOBAL_TPM, USER_RPM, USER_RPD} \subseteq Nat \ {0}
  /\ Minute \in Nat \ {0} /\ Day \in Nat \ {0} /\ MaxTime \in Nat
  /\ Sizes \subseteq Nat \ {0}
ASSUME NamesAssumption ==
  {"requests", "tokens"} \cap Users = {} /\ None \notin Users \cup Nat

VARIABLES
  now,
  start,    \* when the server was last started
  minute,   \* parts left of each bucket's grant per minute
  day,      \* parts left of its grant per day
  renewed,  \* when the grant per day was last full; None before the bucket is made
  tx,       \* what each thread is doing
  used,     \* parts taken from each bucket since the start
  usedAt    \* what used was when each tick began

buckets == <<minute, day, renewed>>
history == <<used, usedAt>>
vars    == <<now, start, buckets, tx, history>>

-----------------------------------------------------------------------------
Daily   == Users \cup {"requests"}
Buckets == Daily \cup {"tokens"}

PerMinute(b) == CASE b = "requests" -> GLOBAL_RPM
                  [] b = "tokens"   -> GLOBAL_TPM
                  [] OTHER          -> USER_RPM
PerDay(b) == IF b = "requests" THEN GLOBAL_RPD ELSE USER_RPD

(* Full grants, in parts.                                                  *)
FullMinute(b) == Minute * PerMinute(b)
FullDay(b)    == Minute * PerDay(b)

Tx == [pc : {"idle", "tokens", "user"}, user : Users \cup {None}, size : Sizes \cup {0}]
Idle == [pc |-> "idle", user |-> None, size |-> 0]

Least(m, n) == IF m < n THEN m ELSE n

(* A definition with an underscore in its name is a plausible mistake in   *)
(* the one below it, kept to confirm that some property notices it.        *)

Enough(b, n) == n * Minute <= minute[b] /\ (b \in Daily => n * Minute <= day[b])

(* tryConsume, when there is enough.                                       *)
Consume_ChecksOnly(b, n) ==
  /\ Enough(b, n)
  /\ used' = [used EXCEPT ![b] = @ + n * Minute]
  /\ UNCHANGED <<now, start, usedAt, minute, day>>
Consume_MinuteOnly(b, n) ==
  /\ Enough(b, n)
  /\ minute' = [minute EXCEPT ![b] = @ - n * Minute]
  /\ used' = [used EXCEPT ![b] = @ + n * Minute]
  /\ UNCHANGED <<now, start, usedAt, day>>
Consume(b, n) ==
  /\ Enough(b, n)
  /\ minute' = [minute EXCEPT ![b] = @ - n * Minute]
  /\ day' = [c \in Daily |-> IF c = b THEN day[c] - n * Minute ELSE day[c]]
  /\ used' = [used EXCEPT ![b] = @ + n * Minute]
  /\ UNCHANGED <<now, start, usedAt>>

Become(t, pc, u, n) == tx' = [tx EXCEPT ![t] = [pc |-> pc, user |-> u, size |-> n]]

-----------------------------------------------------------------------------
(* New buckets are full.                                                   *)
Fresh(time) ==
  /\ start' = time
  /\ minute' = [b \in Buckets |-> FullMinute(b)]
  /\ day' = [b \in Daily |-> FullDay(b)]
  /\ renewed' = [b \in Daily |-> IF b = "requests" THEN time ELSE None]
  /\ tx' = [t \in Threads |-> Idle]
  /\ used' = [b \in Buckets |-> 0]
  /\ usedAt' = [b \in Buckets |-> [s \in 0..MaxTime |-> 0]]

Init ==
  /\ now = 0 /\ start = 0
  /\ minute = [b \in Buckets |-> FullMinute(b)]
  /\ day = [b \in Daily |-> FullDay(b)]
  /\ renewed = [b \in Daily |-> IF b = "requests" THEN 0 ELSE None]
  /\ tx = [t \in Threads |-> Idle]
  /\ used = [b \in Buckets |-> 0]
  /\ usedAt = [b \in Buckets |-> [s \in 0..MaxTime |-> 0]]

(* The global limit on requests.  A call that it refuses leaves no trace.  *)
CheckRequests(t, u, n) ==
  /\ tx[t] = Idle
  /\ Consume("requests", 1)
  /\ Become(t, "tokens", u, n)
  /\ UNCHANGED renewed

(* The global limit on tokens.                                             *)
CheckTokens(t) ==
  /\ tx[t].pc = "tokens"
  /\ Consume("tokens", tx[t].size)
  /\ Become(t, "user", tx[t].user, tx[t].size)
  /\ UNCHANGED renewed

(* The limit of the user, whose bucket is made if there is none.           *)
MakeBucket(u) == renewed' = [renewed EXCEPT ![u] = IF @ = None THEN now ELSE @]

CheckUser(t) ==
  /\ tx[t].pc = "user"
  /\ MakeBucket(tx[t].user)
  /\ Consume(tx[t].user, 1)
  /\ Become(t, "idle", None, 0)

(* A limit refuses, 429; what the earlier ones took stays taken.           *)
Refused(t) ==
  /\ \/ /\ tx[t].pc = "tokens" /\ ~Enough("tokens", tx[t].size)
        /\ UNCHANGED renewed
     \/ /\ tx[t].pc = "user" /\ ~Enough(tx[t].user, 1)
        /\ MakeBucket(tx[t].user)
  /\ Become(t, "idle", None, 0)
  /\ UNCHANGED <<now, start, minute, day, history>>

(* A tick passes.                                                          *)
Renews(b) == renewed[b] # None /\ now + 1 = renewed[b] + Day
Refill_Uncapped(b) == minute[b] + PerMinute(b)
Refill_UserRate(b) == Least(FullMinute(b), minute[b] + USER_RPM)
Refill(b) == Least(FullMinute(b), minute[b] + PerMinute(b))

Tick ==
  /\ now < MaxTime /\ now' = now + 1
  /\ minute' = [b \in Buckets |-> Refill(b)]
  /\ day' = [b \in Daily |-> IF Renews(b) THEN FullDay(b) ELSE day[b]]
  /\ renewed' = [b \in Daily |-> IF Renews(b) THEN now + 1 ELSE renewed[b]]
  /\ usedAt' = [b \in Buckets |-> [usedAt[b] EXCEPT ![now + 1] = used[b]]]
  /\ UNCHANGED <<start, tx, used>>

(* The buckets are in memory: a server that restarts begins with full ones *)
(* and drops the calls under way.                                          *)
Restart == now # start /\ Fresh(now) /\ UNCHANGED now

Next ==
  \/ \E t \in Threads :
       \/ \E u \in Users, n \in Sizes : CheckRequests(t, u, n)
       \/ CheckTokens(t) \/ CheckUser(t) \/ Refused(t)
  \/ Tick \/ Restart

Spec == Init /\ [][Next]_vars

-----------------------------------------------------------------------------
(* The state has the shape that the buckets give it: no bucket is          *)
(* overdrawn or overfull.                                                  *)
TypeOK ==
  /\ now \in 0..MaxTime /\ start \in 0..now
  /\ minute \in [Buckets -> Nat] /\ \A b \in Buckets : minute[b] <= FullMinute(b)
  /\ day \in [Daily -> Nat] /\ \A b \in Daily : day[b] <= FullDay(b)
  /\ renewed \in [Daily -> (start..now) \cup {None}]
  /\ tx \in [Threads -> Tx]
  /\ used \in [Buckets -> Nat] /\ usedAt \in [Buckets -> [0..MaxTime -> Nat]]

(* Parts taken since the beginning of tick s.                              *)
UsedSince(b, s) == used[b] - usedAt[b][s]

(* However calls interleave, in any stretch of time since the start a      *)
(* bucket lets no more through than its grant and what came back meanwhile *)
(* (so up to twice the grant within one minute).                           *)
WithinMinute ==
  \A b \in Buckets : \A s \in start..now :
    UsedSince(b, s) <= FullMinute(b) + (now - s) * PerMinute(b)

(* From one renewal of the grant per day to the next no more than it.      *)
WithinDay ==
  \A b \in Daily : renewed[b] # None => UsedSince(b, renewed[b]) <= FullDay(b)

(* The limits are not stricter than they say: when the grant per minute    *)
(* does not suffice for n tokens, all but n - 1 of it were taken within    *)
(* the last minute, or since the start; for requests (n = 1) the whole     *)
(* grant.                                                                  *)
LastMinute == IF now < start + Minute THEN start ELSE now - Minute

RefusedForCause ==
  \A b \in Buckets : \A n \in Sizes \cup {1} :
    minute[b] < n * Minute => UsedSince(b, LastMinute) + n * Minute > FullMinute(b)
=============================================================================

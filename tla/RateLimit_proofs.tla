-------------------------- MODULE RateLimit_proofs --------------------------
(***************************************************************************)
(* What the buckets let through, and what they do not, for all grants and  *)
(* however calls interleave: no more than the grant and what came back, and*)
(* no refusal without its cause.                                           *)
(***************************************************************************)
EXTENDS RateLimit, TLAPS

Shape ==
  /\ now \in Nat /\ now <= MaxTime /\ start \in Nat /\ start <= now
  /\ minute \in [Buckets -> Nat] /\ \A b \in Buckets : minute[b] <= FullMinute(b)
  /\ day \in [Daily -> Nat] /\ \A b \in Daily : day[b] <= FullDay(b)
  /\ used \in [Buckets -> Nat] /\ usedAt \in [Buckets -> [0..MaxTime -> Nat]]

(* A call that has a limit to pass is somebody's.                          *)
Calls ==
  /\ tx \in [Threads -> Tx]
  /\ \A t \in Threads : tx[t].pc # "idle" => tx[t].user \in Users /\ tx[t].size \in Sizes

(* Time that is part of the run.                                           *)
Elapsed == {s \in Nat : start <= s /\ s <= now}

(* What is left and what was taken since s make up at least what came back *)
(* since s, a full grant if s is the start, and at most a full grant and   *)
(* what came back.                                                         *)
Balanced(b, s) ==
  /\ usedAt[b][s] <= used[b]
  /\ minute[b] + used[b] - usedAt[b][s] <= FullMinute(b) + (now - s) * PerMinute(b)
  /\ \/ FullMinute(b) <= minute[b] + used[b] - usedAt[b][s]
     \/ s # start /\ (now - s) * PerMinute(b) <= minute[b] + used[b] - usedAt[b][s]

(* What is left of the grant per day and what was taken since it was full. *)
DayLeft(b, s) == s \in Elapsed /\ day[b] + used[b] - usedAt[b][s] <= FullDay(b)
DayBalanced(b) ==
  IF renewed[b] = None THEN used[b] = 0 ELSE DayLeft(b, renewed[b])

(* The strengthening of the invariants that every step keeps.              *)
Balance ==
  /\ Shape /\ Calls
  /\ \A b \in Buckets : \A s \in Elapsed : Balanced(b, s)
  /\ renewed \in [Daily -> Nat \cup {None}] /\ renewed["requests"] # None
  /\ \A b \in Daily : DayBalanced(b)

-----------------------------------------------------------------------------
LEMMA GrantsNat ==
  /\ \A b \in Buckets : PerMinute(b) \in Nat /\ FullMinute(b) \in Nat
  /\ \A b \in Daily : FullDay(b) \in Nat /\ b \in Buckets
  /\ "requests" \in Daily /\ "tokens" \in Buckets /\ Users \subseteq Daily
  /\ "tokens" \notin Daily
<1>1. \A b \in Buckets : PerMinute(b) \in Nat
  BY LimitsAssumption DEF PerMinute
<1>2. \A b \in Daily : PerDay(b) \in Nat
  BY LimitsAssumption DEF PerDay
<1>3. \A m, n \in Nat : m * n \in Nat
  OBVIOUS
<1> QED
  BY <1>1, <1>2, <1>3, LimitsAssumption, NamesAssumption
  DEF FullMinute, FullDay, Buckets, Daily

LEMMA OneMore == ASSUME NEW m \in Nat, NEW n \in Nat PROVE (m + 1) * n = m * n + n
OBVIOUS

LEMMA ElapsedIsRange == Shape => Elapsed = start..now
BY DEF Shape, Elapsed

(* A fresh set of buckets is in balance.                                   *)
FreshState ==
  /\ now \in 0..MaxTime /\ start = now
  /\ minute = [b \in Buckets |-> FullMinute(b)]
  /\ day = [b \in Daily |-> FullDay(b)]
  /\ renewed = [b \in Daily |-> IF b = "requests" THEN now ELSE None]
  /\ tx = [t \in Threads |-> Idle]
  /\ used = [b \in Buckets |-> 0]
  /\ usedAt = [b \in Buckets |-> [s \in 0..MaxTime |-> 0]]

LEMMA FreshBalanced == FreshState => Balance
<1> SUFFICES ASSUME FreshState PROVE Balance
  OBVIOUS
<1> USE DEF FreshState
<1>1. Shape
  BY GrantsNat, LimitsAssumption DEF Shape
<1>2. Calls
  BY DEF Calls, Idle, Tx
<1>3. Elapsed = {now}
  BY DEF Elapsed
<1>4. ASSUME NEW b \in Buckets, NEW s \in Elapsed PROVE Balanced(b, s)
  <2>1. s = now /\ usedAt[b][s] = 0 /\ used[b] = 0 /\ minute[b] = FullMinute(b)
    BY <1>3, LimitsAssumption
  <2>2. (now - s) * PerMinute(b) = 0
    BY <2>1, GrantsNat
  <2> QED
    BY <2>1, <2>2, GrantsNat DEF Balanced
<1>5. ASSUME NEW b \in Daily PROVE DayBalanced(b)
  <2>1. b \in Buckets /\ used[b] = 0 /\ day[b] = FullDay(b) /\ FullDay(b) \in Nat
    BY GrantsNat
  <2>2. usedAt[b][now] = 0
    BY <2>1, LimitsAssumption
  <2>3. renewed[b] = None \/ renewed[b] = now
    OBVIOUS
  <2> QED
    BY <1>3, <2>1, <2>2, <2>3 DEF DayBalanced, DayLeft
<1>6. renewed \in [Daily -> Nat \cup {None}] /\ renewed["requests"] # None
  BY GrantsNat, NamesAssumption
<1> QED
  BY <1>1, <1>2, <1>4, <1>5, <1>6 DEF Balance

LEMMA BalanceInit == Init => Balance
BY FreshBalanced, LimitsAssumption DEF Init, FreshState

(* Taking from a bucket keeps it in balance, and the others.               *)
LEMMA ConsumeBalanced ==
  ASSUME Balance, NEW b \in Buckets, NEW n \in Nat, Consume(b, n)
  PROVE  /\ Shape' /\ Elapsed' = Elapsed
         /\ \A c \in Buckets : \A s \in Elapsed : Balanced(c, s)'
<1> DEFINE k == n * Minute
<1>1. k \in Nat
  BY LimitsAssumption
<1>2. Elapsed' = Elapsed /\ Elapsed \subseteq 0..MaxTime
  BY LimitsAssumption DEF Consume, Elapsed, Balance, Shape
<1>3. /\ minute' = [minute EXCEPT ![b] = @ - k] /\ k <= minute[b]
      /\ used' = [used EXCEPT ![b] = @ + k]
      /\ day' = [c \in Daily |-> IF c = b THEN day[c] - k ELSE day[c]]
      /\ b \in Daily => k <= day[b]
      /\ now' = now /\ start' = start /\ usedAt' = usedAt
  BY DEF Consume, Enough
<1> HIDE DEF k
<1>4. Shape'
  <2>1. minute' \in [Buckets -> Nat] /\ \A c \in Buckets : minute'[c] <= minute[c]
    BY <1>1, <1>3 DEF Balance, Shape
  <2>2. day' \in [Daily -> Nat] /\ \A c \in Daily : day'[c] <= day[c]
    BY <1>1, <1>3 DEF Balance, Shape
  <2>3. used' \in [Buckets -> Nat]
    BY <1>1, <1>3 DEF Balance, Shape
  <2>4. \A c \in Buckets : minute'[c] <= FullMinute(c)
    BY <2>1, GrantsNat DEF Balance, Shape
  <2>5. \A c \in Daily : day'[c] <= FullDay(c)
    BY <2>2, GrantsNat DEF Balance, Shape
  <2> QED
    BY <1>3, <2>1, <2>2, <2>3, <2>4, <2>5 DEF Balance, Shape, FullMinute, FullDay, PerMinute, PerDay
<1>5. ASSUME NEW c \in Buckets, NEW s \in Elapsed PROVE Balanced(c, s)'
  <2>1. Balanced(c, s)
    BY DEF Balance
  <2>2. /\ minute[c] \in Nat /\ used[c] \in Nat /\ usedAt[c][s] \in Nat
        /\ minute'[c] + used'[c] = minute[c] + used[c] /\ used[c] <= used'[c]
        /\ used'[c] \in Nat /\ minute'[c] \in Nat
    <3>1. /\ minute[c] \in Nat /\ used[c] \in Nat /\ usedAt[c][s] \in Nat
          /\ minute'[c] = IF c = b THEN minute[c] - k ELSE minute[c]
          /\ used'[c] = IF c = b THEN used[c] + k ELSE used[c]
      BY <1>1, <1>2, <1>3 DEF Balance, Shape
    <3> QED
      BY <1>1, <1>3, <3>1
  <2>3. minute'[c] + used'[c] - usedAt[c][s] = minute[c] + used[c] - usedAt[c][s]
    BY <2>2
  <2>4. usedAt[c][s] <= used'[c]
    BY <2>1, <2>2 DEF Balanced
  <2> QED
    BY <1>3, <2>1, <2>3, <2>4 DEF Balanced, FullMinute, PerMinute
<1> QED
  BY <1>2, <1>4, <1>5

(* ... and what is left of the grant per day.                              *)
LEMMA ConsumeLeft ==
  ASSUME Balance, NEW b \in Buckets, NEW n \in Nat, Consume(b, n),
         NEW c \in Daily, NEW s, DayLeft(c, s)
  PROVE  s \in Elapsed' /\ day'[c] + used'[c] - usedAt'[c][s] <= FullDay(c)
<1> DEFINE k == n * Minute
<1>1. k \in Nat
  BY LimitsAssumption
<1>2. /\ used' = [used EXCEPT ![b] = @ + k]
      /\ day' = [d \in Daily |-> IF d = b THEN day[d] - k ELSE day[d]]
      /\ b \in Daily => k <= day[b]
      /\ now' = now /\ start' = start /\ usedAt' = usedAt
  BY DEF Consume, Enough
<1> HIDE DEF k
<1>3. /\ s \in Elapsed /\ Elapsed' = Elapsed /\ Elapsed \subseteq 0..MaxTime /\ c \in Buckets
      /\ day[c] + used[c] - usedAt[c][s] <= FullDay(c) /\ FullDay(c) \in Nat
  BY <1>2, LimitsAssumption, GrantsNat DEF DayLeft, Elapsed, Balance, Shape
<1>4. usedAt[c][s] \in Nat
  BY <1>3 DEF Balance, Shape
<1>5. /\ used[c] \in Nat /\ day[c] \in Nat
      /\ used'[c] = IF c = b THEN used[c] + k ELSE used[c]
      /\ day'[c] = IF c = b THEN day[c] - k ELSE day[c]
  BY <1>1, <1>2, <1>3 DEF Balance, Shape
<1>6. day'[c] + used'[c] = day[c] + used[c] /\ day'[c] \in Nat /\ used'[c] \in Nat
  BY <1>1, <1>2, <1>5
<1> QED
  BY <1>2, <1>3, <1>4, <1>5, <1>6

LEMMA ConsumeDay ==
  ASSUME Balance, NEW b \in Buckets, NEW n \in Nat, Consume(b, n), renewed' = renewed,
         b \in Daily => renewed[b] # None
  PROVE  \A c \in Daily : DayBalanced(c)'
<1> SUFFICES ASSUME NEW c \in Daily PROVE DayBalanced(c)'
  OBVIOUS
<1>1. DayBalanced(c) /\ c \in Buckets
  BY GrantsNat DEF Balance
<1>2. CASE renewed[c] = None
  BY <1>1, <1>2 DEF DayBalanced, Balance, Shape, Consume
<1>3. CASE renewed[c] # None
  <2>1. renewed[c] \in Elapsed' /\ day'[c] + used'[c] - usedAt'[c][renewed[c]] <= FullDay(c)
    BY <1>1, <1>3, ConsumeLeft DEF DayBalanced
  <2> QED
    BY <1>3, <2>1 DEF DayBalanced, DayLeft, FullDay, PerDay
<1> QED
  BY <1>2, <1>3

(* A bucket that is made when a user calls.                                *)
LEMMA Made ==
  ASSUME Balance, NEW u \in Users, MakeBucket(u)
  PROVE  /\ renewed' \in [Daily -> Nat \cup {None}] /\ renewed'["requests"] # None
         /\ \A c \in Daily \ {u} : renewed'[c] = renewed[c]
         /\ renewed'[u] # None /\ DayLeft(u, renewed'[u])
<1>1. /\ u \in Daily /\ u \in Buckets /\ u # "requests" /\ DayBalanced(u)
      /\ renewed' = [renewed EXCEPT ![u] = IF @ = None THEN now ELSE @]
  BY GrantsNat, NamesAssumption DEF MakeBucket, Balance
<1>2. now \in Nat /\ now # None /\ now \in Elapsed /\ now \in 0..MaxTime
  BY NamesAssumption, LimitsAssumption DEF Balance, Shape, Elapsed
<1>3. CASE renewed[u] = None
  <2>1. renewed'[u] = now /\ used[u] = 0 /\ Balanced(u, now)
    BY <1>1, <1>2, <1>3 DEF Balance, DayBalanced
  <2>2. usedAt[u][now] \in Nat /\ day[u] \in Nat /\ day[u] <= FullDay(u)
    BY <1>1, <1>2 DEF Balance, Shape
  <2>3. DayLeft(u, now)
    BY <1>1, <1>2, <2>1, <2>2, GrantsNat DEF DayLeft, Balanced
  <2> QED
    BY <1>1, <1>2, <1>3, <2>1, <2>3 DEF Balance
<1>4. CASE renewed[u] # None
  BY <1>1, <1>4 DEF Balance, DayBalanced
<1> QED
  BY <1>3, <1>4

(* A call goes on to its next limit, or ends.                              *)
LEMMA BecomeCalls ==
  ASSUME Calls, NEW t \in Threads, NEW pc, NEW u, NEW n, Become(t, pc, u, n),
         \/ pc = "idle" /\ u = None /\ n = 0
         \/ pc \in {"tokens", "user"} /\ u \in Users /\ n \in Sizes
  PROVE  Calls'
<1>1. [pc |-> pc, user |-> u, size |-> n] \in Tx
  BY DEF Tx
<1>2. /\ tx' \in [Threads -> Tx] /\ tx'[t] = [pc |-> pc, user |-> u, size |-> n]
      /\ \A r \in Threads \ {t} : tx'[r] = tx[r]
  BY <1>1 DEF Become, Calls
<1>3. ASSUME NEW r \in Threads, tx'[r].pc # "idle"
      PROVE  tx'[r].user \in Users /\ tx'[r].size \in Sizes
  <2>1. CASE r = t
    BY <1>2, <1>3, <2>1
  <2>2. CASE r # t
    BY <1>2, <1>3, <2>2 DEF Calls
  <2> QED
    BY <2>1, <2>2
<1> QED
  BY <1>2, <1>3 DEF Calls

LEMMA RequestsBalance ==
  ASSUME Balance, NEW t \in Threads, NEW u \in Users, NEW n \in Sizes, CheckRequests(t, u, n)
  PROVE  Balance'
<1>1. "requests" \in Daily /\ "requests" \in Buckets /\ 1 \in Nat /\ renewed["requests"] # None
  BY GrantsNat DEF Balance
<1>2. Consume("requests", 1) /\ renewed' = renewed /\ Become(t, "tokens", u, n)
  BY DEF CheckRequests
<1>3. Calls'
  BY <1>2, BecomeCalls DEF Balance
<1> QED
  BY <1>1, <1>2, <1>3, ConsumeBalanced, ConsumeDay DEF Balance

LEMMA TokensBalance ==
  ASSUME Balance, NEW t \in Threads, CheckTokens(t) PROVE Balance'
<1>1. tx[t].user \in Users /\ tx[t].size \in Sizes
  BY DEF CheckTokens, Balance, Calls
<1>2. "tokens" \in Buckets /\ "tokens" \notin Daily /\ tx[t].size \in Nat
  BY <1>1, GrantsNat, LimitsAssumption
<1>3. /\ Consume("tokens", tx[t].size) /\ renewed' = renewed
      /\ Become(t, "user", tx[t].user, tx[t].size)
  BY DEF CheckTokens
<1>4. Calls'
  BY <1>1, <1>3, BecomeCalls DEF Balance
<1> QED
  BY <1>2, <1>3, <1>4, ConsumeBalanced, ConsumeDay DEF Balance

LEMMA UserBalance ==
  ASSUME Balance, NEW t \in Threads, CheckUser(t) PROVE Balance'
<1> DEFINE u == tx[t].user
<1>1. u \in Users /\ u \in Daily /\ u \in Buckets /\ 1 \in Nat
  BY GrantsNat DEF CheckUser, Balance, Calls
<1>2. MakeBucket(u) /\ Consume(u, 1) /\ Become(t, "idle", None, 0)
  BY DEF CheckUser
<1> HIDE DEF u
<1>3. Calls'
  BY <1>2, BecomeCalls DEF Balance
<1>4. /\ renewed' \in [Daily -> Nat \cup {None}] /\ renewed'["requests"] # None
      /\ \A c \in Daily \ {u} : renewed'[c] = renewed[c]
      /\ renewed'[u] # None /\ DayLeft(u, renewed'[u])
  BY <1>1, <1>2, Made
<1>5. ASSUME NEW c \in Daily PROVE DayBalanced(c)'
  <2>1. c \in Buckets /\ DayBalanced(c)
    BY GrantsNat DEF Balance
  <2>2. CASE renewed'[c] = None
    <3>1. c # u /\ renewed[c] = None /\ used[c] = 0
      BY <1>4, <2>1, <2>2 DEF DayBalanced
    <3>2. used'[c] = 0
      BY <1>2, <2>1, <3>1 DEF Consume, Balance, Shape
    <3> QED
      BY <2>2, <3>2 DEF DayBalanced
  <2>3. CASE renewed'[c] # None
    <3>1. DayLeft(c, renewed'[c])
      BY <1>4, <2>1, <2>3 DEF DayBalanced
    <3>2. /\ renewed'[c] \in Elapsed'
          /\ day'[c] + used'[c] - usedAt'[c][renewed'[c]] <= FullDay(c)
      BY <1>1, <1>2, <3>1, ConsumeLeft
    <3> QED
      BY <2>3, <3>2 DEF DayBalanced, DayLeft, FullDay, PerDay
  <2> QED
    BY <2>2, <2>3
<1> QED
  BY <1>1, <1>2, <1>3, <1>4, <1>5, ConsumeBalanced DEF Balance

LEMMA RefusedBalance ==
  ASSUME Balance, NEW t \in Threads, Refused(t) PROVE Balance'
<1>1. /\ Become(t, "idle", None, 0)
      /\ UNCHANGED <<now, start, minute, day, used, usedAt>>
  BY DEF Refused, history
<1>2. Calls'
  BY <1>1, BecomeCalls DEF Balance
<1>3. Shape' /\ Elapsed' = Elapsed /\ \A b \in Buckets : \A s \in Elapsed : Balanced(b, s)'
  BY <1>1 DEF Balance, Shape, Elapsed, Balanced, FullMinute, PerMinute, FullDay, PerDay
<1>4. \A b \in Daily : \A s : DayLeft(b, s) =>
        s \in Elapsed' /\ day'[b] + used'[b] - usedAt'[b][s] <= FullDay(b)
  BY <1>1, <1>3 DEF DayLeft
<1>5. CASE renewed' = renewed
  <2>1. \A b \in Daily : DayBalanced(b)'
    BY <1>1, <1>4, <1>5 DEF Balance, DayBalanced, DayLeft, FullDay, PerDay
  <2> QED
    BY <1>2, <1>3, <1>5, <2>1 DEF Balance
<1>6. CASE renewed' # renewed
  <2> DEFINE u == tx[t].user
  <2>1. MakeBucket(u) /\ u \in Users
    BY <1>6 DEF Refused, Balance, Calls
  <2> HIDE DEF u
  <2>2. /\ renewed' \in [Daily -> Nat \cup {None}] /\ renewed'["requests"] # None
        /\ \A c \in Daily \ {u} : renewed'[c] = renewed[c]
        /\ renewed'[u] # None /\ DayLeft(u, renewed'[u])
    BY <2>1, Made
  <2>3. ASSUME NEW b \in Daily PROVE DayBalanced(b)'
    <3>1. CASE b = u
      BY <1>4, <2>2, <3>1 DEF DayBalanced, DayLeft, FullDay, PerDay
    <3>2. CASE b # u
      BY <1>1, <1>4, <2>2, <3>2 DEF Balance, DayBalanced, DayLeft, FullDay, PerDay
    <3> QED
      BY <3>1, <3>2
  <2> QED
    BY <1>2, <1>3, <2>2, <2>3 DEF Balance
<1> QED
  BY <1>5, <1>6

(* A tick brings each bucket its share.                                    *)
LEMMA TickBalanced ==
  ASSUME Balance, Tick, NEW b \in Buckets, NEW s \in Elapsed'
  PROVE  Balanced(b, s)'
<1> DEFINE P == PerMinute(b)
           F == FullMinute(b)
<1>1. /\ now < MaxTime /\ now' = now + 1 /\ start' = start /\ used' = used
      /\ now \in Nat /\ start \in Nat /\ start <= now /\ now + 1 \in 0..MaxTime
      /\ minute'[b] = Least(F, minute[b] + P)
      /\ usedAt' = [c \in Buckets |-> [usedAt[c] EXCEPT ![now + 1] = used[c]]]
  BY LimitsAssumption DEF Tick, Refill, Balance, Shape
<1>2. /\ P \in Nat /\ F \in Nat /\ minute[b] \in Nat /\ minute[b] <= F
      /\ used[b] \in Nat /\ usedAt[b] \in [0..MaxTime -> Nat]
  BY GrantsNat DEF Balance, Shape
<1>3. P' = P /\ F' = F
  BY DEF FullMinute, PerMinute
<1> HIDE DEF P, F
<1>4. minute'[b] \in Nat /\ minute'[b] <= F
  BY <1>1, <1>2 DEF Least
<1>5. CASE s = now + 1
  <2>1. usedAt'[b][s] = used[b]
    BY <1>1, <1>2, <1>5
  <2>2. (now' - s) * P = 0
    BY <1>1, <1>2, <1>5
  <2>3. s # start
    BY <1>1, <1>5
  <2> QED
    BY <1>1, <1>2, <1>3, <1>4, <2>1, <2>2, <2>3 DEF Balanced, P, F
<1>6. CASE s # now + 1
  <2>1. s \in Elapsed /\ s \in Nat /\ s <= now /\ s \in 0..MaxTime
    BY <1>1, <1>6, LimitsAssumption DEF Elapsed
  <2>2. Balanced(b, s) /\ usedAt'[b][s] = usedAt[b][s] /\ usedAt[b][s] \in Nat
    BY <1>1, <1>2, <1>6, <2>1 DEF Balance
  <2>3. (now' - s) * P = (now - s) * P + P /\ (now - s) * P \in Nat
    <3>1. now - s \in Nat /\ now' - s = (now - s) + 1
      BY <1>1, <2>1
    <3>2. (now - s + 1) * P = (now - s) * P + P
      BY <1>2, <3>1, OneMore
    <3>3. (now - s) * P \in Nat
      BY <1>2, <3>1
    <3> QED
      BY <3>1, <3>2, <3>3
  <2> DEFINE B == (now - s) * P
           R == used[b] - usedAt[b][s]
  <2>4. /\ B \in Nat /\ R \in Nat
        /\ (now' - s) * P = B + P
        /\ minute[b] + used[b] - usedAt[b][s] = minute[b] + R
        /\ minute'[b] + used[b] - usedAt[b][s] = minute'[b] + R
    BY <1>2, <1>4, <2>2, <2>3 DEF Balanced
  <2>5. /\ usedAt[b][s] <= used[b]
        /\ minute[b] + used[b] - usedAt[b][s] <= F + B
        /\ \/ F <= minute[b] + used[b] - usedAt[b][s]
           \/ s # start /\ B <= minute[b] + used[b] - usedAt[b][s]
    BY <2>2 DEF Balanced, P, F
  <2> HIDE DEF B, R
  <2>6. /\ minute[b] + R <= F + B
        /\ F <= minute[b] + R \/ (s # start /\ B <= minute[b] + R)
    BY <2>4, <2>5
  <2>7. /\ minute'[b] + R <= F + (B + P)
        /\ F <= minute'[b] + R \/ (s # start /\ B + P <= minute'[b] + R)
    BY <1>1, <1>2, <2>4, <2>6 DEF Least
  <2>8. /\ minute'[b] + used'[b] - usedAt'[b][s] <= F' + (now' - s) * P'
        /\ \/ F' <= minute'[b] + used'[b] - usedAt'[b][s]
           \/ s # start' /\ (now' - s) * P' <= minute'[b] + used'[b] - usedAt'[b][s]
        /\ usedAt'[b][s] <= used'[b]
    BY <1>1, <1>3, <2>2, <2>4, <2>5, <2>7
  <2> QED
    BY <2>8 DEF Balanced, P, F
<1> QED
  BY <1>5, <1>6

LEMMA TickBalance ==
  ASSUME Balance, Tick PROVE Balance'
<1>1. /\ now < MaxTime /\ now' = now + 1 /\ start' = start /\ used' = used /\ tx' = tx
      /\ now \in Nat /\ start \in Nat /\ start <= now /\ now + 1 \in 0..MaxTime
      /\ minute' = [b \in Buckets |-> Least(FullMinute(b), minute[b] + PerMinute(b))]
      /\ day' = [b \in Daily |-> IF Renews(b) THEN FullDay(b) ELSE day[b]]
      /\ renewed' = [b \in Daily |-> IF Renews(b) THEN now + 1 ELSE renewed[b]]
      /\ usedAt' = [b \in Buckets |-> [usedAt[b] EXCEPT ![now + 1] = used[b]]]
  BY LimitsAssumption DEF Tick, Refill, Balance, Shape
<1>2. Shape'
  <2>1. minute' \in [Buckets -> Nat] /\ \A b \in Buckets : minute'[b] <= FullMinute(b)
    <3>1. \A m, n \in Nat : Least(m, n) \in Nat /\ Least(m, n) <= m
      BY DEF Least
    <3>2. \A b \in Buckets : FullMinute(b) \in Nat /\ minute[b] + PerMinute(b) \in Nat
      BY GrantsNat DEF Balance, Shape
    <3> QED
      BY <1>1, <3>1, <3>2
  <2>2. day' \in [Daily -> Nat] /\ \A b \in Daily : day'[b] <= FullDay(b)
    <3>1. \A b \in Daily : FullDay(b) \in Nat /\ day[b] \in Nat /\ day[b] <= FullDay(b)
      BY GrantsNat DEF Balance, Shape
    <3>2. \A b \in Nat : b <= b
      OBVIOUS
    <3> QED
      BY <1>1, <3>1, <3>2
  <2>3. usedAt' \in [Buckets -> [0..MaxTime -> Nat]]
    BY <1>1 DEF Balance, Shape
  <2> QED
    BY <1>1, <2>1, <2>2, <2>3 DEF Balance, Shape, FullMinute, FullDay, PerMinute, PerDay
<1>3. Calls'
  BY <1>1 DEF Balance, Calls
<1>4. \A b \in Buckets : \A s \in Elapsed' : Balanced(b, s)'
  BY TickBalanced
<1>5. renewed' \in [Daily -> Nat \cup {None}] /\ renewed'["requests"] # None
  BY <1>1, GrantsNat, NamesAssumption DEF Balance
<1>6. ASSUME NEW b \in Daily PROVE DayBalanced(b)'
  <2>1. /\ b \in Buckets /\ DayBalanced(b) /\ used[b] \in Nat /\ FullDay(b) \in Nat
        /\ FullDay(b)' = FullDay(b)
    BY GrantsNat DEF Balance, Shape, FullDay, PerDay
  <2>2. CASE Renews(b)
    <3>1. renewed'[b] = now + 1 /\ renewed'[b] # None /\ day'[b] = FullDay(b)
      BY <1>1, <2>2, NamesAssumption
    <3>2. usedAt'[b][now + 1] = used[b] /\ now + 1 \in Elapsed'
      <4>1. usedAt[b] \in [0..MaxTime -> Nat]
        BY <2>1 DEF Balance, Shape
      <4>2. usedAt'[b] = [usedAt[b] EXCEPT ![now + 1] = used[b]]
        BY <1>1, <2>1
      <4>3. now + 1 \in Elapsed'
        BY <1>1 DEF Elapsed
      <4> QED
        BY <1>1, <4>1, <4>2, <4>3
    <3> QED
      BY <1>1, <2>1, <3>1, <3>2 DEF DayBalanced, DayLeft
  <2>3. CASE ~Renews(b)
    <3>1. renewed'[b] = renewed[b] /\ day'[b] = day[b]
      BY <1>1, <2>3
    <3>2. CASE renewed[b] = None
      BY <1>1, <2>1, <3>1, <3>2 DEF DayBalanced
    <3>3. CASE renewed[b] # None
      <4>1. renewed[b] \in Elapsed /\ renewed[b] \in Nat /\ renewed[b] <= now /\ start <= renewed[b]
        BY <2>1, <3>3 DEF DayBalanced, DayLeft, Elapsed
      <4>2. usedAt'[b][renewed[b]] = usedAt[b][renewed[b]] /\ renewed[b] \in Elapsed'
        BY <1>1, <2>1, <4>1 DEF Elapsed, Balance, Shape
      <4> QED
        BY <1>1, <2>1, <3>1, <3>3, <4>2 DEF DayBalanced, DayLeft
    <3> QED
      BY <3>2, <3>3
  <2> QED
    BY <2>2, <2>3
<1> QED
  BY <1>2, <1>3, <1>4, <1>5, <1>6 DEF Balance

LEMMA RestartBalance ==
  ASSUME Balance, Restart PROVE Balance'
<1>1. now' = now /\ now' \in 0..MaxTime /\ start' = now'
  BY LimitsAssumption DEF Restart, Fresh, Balance, Shape
<1>2. /\ minute' = [b \in Buckets |-> FullMinute(b)]
      /\ day' = [b \in Daily |-> FullDay(b)]
      /\ renewed' = [b \in Daily |-> IF b = "requests" THEN now' ELSE None]
      /\ tx' = [t \in Threads |-> Idle]
      /\ used' = [b \in Buckets |-> 0]
      /\ usedAt' = [b \in Buckets |-> [s \in 0..MaxTime |-> 0]]
  BY <1>1 DEF Restart, Fresh
<1>3. \A b : FullMinute(b)' = FullMinute(b) /\ FullDay(b)' = FullDay(b)
  BY DEF FullMinute, FullDay, PerMinute, PerDay
<1>4. FreshState'
  BY <1>1, <1>2, <1>3 DEF FreshState
<1> QED
  BY <1>4, FreshBalanced, PTL

-----------------------------------------------------------------------------
LEMMA BalanceStep == Balance /\ [Next]_vars => Balance'
<1> SUFFICES ASSUME Balance, [Next]_vars PROVE Balance'
  OBVIOUS
<1>1. CASE UNCHANGED vars
  BY <1>1 DEF vars, buckets, history, Balance, Shape, Calls, Elapsed, Balanced, DayBalanced,
    DayLeft, FullMinute, PerMinute, FullDay, PerDay
<1>2. CASE Next
  BY <1>2, RequestsBalance, TokensBalance, UserBalance, RefusedBalance, TickBalance,
    RestartBalance DEF Next
<1> QED
  BY <1>1, <1>2

LEMMA AlwaysBalance == Spec => []Balance
BY BalanceInit, BalanceStep, PTL DEF Spec

(* No bucket is overdrawn or overfull.                                     *)
THEOREM TypeCorrect == Spec => []TypeOK
<1>1. Balance => TypeOK
  <2> SUFFICES ASSUME Balance PROVE TypeOK
    OBVIOUS
  <2>1. Elapsed = start..now
    BY ElapsedIsRange DEF Balance
  <2>2. renewed \in [Daily -> (start..now) \cup {None}]
    BY <2>1 DEF Balance, DayBalanced, DayLeft
  <2> QED
    BY <2>2, LimitsAssumption DEF Balance, Shape, Calls, TypeOK
<1> QED
  BY <1>1, AlwaysBalance, PTL

(* checkRateLimitsOrThrow lets no more through in any stretch of time than *)
(* the grant per minute and what came back in the meantime.                *)
THEOREM MinuteLimit == Spec => []WithinMinute
<1>1. Balance => WithinMinute
  <2> SUFFICES ASSUME Balance, NEW b \in Buckets, NEW s \in start..now
               PROVE  UsedSince(b, s) <= FullMinute(b) + (now - s) * PerMinute(b)
    BY DEF WithinMinute
  <2>1. s \in Elapsed /\ s \in 0..MaxTime /\ Balanced(b, s)
    BY ElapsedIsRange, LimitsAssumption DEF Balance, Shape
  <2>2. used[b] \in Nat /\ minute[b] \in Nat /\ usedAt[b][s] \in Nat
    BY <2>1 DEF Balance, Shape
  <2>3. FullMinute(b) + (now - s) * PerMinute(b) \in Nat
    <3>1. now - s \in Nat
      BY <2>1 DEF Elapsed, Balance, Shape
    <3>2. \A m, n, k \in Nat : k + m * n \in Nat
      OBVIOUS
    <3> QED
      BY <3>1, <3>2, GrantsNat
  <2> QED
    BY <2>1, <2>2, <2>3 DEF Balanced, UsedSince
<1> QED
  BY <1>1, AlwaysBalance, PTL

(* ... and from one renewal of the grant per day to the next no more than  *)
(* that grant.                                                             *)
THEOREM DayLimit == Spec => []WithinDay
<1>1. Balance => WithinDay
  <2> SUFFICES ASSUME Balance, NEW b \in Daily, renewed[b] # None
               PROVE  UsedSince(b, renewed[b]) <= FullDay(b)
    BY DEF WithinDay
  <2>1. DayLeft(b, renewed[b]) /\ b \in Buckets /\ FullDay(b) \in Nat
    BY GrantsNat DEF Balance, DayBalanced
  <2>2. renewed[b] \in 0..MaxTime /\ day[b] \in Nat /\ used[b] \in Nat
    BY <2>1, LimitsAssumption DEF DayLeft, Elapsed, Balance, Shape
  <2>3. usedAt[b][renewed[b]] \in Nat
    BY <2>1, <2>2 DEF Balance, Shape
  <2> QED
    BY <2>1, <2>2, <2>3 DEF DayLeft, UsedSince
<1> QED
  BY <1>1, AlwaysBalance, PTL

(* No refusal without its cause: the grant was taken within the last       *)
(* minute, or since the start.                                             *)
THEOREM NotStricter == Spec => []RefusedForCause
<1>1. Balance => RefusedForCause
  <2> SUFFICES ASSUME Balance, NEW b \in Buckets, NEW n \in Sizes \cup {1},
                      minute[b] < n * Minute
               PROVE  UsedSince(b, LastMinute) + n * Minute > FullMinute(b)
    BY DEF RefusedForCause
  <2> DEFINE k == n * Minute
  <2>1. k \in Nat /\ minute[b] < k
    BY LimitsAssumption
  <2> HIDE DEF k
  <2>2. /\ now \in Nat /\ start \in Nat /\ start <= now
        /\ LastMinute \in Elapsed /\ LastMinute \in 0..MaxTime
        /\ LastMinute = start \/ LastMinute = now - Minute
    <3>1. now \in Nat /\ start \in Nat /\ start <= now /\ now <= MaxTime /\ MaxTime \in Nat
      BY LimitsAssumption DEF Balance, Shape
    <3>2. Minute \in Nat
      BY LimitsAssumption
    <3>3. CASE now < start + Minute
      BY <3>1, <3>2, <3>3 DEF LastMinute, Elapsed
    <3>4. CASE ~(now < start + Minute)
      BY <3>1, <3>2, <3>4 DEF LastMinute, Elapsed
    <3> QED
      BY <3>3, <3>4
  <2>3. LastMinute # start => (now - LastMinute) * PerMinute(b) = FullMinute(b)
    BY <2>2, GrantsNat, LimitsAssumption DEF FullMinute
  <2>4. Balanced(b, LastMinute)
    BY <2>2 DEF Balance
  <2>5. minute[b] \in Nat /\ used[b] \in Nat /\ usedAt[b][LastMinute] \in Nat /\ FullMinute(b) \in Nat
    BY <2>2, GrantsNat DEF Balance, Shape
  <2>6. FullMinute(b) <= minute[b] + used[b] - usedAt[b][LastMinute]
    BY <2>3, <2>4 DEF Balanced
  <2>7. used[b] - usedAt[b][LastMinute] + k > FullMinute(b)
    BY <2>1, <2>5, <2>6
  <2> QED
    BY <2>7 DEF UsedSince, k
<1> QED
  BY <1>1, AlwaysBalance, PTL
=============================================================================

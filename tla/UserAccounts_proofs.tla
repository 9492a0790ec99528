------------------------ MODULE UserAccounts_proofs ------------------------
(***************************************************************************)
(* Accounts and cookies for any number of browsers, threads and accounts:  *)
(* the types, what settles once no handler that began before is under way, *)
(* and who gets tokens.                                                    *)
(***************************************************************************)
EXTENDS UserAccounts, TLAPS

(* Handlers that write the row that they loaded.                           *)
Loaded == {"social", "level", "email", "password"}

(* Rows of one user, both with a password or both without.                 *)
SameUser(q, r) == q.user = r.user /\ (q.password = None <=> r.password = None)

(* What a handler has in hand.                                             *)
HandlerOK(w) ==
  /\ w.op # "none" => w.client \in Clients
  /\ w.account \in (1..lastId) \cup {None}
  /\ w.op = "register" => w.account = None
  /\ w.op = "login" => w.account # None
  /\ w.fresh = TRUE => w.account # None
  /\ w.op = "social" => w.fresh = FALSE
  /\ w.op \in Loaded /\ w.account \in Live => SameUser(w.img, row[w.account])

(* The strengthening of TypeOK that every step keeps.                      *)
Accounting == TypeOK /\ \A t \in Threads : HandlerOK(tx[t])

-----------------------------------------------------------------------------
(* What a handler that begins has in hand.                                 *)
Beginning(w) ==
  /\ w \in Tx /\ w.op # "none" /\ HandlerOK(w)
  /\ w.op \in {"register", "social"} /\ w.account = None =>
       Accounts(w.img.user) = {} \/ (w.op = "register" /\ w.img.password = None)
  /\ w.op \in Loaded /\ w.account # None =>
       /\ row[w.account].level # None => w.img.level = row[w.account].level
       /\ w.op # "password" => w.img.password = row[w.account].password

LEMMA NoRowTyped ==
  /\ NoRow \in Row /\ Idle \in Tx /\ None \notin Ids /\ HandlerOK(Idle)
  /\ \A u \in UserIds : [NoRow EXCEPT !.user = u] \in Row
  /\ \A u \in UserIds, p \in Passwords \cup {None} :
       [NoRow EXCEPT !.user = u, !.password = p] \in Row
<1>1. NoRow \in Row /\ None \notin Ids
  BY AccountsAssumption DEF NoRow, Row, Ids, UserIds
<1>2. Idle \in Tx
  BY <1>1 DEF Idle, Tx
<1>3. HandlerOK(Idle)
  BY DEF HandlerOK, Idle, Loaded
<1>4. \A u \in UserIds : [NoRow EXCEPT !.user = u] \in Row
  BY DEF NoRow, Row
<1>5. \A u \in UserIds, p \in Passwords \cup {None} :
        [NoRow EXCEPT !.user = u, !.password = p] \in Row
  BY DEF NoRow, Row
<1> QED
  BY <1>1, <1>2, <1>3, <1>4, <1>5

(* Every call begins one handler and leaves the rest of the state.         *)
LEMMA CallBegins ==
  ASSUME Accounting, NEW t \in Threads, Call(t)
  PROVE  /\ UNCHANGED <<db, cookies>> /\ tx[t] = Idle
         /\ \E w : Beginning(w) /\ tx' = [tx EXCEPT ![t] = w]
<1> USE DEF Begin
<1>0. Live \subseteq Ids /\ Live \subseteq 1..lastId
      /\ \A i \in Live : row[i] \in Row
  BY AccountsAssumption DEF Live, Ids, Accounting, TypeOK
<1>1. ASSUME NEW c \in Clients, NEW r \in Registrations, Register(t, c, r[1], r[2])
      PROVE  \E w : Beginning(w) /\ tx' = [tx EXCEPT ![t] = w]
  <2>0. PICK u \in UserIds, p \in Passwords \cup {None} : u = r[1] /\ p = r[2]
    BY RegistrationsAssumption DEF UserIds
  <2> DEFINE w == [op |-> "register", client |-> c, account |-> None,
                   img |-> [NoRow EXCEPT !.user = u, !.password = p], fresh |-> FALSE]
  <2>1. w \in Tx /\ w.img.user = u /\ w.img.password = p
    BY NoRowTyped DEF Tx, NoRow
  <2>2. Beginning(w) /\ tx' = [tx EXCEPT ![t] = w]
    BY <1>1, <2>0, <2>1 DEF Register, Beginning, HandlerOK, Loaded
  <2> QED
    BY <2>2
<1>2. ASSUME NEW c \in Clients, NEW u \in UserIds, NEW p \in Passwords, Auth(t, c, u, p)
      PROVE  \E w : Beginning(w) /\ tx' = [tx EXCEPT ![t] = w]
  <2>1. PICK i \in Live : Begin(t, "login", c, i, NoRow, FALSE)
    BY <1>2 DEF Auth
  <2> DEFINE w == [op |-> "login", client |-> c, account |-> i, img |-> NoRow, fresh |-> FALSE]
  <2>2. w \in Tx /\ w.account # None
    BY <1>0, NoRowTyped DEF Tx
  <2>3. Beginning(w) /\ tx' = [tx EXCEPT ![t] = w]
    BY <1>0, <2>1, <2>2 DEF Beginning, HandlerOK, Loaded
  <2> QED
    BY <2>3
<1>3. ASSUME NEW c \in Clients, Logout(t, c)
      PROVE  \E w : Beginning(w) /\ tx' = [tx EXCEPT ![t] = w]
  <2> DEFINE w == [op |-> "logout", client |-> c, account |-> None, img |-> NoRow,
                   fresh |-> FALSE]
  <2>1. w \in Tx
    BY NoRowTyped DEF Tx
  <2>2. Beginning(w) /\ tx' = [tx EXCEPT ![t] = w]
    BY <1>3, <2>1 DEF Logout, Beginning, HandlerOK, Loaded
  <2> QED
    BY <2>2
<1>4. ASSUME NEW c \in Clients, NEW u \in Socials, LoadUser(t, c, u)
      PROVE  \E w : Beginning(w) /\ tx' = [tx EXCEPT ![t] = w]
  <2>1. CASE \E i \in Live : Found(i, u) /\ Begin(t, "social", c, i, row[i], FALSE)
    <3>1. PICK i \in Live : Found(i, u) /\ Begin(t, "social", c, i, row[i], FALSE)
      BY <2>1
    <3> DEFINE w == [op |-> "social", client |-> c, account |-> i, img |-> row[i],
                     fresh |-> FALSE]
    <3>2. w \in Tx /\ w.account # None
      BY <1>0, NoRowTyped DEF Tx
    <3>3. Beginning(w) /\ tx' = [tx EXCEPT ![t] = w]
      BY <1>0, <3>1, <3>2 DEF Beginning, HandlerOK, Loaded, SameUser
    <3> QED
      BY <3>3
  <2>2. CASE /\ Accounts(u) = {}
             /\ Begin(t, "social", c, None, [NoRow EXCEPT !.user = u], FALSE)
    <3> DEFINE w == [op |-> "social", client |-> c, account |-> None,
                     img |-> [NoRow EXCEPT !.user = u], fresh |-> FALSE]
    <3>1. w \in Tx /\ w.img.user = u /\ w.account \notin Live
      BY <1>0, NoRowTyped DEF Tx, NoRow, UserIds
    <3>2. Beginning(w) /\ tx' = [tx EXCEPT ![t] = w]
      BY <2>2, <3>1 DEF Beginning, HandlerOK, Loaded
    <3> QED
      BY <3>2
  <2> QED
    BY <1>4, <2>1, <2>2 DEF LoadUser
<1>5. ASSUME NEW c \in Clients, NEW i \in Ids, WithdrawUser(t, c, i)
      PROVE  \E w : Beginning(w) /\ tx' = [tx EXCEPT ![t] = w]
  <2> DEFINE w == [op |-> "withdraw", client |-> c, account |-> i, img |-> NoRow,
                   fresh |-> FALSE]
  <2>1. w \in Tx /\ i \in Live
    BY <1>5, NoRowTyped DEF Tx, WithdrawUser
  <2>2. Beginning(w) /\ tx' = [tx EXCEPT ![t] = w]
    BY <1>0, <1>5, <2>1 DEF WithdrawUser, Beginning, HandlerOK, Loaded
  <2> QED
    BY <2>2
<1>6. ASSUME NEW c \in Clients, NEW i \in Ids, NEW op, NEW img, Request(t, c, i, op, img),
             \/ op = "read" /\ img = NoRow
             \/ /\ op \in Loaded \ {"social"} /\ img \in Row /\ i \in Live
                /\ SameUser(img, row[i])
                /\ row[i].level # None => img.level = row[i].level
                /\ op # "password" => img.password = row[i].password
      PROVE  \E w : Beginning(w) /\ tx' = [tx EXCEPT ![t] = w]
  <2>1. i \in 1..lastId /\ i # None
    BY <1>0, <1>6, AccountsAssumption DEF Request, Authenticated, Accounting, TypeOK, Ids
  <2>2. \E f \in BOOLEAN : tx' = [tx EXCEPT ![t] = [op |-> op, client |-> c, account |-> i,
                                                 img |-> img, fresh |-> f]]
    BY <1>6 DEF Request
  <2>3. PICK f \in BOOLEAN : tx' = [tx EXCEPT ![t] = [op |-> op, client |-> c, account |-> i,
                                                 img |-> img, fresh |-> f]]
    BY <2>2
  <2> DEFINE w == [op |-> op, client |-> c, account |-> i, img |-> img, fresh |-> f]
  <2>4. w \in Tx
    BY <1>6, NoRowTyped DEF Tx, Loaded
  <2>5. Beginning(w)
    BY <1>6, <2>1, <2>4 DEF Beginning, HandlerOK, Loaded
  <2> QED
    BY <2>3, <2>5
<1>7. ASSUME NEW c \in Clients, NEW i \in Ids, Read(t, c, i)
      PROVE  \E w : Beginning(w) /\ tx' = [tx EXCEPT ![t] = w]
  BY <1>6, <1>7 DEF Read
<1>8. ASSUME NEW c \in Clients, NEW i \in Ids, UpdateEmail(t, c, i)
      PROVE  \E w : Beginning(w) /\ tx' = [tx EXCEPT ![t] = w]
  <2>1. i \in Live /\ row[i] \in Row /\ Request(t, c, i, "email", row[i])
    BY <1>0, <1>8 DEF UpdateEmail
  <2> QED
    BY <1>6, <2>1 DEF Loaded, SameUser
<1>9. ASSUME NEW c \in Clients, NEW i \in Ids, NEW l \in Levels, UpdateDigitalLevel(t, c, i, l)
      PROVE  \E w : Beginning(w) /\ tx' = [tx EXCEPT ![t] = w]
  <2> DEFINE img == [row[i] EXCEPT !.level = l]
  <2>1. i \in Live /\ row[i] \in Row /\ row[i].level = None /\ Request(t, c, i, "level", img)
    BY <1>0, <1>9 DEF UpdateDigitalLevel
  <2>2. img \in Row /\ img.user = row[i].user /\ img.password = row[i].password
    BY <2>1 DEF Row
  <2> QED
    BY <1>6, <2>1, <2>2 DEF Loaded, SameUser
<1>10. ASSUME NEW c \in Clients, NEW i \in Ids, NEW old \in Passwords, NEW new \in Passwords,
              UpdatePassword(t, c, i, old, new)
       PROVE  \E w : Beginning(w) /\ tx' = [tx EXCEPT ![t] = w]
  <2> DEFINE img == [row[i] EXCEPT !.password = new]
  <2>1. i \in Live /\ row[i] \in Row /\ Request(t, c, i, "password", img)
    BY <1>0, <1>10 DEF UpdatePassword
  <2>2. img \in Row /\ img.user = row[i].user /\ img.level = row[i].level
    BY <2>1 DEF Row
  <2>3. img.password # None /\ row[i].password # None
    BY <1>10, <2>1, ColumnsAssumption DEF UpdatePassword, Row
  <2> QED
    BY <1>6, <2>1, <2>2, <2>3 DEF Loaded, SameUser
<1>11. UNCHANGED <<db, cookies>> /\ tx[t] = Idle
  BY DEF Call, Register, Auth, Logout, LoadUser, Read, UpdateEmail, WithdrawUser,
    UpdateDigitalLevel, UpdatePassword, Request
<1> QED
  BY <1>1, <1>2, <1>3, <1>4, <1>5, <1>7, <1>8, <1>9, <1>10, <1>11 DEF Call

-----------------------------------------------------------------------------
(* What the end of a handler does to the rows.                             *)
Inserts(t) ==
  /\ tx[t].op \in {"register", "social"} /\ tx[t].account = None
  /\ lastId < MaxAccounts /\ lastId' = lastId + 1 /\ deleted' = deleted
  /\ row' = [row EXCEPT ![lastId + 1] = tx[t].img]
Writes(t) ==
  /\ tx[t].op \in Loaded /\ tx[t].account \in Live
  /\ lastId' = lastId /\ deleted' = deleted
  /\ row' = [row EXCEPT ![tx[t].account] = tx[t].img]
Withdraws(t) ==
  /\ tx[t].account \in Live /\ lastId' = lastId
  /\ deleted' = deleted \cup {tx[t].account}
  /\ row' = [row EXCEPT ![tx[t].account] = NoRow]

(* ... and to the cookies of browser c: both tokens, or a new access token *)
(* of its account.                                                         *)
Sets(t, c) ==
  \E a, r \in (1..lastId') \cup {None} :
    /\ access' = [access EXCEPT ![c] = a] /\ refresh' = [refresh EXCEPT ![c] = r]
    /\ \/ a = r
       \/ r = refresh[c] /\ (a = access[c] \/ (tx[t].fresh = TRUE /\ a = tx[t].account))

(* The handler is over, or goes on to the success handler.                 *)
Ends(t) ==
  \E w \in Tx : /\ HandlerOK(w) /\ w.account = None /\ w.fresh = FALSE
                /\ w.op \in {"none", "success"}
                /\ w.op = "none" => w = Idle
                /\ tx[t].op = "password" => w = Idle
                /\ tx' = [tx EXCEPT ![t] = w]

LEMMA RespondEnds ==
  ASSUME Accounting, NEW t \in Threads, NEW a, NEW r, Respond(t, a, r), tx[t].op # "none",
         a \in (1..lastId') \cup {None}, r \in (1..lastId') \cup {None},
         \/ a = r
         \/ /\ r = refresh[tx[t].client]
            /\ a = access[tx[t].client] \/ (tx[t].fresh = TRUE /\ a = tx[t].account)
  PROVE  /\ Ends(t)
         /\ UNCHANGED cookies \/ (tx[t].client \in Clients /\ Sets(t, tx[t].client))
<1>1. tx' = [tx EXCEPT ![t] = Idle]
  BY DEF Respond
<1>2. Ends(t)
  BY <1>1, NoRowTyped DEF Ends, Idle
<1>3. tx[t].client \in Clients
  BY DEF Accounting, HandlerOK
<1>4. UNCHANGED cookies \/ Sets(t, tx[t].client)
  BY DEF Respond, Sets
<1> QED
  BY <1>2, <1>3, <1>4

LEMMA ReplyEnds ==
  ASSUME Accounting, NEW t \in Threads, Reply(t), tx[t].op # "none", lastId' = lastId
  PROVE  /\ Ends(t)
         /\ UNCHANGED cookies \/ (tx[t].client \in Clients /\ Sets(t, tx[t].client))
<1> DEFINE c == tx[t].client
<1>1. c \in Clients /\ HandlerOK(tx[t]) /\ tx[t].fresh \in BOOLEAN
  BY DEF Accounting, HandlerOK, TypeOK, Tx
<1>2. /\ access[c] \in (1..lastId') \cup {None} /\ refresh[c] \in (1..lastId') \cup {None}
      /\ tx[t].account \in (1..lastId') \cup {None}
  BY <1>1 DEF Accounting, TypeOK, HandlerOK
<1>3. CASE tx[t].fresh = TRUE
  <2>1. Respond(t, tx[t].account, refresh[c])
    BY <1>3 DEF Reply
  <2> QED
    BY <1>2, <1>3, <2>1, RespondEnds
<1>4. CASE tx[t].fresh = FALSE
  <2>1. Respond(t, access[c], refresh[c])
    BY <1>4 DEF Reply
  <2> QED
    BY <1>2, <2>1, RespondEnds
<1> QED
  BY <1>1, <1>3, <1>4

(* Every other step of a thread.                                           *)
LEMMA StepEnds ==
  ASSUME Accounting, NEW t \in Threads, Step(t)
  PROVE  /\ UNCHANGED db \/ Inserts(t) \/ Writes(t) \/ Withdraws(t)
         /\ Ends(t)
         /\ UNCHANGED cookies \/ (tx[t].client \in Clients /\ Sets(t, tx[t].client))
<1> USE DEF db
<1>1. CASE CommitRegister(t)
  <2>1. /\ tx[t].op = "register" /\ tx[t].account = None /\ Inserts(t)
        /\ Respond(t, lastId + 1, lastId + 1) /\ lastId + 1 \in 1..lastId'
    BY <1>1 DEF CommitRegister, Insert, Login, Inserts, Accounting, HandlerOK, TypeOK
  <2> QED
    BY <2>1, RespondEnds
<1>2. CASE Token(t)
  <2>1. /\ tx[t].op = "login" /\ Respond(t, tx[t].account, tx[t].account) /\ UNCHANGED db
        /\ tx[t].account \in (1..lastId') \cup {None}
    BY <1>2 DEF Token, Login, Accounting, HandlerOK
  <2> QED
    BY <2>1, RespondEnds
<1>3. CASE CommitLoadUser(t)
  <2>1. tx[t] \in Tx /\ tx[t].op = "social" /\ HandlerOK(tx[t]) /\ UNCHANGED cookies
    BY <1>3 DEF CommitLoadUser, Accounting, TypeOK
  <2>2. UNCHANGED db \/ Inserts(t) \/ Writes(t)
    BY <1>3, <2>1 DEF CommitLoadUser, Insert, Inserts, Writes, Loaded
  <2> DEFINE w == [tx[t] EXCEPT !.op = "success", !.img = [NoRow EXCEPT !.user = tx[t].img.user],
                                !.account = None]
  <2>3. tx' = [tx EXCEPT ![t] = w]
    BY <1>3 DEF CommitLoadUser, Accounting, TypeOK, Tx
  <2>4. [NoRow EXCEPT !.user = tx[t].img.user] \in Row
    BY <2>1 DEF Tx, Row, NoRow
  <2>5. w \in Tx /\ w.account = None /\ w.op = "success" /\ w.client = tx[t].client
    BY <2>1, <2>4 DEF Tx
  <2>6. w.fresh = FALSE
    BY <2>1 DEF HandlerOK, Tx
  <2>7. HandlerOK(w)
    BY <2>1, <2>5, <2>6 DEF HandlerOK, Loaded
  <2> QED
    BY <2>1, <2>2, <2>3, <2>5, <2>6, <2>7 DEF Ends
<1>4. CASE OnAuthenticationSuccess(t)
  <2>1. PICK i \in Live : Login(t, i)
    BY <1>4 DEF OnAuthenticationSuccess
  <2>2. tx[t].op = "success" /\ UNCHANGED db /\ Respond(t, i, i) /\ i \in (1..lastId') \cup {None}
    BY <1>4, <2>1 DEF OnAuthenticationSuccess, Login, Live
  <2> QED
    BY <2>2, RespondEnds
<1>5. CASE CommitUpdate(t)
  <2>1. Writes(t) /\ Reply(t) /\ tx[t].op # "none" /\ lastId' = lastId
    BY <1>5 DEF CommitUpdate, Writes, Loaded
  <2> QED
    BY <2>1, ReplyEnds
<1>6. CASE CommitWithdraw(t)
  <2>1. Withdraws(t) /\ Respond(t, None, None) /\ tx[t].op # "none"
    BY <1>6 DEF CommitWithdraw, Withdraws
  <2> QED
    BY <2>1, RespondEnds
<1>7. CASE DeleteToken(t)
  BY <1>7, RespondEnds DEF DeleteToken
<1>8. CASE EndRead(t)
  BY <1>8, ReplyEnds DEF EndRead
<1>9. CASE Fail(t)
  <2>1. UNCHANGED db /\ lastId' = lastId
    BY <1>9 DEF Fail
  <2>2. CASE tx[t].op = "withdraw" /\ Respond(t, None, None)
    BY <2>1, <2>2, RespondEnds
  <2>3. CASE tx[t].op \in {"level", "email", "password"} /\ Reply(t)
    BY <2>1, <2>3, ReplyEnds
  <2>4. CASE tx' = [tx EXCEPT ![t] = Idle] /\ UNCHANGED cookies
    <3>1. Ends(t)
      BY <2>4, NoRowTyped DEF Ends, Idle
    <3> QED
      BY <2>1, <2>4, <3>1
  <2> QED
    BY <1>9, <2>2, <2>3, <2>4 DEF Fail
<1> QED
  BY <1>1, <1>2, <1>3, <1>4, <1>5, <1>6, <1>7, <1>8, <1>9 DEF Step

-----------------------------------------------------------------------------
DbStep(t) == UNCHANGED db \/ Inserts(t) \/ Writes(t) \/ Withdraws(t)

(* An account keeps its userId; what is new was inserted, what changes was *)
(* in hand.                                                                *)
LEMMA RowsKept ==
  ASSUME Accounting, NEW t \in Threads, DbStep(t)
  PROVE  /\ lastId' \in 0..MaxAccounts /\ lastId <= lastId' /\ deleted' \subseteq 1..lastId'
         /\ row' \in [Ids -> Row]
         /\ \A i \in Live' : i \in Live \/ (Inserts(t) /\ row'[i] = tx[t].img)
         /\ \A i \in Live' : i \in 1..lastId => i \in Live
         /\ \A i \in Live : i \in Live' =>
              /\ SameUser(row'[i], row[i])
              /\ row'[i] = row[i] \/ (Writes(t) /\ i = tx[t].account /\ row'[i] = tx[t].img)
<1>0. /\ lastId \in 0..MaxAccounts /\ deleted \subseteq 1..lastId /\ row \in [Ids -> Row]
      /\ tx[t] \in Tx /\ tx[t].img \in Row /\ HandlerOK(tx[t]) /\ MaxAccounts \in Nat
  BY AccountsAssumption DEF Accounting, TypeOK, Tx
<1>1. CASE UNCHANGED db
  BY <1>0, <1>1 DEF db, Live, Ids, SameUser
<1>2. CASE Inserts(t)
  <2>1. /\ lastId + 1 \in Ids /\ row'[lastId + 1] = tx[t].img
        /\ row' \in [Ids -> Row] /\ \A i \in 1..lastId : row'[i] = row[i]
    BY <1>0, <1>2 DEF Inserts, Ids
  <2>2. Live' = Live \cup {lastId + 1} /\ Live \subseteq 1..lastId
    BY <1>0, <1>2 DEF Inserts, Live
  <2> QED
    BY <1>0, <1>2, <2>1, <2>2 DEF Inserts, SameUser
<1>3. CASE Writes(t)
  <2>1. /\ Live' = Live /\ Live \subseteq Ids /\ tx[t].account \in Live
        /\ SameUser(tx[t].img, row[tx[t].account])
        /\ row' = [row EXCEPT ![tx[t].account] = tx[t].img]
    BY <1>0, <1>3 DEF Writes, Live, Ids, HandlerOK
  <2> QED
    BY <1>0, <1>3, <2>1 DEF Writes, SameUser
<1>4. CASE Withdraws(t)
  <2>1. /\ Live' = Live \ {tx[t].account} /\ Live \subseteq Ids /\ tx[t].account \in Live
        /\ row' = [row EXCEPT ![tx[t].account] = NoRow]
        /\ deleted' \subseteq 1..lastId' /\ lastId' = lastId
    <3>1. Live \subseteq Ids /\ Live \subseteq 1..lastId /\ lastId \in Nat
      BY <1>0 DEF Live, Ids
    <3>2. /\ tx[t].account \in Live /\ lastId' = lastId
          /\ deleted' = deleted \cup {tx[t].account}
          /\ row' = [row EXCEPT ![tx[t].account] = NoRow]
      BY <1>4 DEF Withdraws
    <3>3. Live' = Live \ {tx[t].account}
      BY <3>2 DEF Live
    <3> QED
      BY <1>0, <3>1, <3>2, <3>3
  <2>2. row' \in [Ids -> Row] /\ \A i \in Live' : row'[i] = row[i]
    BY <1>0, <2>1, NoRowTyped
  <2> QED
    BY <1>0, <2>1, <2>2 DEF SameUser
<1> QED
  BY <1>1, <1>2, <1>3, <1>4 DEF DbStep

LEMMA AccountingInit == Init => Accounting
<1> SUFFICES ASSUME Init PROVE Accounting
  OBVIOUS
<1>1. TypeOK
  <2>1. lastId = 0 /\ lastId \in 0..MaxAccounts /\ deleted \subseteq 1..lastId
    BY AccountsAssumption DEF Init
  <2>2. row \in [Ids -> Row] /\ tx \in [Threads -> Tx]
    BY NoRowTyped DEF Init
  <2> QED
    BY <2>1, <2>2 DEF Init, TypeOK
<1>2. \A t \in Threads : HandlerOK(tx[t])
  BY NoRowTyped DEF Init
<1> QED
  BY <1>1, <1>2 DEF Accounting

LEMMA CallAccounting ==
  ASSUME Accounting, NEW t \in Threads, Call(t) PROVE Accounting'
<1>1. UNCHANGED <<db, cookies>>
  BY CallBegins
<1>2. PICK w : Beginning(w) /\ tx' = [tx EXCEPT ![t] = w]
  BY CallBegins
<1>3. TypeOK'
  BY <1>1, <1>2 DEF Accounting, TypeOK, Beginning, db, cookies
<1>4. ASSUME NEW s \in Threads PROVE HandlerOK(tx[s])'
  <2>1. HandlerOK(tx'[s])
    <3>1. CASE s = t
      BY <1>2, <3>1 DEF Accounting, TypeOK, Beginning
    <3>2. CASE s # t
      BY <1>2, <3>2 DEF Accounting, TypeOK
    <3> QED
      BY <3>1, <3>2
  <2> QED
    BY <1>1, <2>1 DEF HandlerOK, Live, db
<1> QED
  BY <1>3, <1>4 DEF Accounting

LEMMA StepAccounting ==
  ASSUME Accounting, NEW t \in Threads, Step(t) PROVE Accounting'
<1>1. DbStep(t) /\ Ends(t)
  BY StepEnds DEF DbStep
<1>2. PICK w \in Tx : HandlerOK(w) /\ tx' = [tx EXCEPT ![t] = w]
  BY <1>1 DEF Ends
<1>3. /\ lastId' \in 0..MaxAccounts /\ lastId <= lastId' /\ deleted' \subseteq 1..lastId'
      /\ row' \in [Ids -> Row]
  BY <1>1, RowsKept
<1>4. tx' \in [Threads -> Tx]
  BY <1>2 DEF Accounting, TypeOK
<1>5. /\ access' \in [Clients -> (1..lastId') \cup {None}]
      /\ refresh' \in [Clients -> (1..lastId') \cup {None}]
  <2>1. /\ access \in [Clients -> (1..lastId') \cup {None}]
        /\ refresh \in [Clients -> (1..lastId') \cup {None}]
    <3>1. 1..lastId \subseteq 1..lastId'
      BY <1>3, AccountsAssumption DEF Accounting, TypeOK
    <3> QED
      BY <3>1 DEF Accounting, TypeOK
  <2>2. CASE UNCHANGED cookies
    BY <2>1, <2>2 DEF cookies
  <2>3. CASE tx[t].client \in Clients /\ Sets(t, tx[t].client)
    BY <2>1, <2>3 DEF Sets
  <2> QED
    BY <2>2, <2>3, StepEnds
<1>6. ASSUME NEW s \in Threads PROVE HandlerOK(tx[s])'
  <2>1. HandlerOK(tx'[s])
    <3>1. CASE s = t
      BY <1>2, <3>1 DEF Accounting, TypeOK
    <3>2. CASE s # t
      BY <1>2, <3>2 DEF Accounting, TypeOK
    <3> QED
      BY <3>1, <3>2
  <2> DEFINE v == tx'[s]
  <2>2. HandlerOK(v)
    BY <2>1
  <2>3. /\ v.op # "none" => v.client \in Clients
        /\ v.account \in (1..lastId) \cup {None}
        /\ v.op \in Loaded /\ v.account \in Live => SameUser(v.img, row[v.account])
    BY <2>2 DEF HandlerOK
  <2>4. v.account \in (1..lastId') \cup {None}
    BY <1>3, <2>3, AccountsAssumption DEF Accounting, TypeOK
  <2>5. ASSUME v.op \in Loaded, v.account \in Live' PROVE SameUser(v.img, row'[v.account])
    <3>1. v.account \in 1..lastId
      BY <2>3, <2>5, AccountsAssumption DEF Live
    <3>2. v.account \in Live
      BY <1>1, <2>5, <3>1, RowsKept
    <3> QED
      BY <1>1, <2>3, <2>5, <3>2, RowsKept DEF SameUser
  <2> QED
    BY <2>2, <2>4, <2>5 DEF HandlerOK
<1> QED
  BY <1>3, <1>4, <1>5, <1>6 DEF Accounting, TypeOK

LEMMA AccountingStep == Accounting /\ [Next]_vars => Accounting'
<1> SUFFICES ASSUME Accounting, [Next]_vars PROVE Accounting'
  OBVIOUS
<1>1. CASE UNCHANGED vars
  BY <1>1 DEF vars, db, cookies, Accounting, TypeOK, HandlerOK, Live
<1>2. ASSUME NEW c \in Clients, AccessExpires(c) \/ RefreshExpires(c) PROVE Accounting'
  <2>1. lastId' = lastId /\ deleted' = deleted /\ row' = row /\ tx' = tx
    BY <1>2 DEF AccessExpires, RefreshExpires, db
  <2>2. /\ access' \in [Clients -> (1..lastId) \cup {None}]
        /\ refresh' \in [Clients -> (1..lastId) \cup {None}]
    BY <1>2 DEF AccessExpires, RefreshExpires, Accounting, TypeOK
  <2>3. TypeOK'
    BY <2>1, <2>2 DEF Accounting, TypeOK
  <2>4. \A t \in Threads : HandlerOK(tx[t])'
    BY <2>1 DEF Accounting, HandlerOK, Live
  <2> QED
    BY <2>3, <2>4 DEF Accounting
<1> QED
  BY <1>1, <1>2, CallAccounting, StepAccounting DEF Next

LEMMA AlwaysAccounting == Spec => []Accounting
BY AccountingInit, AccountingStep, PTL DEF Spec

(* Rows, handlers and cookies have their types in every reachable state.   *)
THEOREM TypeCorrect == Spec => []TypeOK
<1>1. Accounting => TypeOK
  BY DEF Accounting
<1> QED
  BY <1>1, AlwaysAccounting, PTL

-----------------------------------------------------------------------------
LEMMA UserIdStep == Accounting /\ [Next]_vars =>
  \A u \in UserIds : Taken(u) =>
    \/ Accounts(u)' = {}
    \/ Accounts(u)' \subseteq Accounts(u) /\ (Taken(u)' \/ Unasked(u))
<1> SUFFICES ASSUME Accounting, [Next]_vars, NEW u \in UserIds, Taken(u)
             PROVE  \/ Accounts(u)' = {}
                    \/ Accounts(u)' \subseteq Accounts(u) /\ (Taken(u)' \/ Unasked(u))
  OBVIOUS
<1>1. CASE UNCHANGED vars
  BY <1>1 DEF vars, db, Taken, Accounts, Live
<1>2. ASSUME NEW t \in Threads, Call(t)
      PROVE  Accounts(u)' \subseteq Accounts(u) /\ (Taken(u)' \/ Unasked(u))
  <2>1. Accounts(u)' = Accounts(u) /\ tx[t] = Idle
    BY <1>2, CallBegins DEF db, Accounts, Live
  <2>2. PICK w : Beginning(w) /\ tx' = [tx EXCEPT ![t] = w]
    BY <1>2, CallBegins
  <2> DEFINE Makes == w.op \in {"register", "social"} /\ w.account = None /\ w.img.user = u
  <2>3. ASSUME Makes PROVE Unasked(u)
    <3>1. w.op = "register" /\ w.img.password = None
      BY <2>2, <2>3 DEF Beginning, Taken
    <3>2. tx'[t] = w
      BY <2>2 DEF Accounting, TypeOK
    <3> QED
      BY <2>1, <2>3, <3>1, <3>2 DEF Unasked
  <2>4. ASSUME ~Makes, NEW s \in Threads,
               tx'[s].op \in {"register", "social"}, tx'[s].account = None
        PROVE  tx'[s].img.user # u
    <3>1. CASE s = t
      BY <2>2, <2>4, <3>1 DEF Accounting, TypeOK
    <3>2. CASE s # t
      BY <2>2, <2>4, <3>2 DEF Accounting, TypeOK, Taken
    <3> QED
      BY <3>1, <3>2
  <2> QED
    BY <2>1, <2>3, <2>4 DEF Taken
<1>3. ASSUME NEW t \in Threads, Step(t)
      PROVE  Accounts(u)' = {} \/ (Taken(u)' /\ Accounts(u)' \subseteq Accounts(u))
  <2>1. DbStep(t) /\ Ends(t)
    BY <1>3, StepEnds DEF DbStep
  <2>2. ASSUME NEW i \in Accounts(u)' PROVE i \in Accounts(u)
    <3>1. i \in Live' /\ row'[i].user = u
      BY <2>2 DEF Accounts
    <3>2. ~(Inserts(t) /\ row'[i] = tx[t].img)
      BY <3>1 DEF Inserts, Taken
    <3> QED
      BY <2>1, <3>1, <3>2, RowsKept DEF Accounts, SameUser
  <2>3. PICK w : tx' = [tx EXCEPT ![t] = w] /\ w.op \in {"none", "success"}
    BY <2>1 DEF Ends
  <2>4. ASSUME NEW s \in Threads, tx'[s].op \in {"register", "social"}, tx'[s].account = None
        PROVE  tx'[s].img.user # u
    BY <2>3, <2>4 DEF Accounting, TypeOK, Taken
  <2> QED
    BY <2>2, <2>4 DEF Taken
<1>4. ASSUME NEW c \in Clients, AccessExpires(c) \/ RefreshExpires(c)
      PROVE  Taken(u)' /\ Accounts(u)' \subseteq Accounts(u)
  BY <1>4 DEF AccessExpires, RefreshExpires, db, Taken, Accounts, Live
<1> QED
  BY <1>1, <1>2, <1>3, <1>4 DEF Next

(* A userId with an account, and with no registration and no first social  *)
(* login under way that is about to make one, gets no second account but   *)
(* by a registration of another login type than PHONE, which does not ask. *)
THEOREM UserIdKept == Spec => UserIdSettles
BY AlwaysAccounting, UserIdStep, PTL DEF Spec, UserIdSettles

LEMMA AccountStep == Accounting /\ [Next]_vars =>
  \A i \in Ids : Current(i) /\ i \in Live' =>
    /\ row'[i].level = row[i].level
    /\ (Current(i)' /\ row'[i].password = row[i].password) \/ PasswordChanged(i)
<1> SUFFICES ASSUME Accounting, [Next]_vars, NEW i \in Ids, Current(i), i \in Live'
             PROVE  /\ row'[i].level = row[i].level
                    /\ (Current(i)' /\ row'[i].password = row[i].password) \/ PasswordChanged(i)
  OBVIOUS
<1> DEFINE Fits(w, r) ==
      /\ w.account = i /\ w.op \in {"social", "level", "email", "password"} =>
           w.img.level = r.level
      /\ w.account = i /\ w.op \in {"social", "level", "email"} =>
           w.img.password = r.password
<1>0. i # None /\ i \in Live /\ row[i].level # None /\ \A t \in Threads : Fits(tx[t], row[i])
  BY NoRowTyped DEF Current
<1>1. ASSUME row'[i].level = row[i].level, row'[i].password = row[i].password,
             \A t \in Threads : Fits(tx'[t], row[i])
      PROVE  Current(i)'
  BY <1>0, <1>1 DEF Current
<1>2. CASE UNCHANGED vars
  BY <1>0, <1>1, <1>2 DEF vars, db
<1>3. ASSUME NEW t \in Threads, Call(t)
      PROVE  Current(i)' /\ row' = row
  <2>1. row' = row
    BY <1>3, CallBegins DEF db
  <2>2. PICK w : Beginning(w) /\ tx' = [tx EXCEPT ![t] = w]
    BY <1>3, CallBegins
  <2>3. Fits(w, row[i])
    BY <1>0, <2>2 DEF Beginning, Loaded
  <2>4. \A s \in Threads : Fits(tx'[s], row[i])
    BY <1>0, <2>2, <2>3 DEF Accounting, TypeOK
  <2> QED
    BY <1>1, <2>1, <2>4
<1>4. ASSUME NEW t \in Threads, Step(t)
      PROVE  /\ row'[i].level = row[i].level
             /\ (Current(i)' /\ row'[i].password = row[i].password) \/ PasswordChanged(i)
  <2>1. DbStep(t) /\ Ends(t)
    BY <1>4, StepEnds DEF DbStep
  <2>2. PICK w : /\ tx' = [tx EXCEPT ![t] = w] /\ w.op \in {"none", "success"}
                 /\ tx[t].op = "password" => w = Idle
    BY <2>1 DEF Ends
  <2>3. \A s \in Threads : Fits(tx'[s], row[i])
    <3>1. Fits(w, row[i])
      BY <2>2
    <3> QED
      BY <1>0, <2>2, <3>1 DEF Accounting, TypeOK
  <2>4. row'[i] = row[i] \/ (Writes(t) /\ i = tx[t].account /\ row'[i] = tx[t].img)
    BY <1>0, <2>1, RowsKept
  <2>5. CASE row'[i] = row[i]
    BY <1>1, <2>3, <2>5
  <2>6. CASE Writes(t) /\ i = tx[t].account /\ row'[i] = tx[t].img
    <3>1. row'[i].level = row[i].level
      BY <1>0, <2>6 DEF Writes, Loaded
    <3>2. CASE tx[t].op = "password"
      <4>1. PasswordChanged(i)
        BY <2>2, <2>6, <3>2 DEF PasswordChanged, Accounting, TypeOK
      <4> QED
        BY <3>1, <4>1
    <3>3. CASE tx[t].op # "password"
      <4>1. row'[i].password = row[i].password
        BY <1>0, <2>6, <3>3 DEF Writes, Loaded
      <4> QED
        BY <1>1, <2>3, <3>1, <4>1
    <3> QED
      BY <3>2, <3>3
  <2> QED
    BY <2>4, <2>5, <2>6
<1>5. ASSUME NEW c \in Clients, AccessExpires(c) \/ RefreshExpires(c)
      PROVE  Current(i)' /\ row' = row
  BY <1>0, <1>1, <1>5 DEF AccessExpires, RefreshExpires, db
<1> QED
  BY <1>2, <1>3, <1>4, <1>5 DEF Next

(* updateDigitalLevel, updateEmail and modifyPassword write whole rows: an *)
(* account keeps its level and its password as long as every handler under *)
(* way has loaded the row as it is.                                        *)
THEOREM AccountKept == Spec => AccountSettles
BY AlwaysAccounting, AccountStep, PTL DEF Spec, AccountSettles

LEMMA SessionStep == Accounting /\ [Next]_vars =>
  \A c \in Clients : OneSession(c) => SameAccount(c)'
<1> SUFFICES ASSUME Accounting, [Next]_vars, NEW c \in Clients, OneSession(c)
             PROVE  SameAccount(c)'
  OBVIOUS
<1>1. SameAccount(c)
  BY DEF OneSession
<1>2. CASE UNCHANGED cookies
  BY <1>1, <1>2 DEF SameAccount, cookies
<1>3. ASSUME NEW t \in Threads, Step(t), tx[t].client \in Clients, Sets(t, tx[t].client)
      PROVE  SameAccount(c)'
  <2>1. CASE tx[t].client # c
    BY <1>1, <1>3, <2>1 DEF Sets, SameAccount, Accounting, TypeOK
  <2>2. CASE tx[t].client = c
    <3>1. tx[t].fresh = TRUE => tx[t].account = refresh[c]
      BY <2>2 DEF OneSession
    <3>2. PICK a, r : /\ access' = [access EXCEPT ![c] = a]
                      /\ refresh' = [refresh EXCEPT ![c] = r]
                      /\ \/ a = r
                         \/ /\ r = refresh[c]
                            /\ a = access[c] \/ (tx[t].fresh = TRUE /\ a = tx[t].account)
      BY <1>3, <2>2 DEF Sets
    <3>3. access'[c] = a /\ refresh'[c] = r
      BY <3>2 DEF Accounting, TypeOK
    <3> QED
      BY <1>1, <3>1, <3>2, <3>3 DEF SameAccount
  <2> QED
    BY <2>1, <2>2
<1>4. ASSUME NEW d \in Clients, AccessExpires(d) \/ RefreshExpires(d) PROVE SameAccount(c)'
  BY <1>1, <1>4 DEF AccessExpires, RefreshExpires, SameAccount, Accounting, TypeOK
<1>5. ASSUME NEW t \in Threads, Call(t) PROVE UNCHANGED cookies
  BY <1>5, CallBegins
<1>6. CASE UNCHANGED vars
  BY <1>2, <1>6 DEF vars
<1> QED
  BY <1>2, <1>3, <1>4, <1>5, <1>6, StepEnds DEF Next

(* The filter and the logins leave a browser with tokens of one account,   *)
(* unless responses to requests of another are still under way.            *)
THEOREM SessionKept == Spec => SessionSettles
BY AlwaysAccounting, SessionStep, PTL DEF Spec, SessionSettles

-----------------------------------------------------------------------------
(* What Credentials sees of a step                                         *)

States == [i \in Ids |-> Existence(i)]
Owners == [i \in Ids |-> row[i].user]
Keyed  == {i \in Live : row[i].password # None}
PromisedVars == <<States, Owners, Keyed, Granted, Vouched, access, refresh>>

(* A login that a provider vouched for.                                    *)
Vouches(w) == w.op \in {"social", "success"}
GrantOf(w) == [client |-> w.client, account |-> w.account, kind |-> Kind(w)]
PairOf(w)  == <<w.client, w.img.user>>

(* Who an account under way is for, and who may get a new access token.    *)
Named(w) ==
  /\ w.op = "register" => w.img.user \in UserIds
  /\ Vouches(w) => w.img.user \in Socials
  /\ w.op \in {"register", "social", "success", "logout"} => w.fresh = FALSE

Naming == \A t \in Threads : Named(tx[t])

LEMMA IdleNamed == Kind(Idle) = "none" /\ ~Vouches(Idle) /\ Named(Idle)
BY DEF Kind, Vouches, Named, Idle

(* What becomes of the grants when a thread begins or ends a handler.      *)
LEMMA GrantsKept ==
  ASSUME Accounting, NEW t \in Threads, NEW w, tx' = [tx EXCEPT ![t] = w]
  PROVE  /\ Kind(tx[t]) = "none" /\ Kind(w) = "none" => Granted' = Granted
         /\ Kind(tx[t]) = "none" /\ Kind(w) # "none" => Granted' = Granted \cup {GrantOf(w)}
         /\ Kind(tx[t]) # "none" /\ Kind(w) = "none" =>
              GrantOf(tx[t]) \in Granted /\ Granted' \in {Granted, Granted \ {GrantOf(tx[t])}}
<1> DEFINE S == {s \in Threads : Kind(tx[s]) # "none"}
           T == {s \in Threads : Kind(tx'[s]) # "none"}
<1>1. tx'[t] = w /\ \A s \in Threads \ {t} : tx'[s] = tx[s]
  BY DEF Accounting, TypeOK
<1>2. Granted = {GrantOf(tx[s]) : s \in S} /\ Granted' = {GrantOf(tx'[s]) : s \in T}
  BY DEF Granted, GrantOf, Kind
<1>3. CASE Kind(tx[t]) = "none" /\ Kind(w) = "none"
  <2>1. S = T /\ t \notin S
    BY <1>1, <1>3
  <2> QED
    BY <1>1, <1>2, <1>3, <2>1
<1>4. CASE Kind(tx[t]) = "none" /\ Kind(w) # "none"
  <2>1. T = S \cup {t} /\ t \notin S
    BY <1>1, <1>4
  <2> QED
    BY <1>1, <1>2, <1>4, <2>1
<1>5. CASE Kind(tx[t]) # "none" /\ Kind(w) = "none"
  <2>1. T = S \ {t} /\ t \in S
    BY <1>1, <1>5
  <2>2. Granted' = {GrantOf(tx[s]) : s \in S \ {t}}
    BY <1>1, <1>2, <2>1
  <2> QED
    BY <1>2, <1>5, <2>1, <2>2
<1> QED
  BY <1>3, <1>4, <1>5

LEMMA VouchersKept ==
  ASSUME Accounting, NEW t \in Threads, NEW w, tx' = [tx EXCEPT ![t] = w]
  PROVE  /\ ~Vouches(tx[t]) /\ ~Vouches(w) => Vouched' = Vouched
         /\ ~Vouches(tx[t]) /\ Vouches(w) => Vouched' = Vouched \cup {PairOf(w)}
         /\ Vouches(tx[t]) /\ Vouches(w) /\ PairOf(w) = PairOf(tx[t]) => Vouched' = Vouched
         /\ Vouches(tx[t]) => PairOf(tx[t]) \in Vouched
         /\ Vouches(tx[t]) /\ ~Vouches(w) => Vouched' \in {Vouched, Vouched \ {PairOf(tx[t])}}
<1> DEFINE S == {s \in Threads : Vouches(tx[s])}
           T == {s \in Threads : Vouches(tx'[s])}
<1>1. tx'[t] = w /\ \A s \in Threads \ {t} : tx'[s] = tx[s]
  BY DEF Accounting, TypeOK
<1>2. Vouched = {PairOf(tx[s]) : s \in S} /\ Vouched' = {PairOf(tx'[s]) : s \in T}
  BY DEF Vouched, PairOf, Vouches
<1> HIDE DEF Vouched
<1>3. CASE ~Vouches(tx[t]) /\ ~Vouches(w)
  <2>1. S = T /\ t \notin S
    BY <1>1, <1>3
  <2> QED
    BY <1>1, <1>2, <1>3, <2>1
<1>4. CASE ~Vouches(tx[t]) /\ Vouches(w)
  <2>1. T = S \cup {t} /\ t \notin S
    BY <1>1, <1>4
  <2> QED
    BY <1>1, <1>2, <1>4, <2>1
<1>5. CASE Vouches(tx[t]) /\ Vouches(w)
  <2>1. S = T /\ t \in S
    BY <1>1, <1>5
  <2>2. ASSUME PairOf(w) = PairOf(tx[t]) PROVE Vouched' = Vouched
    <3>1. \A s \in S : PairOf(tx'[s]) = PairOf(tx[s])
      BY <1>1, <2>2
    <3> QED
      BY <1>2, <2>1, <3>1
  <2> QED
    BY <1>2, <1>5, <2>1, <2>2
<1>6. CASE Vouches(tx[t]) /\ ~Vouches(w)
  <2>1. T = S \ {t} /\ t \in S
    BY <1>1, <1>6
  <2>2. Vouched' = {PairOf(tx[s]) : s \in S \ {t}}
    BY <1>1, <1>2, <2>1
  <2> QED
    BY <1>2, <1>6, <2>1, <2>2
<1> QED
  BY <1>3, <1>4, <1>5, <1>6

(* Whom findByUserId finds has the user id alone.                          *)
LEMMA FoundSole ==
  ASSUME Accounting, NEW u, NEW i \in Live, Found(i, u)
  PROVE  i \in Ids /\ States[i] = "live" /\ Owners[i] = u /\ Promised!Sole(i)
<1>1. Live \subseteq Ids
  BY AccountsAssumption DEF Live, Ids, Accounting, TypeOK
<1>2. Owners[i] = u /\ States[i] = "live"
  BY <1>1 DEF Owners, States, Existence, Found, Accounts
<1>3. ASSUME NEW j \in Ids, States[j] = "live", Owners[j] = u PROVE j = i
  <2>1. j \in Accounts(u)
    BY <1>3 DEF Owners, States, Existence, Accounts
  <2> QED
    BY <2>1 DEF Found
<1> QED
  BY <1>1, <1>2, <1>3 DEF Promised!Sole, Owners, States

(* A call leaves accounts and cookies, and grants or vouches for at most   *)
(* what its handler is about to do.                                        *)
Opens(w) ==
  \/ Kind(w) = "none" /\ ~Vouches(w)
  \/ Kind(w) = "none" /\ Vouches(w) /\ w.client \in Clients
  \/ /\ ~Vouches(w) /\ w.client \in Clients /\ w.account \in Live
     /\ \/ /\ Kind(w) = "login" /\ w.account \in Keyed
           /\ Promised!Sole(w.account)
        \/ Kind(w) = "renewal" /\ access[w.client] = None /\ refresh[w.client] = w.account
        \/ Kind(w) = "withdrawal" /\ Promised!Shown(w.client, w.account)

LEMMA CallOpens ==
  ASSUME Accounting, NEW t \in Threads, Call(t)
  PROVE  \E w : tx' = [tx EXCEPT ![t] = w] /\ Named(w) /\ Opens(w)
<1> USE DEF Begin, Kind, Vouches
<1>1. ASSUME NEW c \in Clients, NEW r \in Registrations, Register(t, c, r[1], r[2])
      PROVE  \E w : tx' = [tx EXCEPT ![t] = w] /\ Named(w) /\ Opens(w)
  <2>0. PICK u \in UserIds, p \in Passwords \cup {None} : u = r[1] /\ p = r[2]
    BY RegistrationsAssumption DEF UserIds
  <2> DEFINE w == [op |-> "register", client |-> c, account |-> None,
                   img |-> [NoRow EXCEPT !.user = u, !.password = p], fresh |-> FALSE]
  <2>1. w.img.user = u
    BY DEF NoRow
  <2>2. tx' = [tx EXCEPT ![t] = w] /\ Named(w) /\ Opens(w)
    BY <1>1, <2>0, <2>1 DEF Register, Named, Opens
  <2> QED
    BY <2>2
<1>2. ASSUME NEW c \in Clients, NEW u \in UserIds, NEW p \in Passwords, Auth(t, c, u, p)
      PROVE  \E w : tx' = [tx EXCEPT ![t] = w] /\ Named(w) /\ Opens(w)
  <2>1. PICK i \in Live : /\ Begin(t, "login", c, i, NoRow, FALSE) /\ Found(i, u)
                            /\ row[i].password = p
    BY <1>2 DEF Auth
  <2> DEFINE w == [op |-> "login", client |-> c, account |-> i, img |-> NoRow, fresh |-> FALSE]
  <2>2. i \in Keyed /\ Promised!Sole(i)
    BY <2>1, FoundSole, ColumnsAssumption DEF Keyed
  <2>3. tx' = [tx EXCEPT ![t] = w] /\ Named(w) /\ Opens(w)
    BY <2>1, <2>2 DEF Named, Opens
  <2> QED
    BY <2>3
<1>3. ASSUME NEW c \in Clients, Logout(t, c)
      PROVE  \E w : tx' = [tx EXCEPT ![t] = w] /\ Named(w) /\ Opens(w)
  <2> DEFINE w == [op |-> "logout", client |-> c, account |-> None, img |-> NoRow,
                   fresh |-> FALSE]
  <2>1. tx' = [tx EXCEPT ![t] = w] /\ Named(w) /\ Opens(w)
    BY <1>3 DEF Logout, Named, Opens
  <2> QED
    BY <2>1
<1>4. ASSUME NEW c \in Clients, NEW u \in Socials, LoadUser(t, c, u)
      PROVE  \E w : tx' = [tx EXCEPT ![t] = w] /\ Named(w) /\ Opens(w)
  <2>1. CASE \E i \in Live : Found(i, u) /\ Begin(t, "social", c, i, row[i], FALSE)
    <3>1. PICK i \in Live : Found(i, u) /\ Begin(t, "social", c, i, row[i], FALSE)
      BY <2>1
    <3> DEFINE w == [op |-> "social", client |-> c, account |-> i, img |-> row[i],
                     fresh |-> FALSE]
    <3>2. row[i].user = u
      BY <3>1 DEF Found, Accounts
    <3>3. tx' = [tx EXCEPT ![t] = w] /\ Named(w) /\ Opens(w)
      BY <3>1, <3>2 DEF Named, Opens
    <3> QED
      BY <3>3
  <2>2. CASE Begin(t, "social", c, None, [NoRow EXCEPT !.user = u], FALSE)
    <3> DEFINE w == [op |-> "social", client |-> c, account |-> None,
                     img |-> [NoRow EXCEPT !.user = u], fresh |-> FALSE]
    <3>1. w.img.user = u
      BY DEF NoRow
    <3>2. tx' = [tx EXCEPT ![t] = w] /\ Named(w) /\ Opens(w)
      BY <2>2, <3>1 DEF Named, Opens
    <3> QED
      BY <3>2
  <2> QED
    BY <1>4, <2>1, <2>2 DEF LoadUser
<1>5. ASSUME NEW c \in Clients, NEW i \in Ids, WithdrawUser(t, c, i)
      PROVE  \E w : tx' = [tx EXCEPT ![t] = w] /\ Named(w) /\ Opens(w)
  <2> DEFINE w == [op |-> "withdraw", client |-> c, account |-> i, img |-> NoRow,
                   fresh |-> FALSE]
  <2>1. tx' = [tx EXCEPT ![t] = w] /\ i \in Live /\ Promised!Shown(c, i)
    BY <1>5 DEF WithdrawUser, Authenticated, Promised!Shown
  <2>2. Named(w) /\ Opens(w)
    BY <2>1 DEF Named, Opens
  <2> QED
    BY <2>1, <2>2
<1>6. ASSUME NEW c \in Clients, NEW i, NEW img, Authenticated(c, i),
             NEW op \in {"read", "level", "email", "password"},
             Begin(t, op, c, i, img, access[c] = None)
      PROVE  \E w : tx' = [tx EXCEPT ![t] = w] /\ Named(w) /\ Opens(w)
  <2> DEFINE w == [op |-> op, client |-> c, account |-> i, img |-> img,
                   fresh |-> (access[c] = None)]
  <2>1. tx' = [tx EXCEPT ![t] = w] /\ Named(w)
    BY <1>6 DEF Named
  <2>2. Opens(w)
    BY <1>6 DEF Opens, Authenticated
  <2> QED
    BY <2>1, <2>2
<1>7. ASSUME NEW c \in Clients, NEW i \in Ids, NEW img,
             NEW op \in {"read", "level", "email", "password"}, Request(t, c, i, op, img)
      PROVE  \E w : tx' = [tx EXCEPT ![t] = w] /\ Named(w) /\ Opens(w)
  BY <1>6, <1>7 DEF Request
<1> HIDE DEF Begin, Kind, Vouches
<1>8. ASSUME NEW c \in Clients, NEW i \in Ids, Read(t, c, i) \/ UpdateEmail(t, c, i)
      PROVE  \E w : tx' = [tx EXCEPT ![t] = w] /\ Named(w) /\ Opens(w)
  BY <1>7, <1>8 DEF Read, UpdateEmail
<1>9. ASSUME NEW c \in Clients, NEW i \in Ids, NEW l \in Levels, UpdateDigitalLevel(t, c, i, l)
      PROVE  \E w : tx' = [tx EXCEPT ![t] = w] /\ Named(w) /\ Opens(w)
  BY <1>7, <1>9 DEF UpdateDigitalLevel
<1>10. ASSUME NEW c \in Clients, NEW i \in Ids, NEW old \in Passwords, NEW new \in Passwords,
              UpdatePassword(t, c, i, old, new)
       PROVE  \E w : tx' = [tx EXCEPT ![t] = w] /\ Named(w) /\ Opens(w)
  BY <1>7, <1>10 DEF UpdatePassword
<1> QED
  BY <1>1, <1>2, <1>3, <1>4, <1>5, <1>8, <1>9, <1>10 DEF Call

LEMMA CallCredentials ==
  ASSUME Accounting, Naming, NEW t \in Threads, Call(t)
  PROVE  Naming' /\ (Promised!Next \/ UNCHANGED PromisedVars)
<1>1. UNCHANGED <<db, cookies>> /\ tx[t] = Idle
  BY CallBegins
<1>2. PICK w : tx' = [tx EXCEPT ![t] = w] /\ Named(w) /\ Opens(w)
  BY CallOpens
<1>3. /\ States' = States /\ Owners' = Owners /\ Keyed' = Keyed
      /\ access' = access /\ refresh' = refresh
  BY <1>1 DEF States, Owners, Keyed, Existence, Live, db, cookies
<1>4. Naming'
  BY <1>2 DEF Naming, Accounting, TypeOK
<1>5. /\ Kind(w) = "none" => Granted' = Granted
      /\ Kind(w) # "none" => Granted' = Granted \cup {GrantOf(w)}
      /\ ~Vouches(w) => Vouched' = Vouched
      /\ Vouches(w) => Vouched' = Vouched \cup {PairOf(w)}
  BY <1>1, <1>2, GrantsKept, VouchersKept, IdleNamed
<1>6. CASE Kind(w) = "none" /\ ~Vouches(w)
  BY <1>3, <1>4, <1>5, <1>6 DEF PromisedVars
<1>7. CASE Kind(w) = "none" /\ Vouches(w) /\ w.client \in Clients
  <2>1. w.img.user \in Socials
    BY <1>2, <1>7 DEF Named
  <2>2. Promised!Vouch(w.client, w.img.user)
    BY <1>3, <1>5, <1>7 DEF Promised!Vouch, Promised!accounts, Promised!cookies, PairOf,
      States, Owners, Keyed
  <2> QED
    BY <1>4, <1>7, <2>1, <2>2 DEF Promised!Next
<1>8. CASE /\ ~Vouches(w) /\ w.client \in Clients /\ w.account \in Live
           /\ \/ /\ Kind(w) = "login" /\ w.account \in Keyed
                 /\ Promised!Sole(w.account)
              \/ Kind(w) = "renewal" /\ access[w.client] = None /\ refresh[w.client] = w.account
              \/ Kind(w) = "withdrawal" /\ Promised!Shown(w.client, w.account)
  <2> DEFINE g == GrantOf(w)
  <2>1. g.client = w.client /\ g.account = w.account /\ g.kind = Kind(w)
    BY DEF GrantOf
  <2>2. w.account \in Ids /\ States[w.account] = "live"
    BY <1>8, AccountsAssumption DEF Live, Ids, Accounting, TypeOK, States, Existence
  <2>3. Promised!Entitled(g)
    BY <1>8, <2>1 DEF Promised!Entitled, Keyed
  <2>4. Kind(w) \in {"login", "renewal", "withdrawal"} /\ Granted' = Granted \cup {g}
    BY <1>5, <1>8
  <2>5. Promised!Grant(w.client, w.account)
    BY <1>3, <1>5, <1>8, <2>2, <2>3, <2>4 DEF Promised!Grant, Promised!accounts,
      Promised!cookies, GrantOf, States, Owners, Keyed
  <2> QED
    BY <1>4, <1>8, <2>2, <2>5 DEF Promised!Next
<1> QED
  BY <1>2, <1>6, <1>7, <1>8 DEF Opens

(* What becomes of accounts when rows are inserted, written or deleted.    *)
LEMMA AccountsSame ==
  ASSUME Accounting, NEW t \in Threads, UNCHANGED db \/ Writes(t)
  PROVE  States' = States /\ Owners' = Owners /\ Keyed' = Keyed
<1>1. DbStep(t) /\ Live' = Live /\ deleted' = deleted /\ row \in [Ids -> Row]
  BY DEF DbStep, Writes, Live, db, Accounting, TypeOK
<1>2. States' = States
  BY <1>1 DEF States, Existence
<1>3. ASSUME NEW i \in Ids PROVE SameUser(row'[i], row[i])
  <2>1. CASE UNCHANGED db
    BY <2>1 DEF db, SameUser
  <2>2. CASE Writes(t) /\ i = tx[t].account
    BY <1>1, <2>2, RowsKept DEF Writes
  <2>3. CASE Writes(t) /\ i # tx[t].account
    BY <1>1, <2>3 DEF Writes, SameUser
  <2> QED
    BY <2>1, <2>2, <2>3
<1>4. Owners' = Owners
  BY <1>3 DEF Owners, SameUser
<1>5. Live \subseteq Ids
  BY AccountsAssumption DEF Live, Ids, Accounting, TypeOK
<1>6. Keyed' = Keyed
  BY <1>1, <1>3, <1>5 DEF Keyed, SameUser
<1> QED
  BY <1>2, <1>4, <1>6

LEMMA AccountsMade ==
  ASSUME Accounting, NEW t \in Threads, Inserts(t)
  PROVE  LET i == lastId + 1 IN
         /\ i \in Ids /\ States[i] = "none"
         /\ States' = [States EXCEPT ![i] = "live"]
         /\ Owners' = [Owners EXCEPT ![i] = tx[t].img.user]
         /\ Keyed' \in {Keyed, Keyed \cup {i}}
<1> DEFINE i == lastId + 1
<1>1. /\ lastId \in 0..MaxAccounts /\ MaxAccounts \in Nat /\ row \in [Ids -> Row]
      /\ deleted \subseteq 1..lastId
  BY AccountsAssumption DEF Accounting, TypeOK
<1>2. /\ i \in Ids /\ i \notin Live /\ i \notin deleted
      /\ deleted' = deleted /\ Live' = Live \cup {i}
      /\ row' = [row EXCEPT ![i] = tx[t].img]
  BY <1>1 DEF Inserts, Ids, Live
<1>3. States[i] = "none" /\ States' = [States EXCEPT ![i] = "live"]
  BY <1>2 DEF States, Existence
<1>4. Owners' = [Owners EXCEPT ![i] = tx[t].img.user]
  BY <1>1, <1>2 DEF Owners
<1>5. Keyed' \in {Keyed, Keyed \cup {i}}
  <2>1. Live \subseteq Ids /\ i \notin Live /\ Live' = Live \cup {i}
    BY <1>1, <1>2 DEF Live, Ids
  <2>2. \A j \in Live : row'[j] = row[j]
    BY <1>1, <1>2, <2>1
  <2> QED
    BY <2>1, <2>2 DEF Keyed
<1> QED
  BY <1>2, <1>3, <1>4, <1>5

LEMMA AccountsGone ==
  ASSUME Accounting, NEW t \in Threads, Withdraws(t)
  PROVE  LET i == tx[t].account IN
         /\ States[i] = "live" /\ States' = [States EXCEPT ![i] = "withdrawn"]
         /\ Owners' = [Owners EXCEPT ![i] = None] /\ Keyed' = Keyed \ {i}
<1> DEFINE i == tx[t].account
<1>1. row \in [Ids -> Row] /\ i \in Live /\ i \in Ids
  BY AccountsAssumption DEF Accounting, TypeOK, Withdraws, Live, Ids
<1>2. deleted' = deleted \cup {i} /\ Live' = Live \ {i} /\ row' = [row EXCEPT ![i] = NoRow]
  BY DEF Withdraws, Live
<1>3. States[i] = "live" /\ States' = [States EXCEPT ![i] = "withdrawn"]
  BY <1>1, <1>2 DEF States, Existence, Live
<1>4. Owners' = [Owners EXCEPT ![i] = None]
  BY <1>1, <1>2 DEF Owners, NoRow
<1>5. Keyed' = Keyed \ {i}
  <2>1. Live \subseteq Ids
    BY AccountsAssumption DEF Live, Ids, Accounting, TypeOK
  <2>2. \A j \in Live \ {i} : row'[j] = row[j]
    BY <1>1, <1>2, <2>1
  <2> QED
    BY <1>2, <2>2 DEF Keyed
<1> QED
  BY <1>3, <1>4, <1>5

(* A handler that is over has spent its grant.                             *)
LEMMA OverSpends ==
  ASSUME Accounting, Naming, NEW t \in Threads, tx' = [tx EXCEPT ![t] = Idle]
  PROVE  /\ Naming'
         /\ Kind(tx[t]) = "none" => Granted' = Granted
         /\ Kind(tx[t]) # "none" =>
              GrantOf(tx[t]) \in Granted /\ Granted' \in {Granted, Granted \ {GrantOf(tx[t])}}
         /\ ~Vouches(tx[t]) => Vouched' = Vouched
         /\ Vouches(tx[t]) =>
              PairOf(tx[t]) \in Vouched /\ Vouched' \in {Vouched, Vouched \ {PairOf(tx[t])}}
<1>1. Naming'
  BY IdleNamed DEF Naming, Accounting, TypeOK
<1> QED
  BY <1>1, GrantsKept, VouchersKept, IdleNamed

LEMMA ReplyCredentials ==
  ASSUME Accounting, Naming, NEW t \in Threads, Reply(t), UNCHANGED db \/ Writes(t),
         tx[t].op \in {"read", "level", "email", "password"}
  PROVE  Naming' /\ (Promised!Next \/ UNCHANGED PromisedVars)
<1> DEFINE c == tx[t].client
           g == GrantOf(tx[t])
<1>1. /\ c \in Clients /\ tx[t].fresh \in BOOLEAN
      /\ access \in [Clients -> (1..lastId) \cup {None}]
      /\ refresh \in [Clients -> (1..lastId) \cup {None}]
  BY DEF Accounting, HandlerOK, TypeOK, Tx
<1>2. States' = States /\ Owners' = Owners /\ Keyed' = Keyed
  BY AccountsSame
<1>3. tx' = [tx EXCEPT ![t] = Idle]
  BY DEF Reply, Respond
<1>4. Naming' /\ Vouched' = Vouched
  BY <1>3, OverSpends DEF Vouches
<1>5. CASE tx[t].fresh = FALSE
  <2>1. Kind(tx[t]) = "none"
    BY <1>5 DEF Kind
  <2>2. access' = access /\ refresh' = refresh
    BY <1>1, <1>5 DEF Reply, Respond, cookies
  <2> QED
    BY <1>2, <1>3, <1>4, <2>1, <2>2, OverSpends DEF PromisedVars
<1>6. CASE tx[t].fresh = TRUE
  <2>1. Kind(tx[t]) = "renewal"
    BY <1>6 DEF Kind
  <2>2. g \in Granted /\ Granted' \in {Granted, Granted \ {g}}
    BY <1>3, <2>1, OverSpends
  <2>3. g.client = c /\ g.account = tx[t].account /\ g.kind = "renewal"
    BY <2>1 DEF GrantOf
  <2> HIDE DEF g
  <2>4. Promised!Spend(g) /\ UNCHANGED Promised!accounts
    BY <1>2, <1>4, <2>2 DEF Promised!Spend, Promised!accounts, States, Owners, Keyed
  <2>5. CASE /\ access' = [access EXCEPT ![c] = tx[t].account]
             /\ refresh' = [refresh EXCEPT ![c] = refresh[c]]
    <3>1. Promised!Renew(g)
      BY <2>3, <2>4, <2>5 DEF Promised!Renew, Promised!Gets
    <3> QED
      BY <1>4, <2>2, <3>1 DEF Promised!Next
  <2>6. CASE UNCHANGED cookies
    <3>1. Promised!Lose(g)
      BY <2>4, <2>6 DEF Promised!Lose, Promised!cookies, cookies
    <3> QED
      BY <1>4, <2>2, <3>1 DEF Promised!Next
  <2> QED
    BY <1>6, <2>5, <2>6 DEF Reply, Respond
<1> QED
  BY <1>1, <1>5, <1>6

LEMMA RegisterCredentials ==
  ASSUME Accounting, Naming, NEW t \in Threads, CommitRegister(t)
  PROVE  Naming' /\ Promised!Next
<1>1. PICK i, u : i = lastId + 1 /\ u = tx[t].img.user
  OBVIOUS
<1>2. /\ tx[t].op = "register" /\ tx[t].account = None /\ Inserts(t)
      /\ Respond(t, i, i) /\ tx[t].client \in Clients
  BY <1>1 DEF CommitRegister, Insert, Login, Inserts, Accounting, HandlerOK
<1>3. u \in UserIds /\ Kind(tx[t]) = "none" /\ ~Vouches(tx[t])
  BY <1>1, <1>2 DEF Naming, Named, Kind, Vouches
<1>4. Naming' /\ Granted' = Granted /\ Vouched' = Vouched
  BY <1>2, <1>3, OverSpends DEF Respond
<1>5. /\ i \in Ids /\ States[i] = "none"
      /\ States' = [States EXCEPT ![i] = "live"] /\ Owners' = [Owners EXCEPT ![i] = u]
      /\ Keyed' \in {Keyed, Keyed \cup {i}}
  BY <1>1, <1>2, AccountsMade
<1>6. UNCHANGED cookies \/ Promised!Gets(tx[t].client, i, i)
  BY <1>2 DEF Respond, Promised!Gets
<1>7. Promised!Register(i, u)
  BY <1>2, <1>4, <1>5, <1>6 DEF Promised!Register, Promised!requests, Promised!cookies, cookies,
    States, Owners, Keyed
<1> QED
  BY <1>3, <1>4, <1>5, <1>7 DEF Promised!Next, UserIds

LEMMA TokenCredentials ==
  ASSUME Accounting, Naming, NEW t \in Threads, Token(t)
  PROVE  Naming' /\ Promised!Next
<1> DEFINE g == GrantOf(tx[t])
<1>1. tx[t].op = "login" /\ Respond(t, tx[t].account, tx[t].account) /\ UNCHANGED db
  BY DEF Token, Login
<1>2. Kind(tx[t]) = "login" /\ ~Vouches(tx[t])
  BY <1>1 DEF Kind, Vouches
<1>3. /\ Naming' /\ Vouched' = Vouched /\ g \in Granted /\ Granted' \in {Granted, Granted \ {g}}
      /\ States' = States /\ Owners' = Owners /\ Keyed' = Keyed
  BY <1>1, <1>2, OverSpends, AccountsSame DEF Respond
<1>4. g.client = tx[t].client /\ g.account = tx[t].account /\ g.kind = "login"
  BY <1>2 DEF GrantOf
<1> HIDE DEF g
<1>5. Promised!Spend(g) /\ UNCHANGED Promised!accounts
  BY <1>3 DEF Promised!Spend, Promised!accounts, States, Owners, Keyed
<1>6. Promised!LogIn(g) \/ Promised!Lose(g)
  BY <1>1, <1>4, <1>5 DEF Promised!LogIn, Promised!Lose, Promised!Gets, Promised!cookies,
    Respond, cookies
<1> QED
  BY <1>3, <1>6 DEF Promised!Next

LEMMA LoadUserCredentials ==
  ASSUME Accounting, Naming, NEW t \in Threads, CommitLoadUser(t)
  PROVE  Naming' /\ (Promised!Next \/ UNCHANGED PromisedVars)
<1> DEFINE u == tx[t].img.user
           w == [tx[t] EXCEPT !.op = "success", !.img = [NoRow EXCEPT !.user = u],
                              !.account = None]
<1>1. /\ tx[t] \in Tx /\ tx[t].op = "social" /\ tx[t].client \in Clients /\ UNCHANGED cookies
      /\ u \in Socials /\ tx[t].fresh = FALSE
  BY DEF CommitLoadUser, Accounting, TypeOK, HandlerOK, Naming, Named, Vouches
<1>2. tx' = [tx EXCEPT ![t] = w]
  BY DEF CommitLoadUser, Accounting, TypeOK, Tx
<1>3. w.op = "success" /\ w.client = tx[t].client /\ w.img.user = u /\ w.fresh = FALSE
  BY <1>1 DEF Tx, NoRow
<1> HIDE DEF w
<1>4. /\ Kind(tx[t]) = "none" /\ Vouches(tx[t]) /\ Kind(w) = "none" /\ Vouches(w)
      /\ PairOf(w) = PairOf(tx[t]) /\ Named(w)
  BY <1>1, <1>3 DEF Kind, Vouches, PairOf, Named
<1>5. /\ Granted' = Granted /\ Vouched' = Vouched /\ PairOf(tx[t]) \in Vouched
      /\ access' = access /\ refresh' = refresh
  BY <1>1, <1>2, <1>4, GrantsKept, VouchersKept DEF cookies
<1>6. Naming'
  BY <1>2, <1>4 DEF Naming, Accounting, TypeOK
<1>7. CASE tx[t].account = None /\ Insert(tx[t].img)
  <2>1. PICK i, v : i = lastId + 1 /\ v = u
    OBVIOUS
  <2>2. Inserts(t)
    BY <1>1, <1>7 DEF Insert, Inserts
  <2>3. /\ i \in Ids /\ States[i] = "none"
        /\ States' = [States EXCEPT ![i] = "live"] /\ Owners' = [Owners EXCEPT ![i] = v]
        /\ Keyed' \in {Keyed, Keyed \cup {i}}
    BY <2>1, <2>2, AccountsMade
  <2>4. Promised!Register(i, v) /\ v \in UserIds
    BY <1>1, <1>5, <2>1, <2>3 DEF Promised!Register, Promised!requests, Promised!cookies,
      States, Owners, Keyed, UserIds
  <2> QED
    BY <1>6, <2>3, <2>4 DEF Promised!Next, UserIds
<1>8. CASE UNCHANGED db \/ Writes(t)
  <2>1. States' = States /\ Owners' = Owners /\ Keyed' = Keyed
    BY <1>8, AccountsSame
  <2> QED
    BY <1>5, <1>6, <2>1 DEF PromisedVars
<1> QED
  BY <1>1, <1>7, <1>8 DEF CommitLoadUser, Writes, Loaded, db

LEMMA SuccessCredentials ==
  ASSUME Accounting, Naming, NEW t \in Threads, OnAuthenticationSuccess(t)
  PROVE  Naming' /\ Promised!Next
<1> DEFINE c == tx[t].client
           u == tx[t].img.user
<1>1. tx[t].op = "success" /\ UNCHANGED db
  BY DEF OnAuthenticationSuccess
<1>2. PICK i \in Live : Found(i, u) /\ Respond(t, i, i)
  BY DEF OnAuthenticationSuccess, Login
<1>3. i \in Ids /\ States[i] = "live" /\ Owners[i] = u /\ Promised!Sole(i)
  BY <1>2, FoundSole
<1>4. /\ Kind(tx[t]) = "none" /\ Vouches(tx[t]) /\ c \in Clients /\ u \in Socials
      /\ PairOf(tx[t]) = <<c, u>>
  BY <1>1 DEF Kind, Vouches, PairOf, Naming, Named, Accounting, HandlerOK
<1>5. /\ Naming' /\ Granted' = Granted /\ <<c, u>> \in Vouched
      /\ Vouched' \in {Vouched, Vouched \ {<<c, u>>}}
      /\ States' = States /\ Owners' = Owners /\ Keyed' = Keyed
  BY <1>1, <1>2, <1>4, OverSpends, AccountsSame DEF Respond
<1> HIDE DEF c, u
<1>6. Promised!Forget(c, u)
  BY <1>5 DEF Promised!Forget, Promised!accounts, States, Owners, Keyed
<1>7. Promised!Succeed(c, i) \/ Promised!Fail(c, u)
  BY <1>2, <1>3, <1>5, <1>6 DEF Promised!Succeed, Promised!Fail, Promised!Gets,
    Promised!cookies, Respond, cookies, States, Owners, Keyed, c
<1> QED
  BY <1>3, <1>4, <1>5, <1>7 DEF Promised!Next

(* The end of a withdrawal, done or failed.                                *)
LEMMA WithdrawCredentials ==
  ASSUME Accounting, Naming, NEW t \in Threads, tx[t].op = "withdraw", Respond(t, None, None),
         UNCHANGED db \/ Withdraws(t)
  PROVE  Naming' /\ Promised!Next
<1>0. PICK g : g = GrantOf(tx[t])
  OBVIOUS
<1>1. Kind(tx[t]) = "withdrawal" /\ ~Vouches(tx[t])
  BY DEF Kind, Vouches
<1>2. Naming' /\ Vouched' = Vouched /\ g \in Granted /\ Granted' \in {Granted, Granted \ {g}}
  BY <1>0, <1>1, OverSpends DEF Respond
<1>3. g.client = tx[t].client /\ g.account = tx[t].account /\ g.kind = "withdrawal"
  BY <1>0, <1>1 DEF GrantOf
<1>4. Promised!Spend(g)
  BY <1>2 DEF Promised!Spend
<1>5. UNCHANGED cookies \/ Promised!Gets(g.client, None, None)
  BY <1>3 DEF Respond, Promised!Gets
<1>6. CASE UNCHANGED db
  <2>1. Promised!Lose(g)
    BY <1>3, <1>4, <1>5, <1>6, AccountsSame DEF Promised!Lose, Promised!accounts,
      Promised!cookies, cookies, States, Owners, Keyed
  <2> QED
    BY <1>2, <2>1 DEF Promised!Next
<1>7. CASE Withdraws(t)
  <2>1. /\ States[g.account] = "live" /\ States' = [States EXCEPT ![g.account] = "withdrawn"]
        /\ Owners' = [Owners EXCEPT ![g.account] = None] /\ Keyed' = Keyed \ {g.account}
    BY <1>3, <1>7, AccountsGone
  <2>2. Promised!Withdraw(g)
    BY <1>3, <1>4, <1>5, <2>1 DEF Promised!Withdraw, Promised!cookies, cookies,
      States, Owners, Keyed
  <2> QED
    BY <1>2, <2>2 DEF Promised!Next
<1> QED
  BY <1>6, <1>7

LEMMA LogoutCredentials ==
  ASSUME Accounting, Naming, NEW t \in Threads, DeleteToken(t)
  PROVE  Naming' /\ (Promised!Next \/ UNCHANGED PromisedVars)
<1> DEFINE c == tx[t].client
<1>1. tx[t].op = "logout" /\ UNCHANGED db /\ Respond(t, None, None) /\ c \in Clients
  BY DEF DeleteToken, Accounting, HandlerOK
<1>2. Kind(tx[t]) = "none" /\ ~Vouches(tx[t])
  BY <1>1 DEF Kind, Vouches, Naming, Named
<1>3. /\ Naming' /\ Granted' = Granted /\ Vouched' = Vouched
      /\ States' = States /\ Owners' = Owners /\ Keyed' = Keyed
  BY <1>1, <1>2, OverSpends, AccountsSame DEF Respond
<1>4. CASE UNCHANGED cookies
  BY <1>3, <1>4 DEF PromisedVars, cookies
<1>5. CASE Promised!Gets(c, None, None)
  <2>1. Promised!Leave(c)
    BY <1>3, <1>5 DEF Promised!Leave, Promised!accounts, Promised!requests, States, Owners, Keyed
  <2> QED
    BY <1>1, <1>3, <2>1 DEF Promised!Next
<1> QED
  BY <1>1, <1>4, <1>5 DEF Respond, Promised!Gets

(* A login or a registration that fails.                                   *)
LEMMA RefusedCredentials ==
  ASSUME Accounting, Naming, NEW t \in Threads, tx' = [tx EXCEPT ![t] = Idle],
         UNCHANGED <<db, cookies>>, tx[t].op \in {"register", "login", "social", "success"}
  PROVE  Naming' /\ (Promised!Next \/ UNCHANGED PromisedVars)
<1>1. /\ States' = States /\ Owners' = Owners /\ Keyed' = Keyed
      /\ access' = access /\ refresh' = refresh
  BY AccountsSame DEF cookies
<1>2. CASE tx[t].op = "register"
  <2>1. Kind(tx[t]) = "none" /\ ~Vouches(tx[t])
    BY <1>2 DEF Kind, Vouches, Naming, Named
  <2> QED
    BY <1>1, <2>1, OverSpends DEF PromisedVars
<1>3. CASE tx[t].op = "login"
  <2>1. Kind(tx[t]) = "login" /\ ~Vouches(tx[t])
    BY <1>3 DEF Kind, Vouches
  <2> DEFINE g == GrantOf(tx[t])
  <2>2. Naming' /\ g \in Granted /\ Granted' \in {Granted, Granted \ {g}} /\ Vouched' = Vouched
    BY <2>1, OverSpends
  <2> HIDE DEF g
  <2>3. Promised!Lose(g)
    BY <1>1, <2>2 DEF Promised!Lose, Promised!Spend, Promised!accounts, Promised!cookies,
      States, Owners, Keyed
  <2> QED
    BY <2>2, <2>3 DEF Promised!Next
<1>4. CASE tx[t].op \in {"social", "success"}
  <2> DEFINE c == tx[t].client
             u == tx[t].img.user
  <2>1. /\ Kind(tx[t]) = "none" /\ Vouches(tx[t]) /\ c \in Clients /\ u \in Socials
        /\ PairOf(tx[t]) = <<c, u>>
    BY <1>4 DEF Kind, Vouches, PairOf, Naming, Named, Accounting, HandlerOK
  <2>2. /\ Naming' /\ Granted' = Granted /\ <<c, u>> \in Vouched
        /\ Vouched' \in {Vouched, Vouched \ {<<c, u>>}}
    BY <2>1, OverSpends
  <2> HIDE DEF c, u
  <2>3. Promised!Fail(c, u)
    BY <1>1, <2>2 DEF Promised!Fail, Promised!Forget, Promised!accounts, Promised!cookies,
      States, Owners, Keyed
  <2> QED
    BY <2>1, <2>2, <2>3 DEF Promised!Next
<1> QED
  BY <1>2, <1>3, <1>4

LEMMA StepCredentials ==
  ASSUME Accounting, Naming, NEW t \in Threads, Step(t)
  PROVE  Naming' /\ (Promised!Next \/ UNCHANGED PromisedVars)
<1>1. CASE CommitUpdate(t)
  <2>1. Writes(t) /\ Reply(t) /\ tx[t].op \in {"read", "level", "email", "password"}
    BY <1>1 DEF CommitUpdate, Writes, Loaded
  <2> QED
    BY <2>1, ReplyCredentials
<1>2. CASE CommitWithdraw(t)
  <2>1. tx[t].op = "withdraw" /\ Withdraws(t) /\ Respond(t, None, None)
    BY <1>2 DEF CommitWithdraw, Withdraws
  <2> QED
    BY <2>1, WithdrawCredentials
<1>3. CASE EndRead(t)
  BY <1>3, ReplyCredentials DEF EndRead
<1>4. CASE Fail(t)
  <2>1. CASE tx[t].op = "withdraw" /\ Respond(t, None, None)
    BY <1>4, <2>1, WithdrawCredentials DEF Fail
  <2>2. CASE tx[t].op \in {"level", "email", "password"} /\ Reply(t)
    BY <1>4, <2>2, ReplyCredentials DEF Fail
  <2>3. CASE /\ tx[t].op \in {"register", "login", "social", "success"}
             /\ tx' = [tx EXCEPT ![t] = Idle] /\ UNCHANGED cookies
    BY <1>4, <2>3, RefusedCredentials DEF Fail
  <2> QED
    BY <1>4, <2>1, <2>2, <2>3 DEF Fail
<1> QED
  BY <1>1, <1>2, <1>3, <1>4, RegisterCredentials, TokenCredentials, LoadUserCredentials,
    SuccessCredentials, LogoutCredentials DEF Step

LEMMA ExpiryCredentials ==
  ASSUME Accounting, Naming, NEW c \in Clients, AccessExpires(c) \/ RefreshExpires(c)
  PROVE  Naming' /\ Promised!Next
<1>1. /\ UNCHANGED <<db, tx>>
      /\ access \in [Clients -> (1..lastId) \cup {None}]
      /\ refresh \in [Clients -> (1..lastId) \cup {None}]
  BY DEF AccessExpires, RefreshExpires, Accounting, TypeOK
<1>2. /\ Naming' /\ Granted' = Granted /\ Vouched' = Vouched
      /\ States' = States /\ Owners' = Owners /\ Keyed' = Keyed
  BY <1>1 DEF Naming, Granted, Vouched, States, Owners, Keyed, Existence, Live, db
<1>3. Promised!Gets(c, None, refresh[c]) \/ Promised!Gets(c, access[c], None)
  BY <1>1 DEF AccessExpires, RefreshExpires, Promised!Gets
<1>4. Promised!Expire(c)
  BY <1>2, <1>3 DEF Promised!Expire, Promised!accounts, Promised!requests, States, Owners, Keyed
<1> QED
  BY <1>2, <1>4 DEF Promised!Next

LEMMA NextCredentials ==
  ASSUME Accounting, Naming, [Next]_vars
  PROVE  Naming' /\ (Promised!Next \/ UNCHANGED PromisedVars)
<1>1. CASE UNCHANGED vars
  BY <1>1 DEF vars, db, cookies, Naming, PromisedVars, Granted, Vouched, States, Owners, Keyed,
    Existence, Live
<1> QED
  BY <1>1, CallCredentials, StepCredentials, ExpiryCredentials DEF Next

LEMMA AlwaysNaming == Spec => []Naming
<1>1. Init => Naming
  BY IdleNamed DEF Init, Naming
<1>2. Accounting /\ Naming /\ [Next]_vars => Naming'
  BY NextCredentials
<1> QED
  BY <1>1, <1>2, AlwaysAccounting, PTL DEF Spec

(* However requests overlap, fail or lose their response, browsers get the *)
(* tokens that Credentials promises and no other: the filter renews an     *)
(* access token by the refresh token of a live account alone, a login      *)
(* brings the tokens of the account whose credentials were shown, and an   *)
(* account goes at the request of who was in it                            *)
(* (CustomAuthenticationFilter.work, AuthController.token, withdrawUser,   *)
(* CustomOAuth2LoginSuccessHandler.onAuthenticationSuccess).               *)
THEOREM KeepsCredentials == Spec => CredentialsSpec
<1>1. Init => Promised!Init
  <2> SUFFICES ASSUME Init PROVE Promised!Init
    OBVIOUS
  <2>1. Granted = {} /\ Vouched = {}
    BY IdleNamed DEF Init, Granted, Vouched, Vouches
  <2>2. Live = {} /\ deleted = {} /\ \A i \in Ids : row[i].user = None
    BY DEF Init, Live, NoRow
  <2> QED
    BY <2>1, <2>2 DEF Init, Promised!Init, Existence
<1>2. Accounting /\ Naming /\ [Next]_vars => [Promised!Next]_Promised!vars
  BY NextCredentials DEF Promised!vars, Promised!accounts, Promised!requests, Promised!cookies,
    PromisedVars, States, Owners, Keyed
<1> QED
  BY <1>1, <1>2, AlwaysAccounting, AlwaysNaming, PTL DEF Spec, CredentialsSpec, Promised!Spec

-----------------------------------------------------------------------------
(* Nobody has an access token of an account that is withdrawn, and no      *)
(* request under way brings one.                                           *)
LockedOut(i) ==
  /\ i \in deleted
  /\ \A c \in Clients : access[c] # i
  /\ \A t \in Threads :
       tx[t].account = i /\ tx[t].op # "withdraw" => tx[t].op # "login" /\ tx[t].fresh = FALSE

(* The same, as Credentials sees it.                                       *)
Shut(i) ==
  /\ States[i] = "withdrawn"
  /\ \A c \in Clients : access[c] # i
  /\ \A g \in Granted : g.account = i => g.kind = "withdrawal"

LEMMA LockedOutShut ==
  ASSUME Accounting, NEW i \in Ids PROVE LockedOut(i) <=> Shut(i)
<1>1. i \in deleted <=> States[i] = "withdrawn"
  BY DEF States, Existence, Live
<1>2. ASSUME NEW t \in Threads
      PROVE  /\ Kind(tx[t]) # "none" => GrantOf(tx[t]) \in Granted
             /\ GrantOf(tx[t]).account = tx[t].account /\ GrantOf(tx[t]).kind = Kind(tx[t])
             /\ tx[t].fresh \in BOOLEAN
  BY DEF Granted, GrantOf, Accounting, TypeOK, Tx
<1>3. ASSUME LockedOut(i), NEW g \in Granted, g.account = i PROVE g.kind = "withdrawal"
  <2>1. PICK t \in Threads : Kind(tx[t]) # "none" /\ g = GrantOf(tx[t])
    BY DEF Granted, GrantOf
  <2> QED
    BY <1>2, <1>3, <2>1 DEF LockedOut, Kind
<1>4. ASSUME Shut(i), NEW t \in Threads, tx[t].account = i, tx[t].op # "withdraw"
      PROVE  tx[t].op # "login" /\ tx[t].fresh = FALSE
  <2>1. Kind(tx[t]) \in {"none", "withdrawal"}
    BY <1>2, <1>4 DEF Shut
  <2> QED
    BY <1>2, <1>4, <2>1 DEF Kind
<1> QED
  BY <1>1, <1>3, <1>4 DEF LockedOut, Shut

LEMMA ShutStays ==
  ASSUME Accounting, Promised!Next, NEW i \in Ids, Shut(i)
  PROVE  Shut(i)'
<1>0. /\ access \in [Clients -> (1..lastId) \cup {None}] /\ i # None
      /\ States \in [Ids -> {"none", "live", "withdrawn"}]
  BY NoRowTyped DEF Accounting, TypeOK, States, Existence
<1>1. ASSUME States'[i] = States[i],
             \A c \in Clients : access'[c] # i,
             \A g \in Granted' : g \in Granted \/ g.account # i \/ g.kind = "withdrawal"
      PROVE  Shut(i)'
  BY <1>1 DEF Shut
<1>2. ASSUME NEW c \in Clients, NEW j \in Ids, Promised!Grant(c, j) PROVE Shut(i)'
  <2>1. States[j] = "live" /\ States' = States /\ access' = access
    BY <1>2 DEF Promised!Grant, Promised!accounts, Promised!cookies, States
  <2>2. PICK k : Granted' = Granted \cup {[client |-> c, account |-> j, kind |-> k]}
    BY <1>2 DEF Promised!Grant
  <2>3. j # i /\ \A d \in Clients : access'[d] # i
    BY <2>1 DEF Shut
  <2> QED
    BY <1>1, <2>1, <2>2, <2>3
<1>3. ASSUME NEW c \in Clients, NEW j \in Ids, Promised!Succeed(c, j) PROVE Shut(i)'
  <2>1. /\ States[j] = "live" /\ States' = States /\ Granted' = Granted
        /\ access' = [access EXCEPT ![c] = j]
    BY <1>3 DEF Promised!Succeed, Promised!Forget, Promised!Gets, Promised!accounts, States
  <2>2. j # i
    BY <2>1 DEF Shut
  <2>3. \A d \in Clients : access'[d] # i
    BY <1>0, <2>1, <2>2 DEF Shut
  <2> QED
    BY <1>1, <2>1, <2>3
<1>4. ASSUME NEW c \in Clients, NEW u, Promised!Vouch(c, u) \/ Promised!Fail(c, u)
      PROVE  Shut(i)'
  <2>1. States' = States /\ Granted' = Granted /\ access' = access
    BY <1>4 DEF Promised!Vouch, Promised!Fail, Promised!Forget, Promised!accounts,
      Promised!cookies, States
  <2> QED
    BY <1>1, <2>1 DEF Shut
<1>5. ASSUME NEW c \in Clients, Promised!Leave(c) \/ Promised!Expire(c) PROVE Shut(i)'
  <2>1. States' = States /\ Granted' = Granted
    BY <1>5 DEF Promised!Leave, Promised!Expire, Promised!accounts, Promised!requests, States
  <2>2. PICK a \in {None, access[c]} : access' = [access EXCEPT ![c] = a]
    BY <1>5 DEF Promised!Leave, Promised!Expire, Promised!Gets
  <2>3. a # i
    BY <1>0, <2>2 DEF Shut
  <2>4. \A d \in Clients : access'[d] # i
    BY <1>0, <2>2, <2>3 DEF Shut
  <2> QED
    BY <1>1, <2>1, <2>4
<1>6. ASSUME NEW g \in Granted,
             Promised!LogIn(g) \/ Promised!Renew(g) \/ Promised!Withdraw(g) \/ Promised!Lose(g)
      PROVE  Shut(i)'
  <2>0. \A h \in Granted' : h \in Granted
    BY <1>6 DEF Promised!LogIn, Promised!Renew, Promised!Withdraw, Promised!Lose, Promised!Spend
  <2>1. CASE Promised!LogIn(g) \/ Promised!Renew(g)
    <3>1. States' = States /\ access' = [access EXCEPT ![g.client] = g.account]
          /\ g.kind # "withdrawal"
      BY <2>1 DEF Promised!LogIn, Promised!Renew, Promised!Gets, Promised!accounts, States
    <3>2. g.account # i
      BY <3>1 DEF Shut
    <3>3. \A d \in Clients : access'[d] # i
      BY <1>0, <3>1, <3>2 DEF Shut
    <3> QED
      BY <1>1, <2>0, <3>1, <3>3
  <2>2. CASE Promised!Withdraw(g)
    <3>1. /\ States[g.account] = "live" /\ States' = [States EXCEPT ![g.account] = "withdrawn"]
          /\ access' = access \/ access' = [access EXCEPT ![g.client] = None]
      BY <2>2 DEF Promised!Withdraw, Promised!Gets, Promised!cookies, States
    <3>2. States'[i] = States[i]
      BY <1>0, <3>1 DEF Shut
    <3>3. \A d \in Clients : access'[d] # i
      BY <1>0, <3>1 DEF Shut
    <3> QED
      BY <1>1, <2>0, <3>2, <3>3
  <2>3. CASE Promised!Lose(g)
    <3>1. /\ States' = States
          /\ access' = access \/ access' = [access EXCEPT ![g.client] = None]
      BY <2>3 DEF Promised!Lose, Promised!Gets, Promised!accounts, Promised!cookies, States
    <3>2. \A d \in Clients : access'[d] # i
      BY <1>0, <3>1 DEF Shut
    <3> QED
      BY <1>1, <2>0, <3>1, <3>2
  <2> QED
    BY <1>6, <2>1, <2>2, <2>3
<1>7. ASSUME NEW j \in Ids, NEW u, Promised!Register(j, u) PROVE Shut(i)'
  <2>1. /\ States[j] = "none" /\ States' = [States EXCEPT ![j] = "live"] /\ Granted' = Granted
        /\ access' = access \/ \E c \in Clients : access' = [access EXCEPT ![c] = j]
    BY <1>7 DEF Promised!Register, Promised!Gets, Promised!requests, Promised!cookies, States
  <2>2. j # i
    BY <2>1 DEF Shut
  <2>3. States'[i] = States[i] /\ \A d \in Clients : access'[d] # i
    BY <1>0, <2>1, <2>2 DEF Shut
  <2> QED
    BY <1>1, <2>1, <2>3
<1> QED
  BY <1>2, <1>3, <1>4, <1>5, <1>6, <1>7 DEF Promised!Next

(* Who has withdrawn, holds no access token and has no request under way   *)
(* that brings one is locked out for good, whatever refresh tokens are     *)
(* left: what WithdrawnLockedOut says but for the twenty minutes.          *)
THEOREM LockoutFinal == Spec => [][\A i \in Ids : LockedOut(i) => LockedOut(i)']_vars
<1>1. ASSUME Accounting, Accounting', Naming, [Next]_vars, NEW i \in Ids, LockedOut(i)
      PROVE  LockedOut(i)'
  <2>1. Shut(i)
    BY <1>1, LockedOutShut
  <2>2. CASE Promised!Next
    <3>1. Shut(i)'
      BY <1>1, <2>1, <2>2, ShutStays
    <3>2. LockedOut(i)' <=> Shut(i)'
      BY <1>1, LockedOutShut, PTL
    <3> QED
      BY <3>1, <3>2
  <2>3. CASE UNCHANGED PromisedVars
    <3>1. Shut(i)'
      BY <2>1, <2>3 DEF Shut, PromisedVars
    <3>2. LockedOut(i)' <=> Shut(i)'
      BY <1>1, LockedOutShut, PTL
    <3> QED
      BY <3>1, <3>2
  <2> QED
    BY <1>1, <2>2, <2>3, NextCredentials
<1>2. Accounting /\ Accounting' /\ Naming /\ [Next]_vars =>
        \A i \in Ids : LockedOut(i) => LockedOut(i)'
  BY <1>1
<1> QED
  BY <1>2, AlwaysAccounting, AlwaysNaming, AccountingStep, PTL DEF Spec
=============================================================================

---------------------------- MODULE UserAccounts ----------------------------
(***************************************************************************)
(* Accounts and the cookies that open them: registration, login by         *)
(* password and by a social provider, the profile, withdrawal, and the     *)
(* filter that authenticates every other request.                          *)
(*                                                                         *)
(* An access token is a signed payload that is believed for twenty minutes *)
(* without a look at the database; a refresh token is the value that an    *)
(* account got when it was made and keeps, so that the token is known by   *)
(* the account.  Both live in cookies, which a browser's parallel requests *)
(* share and their responses overwrite in the order they arrive.           *)
(*                                                                         *)
(* A handler is one transaction of a server thread: it loads rows, and its *)
(* commit writes.  users has no unique index on user_id, User no @Version  *)
(* and no @DynamicUpdate: a handler that changes one column writes all.    *)
(* The columns e-mail and name are left out: that their handlers write the *)
(* others is what matters.                                                 *)
(***************************************************************************)
EXTENDS Naturals

CONSTANTS
  Phones,       \* userIds that no provider vouches for
  Socials,      \* userIds that a social provider vouches for
  Passwords, Levels,
  Clients,      \* browsers
  Threads,      \* server threads
  None,         \* null, or no cookie
  Registrations, \* bound: user ids and passwords that registrations bring
  MaxAccounts   \* bound: accounts made in a run

ASSUME AccountsAssumption == MaxAccounts \in Nat /\ None \notin Nat
ASSUME ColumnsAssumption ==
  None \notin Phones \cup Socials \cup Passwords \cup Levels \cup Clients
ASSUME RegistrationsAssumption ==
  Registrations \subseteq (Phones \cup Socials) \X (Passwords \cup {None})

VARIABLES
  lastId,   \* the id given last by the database
  deleted,  \* accounts that are withdrawn
  row,      \* the row of each account
  tx,       \* what each thread is doing
  access,   \* whose access token each browser has, while it is valid
  refresh   \* whose refresh token it has

db      == <<lastId, deleted, row>>
cookies == <<access, refresh>>
vars    == <<db, tx, cookies>>

-----------------------------------------------------------------------------
Ids == 1..MaxAccounts
UserIds == Phones \cup Socials
(* The password is None when it is null or stored as it came: no password  *)
(* matches it then, and it cannot be changed.                              *)
Row == [user : UserIds \cup {None}, level : Levels \cup {None},
        password : Passwords \cup {None}]
NoRow == [user |-> None, level |-> None, password |-> None]

(* A thread's handler: the account it loaded or was authenticated as, img  *)
(* the row it is about to write, fresh when its response brings a new      *)
(* access token.                                                           *)
Tx == [op : {"none", "register", "login", "social", "success",
             "read", "logout", "level", "email", "password", "withdraw"},
       client : Clients \cup {None}, account : Ids \cup {None}, img : Row, fresh : BOOLEAN]
Idle == [op |-> "none", client |-> None, account |-> None, img |-> NoRow, fresh |-> FALSE]

Live == (1..lastId) \ deleted
Accounts(u) == {i \in Live : row[i].user = u}

(* A definition with an underscore in its name is a plausible mistake in   *)
(* the one below it, kept to confirm that some property notices it.        *)

(* findByUserId fails when it finds more than one row.                     *)
Found(i, u) == Accounts(u) = {i}

(* Whom the filter takes client c for: the access token's account, else    *)
(* the account with the refresh token.                                     *)
Authenticated_Signed(c, i) == IF access[c] # None THEN i = access[c] ELSE i = refresh[c]
Authenticated(c, i) ==
  IF access[c] # None THEN i = access[c] ELSE i = refresh[c] /\ i \in Live

Begin(t, op, c, i, img, fresh) ==
  /\ tx[t] = Idle
  /\ tx' = [tx EXCEPT ![t] = [op |-> op, client |-> c, account |-> i, img |-> img,
                              fresh |-> fresh]]
  /\ UNCHANGED <<db, cookies>>

(* The response to t's request sets both cookies, or is lost.              *)
Respond(t, a, r) ==
  /\ tx' = [tx EXCEPT ![t] = Idle]
  /\ \/ /\ access' = [access EXCEPT ![tx[t].client] = a]
        /\ refresh' = [refresh EXCEPT ![tx[t].client] = r]
     \/ UNCHANGED cookies
Login_KeepsRefresh(t, i) ==
  LET c == tx[t].client IN Respond(t, i, IF refresh[c] = None THEN i ELSE refresh[c])
Login(t, i) == Respond(t, i, i)
Reply_Rotates(t) ==
  IF tx[t].fresh THEN Respond(t, tx[t].account, tx[t].account)
  ELSE Respond(t, access[tx[t].client], refresh[tx[t].client])
Reply(t) ==
  LET c == tx[t].client IN
  Respond(t, IF tx[t].fresh THEN tx[t].account ELSE access[c], refresh[c])

-----------------------------------------------------------------------------
Init ==
  /\ lastId = 0 /\ deleted = {}
  /\ row = [i \in Ids |-> NoRow]
  /\ tx = [t \in Threads |-> Idle]
  /\ access = [c \in Clients |-> None] /\ refresh = [c \in Clients |-> None]

(* POST register.  Only the login type PHONE asks whether somebody has the *)
(* user id, and only its password is encoded.  The client says which login *)
(* type it is and nothing checks the user id against it.                   *)
Register_Unchecked(t, c, u, p) ==
  Begin(t, "register", c, None, [NoRow EXCEPT !.user = u, !.password = p], FALSE)
Register(t, c, u, p) ==
  /\ p # None => Accounts(u) = {}
  /\ Begin(t, "register", c, None, [NoRow EXCEPT !.user = u, !.password = p], FALSE)

Insert_NotSaved(img) == lastId < MaxAccounts /\ UNCHANGED db
Insert(img) ==
  /\ lastId < MaxAccounts /\ lastId' = lastId + 1
  /\ row' = [row EXCEPT ![lastId + 1] = img]
  /\ UNCHANGED deleted

CommitRegister(t) ==
  /\ tx[t].op = "register" /\ Insert(tx[t].img) /\ Login(t, lastId + 1)

(* POST login.                                                             *)
Auth(t, c, u, p) == \E i \in Live :
  /\ Found(i, u) /\ row[i].password = p
  /\ Begin(t, "login", c, i, NoRow, FALSE)

Token(t) == tx[t].op = "login" /\ Login(t, tx[t].account) /\ UNCHANGED db

(* A login by a social provider: loadUser finds the account, whose name it *)
(* brings up to date, or makes one; then the success handler finds it.     *)
LoadUser_NewEntity(t, c, u) == \E i \in Live \cup {None} :
  /\ Found(i, u) \/ (i = None /\ Accounts(u) = {})
  /\ Begin(t, "social", c, i, [NoRow EXCEPT !.user = u], FALSE)
LoadUser(t, c, u) ==
  \/ \E i \in Live : Found(i, u) /\ Begin(t, "social", c, i, row[i], FALSE)
  \/ /\ Accounts(u) = {}
     /\ Begin(t, "social", c, None, [NoRow EXCEPT !.user = u], FALSE)

CommitLoadUser(t) ==
  LET i == tx[t].account IN
  /\ tx[t].op = "social"
  /\ \/ i = None /\ Insert(tx[t].img)
     \/ i \in Live /\ row' = [row EXCEPT ![i] = tx[t].img] /\ UNCHANGED <<lastId, deleted>>
     \/ i # None /\ UNCHANGED db  \* the name is as it was
  /\ tx' = [tx EXCEPT ![t].op = "success", ![t].img = [NoRow EXCEPT !.user = tx[t].img.user],
                      ![t].account = None]
  /\ UNCHANGED cookies

OnAuthenticationSuccess(t) ==
  /\ tx[t].op = "success" /\ UNCHANGED db
  /\ \E i \in Live : Found(i, tx[t].img.user) /\ Login(t, i)

(* Requests that pass the filter.  Those on the account load its row.      *)
Request(t, c, i, op, img) ==
  Authenticated(c, i) /\ Begin(t, op, c, i, img, access[c] = None)

(* Any other request, and one that is refused after the filter.  With a    *)
(* valid access token it changes nothing here.                             *)
Read(t, c, i) == access[c] = None /\ Request(t, c, i, "read", NoRow)

(* The responses to these two delete both cookies, a new one too.          *)
Logout(t, c) ==
  /\ \E i \in Ids : Authenticated(c, i)
  /\ Begin(t, "logout", c, None, NoRow, FALSE)

WithdrawUser(t, c, i) ==
  i \in Live /\ Authenticated(c, i) /\ Begin(t, "withdraw", c, i, NoRow, FALSE)

(* The level can be set only once.                                         *)
UpdateDigitalLevel(t, c, i, l) ==
  /\ i \in Live /\ row[i].level = None
  /\ Request(t, c, i, "level", [row[i] EXCEPT !.level = l])

UpdateEmail(t, c, i) == i \in Live /\ Request(t, c, i, "email", row[i])

UpdatePassword(t, c, i, old, new) ==
  /\ i \in Live /\ row[i].password = old /\ new # old
  /\ Request(t, c, i, "password", [row[i] EXCEPT !.password = new])

(* The ends of these requests.                                             *)
CommitUpdate(t) ==
  /\ tx[t].op \in {"level", "email", "password"} /\ tx[t].account \in Live
  /\ row' = [row EXCEPT ![tx[t].account] = tx[t].img]
  /\ UNCHANGED <<lastId, deleted>> /\ Reply(t)

CommitWithdraw(t) ==
  /\ tx[t].op = "withdraw" /\ tx[t].account \in Live
  /\ deleted' = deleted \cup {tx[t].account}
  /\ row' = [row EXCEPT ![tx[t].account] = NoRow]
  /\ UNCHANGED lastId /\ Respond(t, None, None)

DeleteToken(t) == tx[t].op = "logout" /\ UNCHANGED db /\ Respond(t, None, None)
EndRead(t)     == tx[t].op = "read" /\ UNCHANGED db /\ Reply(t)

(* Nothing is written: the row is gone or not unique, rows of other tables *)
(* refer to the account that withdraws, or the database fails.  By then    *)
(* the cookies of the one who withdraws are deleted.                       *)
Fail(t) ==
  /\ UNCHANGED db
  /\ \/ tx[t].op = "withdraw" /\ Respond(t, None, None)
     \/ tx[t].op \in {"level", "email", "password"} /\ Reply(t)
     \/ /\ tx[t].op \in {"register", "login", "social", "success"}
        /\ tx' = [tx EXCEPT ![t] = Idle] /\ UNCHANGED cookies

(* The access token's twenty minutes are over; the refresh token's cookie  *)
(* has had its seven days.                                                 *)
AccessExpires(c) ==
  /\ access[c] # None /\ access' = [access EXCEPT ![c] = None]
  /\ UNCHANGED <<db, tx, refresh>>
RefreshExpires(c) ==
  /\ refresh[c] # None /\ refresh' = [refresh EXCEPT ![c] = None]
  /\ UNCHANGED <<db, tx, access>>

Call(t) == \E c \in Clients :
  \/ \E r \in Registrations : Register(t, c, r[1], r[2])
  \/ \E u \in UserIds, p \in Passwords : Auth(t, c, u, p)
  \/ Logout(t, c)
  \/ \E u \in Socials : LoadUser(t, c, u)
  \/ \E i \in Ids :
       \/ Read(t, c, i) \/ UpdateEmail(t, c, i) \/ WithdrawUser(t, c, i)
       \/ \E l \in Levels : UpdateDigitalLevel(t, c, i, l)
       \/ \E old, new \in Passwords : UpdatePassword(t, c, i, old, new)

Step(t) ==
  \/ CommitRegister(t) \/ Token(t) \/ CommitLoadUser(t) \/ OnAuthenticationSuccess(t)
  \/ CommitUpdate(t) \/ CommitWithdraw(t) \/ DeleteToken(t) \/ EndRead(t) \/ Fail(t)

Next ==
  \/ \E t \in Threads : Call(t) \/ Step(t)
  \/ \E c \in Clients : AccessExpires(c) \/ RefreshExpires(c)

Spec == Init /\ [][Next]_vars

(* The server's threads run, and twenty minutes pass.                      *)
Liveness ==
  /\ \A t \in Threads : WF_vars(Step(t))
  /\ \A c \in Clients : WF_vars(AccessExpires(c))
FairSpec == Spec /\ Liveness

-----------------------------------------------------------------------------
(* The state has the shape the columns and the cookies give it; a cookie   *)
(* names an account that was made.                                         *)
TypeOK ==
  /\ lastId \in 0..MaxAccounts /\ deleted \subseteq 1..lastId
  /\ row \in [Ids -> Row] /\ tx \in [Threads -> Tx]
  /\ access \in [Clients -> (1..lastId) \cup {None}]
  /\ refresh \in [Clients -> (1..lastId) \cup {None}]

(* A userId that has an account, and for which no handler under way is     *)
(* about to make one, gets no other account as long as this one is not     *)
(* withdrawn, but for a registration that does not ask: one whose login    *)
(* type is not PHONE (UserService.register).                               *)
Taken(u) ==
  /\ Accounts(u) # {}
  /\ \A t \in Threads :
       tx[t].op \in {"register", "social"} /\ tx[t].account = None => tx[t].img.user # u

Unasked(u) == \E t \in Threads :
  /\ tx[t] = Idle /\ tx'[t].op = "register"
  /\ tx'[t].img.user = u /\ tx'[t].img.password = None

UserIdSettles ==
  [][\A u \in UserIds : Taken(u) =>
       \/ Accounts(u)' = {}
       \/ Accounts(u)' \subseteq Accounts(u) /\ (Taken(u)' \/ Unasked(u))]_vars

(* An account whose level is set and which every handler under way has     *)
(* loaded as it is keeps its level, and keeps its password but for a       *)
(* handler that changes the password.  (A handler that loaded the row      *)
(* before a change takes the change back: it writes every column.)         *)
Current(i) == i \in Live /\ row[i].level # None /\ \A t \in Threads :
  /\ tx[t].account = i /\ tx[t].op \in {"social", "level", "email", "password"} =>
       tx[t].img.level = row[i].level
  /\ tx[t].account = i /\ tx[t].op \in {"social", "level", "email"} =>
       tx[t].img.password = row[i].password

PasswordChanged(i) == \E t \in Threads :
  tx[t].op = "password" /\ tx[t].account = i /\ tx'[t] = Idle

AccountSettles ==
  [][\A i \in Ids : Current(i) /\ i \in Live' =>
       /\ row'[i].level = row[i].level
       /\ (Current(i)' /\ row'[i].password = row[i].password) \/ PasswordChanged(i)]_vars

(* The tokens of a browser stay those of one account as long as the        *)
(* requests it has under way are of this account or bring both tokens.     *)
SameAccount(c) == access[c] \in {refresh[c], None} \/ refresh[c] = None

OneSession(c) ==
  /\ SameAccount(c)
  /\ \A t \in Threads : tx[t].client = c /\ tx[t].fresh => tx[t].account = refresh[c]

SessionSettles ==
  [][\A c \in Clients : OneSession(c) => SameAccount(c)']_vars

(* Whoever has withdrawn is locked out for good once the access token has  *)
(* expired, whatever was under way: no token is renewed without a look at  *)
(* the account.                                                            *)
WithdrawnLockedOut ==
  \A i \in Ids : [](i \in deleted => <>[](\A c \in Clients : access[c] # i))

-----------------------------------------------------------------------------
(* Overlapping requests, failures and lost responses: what Credentials     *)
(* promises of accounts and cookies is kept.                               *)
Existence(i) == IF i \in Live THEN "live" ELSE IF i \in deleted THEN "withdrawn" ELSE "none"
Kind(w) ==
  IF w.op = "login" THEN "login" ELSE IF w.op = "withdraw" THEN "withdrawal"
  ELSE IF w.fresh THEN "renewal" ELSE "none"
Granted ==
  {[client |-> tx[t].client, account |-> tx[t].account, kind |-> Kind(tx[t])] :
     t \in {s \in Threads : Kind(tx[s]) # "none"}}

Vouched ==
  {<<tx[t].client, tx[t].img.user>> : t \in {s \in Threads : tx[s].op \in {"social", "success"}}}

Promised == INSTANCE Credentials WITH
  state <- [i \in Ids |-> Existence(i)], owner <- [i \in Ids |-> row[i].user],
  keyed <- {i \in Live : row[i].password # None},
  granted <- Granted, vouched <- Vouched

CredentialsSpec == Promised!Spec
=============================================================================

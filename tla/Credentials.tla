---------------------------- MODULE Credentials ----------------------------
(***************************************************************************)
(* What the accounts promise of who is let in, however many requests       *)
(* overlap, fail or lose their response: a token is that of an account     *)
(* whose user id or refresh token the browser showed while the account was *)
(* there, and no other had the user id; a login that no provider vouched   *)
(* for is to an account with a password; the refresh token comes with a    *)
(* login or a registration alone; an account keeps its user id, keeps      *)
(* having a password or having none, goes only on the request of a browser *)
(* that was in it, and does not come back.  Which password is shown is not *)
(* looked at.                                                              *)
(***************************************************************************)
CONSTANTS
  Ids,              \* accounts
  Phones, Socials,  \* user ids, and those that a provider vouches for
  Clients, None

VARIABLES
  state,   \* of each account: "none", "live" or "withdrawn"
  owner,   \* its user id
  keyed,   \* accounts with a password
  granted, \* what the requests under way may do to accounts and cookies
  vouched, \* logins under way, by browser and user id, that a provider vouched for
  access,  \* whose access token each browser has, while it is valid
  refresh  \* whose refresh token it has

accounts == <<state, owner, keyed>>
cookies  == <<access, refresh>>
requests == <<granted, vouched>>
vars     == <<accounts, requests, cookies>>

Init ==
  /\ state = [i \in Ids |-> "none"] /\ owner = [i \in Ids |-> None]
  /\ keyed = {} /\ granted = {} /\ vouched = {}
  /\ access = [c \in Clients |-> None] /\ refresh = [c \in Clients |-> None]

-----------------------------------------------------------------------------
(* No other account has the same user id.                                  *)
Sole(i) == \A j \in Ids : state[j] = "live" /\ owner[j] = owner[i] => j = i

(* A request is taken up that shows the user id of an account with a       *)
(* password, the refresh token when the access token has expired, or       *)
(* either token.                                                           *)
Shown(c, i) == IF access[c] # None THEN i = access[c] ELSE i = refresh[c]

Entitled(g) ==
  \/ g.kind = "login" /\ g.account \in keyed /\ Sole(g.account)
  \/ g.kind = "renewal" /\ access[g.client] = None /\ refresh[g.client] = g.account
  \/ g.kind = "withdrawal" /\ Shown(g.client, g.account)

Grant(c, i) ==
  /\ state[i] = "live"
  /\ \E k \in {"login", "renewal", "withdrawal"} :
       LET g == [client |-> c, account |-> i, kind |-> k] IN
       Entitled(g) /\ granted' = granted \cup {g}
  /\ UNCHANGED <<accounts, vouched, cookies>>

Vouch(c, u) ==
  vouched' = vouched \cup {<<c, u>>} /\ UNCHANGED <<accounts, granted, cookies>>

(* Two requests with the same grant may be under way.                      *)
Spend(g) == granted' \in {granted, granted \ {g}} /\ UNCHANGED vouched

(* Which tokens the browser gets with the response.                        *)
Gets(c, a, r) ==
  access' = [access EXCEPT ![c] = a] /\ refresh' = [refresh EXCEPT ![c] = r]

LogIn(g) ==
  /\ g.kind = "login" /\ Gets(g.client, g.account, g.account)
  /\ Spend(g) /\ UNCHANGED accounts

Renew(g) ==
  /\ g.kind = "renewal" /\ Gets(g.client, g.account, refresh[g.client])
  /\ Spend(g) /\ UNCHANGED accounts

Withdraw(g) ==
  /\ g.kind = "withdrawal" /\ state[g.account] = "live"
  /\ state' = [state EXCEPT ![g.account] = "withdrawn"]
  /\ owner' = [owner EXCEPT ![g.account] = None] /\ keyed' = keyed \ {g.account}
  /\ Spend(g) /\ (UNCHANGED cookies \/ Gets(g.client, None, None))

(* The request fails or its response is lost.                              *)
Lose(g) ==
  /\ Spend(g) /\ UNCHANGED accounts
  /\ UNCHANGED cookies \/ (g.kind = "withdrawal" /\ Gets(g.client, None, None))

-----------------------------------------------------------------------------
(* A new account, of a registration or of the first login by a provider;   *)
(* that there is one of its user id is not promised.                       *)
Register(i, u) ==
  /\ state[i] = "none" /\ state' = [state EXCEPT ![i] = "live"]
  /\ owner' = [owner EXCEPT ![i] = u] /\ keyed' \in {keyed, keyed \cup {i}}
  /\ UNCHANGED cookies \/ \E c \in Clients : Gets(c, i, i)
  /\ UNCHANGED requests

(* The response to a login that a provider vouched for brings the tokens   *)
(* of a live account of the user id.                                       *)
Forget(c, u) == vouched' \in {vouched, vouched \ {<<c, u>>}} /\ UNCHANGED <<accounts, granted>>

Succeed(c, i) ==
  /\ state[i] = "live" /\ Sole(i) /\ <<c, owner[i]>> \in vouched
  /\ Gets(c, i, i) /\ Forget(c, owner[i])

Fail(c, u) == <<c, u>> \in vouched /\ Forget(c, u) /\ UNCHANGED cookies

Leave(c) == Gets(c, None, None) /\ UNCHANGED <<accounts, requests>>

Expire(c) ==
  /\ Gets(c, None, refresh[c]) \/ Gets(c, access[c], None)
  /\ UNCHANGED <<accounts, requests>>

Next ==
  \/ \E c \in Clients :
       \/ \E i \in Ids : Grant(c, i) \/ Succeed(c, i)
       \/ \E u \in Socials : Vouch(c, u) \/ Fail(c, u)
       \/ Leave(c) \/ Expire(c)
  \/ \E g \in granted : LogIn(g) \/ Renew(g) \/ Withdraw(g) \/ Lose(g)
  \/ \E i \in Ids, u \in Phones \cup Socials : Register(i, u)

Spec == Init /\ [][Next]_vars
=============================================================================

---------------------------- MODULE RefreshTokens ----------------------------
(* apps/server/modules/auth: login, refresh and logout over the table         *)
(* RefreshToken and the browsers' refresh_token cookies. A request runs one   *)
(* statement at a time; rotateRefreshToken is a transaction, whose DELETE     *)
(* holds the row until the transaction ends, and another DELETE of that row   *)
(* waits for it. Register is login with another check before it. The hash of  *)
(* a token stands for the token, and a JWT carries its user and expiry.       *)
EXTENDS Naturals, FiniteSets

CONSTANTS
  Browsers, Requests, Tokens, NoToken,
  Lifetime,   \* refreshTokenMaxAge, the lifetime of the JWT and of the row
  MaxTime,    \* bound on the clock
  MaxFaults   \* bound: requests that fail and answers that are lost

ASSUME NoTokenIsNone == NoToken \notin Tokens
ASSUME TimesAssumption == Lifetime \in Nat \ {0} /\ MaxTime \in Nat /\ MaxFaults \in Nat

VARIABLES
  clock,
  stored,    \* the committed rows of RefreshToken
  issued,    \* the tokens that have been generated
  expires,   \* expires[t]: the expiry of JWT and row of t
  origin,    \* origin[t]: the login token that t descends from
  used,      \* history: the tokens that have ever been stored
  request,   \* request[r]: what request r is about to do
  cookie,    \* cookie[b]: the refresh_token of browser b
  faults

table == <<stored, used>>
vars  == <<clock, stored, issued, expires, origin, used, request, cookie, faults>>

(* token: the cookie that came with the request; next: the token generated   *)
(* for it, which the answer of a successful one sets.                        *)
Idle == [stage |-> "idle"]
Request ==
  [stage: {"save", "read", "delete", "create", "logout", "accept", "refuse", "clear"},
   browser: Browsers, token: Tokens \cup {NoToken}, next: Tokens \cup {NoToken}]

Init ==
  /\ clock = 0
  /\ stored = {} /\ issued = {} /\ used = {}
  /\ expires = [t \in Tokens |-> 0]
  /\ origin = [t \in Tokens |-> t]
  /\ request = [r \in Requests |-> Idle]
  /\ cookie = [b \in Browsers |-> NoToken]
  /\ faults = 0

Become(r, stage) == request' = [request EXCEPT ![r].stage = stage]

(* generateRefreshToken: randomUUID makes every token a new one.             *)
Generate(next, from) ==
  /\ next \notin issued
  /\ issued' = issued \cup {next}
  /\ expires' = [expires EXCEPT ![next] = clock + Lifetime]
  /\ origin' = [origin EXCEPT ![next] = IF from = NoToken THEN next ELSE origin[from]]

------------------------------------------------------------------------------
(* postLoginHandler, after the password was verified. *)
LoginRequest(r, b) ==
  \E next \in Tokens :
    /\ request[r] = Idle
    /\ Generate(next, NoToken)
    /\ request' = [request EXCEPT ![r] = [stage |-> "save", browser |-> b,
                                          token |-> NoToken, next |-> next]]
    /\ UNCHANGED <<clock, table, cookie, faults>>

FaultySaveRefreshToken(r) ==                 \* answers before the row is there
  /\ request[r].stage = "save"
  /\ Become(r, "accept")
  /\ UNCHANGED <<clock, table, issued, expires, origin, cookie, faults>>
SaveRefreshToken(r) ==
  /\ request[r].stage = "save"
  /\ stored' = stored \cup {request[r].next}
  /\ used' = used \cup {request[r].next}
  /\ Become(r, "accept")
  /\ UNCHANGED <<clock, issued, expires, origin, cookie, faults>>

(* refreshAccessTokenService: verify the JWT, generate the next token.       *)
RefreshRequest(r, b) ==
  \E next \in Tokens :
    /\ request[r] = Idle
    /\ cookie[b] # NoToken /\ clock < expires[cookie[b]]
    /\ Generate(next, cookie[b])
    /\ request' = [request EXCEPT ![r] = [stage |-> "read", browser |-> b,
                                          token |-> cookie[b], next |-> next]]
    /\ UNCHANGED <<clock, table, cookie, faults>>

(* rotateRefreshToken. The token of another user is not among those a JWT     *)
(* can name.                                                                 *)
Valid(t) == t \in stored /\ clock < expires[t]

FindToken(r) ==
  /\ request[r].stage = "read"
  /\ Become(r, IF Valid(request[r].token) THEN "delete" ELSE "refuse")
  /\ UNCHANGED <<clock, table, issued, expires, origin, cookie, faults>>

(* The row is free unless a transaction has deleted it and not yet ended.    *)
RowFree(t) == \A r \in Requests : request[r].stage = "create" => request[r].token # t

FaultyDeleteToken(r) ==                      \* does not look at revoked.count
  /\ request[r].stage = "delete"
  /\ RowFree(request[r].token)
  /\ Become(r, "create")
  /\ UNCHANGED <<clock, table, issued, expires, origin, cookie, faults>>
DeleteToken(r) ==
  /\ request[r].stage = "delete"
  /\ RowFree(request[r].token)
  /\ Become(r, IF Valid(request[r].token) THEN "create" ELSE "refuse")
  /\ UNCHANGED <<clock, table, issued, expires, origin, cookie, faults>>

(* The INSERT and the commit, which makes both changes visible.              *)
FaultyCreateToken(r) ==                      \* commits the DELETE only
  /\ request[r].stage = "create"
  /\ stored' = stored \ {request[r].token}
  /\ used' = used \cup {request[r].next}
  /\ Become(r, "accept")
  /\ UNCHANGED <<clock, issued, expires, origin, cookie, faults>>
CreateToken(r) ==
  /\ request[r].stage = "create"
  /\ stored' = (stored \ {request[r].token}) \cup {request[r].next}
  /\ used' = used \cup {request[r].next}
  /\ Become(r, "accept")
  /\ UNCHANGED <<clock, issued, expires, origin, cookie, faults>>

(* postLogoutHandler. *)
LogoutRequest(r, b) ==
  /\ request[r] = Idle
  /\ request' = [request EXCEPT ![r] =
       [stage |-> IF cookie[b] = NoToken THEN "clear" ELSE "logout",
        browser |-> b, token |-> cookie[b], next |-> NoToken]]
  /\ UNCHANGED <<clock, table, issued, expires, origin, cookie, faults>>

RevokeRefreshToken(r) ==
  /\ request[r].stage = "logout"
  /\ RowFree(request[r].token)
  /\ stored' = stored \ {request[r].token}
  /\ Become(r, "clear")
  /\ UNCHANGED <<clock, issued, expires, origin, used, cookie, faults>>

------------------------------------------------------------------------------
(* The answer reaches the browser: Set-Cookie, clearCookie, or an error that  *)
(* leaves the cookie alone.                                                  *)
Answered(r) == request[r].stage \in {"accept", "refuse", "clear"}

Deliver(r) ==
  LET me == request[r] IN
  /\ Answered(r)
  /\ cookie' = CASE me.stage = "accept" -> [cookie EXCEPT ![me.browser] = me.next]
                 [] me.stage = "clear"  -> [cookie EXCEPT ![me.browser] = NoToken]
                 [] OTHER               -> cookie
  /\ request' = [request EXCEPT ![r] = Idle]
  /\ UNCHANGED <<clock, table, issued, expires, origin, faults>>

(* A statement fails or the server dies before the commit, or the answer is  *)
(* lost: the cookie stays.                                                   *)
Fail(r) ==
  /\ request[r] # Idle
  /\ faults < MaxFaults
  /\ faults' = faults + 1
  /\ request' = [request EXCEPT ![r] = Idle]
  /\ UNCHANGED <<clock, table, issued, expires, origin, cookie>>

PassTime ==
  /\ clock < MaxTime
  /\ clock' = clock + 1
  /\ UNCHANGED <<table, issued, expires, origin, request, cookie, faults>>

Serve(r) ==
  \/ SaveRefreshToken(r) \/ FindToken(r) \/ DeleteToken(r) \/ CreateToken(r)
  \/ RevokeRefreshToken(r) \/ Deliver(r)

Next ==
  \/ PassTime
  \/ \E r \in Requests :
       \/ Serve(r) \/ Fail(r)
       \/ \E b \in Browsers : LoginRequest(r, b) \/ RefreshRequest(r, b) \/ LogoutRequest(r, b)

Spec == Init /\ [][Next]_vars
------------------------------------------------------------------------------
(* Every variable has its type, and what is stored was generated. *)
TypeOK ==
  /\ clock \in Nat
  /\ issued \subseteq Tokens /\ used \subseteq issued /\ stored \subseteq used
  /\ expires \in [Tokens -> Nat] /\ origin \in [Tokens -> Tokens]
  /\ request \in [Requests -> {Idle} \cup Request]
  /\ cookie \in [Browsers -> {NoToken} \cup used]
  /\ faults \in 0 .. MaxFaults

(* rotateRefreshToken: however many refreshes and logouts race with the same  *)
(* or with older cookies, a login has at most one token that works.          *)
OneTokenPerLogin ==
  \A t, u \in stored : origin[t] = origin[u] => t = u

(* rotateRefreshToken, revokeRefreshToken: between the revocation that a      *)
(* logout or a rotation commits and any later time, nothing brings a login    *)
(* that has no token left back to life.                                      *)
HasToken(login) == \E t \in stored : origin[t] = login
Ended(login)    == login \in used /\ ~HasToken(login)
EndedLoginsStayEnded == [][\A login \in Tokens : Ended(login) => Ended(login)']_vars

(* setRefreshTokenCookie: as long as every request is answered, a browser     *)
(* that has none in flight holds a cookie that works or has expired, whatever *)
(* the order in which the answers came back. (A lost answer strands it: the  *)
(* token it replaced is gone.)                                               *)
CookieWorks ==
  \A b \in Browsers :
    faults = 0 /\ (\A r \in Requests : request[r] # Idle => request[r].browser # b) =>
      cookie[b] = NoToken \/ cookie[b] \in stored \/ expires[cookie[b]] <= clock

(* Every interleaving of the statements is an interleaving of whole logins,  *)
(* rotations and logouts.                                                    *)
CurrentToken(login) ==
  IF HasToken(login) THEN CHOOSE t \in stored : origin[t] = login ELSE NoToken
Sessions == INSTANCE LoginSessions
              WITH current <- [login \in Tokens |-> CurrentToken(login)]
ImplementsSessions == Sessions!Spec
==============================================================================

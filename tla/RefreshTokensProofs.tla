------------------------- MODULE RefreshTokensProofs -------------------------
(* For any number of browsers, requests in flight, tokens and faults: a login *)
(* has at most one token that works, it does not come back once it has none, *)
(* the statements of the requests implement LoginSessions, and the cookie of *)
(* a browser that waits for nothing works unless an answer was lost.         *)
EXTENDS RefreshTokens, TLAPS

Pending(r) == request[r].stage \in {"save", "read", "delete", "create"}
Rotating(r) == request[r].stage \in {"read", "delete", "create"}

(* What a request in flight relies on: its new token is known to nobody, and *)
(* descends from the login of the cookie; a DELETE that has found its row    *)
(* keeps it.                                                                 *)
RequestOK(r) ==
  /\ Pending(r) => request[r].next \in issued \ used
  /\ request[r].stage = "save" => origin[request[r].next] = request[r].next
  /\ Rotating(r) => /\ request[r].token \in used
                    /\ origin[request[r].next] = origin[request[r].token]
  /\ request[r].stage = "create" => request[r].token \in stored
  /\ request[r].stage = "accept" => request[r].next \in used

NextTokensDiffer ==
  \A r, q \in Requests : r # q /\ Pending(r) /\ Pending(q) => request[r].next # request[q].next

RowLockHeldOnce ==
  \A r, q \in Requests :
    r # q /\ request[r].stage = "create" /\ request[q].stage = "create"
      => request[r].token # request[q].token

OriginsUsed == \A t \in used : origin[t] \in used

(* Inductive. *)
TokenInv ==
  /\ TypeOK
  /\ \A r \in Requests : RequestOK(r)
  /\ NextTokensDiffer
  /\ RowLockHeldOnce
  /\ OriginsUsed
  /\ OneTokenPerLogin

------------------------------------------------------------------------------
LEMMA RequestType ==
  ASSUME TypeOK, NEW r \in Requests, request[r].stage # "idle"
  PROVE  /\ request[r] \in Request
         /\ request[r].browser \in Browsers
         /\ request[r].token \in Tokens \cup {NoToken}
         /\ request[r].next \in Tokens \cup {NoToken}
<1>1. request[r] \in Request
  BY DEF TypeOK, Idle
<1> QED BY <1>1 DEF Request

(* A step of request r keeps TokenInv when it takes nothing from the others  *)
(* and leaves r itself in order.                                             *)
LEMMA StepKeeps ==
  ASSUME TokenInv, NEW r \in Requests, NEW new \in {Idle} \cup Request,
         request' = [request EXCEPT ![r] = new],
         TypeOK',
         used \subseteq used', issued \subseteq issued',
         \A t \in issued : origin'[t] = origin[t],
         \A q \in Requests : q # r /\ Pending(q) => request[q].next \notin used',
         \A q \in Requests : q # r /\ request[q].stage = "create" => request[q].token \in stored',
         RequestOK(r)',
         \A q \in Requests : q # r /\ Pending(q) /\ Pending(r)' => request[q].next # new.next,
         \A q \in Requests : q # r /\ request[q].stage = "create" /\ new.stage = "create"
            => request[q].token # new.token,
         OriginsUsed', OneTokenPerLogin'
  PROVE  TokenInv'
<1>1. /\ request'[r] = new
      /\ \A q \in Requests : q # r => request'[q] = request[q]
  BY DEF TokenInv, TypeOK
<1>2. ASSUME NEW q \in Requests, q # r PROVE RequestOK(q)'
  <2>1. RequestOK(q) /\ request'[q] = request[q]
    BY <1>1, <1>2 DEF TokenInv
  <2>2. used \subseteq issued
    BY DEF TokenInv, TypeOK
  <2>3. /\ Pending(q)' <=> Pending(q)
        /\ Rotating(q)' <=> Rotating(q)
        /\ Rotating(q) => Pending(q)
    BY <2>1 DEF Pending, Rotating
  <2>4. Pending(q) => /\ request[q].next \in issued' \ used'
                      /\ origin'[request[q].next] = origin[request[q].next]
    BY <1>2, <2>1 DEF RequestOK
  <2>5. Rotating(q) => /\ request[q].token \in used'
                       /\ origin'[request[q].token] = origin[request[q].token]
    BY <2>1, <2>2 DEF RequestOK
  <2>6. request[q].stage = "save" => Pending(q)
    BY DEF Pending
  <2>7. request[q].stage = "create" => request[q].token \in stored'
    BY <1>2
  <2> QED BY <2>1, <2>3, <2>4, <2>5, <2>6, <2>7 DEF RequestOK
<1>3. NextTokensDiffer'
  <2> SUFFICES ASSUME NEW p \in Requests, NEW q \in Requests, p # q, Pending(p)', Pending(q)'
               PROVE  request'[p].next # request'[q].next
    BY DEF NextTokensDiffer
  <2>1. \A x \in Requests : x # r /\ Pending(x)' => Pending(x)
    BY <1>1 DEF Pending
  <2>2. CASE p = r
    BY <1>1, <2>1, <2>2
  <2>3. CASE q = r
    BY <1>1, <2>1, <2>3
  <2>4. CASE p # r /\ q # r
    BY <1>1, <2>1, <2>4 DEF TokenInv, NextTokensDiffer
  <2> QED BY <2>2, <2>3, <2>4
<1>4. RowLockHeldOnce'
  <2> SUFFICES ASSUME NEW p \in Requests, NEW q \in Requests, p # q,
                      request'[p].stage = "create", request'[q].stage = "create"
               PROVE  request'[p].token # request'[q].token
    BY DEF RowLockHeldOnce
  <2>2. CASE p = r
    BY <1>1, <2>2
  <2>3. CASE q = r
    BY <1>1, <2>3
  <2>4. CASE p # r /\ q # r
    BY <1>1, <2>4 DEF TokenInv, RowLockHeldOnce
  <2> QED BY <2>2, <2>3, <2>4
<1> QED BY <1>2, <1>3, <1>4 DEF TokenInv

(* A step that leaves the tokens alone. *)
LEMMA MoveKeeps ==
  ASSUME TokenInv, NEW r \in Requests, NEW new \in {Idle} \cup Request,
         request' = [request EXCEPT ![r] = new],
         UNCHANGED <<table, issued, expires, origin>>,
         clock' = clock,
         cookie' \in [Browsers -> {NoToken} \cup used],
         faults' \in 0 .. MaxFaults,
         RequestOK(r)',
         Pending(r)' => Pending(r) /\ new.next = request[r].next,
         new.stage = "create" => RowFree(new.token)
  PROVE  TokenInv'
<1>1. TypeOK'
  BY DEF TokenInv, TypeOK, table
<1>2. OriginsUsed' /\ OneTokenPerLogin'
  BY DEF TokenInv, OriginsUsed, OneTokenPerLogin, table
<1>3. \A q \in Requests : RequestOK(q) /\ (q # r /\ Pending(q) /\ Pending(r) => request[q].next # request[r].next)
  BY DEF TokenInv, NextTokensDiffer
<1>4. \A q \in Requests : Pending(q) => request[q].next \notin used'
  BY <1>3 DEF RequestOK, table
<1>5. \A q \in Requests : request[q].stage = "create" => request[q].token \in stored'
  BY <1>3 DEF RequestOK, table
<1>6. \A q \in Requests : q # r /\ Pending(q) /\ Pending(r)' => request[q].next # new.next
  BY <1>3
<1>7. \A q \in Requests : request[q].stage = "create" /\ new.stage = "create" => request[q].token # new.token
  BY DEF RowFree
<1>8. used \subseteq used' /\ issued \subseteq issued' /\ \A t \in issued : origin'[t] = origin[t]
  BY DEF table
<1> QED BY <1>1, <1>2, <1>4, <1>5, <1>6, <1>7, <1>8, StepKeeps

------------------------------------------------------------------------------
(* Each action keeps TokenInv *)

(* LoginRequest and RefreshRequest: the new token is nobody else's.          *)
LEMMA GenerateKeeps ==
  ASSUME TokenInv, NEW r \in Requests, NEW b \in Browsers, NEW next \in Tokens,
         NEW from \in Tokens \cup {NoToken}, from # NoToken => from \in used,
         NEW stage \in {"save", "read"},
         stage = "save" <=> from = NoToken,
         Generate(next, from),
         request' = [request EXCEPT ![r] = [stage |-> stage, browser |-> b,
                                            token |-> from, next |-> next]],
         UNCHANGED <<clock, table, cookie, faults>>
  PROVE  TokenInv'
<1> DEFINE new == [stage |-> stage, browser |-> b, token |-> from, next |-> next]
<1>1. new \in Request
  BY DEF Request
<1>2. /\ used' = used /\ stored' = stored /\ used \subseteq issued /\ stored \subseteq used
      /\ next \notin issued /\ issued' = issued \cup {next}
      /\ issued \subseteq Tokens /\ origin \in [Tokens -> Tokens]
      /\ origin' = [origin EXCEPT ![next] = IF from = NoToken THEN next ELSE origin[from]]
  BY DEF TokenInv, TypeOK, Generate, table
<1>3. \A t \in issued : origin'[t] = origin[t]
  BY <1>2
<1>4. origin'[next] = (IF from = NoToken THEN next ELSE origin[from])
  BY <1>2
<1>5. TypeOK'
  <2>1. request' \in [Requests -> {Idle} \cup Request]
    BY <1>1 DEF TokenInv, TypeOK
  <2>2. expires' \in [Tokens -> Nat]
    BY TimesAssumption DEF TokenInv, TypeOK, Generate
  <2>3. origin' \in [Tokens -> Tokens]
    BY <1>2
  <2> QED BY <1>2, <2>1, <2>2, <2>3 DEF TokenInv, TypeOK
<1>6. request'[r] = new
  BY DEF TokenInv, TypeOK
<1>7. RequestOK(r)'
  BY <1>2, <1>3, <1>4, <1>6 DEF RequestOK, Pending, Rotating
<1>8. \A q \in Requests : Pending(q) => request[q].next \in issued \ used
  BY DEF TokenInv, RequestOK
<1>9. \A q \in Requests : request[q].stage = "create" => request[q].token \in stored
  BY DEF TokenInv, RequestOK
<1>10. OriginsUsed' /\ OneTokenPerLogin'
  BY <1>2, <1>3 DEF TokenInv, OriginsUsed, OneTokenPerLogin
<1>11. /\ used \subseteq used' /\ issued \subseteq issued'
       /\ \A q \in Requests : Pending(q) => request[q].next \notin used' /\ request[q].next # new.next
       /\ \A q \in Requests : request[q].stage = "create" => request[q].token \in stored'
  BY <1>2, <1>8, <1>9
<1>12. new.stage # "create" /\ request' = [request EXCEPT ![r] = new]
  OBVIOUS
<1> HIDE DEF new
<1> QED BY <1>1, <1>3, <1>5, <1>7, <1>10, <1>11, <1>12, StepKeeps

LEMMA LoginKeeps ==
  ASSUME TokenInv, NEW r \in Requests, NEW b \in Browsers, LoginRequest(r, b)
  PROVE  TokenInv'
  BY GenerateKeeps DEF LoginRequest

LEMMA RefreshKeeps ==
  ASSUME TokenInv, NEW r \in Requests, NEW b \in Browsers, RefreshRequest(r, b)
  PROVE  TokenInv'
<1>1. cookie[b] \in {NoToken} \cup used /\ used \subseteq Tokens
  BY DEF TokenInv, TypeOK
<1>2. PICK next \in Tokens :
        /\ cookie[b] # NoToken
        /\ Generate(next, cookie[b])
        /\ request' = [request EXCEPT ![r] = [stage |-> "read", browser |-> b,
                                              token |-> cookie[b], next |-> next]]
        /\ UNCHANGED <<clock, table, cookie, faults>>
  BY DEF RefreshRequest
<1> QED BY <1>1, <1>2, GenerateKeeps

LEMMA BecomeType ==
  ASSUME TokenInv, NEW r \in Requests, request[r].stage # "idle",
         NEW stage \in {"save", "read", "delete", "create", "logout", "accept", "refuse", "clear"},
         Become(r, stage)
  PROVE  /\ [request[r] EXCEPT !.stage = stage] \in Request
         /\ request' = [request EXCEPT ![r] = [request[r] EXCEPT !.stage = stage]]
         /\ request'[r].stage = stage
         /\ request'[r].next = request[r].next /\ request'[r].token = request[r].token
<1>1. request[r] \in Request
  BY RequestType DEF TokenInv
<1> QED BY <1>1 DEF Request, Become, TokenInv, TypeOK

LEMMA FindKeeps ==
  ASSUME TokenInv, NEW r \in Requests, FindToken(r) \/ DeleteToken(r)
  PROVE  TokenInv'
<1>1. PICK stage \in {"delete", "create", "refuse"} :
        /\ request[r].stage \in {"read", "delete"}
        /\ Become(r, stage)
        /\ stage = "create" => Valid(request[r].token) /\ RowFree(request[r].token)
        /\ UNCHANGED <<clock, table, issued, expires, origin, cookie, faults>>
  BY DEF FindToken, DeleteToken
<1> DEFINE new == [request[r] EXCEPT !.stage = stage]
<1>2. /\ new \in Request /\ request' = [request EXCEPT ![r] = new]
      /\ request'[r].stage = stage /\ new.stage = stage
      /\ request'[r].next = request[r].next /\ request'[r].token = request[r].token
      /\ new.next = request[r].next /\ new.token = request[r].token
  BY <1>1, BecomeType, RequestType DEF Request, TokenInv
<1>3. RequestOK(r)'
  BY <1>1, <1>2 DEF TokenInv, RequestOK, Pending, Rotating, Valid, table
<1>4. Pending(r)
  BY <1>1 DEF Pending
<1>5. cookie' \in [Browsers -> {NoToken} \cup used] /\ faults' \in 0 .. MaxFaults
  BY <1>1 DEF TokenInv, TypeOK
<1> HIDE DEF new
<1> QED BY <1>1, <1>2, <1>3, <1>4, <1>5, MoveKeeps

LEMMA LogoutKeeps ==
  ASSUME TokenInv, NEW r \in Requests, NEW b \in Browsers, LogoutRequest(r, b)
  PROVE  TokenInv'
<1> DEFINE new == [stage |-> IF cookie[b] = NoToken THEN "clear" ELSE "logout",
                   browser |-> b, token |-> cookie[b], next |-> NoToken]
<1>1. cookie[b] \in Tokens \cup {NoToken}
  BY DEF TokenInv, TypeOK
<1>2. new \in Request
  BY <1>1 DEF Request
<1>3. request' = [request EXCEPT ![r] = new] /\ request'[r] = new
  BY DEF LogoutRequest, TokenInv, TypeOK
<1>4. RequestOK(r)' /\ ~Pending(r)'
  BY <1>3 DEF RequestOK, Pending, Rotating
<1>5. cookie' \in [Browsers -> {NoToken} \cup used] /\ faults' \in 0 .. MaxFaults
  BY DEF TokenInv, TypeOK, LogoutRequest
<1> QED BY <1>2, <1>3, <1>4, <1>5, MoveKeeps DEF LogoutRequest

LEMMA EndKeeps ==
  ASSUME TokenInv, NEW r \in Requests, Deliver(r) \/ Fail(r)
  PROVE  TokenInv'
<1>1. request' = [request EXCEPT ![r] = Idle] /\ request'[r] = Idle
  BY DEF Deliver, Fail, TokenInv, TypeOK
<1>2. RequestOK(r)' /\ ~Pending(r)'
  BY <1>1 DEF RequestOK, Pending, Rotating, Idle
<1>3. cookie' \in [Browsers -> {NoToken} \cup used]
  <2>1. request[r].stage = "accept" => request[r].next \in used
    BY DEF TokenInv, RequestOK
  <2>2. CASE Fail(r)
    BY <2>2 DEF Fail, TokenInv, TypeOK
  <2>3. CASE Deliver(r)
    BY <2>1, <2>3 DEF Deliver, TokenInv, TypeOK
  <2> QED BY <2>2, <2>3
<1>4. faults' \in 0 .. MaxFaults
  BY TimesAssumption DEF Deliver, Fail, TokenInv, TypeOK
<1>5. UNCHANGED <<clock, table, issued, expires, origin>>
  BY DEF Deliver, Fail
<1>6. Idle.stage # "create"
  BY DEF Idle
<1> QED BY <1>1, <1>2, <1>3, <1>4, <1>5, <1>6, MoveKeeps

(* The steps that change the table. *)
LEMMA SaveKeeps ==
  ASSUME TokenInv, NEW r \in Requests, SaveRefreshToken(r)
  PROVE  TokenInv'
<1> DEFINE n == request[r].next
           new == [request[r] EXCEPT !.stage = "accept"]
<1>1. /\ new \in Request /\ request' = [request EXCEPT ![r] = new]
      /\ request'[r].stage = "accept" /\ request'[r].next = n /\ new.stage = "accept"
  BY BecomeType, RequestType DEF SaveRefreshToken, TokenInv, Request
<1>2. /\ n \in issued \ used /\ origin[n] = n /\ n \in Tokens
      /\ used' = used \cup {n} /\ stored' = stored \cup {n}
      /\ origin' = origin /\ issued' = issued
      /\ stored \subseteq used
  BY DEF SaveRefreshToken, TokenInv, TypeOK, RequestOK, Pending
<1>3. TypeOK'
  BY <1>1, <1>2 DEF SaveRefreshToken, TokenInv, TypeOK
<1>4. RequestOK(r)' /\ ~Pending(r)'
  BY <1>1, <1>2 DEF RequestOK, Pending, Rotating
<1>5. OriginsUsed'
  BY <1>2 DEF TokenInv, OriginsUsed
<1>6. OneTokenPerLogin'
  BY <1>2 DEF TokenInv, OriginsUsed, OneTokenPerLogin
<1>7. \A q \in Requests : q # r /\ Pending(q) => request[q].next \notin used'
  BY <1>2 DEF TokenInv, RequestOK, NextTokensDiffer, SaveRefreshToken, Pending
<1>8. \A q \in Requests : request[q].stage = "create" => request[q].token \in stored'
  BY <1>2 DEF TokenInv, RequestOK
<1> HIDE DEF new, n
<1>9. used \subseteq used' /\ issued \subseteq issued' /\ \A t \in issued : origin'[t] = origin[t]
  BY <1>2
<1> QED BY <1>1, <1>3, <1>4, <1>5, <1>6, <1>7, <1>8, <1>9, StepKeeps

LEMMA CreateKeeps ==
  ASSUME TokenInv, NEW r \in Requests, CreateToken(r)
  PROVE  TokenInv'
<1> DEFINE n == request[r].next
           t0 == request[r].token
           new == [request[r] EXCEPT !.stage = "accept"]
<1>1. /\ new \in Request /\ request' = [request EXCEPT ![r] = new]
      /\ request'[r].stage = "accept" /\ request'[r].next = n /\ new.stage = "accept"
  BY BecomeType, RequestType DEF CreateToken, TokenInv, Request
<1>2. /\ n \in issued \ used /\ t0 \in stored /\ origin[n] = origin[t0]
      /\ used' = used \cup {n} /\ stored' = (stored \ {t0}) \cup {n}
      /\ origin' = origin /\ issued' = issued
      /\ stored \subseteq used
  BY DEF CreateToken, TokenInv, TypeOK, RequestOK, Pending, Rotating
<1>3. TypeOK'
  BY <1>1, <1>2 DEF CreateToken, TokenInv, TypeOK
<1>4. RequestOK(r)' /\ ~Pending(r)'
  BY <1>1, <1>2 DEF RequestOK, Pending, Rotating
<1>5. OriginsUsed'
  BY <1>2 DEF TokenInv, OriginsUsed
<1>6. OneTokenPerLogin'
  BY <1>2 DEF TokenInv, OneTokenPerLogin
<1>7. \A q \in Requests : q # r /\ Pending(q) => request[q].next \notin used'
  BY <1>2 DEF TokenInv, RequestOK, NextTokensDiffer, CreateToken, Pending
<1>8. \A q \in Requests : q # r /\ request[q].stage = "create" => request[q].token \in stored'
  BY <1>2 DEF TokenInv, RequestOK, RowLockHeldOnce, CreateToken
<1> HIDE DEF new, n, t0
<1>9. used \subseteq used' /\ issued \subseteq issued' /\ \A t \in issued : origin'[t] = origin[t]
  BY <1>2
<1> QED BY <1>1, <1>3, <1>4, <1>5, <1>6, <1>7, <1>8, <1>9, StepKeeps

LEMMA RevokeKeeps ==
  ASSUME TokenInv, NEW r \in Requests, RevokeRefreshToken(r)
  PROVE  TokenInv'
<1> DEFINE t0 == request[r].token
           new == [request[r] EXCEPT !.stage = "clear"]
<1>1. /\ new \in Request /\ request' = [request EXCEPT ![r] = new]
      /\ request'[r].stage = "clear" /\ new.stage = "clear"
  BY BecomeType, RequestType DEF RevokeRefreshToken, TokenInv, Request
<1>2. /\ used' = used /\ stored' = stored \ {t0}
      /\ origin' = origin /\ issued' = issued
      /\ RowFree(t0)
  BY DEF RevokeRefreshToken
<1>3. TypeOK'
  BY <1>1, <1>2 DEF RevokeRefreshToken, TokenInv, TypeOK
<1>4. RequestOK(r)' /\ ~Pending(r)'
  BY <1>1 DEF RequestOK, Pending, Rotating
<1>5. OriginsUsed' /\ OneTokenPerLogin'
  BY <1>2 DEF TokenInv, OriginsUsed, OneTokenPerLogin
<1>7. \A q \in Requests : Pending(q) => request[q].next \notin used'
  BY <1>2 DEF TokenInv, RequestOK
<1>8. \A q \in Requests : request[q].stage = "create" => request[q].token \in stored'
  BY <1>2 DEF TokenInv, RequestOK, RowFree
<1> HIDE DEF new, t0
<1>9. used \subseteq used' /\ issued \subseteq issued' /\ \A t \in issued : origin'[t] = origin[t]
  BY <1>2
<1> QED BY <1>1, <1>3, <1>4, <1>5, <1>7, <1>8, <1>9, StepKeeps

LEMMA TimeKeeps ==
  ASSUME TokenInv, PassTime
  PROVE  TokenInv'
<1>1. TypeOK'
  BY DEF TokenInv, TypeOK, PassTime, table
<1>2. \A r \in Requests : RequestOK(r)'
  BY DEF TokenInv, PassTime, table, RequestOK, Pending, Rotating
<1>3. NextTokensDiffer' /\ RowLockHeldOnce' /\ OriginsUsed' /\ OneTokenPerLogin'
  BY DEF TokenInv, PassTime, table, NextTokensDiffer, RowLockHeldOnce, OriginsUsed,
         OneTokenPerLogin, Pending
<1> QED BY <1>1, <1>2, <1>3 DEF TokenInv

LEMMA NextKeeps ==
  ASSUME TokenInv, [Next]_vars
  PROVE  TokenInv'
<1>1. CASE UNCHANGED vars
  <2>1. TypeOK'
    BY <1>1 DEF TokenInv, TypeOK, vars, table
  <2>2. \A r \in Requests : RequestOK(r)'
    BY <1>1 DEF TokenInv, vars, table, RequestOK, Pending, Rotating
  <2>3. NextTokensDiffer' /\ RowLockHeldOnce' /\ OriginsUsed' /\ OneTokenPerLogin'
    BY <1>1 DEF TokenInv, vars, table, NextTokensDiffer, RowLockHeldOnce, OriginsUsed,
           OneTokenPerLogin, Pending
  <2> QED BY <2>1, <2>2, <2>3 DEF TokenInv
<1>2. CASE PassTime
  BY <1>2, TimeKeeps
<1>3. ASSUME NEW r \in Requests, Serve(r) \/ Fail(r) PROVE TokenInv'
  BY <1>3, SaveKeeps, FindKeeps, CreateKeeps, RevokeKeeps, EndKeeps DEF Serve
<1>4. ASSUME NEW r \in Requests, NEW b \in Browsers,
             LoginRequest(r, b) \/ RefreshRequest(r, b) \/ LogoutRequest(r, b)
      PROVE  TokenInv'
  BY <1>4, LoginKeeps, RefreshKeeps, LogoutKeeps
<1> QED BY <1>1, <1>2, <1>3, <1>4 DEF Next

LEMMA InitInv == Init => TokenInv
<1> SUFFICES ASSUME Init PROVE TokenInv
  OBVIOUS
<1>1. TypeOK
  BY TimesAssumption DEF Init, TypeOK, Idle
<1>2. \A r \in Requests : RequestOK(r) /\ ~Pending(r) /\ request[r].stage # "create"
  BY DEF Init, RequestOK, Pending, Rotating, Idle
<1>3. OriginsUsed /\ OneTokenPerLogin
  BY DEF Init, OriginsUsed, OneTokenPerLogin
<1> QED BY <1>1, <1>2, <1>3 DEF TokenInv, NextTokensDiffer, RowLockHeldOnce

LEMMA TokenInvariant == Spec => []TokenInv
<1>1. TokenInv /\ [Next]_vars => TokenInv'
  BY NextKeeps
<1> QED BY <1>1, InitInv, PTL DEF Spec

------------------------------------------------------------------------------
(* The abstract sessions *)

Current == [login \in Tokens |-> CurrentToken(login)]

LEMMA CurrentIs ==
  ASSUME OneTokenPerLogin, NEW t \in stored
  PROVE  CurrentToken(origin[t]) = t
  BY DEF OneTokenPerLogin, CurrentToken, HasToken

(* A step that leaves the stored tokens and their origins alone. *)
LEMMA SameSessions ==
  ASSUME stored' = stored, \A t \in stored : origin'[t] = origin[t]
  PROVE  /\ Current' = Current
         /\ \A login : HasToken(login)' <=> HasToken(login)
<1>1. ASSUME NEW login PROVE {t \in stored' : origin'[t] = login} = {t \in stored : origin[t] = login}
  OBVIOUS
<1>2. \A login : HasToken(login)' <=> HasToken(login)
  BY DEF HasToken
<1>3. ASSUME NEW login \in Tokens PROVE CurrentToken(login)' = CurrentToken(login)
  <2>1. CASE ~HasToken(login)
    BY <1>2, <2>1 DEF CurrentToken
  <2>2. CASE HasToken(login)
    <3>1. (CHOOSE t \in stored' : origin'[t] = login) = (CHOOSE t \in stored : origin[t] = login)
      OBVIOUS
    <3> QED BY <1>2, <2>2, <3>1 DEF CurrentToken
  <2> QED BY <2>1, <2>2
<1> QED BY <1>2, <1>3 DEF Current

(* Three steps change the stored tokens, each as one step of LoginSessions;  *)
(* the current token of every other login stays.                             *)
LEMMA OtherLogins ==
  ASSUME OneTokenPerLogin, OneTokenPerLogin', origin' = origin, NEW own,
         \A t \in (stored \ stored') \cup (stored' \ stored) : origin[t] = own,
         NEW login \in Tokens, login # own
  PROVE  CurrentToken(login)' = CurrentToken(login)
<1>1. \A t : t \in stored /\ origin[t] = login <=> t \in stored' /\ origin'[t] = login
  OBVIOUS
<1>2. CASE HasToken(login)
  <2>1. PICK t \in stored : origin[t] = login
    BY <1>2 DEF HasToken
  <2>2. CurrentToken(login) = t
    BY <2>1, CurrentIs
  <2>3. t \in stored' /\ origin'[t] = login
    BY <1>1, <2>1
  <2>4. CurrentToken(login)' = t
    BY <2>3 DEF OneTokenPerLogin, CurrentToken, HasToken
  <2> QED BY <2>2, <2>4
<1>3. CASE ~HasToken(login)
  BY <1>1, <1>3 DEF CurrentToken, HasToken
<1> QED BY <1>2, <1>3

LEMMA TokenChange ==
  ASSUME OneTokenPerLogin, OneTokenPerLogin', origin' = origin, NEW own \in Tokens,
         \A t \in (stored \ stored') \cup (stored' \ stored) : origin[t] = own
  PROVE  Current' = [Current EXCEPT ![own] = CurrentToken(own)']
<1>1. ASSUME NEW login \in Tokens, login # own PROVE CurrentToken(login)' = CurrentToken(login)
  BY <1>1, OtherLogins
<1> QED BY <1>1 DEF Current

LEMMA SaveIsLogIn ==
  ASSUME TokenInv, TokenInv', NEW r \in Requests, SaveRefreshToken(r)
  PROVE  \E login \in Tokens : Sessions!LogIn(login)
<1>1. PICK n \in Tokens :
        /\ n \notin used /\ origin[n] = n
        /\ used' = used \cup {n} /\ stored' = stored \cup {n} /\ origin' = origin
  BY DEF SaveRefreshToken, TokenInv, TypeOK, RequestOK, Pending
<1>2. CurrentToken(n)' = n
  BY <1>1 DEF TokenInv, OneTokenPerLogin, CurrentToken, HasToken
<1>3. Current' = [Current EXCEPT ![n] = n]
  BY <1>1, <1>2, TokenChange DEF TokenInv
<1>4. Sessions!LogIn(n)
  BY <1>1, <1>3 DEF Sessions!LogIn, Current
<1> QED BY <1>4

LEMMA CreateIsRotate ==
  ASSUME TokenInv, TokenInv', NEW r \in Requests, CreateToken(r)
  PROVE  \E login, next \in Tokens : Sessions!Rotate(login, next)
<1>1. PICK n, old, login \in Tokens :
        /\ n \notin used /\ old \in stored
        /\ origin[n] = login /\ origin[old] = login
        /\ used' = used \cup {n} /\ stored' = (stored \ {old}) \cup {n} /\ origin' = origin
  BY DEF CreateToken, TokenInv, TypeOK, RequestOK, Pending, Rotating
<1>2. CurrentToken(login)' = n
  BY <1>1 DEF TokenInv, OneTokenPerLogin, CurrentToken, HasToken
<1>3. Current' = [Current EXCEPT ![login] = n]
  BY <1>1, <1>2, TokenChange DEF TokenInv
<1>4. Current[login] = old /\ old # NoToken
  BY <1>1, CurrentIs, NoTokenIsNone DEF TokenInv, Current
<1>5. Sessions!Rotate(login, n)
  BY <1>1, <1>3, <1>4 DEF Sessions!Rotate, Current
<1> QED BY <1>5

LEMMA RevokeIsLogOut ==
  ASSUME TokenInv, TokenInv', NEW r \in Requests, RevokeRefreshToken(r)
  PROVE  (\E login \in Tokens : Sessions!LogOut(login)) \/ (UNCHANGED <<Current, used>>)
<1>1. used' = used /\ stored' = stored \ {request[r].token} /\ origin' = origin
  BY DEF RevokeRefreshToken
<1>2. CASE request[r].token \in stored
  <2>1. PICK old, login \in Tokens :
          old \in stored /\ origin[old] = login /\ stored' = stored \ {old}
    BY <1>1, <1>2 DEF TokenInv, TypeOK
  <2>2. CurrentToken(login)' = NoToken
    BY <1>1, <2>1 DEF TokenInv, OneTokenPerLogin, CurrentToken, HasToken
  <2>3. Current' = [Current EXCEPT ![login] = NoToken]
    BY <1>1, <2>1, <2>2, TokenChange DEF TokenInv
  <2>4. Current[login] = old /\ old # NoToken
    BY <2>1, CurrentIs, NoTokenIsNone DEF TokenInv, Current
  <2>5. Sessions!LogOut(login)
    BY <1>1, <2>1, <2>3, <2>4 DEF Sessions!LogOut, Current
  <2> QED BY <2>5
<1>3. CASE request[r].token \notin stored
  BY <1>1, <1>3, SameSessions
<1> QED BY <1>2, <1>3

(* Every other step leaves the stored tokens and their origins alone. *)
LEMMA StepCases ==
  ASSUME TokenInv, [Next]_vars
  PROVE  \/ \E r \in Requests : SaveRefreshToken(r) \/ CreateToken(r) \/ RevokeRefreshToken(r)
         \/ used' = used /\ stored' = stored /\ (\A t \in used : origin'[t] = origin[t])
<1>1. ASSUME NEW next \in Tokens, NEW from, Generate(next, from)
      PROVE  \A t \in used : origin'[t] = origin[t]
  BY <1>1 DEF Generate, TokenInv, TypeOK
<1>2. ASSUME NEW r \in Requests, NEW b \in Browsers, LoginRequest(r, b) \/ RefreshRequest(r, b)
      PROVE  used' = used /\ stored' = stored /\ (\A t \in used : origin'[t] = origin[t])
  BY <1>1, <1>2 DEF LoginRequest, RefreshRequest, table
<1> QED BY <1>2 DEF Next, Serve, vars, table, PassTime, FindToken, DeleteToken, Deliver, Fail,
           LogoutRequest

LEMMA StepImplements ==
  ASSUME TokenInv, TokenInv', [Next]_vars
  PROVE  [Sessions!Next]_<<Current, used>>
<1>1. ASSUME NEW r \in Requests, SaveRefreshToken(r) PROVE Sessions!Next
  BY <1>1, SaveIsLogIn DEF Sessions!Next
<1>2. ASSUME NEW r \in Requests, CreateToken(r) PROVE Sessions!Next
  BY <1>2, CreateIsRotate DEF Sessions!Next
<1>3. ASSUME NEW r \in Requests, RevokeRefreshToken(r) PROVE [Sessions!Next]_<<Current, used>>
  BY <1>3, RevokeIsLogOut DEF Sessions!Next
<1>4. ASSUME used' = used, stored' = stored, \A t \in used : origin'[t] = origin[t]
      PROVE  UNCHANGED <<Current, used>>
  <2>1. \A t \in stored : origin'[t] = origin[t]
    BY <1>4 DEF TokenInv, TypeOK
  <2> QED BY <1>4, <2>1, SameSessions
<1> QED BY <1>1, <1>2, <1>3, <1>4, StepCases

------------------------------------------------------------------------------
(* Type correctness. *)
THEOREM TokensTypeCorrect == Spec => []TypeOK
<1>1. TokenInv => TypeOK
  BY DEF TokenInv
<1> QED BY <1>1, TokenInvariant, PTL

(* rotateRefreshToken: at most one token of a login works, whatever races.   *)
THEOREM RotationKeepsOneToken == Spec => []OneTokenPerLogin
<1>1. TokenInv => OneTokenPerLogin
  BY DEF TokenInv
<1> QED BY <1>1, TokenInvariant, PTL

(* revokeRefreshToken, rotateRefreshToken: a login that has no token left     *)
(* never gets one again.                                                     *)
THEOREM EndedLoginsNeverReturn == Spec => EndedLoginsStayEnded
<1>1. ASSUME TokenInv, [Next]_vars, NEW login \in Tokens, Ended(login) PROVE Ended(login)'
  <2>1. CASE \E r \in Requests : SaveRefreshToken(r)
    BY <1>1, <2>1 DEF SaveRefreshToken, Ended, HasToken, TokenInv, RequestOK, Pending
  <2>2. CASE \E r \in Requests : CreateToken(r)
    BY <1>1, <2>2 DEF CreateToken, Ended, HasToken, TokenInv, RequestOK, Rotating
  <2>3. CASE \E r \in Requests : RevokeRefreshToken(r)
    BY <1>1, <2>3 DEF RevokeRefreshToken, Ended, HasToken
  <2>4. CASE used' = used /\ stored' = stored /\ (\A t \in used : origin'[t] = origin[t])
    BY <1>1, <2>4 DEF Ended, HasToken, TokenInv, TypeOK
  <2> QED BY <1>1, <2>1, <2>2, <2>3, <2>4, StepCases
<1>2. TokenInv /\ [Next]_vars => [\A login \in Tokens : Ended(login) => Ended(login)']_vars
  BY <1>1
<1> QED BY <1>2, TokenInvariant, PTL DEF Spec, EndedLoginsStayEnded

(* The statements of all requests together do what LoginSessions allows.     *)
THEOREM TokensImplementSessions == Spec => ImplementsSessions
<1>1. Init => Sessions!Init
  BY DEF Init, Sessions!Init, CurrentToken, HasToken
<1>2. TokenInv /\ TokenInv' /\ [Next]_vars => [Sessions!Next]_<<Current, used>>
  BY StepImplements
<1>3. TokenInv /\ TokenInv' /\ [Next]_vars
        => [Sessions!Next]_<<[login \in Tokens |-> CurrentToken(login)], used>>
  BY <1>2 DEF Current
<1> QED BY <1>1, <1>3, TokenInvariant, PTL DEF Spec, ImplementsSessions, Sessions!Spec
------------------------------------------------------------------------------
(* The browsers' cookies *)

InFlight(r) == request[r].stage # "idle"
Replaces(r) == request[r].stage \in {"accept", "clear"}

(* A request carries the cookie of its own browser.                          *)
TokensFromCookies ==
  \A r \in Requests :
    InFlight(r) /\ request[r].token # NoToken =>
      /\ request[r].token \in used
      /\ \A b \in Browsers : cookie[b] = request[r].token => request[r].browser = b
CookiesDiffer ==
  \A b, c \in Browsers : cookie[b] # NoToken /\ cookie[b] = cookie[c] => b = c

(* The token in an answer that is still under way works, because no other     *)
(* request can name it before it has become a cookie.                        *)
Unseen(r) ==
  /\ request[r].next \in stored
  /\ \A b \in Browsers : cookie[b] # request[r].next
  /\ \A q \in Requests : InFlight(q) => request[q].token # request[r].next
  /\ \A q \in Requests : q # r /\ request[q].stage = "accept" => request[q].next # request[r].next
AnswersUnseen == \A r \in Requests : request[r].stage = "accept" => Unseen(r)

(* A cookie that does not work any more is about to be replaced. *)
CookieCovered(b) ==
  \/ cookie[b] = NoToken \/ cookie[b] \in stored
  \/ \E r \in Requests : Replaces(r) /\ request[r].browser = b /\ request[r].token = cookie[b]
CookiesCovered == faults = 0 => \A b \in Browsers : CookieCovered(b)

(* Inductive beside TokenInv. *)
CookieInv == TokensFromCookies /\ CookiesDiffer /\ AnswersUnseen /\ CookiesCovered

LEMMA RequestsChange ==
  ASSUME TypeOK, NEW r \in Requests, NEW new, request' = [request EXCEPT ![r] = new]
  PROVE  /\ request'[r] = new
         /\ \A q \in Requests : q # r => request'[q] = request[q]
  BY DEF TypeOK

(* A request that begins carries the cookie of its browser, or none. *)
LEMMA BeginKeepsCookies ==
  ASSUME TokenInv, CookieInv, NEW r \in Requests, NEW b \in Browsers,
         LoginRequest(r, b) \/ RefreshRequest(r, b) \/ LogoutRequest(r, b)
  PROVE  CookieInv'
<1>1. request[r] = Idle /\ UNCHANGED <<used, stored, cookie, faults>>
  BY DEF LoginRequest, RefreshRequest, LogoutRequest, table
<1>2. PICK new :
        /\ request' = [request EXCEPT ![r] = new]
        /\ new.token = NoToken \/ new.token = cookie[b]
        /\ new.browser = b
        /\ new.stage # "accept"
  <2> DEFINE Asks(stage, token, next) ==
               [stage |-> stage, browser |-> b, token |-> token, next |-> next]
  <2>1. PICK stage \in {"save", "read", "clear", "logout"}, token \in {NoToken, cookie[b]},
               next \in Tokens \cup {NoToken} :
          request' = [request EXCEPT ![r] = Asks(stage, token, next)]
    <3>1. CASE LoginRequest(r, b)
      BY <3>1 DEF LoginRequest
    <3>2. CASE RefreshRequest(r, b)
      BY <3>2 DEF RefreshRequest
    <3>3. CASE LogoutRequest(r, b)
      BY <3>3 DEF LogoutRequest
    <3> QED BY <3>1, <3>2, <3>3
  <2> DEFINE new == Asks(stage, token, next)
  <2>2. new.token = token /\ new.browser = b /\ new.stage = stage
    OBVIOUS
  <2> HIDE DEF new
  <2> QED BY <2>1, <2>2 DEF new
<1>3. request'[r] = new /\ \A q \in Requests : q # r => request'[q] = request[q]
  BY <1>2, RequestsChange DEF TokenInv
<1>4. request[r].stage = "idle"
  BY <1>1 DEF Idle
<1>5. cookie[b] = NoToken \/ cookie[b] \in used
  BY DEF TokenInv, TypeOK
<1>6. TokensFromCookies'
  <2> SUFFICES ASSUME NEW q \in Requests, InFlight(q)', request'[q].token # NoToken
               PROVE  /\ request'[q].token \in used'
                      /\ \A c \in Browsers : cookie'[c] = request'[q].token => request'[q].browser = c
    BY DEF TokensFromCookies
  <2>1. CASE q # r
    BY <1>1, <1>3, <2>1 DEF CookieInv, TokensFromCookies, InFlight
  <2>2. CASE q = r
    BY <1>1, <1>2, <1>3, <1>5, <2>2 DEF CookieInv, CookiesDiffer
  <2> QED BY <2>1, <2>2
<1>7. CookiesDiffer'
  BY <1>1 DEF CookieInv, CookiesDiffer
<1>8. AnswersUnseen'
  <2> SUFFICES ASSUME NEW p \in Requests, request'[p].stage = "accept"
               PROVE  Unseen(p)'
    BY DEF AnswersUnseen
  <2>1. p # r /\ request'[p] = request[p] /\ Unseen(p)
    BY <1>2, <1>3 DEF CookieInv, AnswersUnseen
  <2>2. request[p].next \in used
    BY <2>1 DEF TokenInv, TypeOK, Unseen
  <2>3. new.token # request[p].next
    BY <1>2, <2>1, <2>2, NoTokenIsNone DEF Unseen, TokenInv, TypeOK
  <2> QED BY <1>1, <1>2, <1>3, <2>1, <2>3 DEF Unseen, InFlight
<1>9. CookiesCovered'
  <2> SUFFICES ASSUME faults = 0, NEW c \in Browsers PROVE CookieCovered(c)'
    BY <1>1 DEF CookiesCovered
  <2>1. CookieCovered(c)
    BY DEF CookieInv, CookiesCovered
  <2>2. \A q \in Requests : Replaces(q) => q # r
    BY <1>4 DEF Replaces
  <2> QED BY <1>1, <1>3, <2>1, <2>2 DEF CookieCovered, Replaces
<1> QED BY <1>6, <1>7, <1>8, <1>9 DEF CookieInv

(* A request that goes on without being answered. *)
LEMMA GoesOn ==
  ASSUME TokenInv, CookieInv, NEW r \in Requests,
         NEW stage \in {"save", "read", "delete", "create", "logout", "accept", "refuse", "clear"},
         request[r].stage \in {"save", "read", "delete", "create", "logout"},
         Become(r, stage), UNCHANGED <<cookie, faults>>, used \subseteq used',
         \A t \in stored : t \in stored' \/ (t = request[r].token /\ stage \in {"accept", "clear"}),
         stage = "accept" => /\ request[r].next \in stored'
                             /\ request[r].next \in Tokens \ used
  PROVE  CookieInv'
<1>1. /\ request'[r].stage = stage
      /\ request'[r].next = request[r].next /\ request'[r].token = request[r].token
      /\ request'[r].browser = request[r].browser
      /\ \A q \in Requests : q # r => request'[q] = request[q]
  <2> DEFINE new == [request[r] EXCEPT !.stage = stage]
  <2>1. /\ new.stage = stage /\ new.next = request[r].next
        /\ new.token = request[r].token /\ new.browser = request[r].browser
    <3>1. request[r] \in Request
      BY RequestType DEF TokenInv
    <3> QED BY <3>1 DEF Request
  <2>2. request' = [request EXCEPT ![r] = new]
    BY DEF Become
  <2> HIDE DEF new
  <2> QED BY <2>1, <2>2, RequestsChange DEF TokenInv
<1>2. InFlight(r) /\ request[r].stage \notin {"accept", "clear", "idle"}
  BY DEF InFlight
<1>3. \A q \in Requests : InFlight(q)' => InFlight(q) /\ request'[q].token = request[q].token
                                          /\ request'[q].browser = request[q].browser
  BY <1>1, <1>2 DEF InFlight
<1>4. TokensFromCookies' /\ CookiesDiffer'
  BY <1>3 DEF CookieInv, TokensFromCookies, CookiesDiffer
<1>5. AnswersUnseen'
  <2> SUFFICES ASSUME NEW p \in Requests, request'[p].stage = "accept"
               PROVE  Unseen(p)'
    BY DEF AnswersUnseen
  <2>1. CASE p = r
    <3>1. request[r].next \in stored' /\ request[r].next \in Tokens \ used
      BY <1>1, <2>1
    <3>2. \A c \in Browsers : cookie'[c] # request[r].next
      BY <3>1, NoTokenIsNone DEF TokenInv, TypeOK
    <3>3. \A q \in Requests : InFlight(q)' => request'[q].token # request[r].next
      BY <1>3, <3>1, NoTokenIsNone DEF CookieInv, TokensFromCookies
    <3>4. \A q \in Requests : q # r /\ request'[q].stage = "accept" => request'[q].next # request[r].next
      BY <1>1, <3>1 DEF TokenInv, RequestOK
    <3> QED BY <1>1, <2>1, <3>1, <3>2, <3>3, <3>4 DEF Unseen
  <2>2. CASE p # r
    <3>1. request'[p] = request[p] /\ Unseen(p)
      BY <1>1, <2>2 DEF CookieInv, AnswersUnseen
    <3>2. request[p].next \in stored'
      BY <1>2, <3>1 DEF Unseen
    <3>3. \A c \in Browsers : cookie'[c] # request[p].next
      BY <3>1 DEF Unseen
    <3>4. \A q \in Requests : InFlight(q)' => request'[q].token # request[p].next
      BY <1>3, <3>1 DEF Unseen
    <3>5. stage = "accept" => request[r].next # request[p].next
      BY <3>1 DEF Unseen, TokenInv, TypeOK
    <3>6. \A q \in Requests : q # p /\ request'[q].stage = "accept" => request'[q].next # request[p].next
      BY <1>1, <3>1, <3>5 DEF Unseen
    <3> QED BY <3>1, <3>2, <3>3, <3>4, <3>6 DEF Unseen
  <2> QED BY <2>1, <2>2
<1>6. CookiesCovered'
  <2> SUFFICES ASSUME faults = 0, NEW c \in Browsers PROVE CookieCovered(c)'
    BY DEF CookiesCovered
  <2>1. CookieCovered(c)
    BY DEF CookieInv, CookiesCovered
  <2>2. CASE cookie[c] = NoToken
    BY <2>2 DEF CookieCovered
  <2>3. CASE \E q \in Requests : Replaces(q) /\ request[q].browser = c /\ request[q].token = cookie[c]
    BY <1>1, <1>2, <2>3 DEF CookieCovered, Replaces
  <2>4. CASE cookie[c] \in stored /\ cookie[c] # NoToken
    <3>1. CASE cookie[c] \in stored'
      BY <3>1 DEF CookieCovered
    <3>2. CASE cookie[c] = request[r].token /\ stage \in {"accept", "clear"}
      <4>1. request[r].browser = c
        BY <1>2, <2>4, <3>2 DEF CookieInv, TokensFromCookies
      <4> QED BY <1>1, <3>2, <4>1 DEF CookieCovered, Replaces
    <3> QED BY <2>4, <3>1, <3>2
  <2> QED BY <2>1, <2>2, <2>3, <2>4 DEF CookieCovered
<1> QED BY <1>4, <1>5, <1>6 DEF CookieInv

LEMMA StatementKeepsCookies ==
  ASSUME TokenInv, CookieInv, NEW r \in Requests,
         \/ SaveRefreshToken(r) \/ FindToken(r) \/ DeleteToken(r)
         \/ CreateToken(r) \/ RevokeRefreshToken(r)
  PROVE  CookieInv'
<1>1. CASE SaveRefreshToken(r) \/ CreateToken(r)
  <2>1. request[r].next \in Tokens \ used
    BY <1>1 DEF SaveRefreshToken, CreateToken, TokenInv, TypeOK, RequestOK, Pending
  <2> QED BY <1>1, <2>1, GoesOn DEF SaveRefreshToken, CreateToken
<1>2. CASE FindToken(r) \/ DeleteToken(r)
  <2>1. PICK stage \in {"delete", "create", "refuse"} :
          Become(r, stage) /\ request[r].stage \in {"read", "delete"}
    BY <1>2 DEF FindToken, DeleteToken
  <2>2. UNCHANGED <<used, stored, cookie, faults>>
    BY <1>2 DEF FindToken, DeleteToken, table
  <2> QED BY <2>1, <2>2, GoesOn
<1>3. CASE RevokeRefreshToken(r)
  BY <1>3, GoesOn DEF RevokeRefreshToken
<1> QED BY <1>1, <1>2, <1>3

(* The answer replaces the cookie by a token that works, or removes it. *)
LEMMA DeliverKeepsCookies ==
  ASSUME TokenInv, CookieInv, NEW r \in Requests, Deliver(r)
  PROVE  CookieInv'
<1> DEFINE home == request[r].browser
<1>1. /\ request'[r] = Idle /\ \A q \in Requests : q # r => request'[q] = request[q]
      /\ UNCHANGED <<used, stored, faults>>
  BY RequestsChange DEF Deliver, TokenInv, table
<1>2. home \in Browsers /\ request[r].stage \in {"accept", "refuse", "clear"}
  BY RequestType DEF Deliver, Answered, TokenInv
<1>3. \A q \in Requests : InFlight(q)' => q # r /\ InFlight(q) /\ request'[q] = request[q]
  BY <1>1 DEF InFlight, Idle
<1>4. PICK value :
        /\ cookie' = [cookie EXCEPT ![home] = value]
        /\ \/ request[r].stage = "accept" /\ value = request[r].next
           \/ request[r].stage = "clear" /\ value = NoToken
           \/ request[r].stage = "refuse" /\ value = cookie[home]
  <2>1. CASE request[r].stage = "accept"
    BY <2>1 DEF Deliver
  <2>2. CASE request[r].stage = "clear"
    BY <2>2 DEF Deliver
  <2>3. CASE request[r].stage = "refuse"
    <3>1. cookie' = cookie /\ cookie = [cookie EXCEPT ![home] = cookie[home]]
      BY <2>3 DEF Deliver, TokenInv, TypeOK
    <3> QED BY <2>3, <3>1
  <2> QED BY <1>2, <2>1, <2>2, <2>3
<1>5. cookie'[home] = value /\ \A c \in Browsers : c # home => cookie'[c] = cookie[c]
  BY <1>2, <1>4 DEF TokenInv, TypeOK
<1>6. request[r].stage = "accept" => Unseen(r)
  BY DEF CookieInv, AnswersUnseen
<1> HIDE DEF home
<1>7. TokensFromCookies'
  <2> SUFFICES ASSUME NEW q \in Requests, InFlight(q)', request'[q].token # NoToken
               PROVE  /\ request'[q].token \in used'
                      /\ \A c \in Browsers : cookie'[c] = request'[q].token => request'[q].browser = c
    BY DEF TokensFromCookies
  <2>1. /\ q # r /\ request'[q] = request[q] /\ InFlight(q) /\ request[q].token \in used
        /\ \A c \in Browsers : cookie[c] = request[q].token => request[q].browser = c
    BY <1>3 DEF CookieInv, TokensFromCookies
  <2>2. value = request[q].token => value = cookie[home]
    BY <1>4, <1>6, <2>1 DEF Unseen
  <2> QED BY <1>1, <1>2, <1>5, <2>1, <2>2
<1>8. CookiesDiffer'
  <2>1. \A c \in Browsers : c # home /\ cookie[c] = value => value = NoToken
    BY <1>2, <1>4, <1>6 DEF Unseen, CookieInv, CookiesDiffer
  <2> QED BY <1>5, <2>1 DEF CookieInv, CookiesDiffer
<1>9. AnswersUnseen'
  <2> SUFFICES ASSUME NEW p \in Requests, request'[p].stage = "accept"
               PROVE  Unseen(p)'
    BY DEF AnswersUnseen
  <2>1. p # r /\ request'[p] = request[p]
    BY <1>1 DEF Idle
  <2>2. Unseen(p)
    BY <2>1 DEF CookieInv, AnswersUnseen
  <2>3. value # request[p].next
    <3>1. request[p].next \in Tokens
      BY <2>2 DEF Unseen, TokenInv, TypeOK
    <3> QED BY <1>2, <1>4, <2>1, <2>2, <3>1, NoTokenIsNone DEF Unseen
  <2>4. \A q \in Requests : InFlight(q)' => request'[q].token # request[p].next
    BY <1>3, <2>2 DEF Unseen
  <2>5. \A q \in Requests : request'[q].stage = "accept" => q # r
    BY <1>1 DEF Idle
  <2> QED BY <1>1, <1>5, <2>1, <2>2, <2>3, <2>4, <2>5 DEF Unseen
<1>10. CookiesCovered'
  <2> SUFFICES ASSUME faults = 0, NEW c \in Browsers PROVE CookieCovered(c)'
    BY <1>1 DEF CookiesCovered
  <2>1. CookieCovered(c)
    BY DEF CookieInv, CookiesCovered
  <2>2. ASSUME cookie'[c] = cookie[c], c # home \/ request[r].stage = "refuse"
        PROVE  CookieCovered(c)'
    <3>1. \A q \in Requests : Replaces(q) /\ request[q].browser = c => q # r
      BY <2>2 DEF Replaces, home
    <3> QED BY <1>1, <2>1, <2>2, <3>1 DEF CookieCovered, Replaces
  <2>3. CASE c = home /\ request[r].stage # "refuse"
    BY <1>1, <1>4, <1>5, <1>6, <2>3 DEF CookieCovered, Unseen
  <2> QED BY <1>4, <1>5, <2>2, <2>3
<1> QED BY <1>7, <1>8, <1>9, <1>10 DEF CookieInv

(* A request that fails leaves the cookies alone, and the promise is off. *)
LEMMA FailKeepsCookies ==
  ASSUME TokenInv, CookieInv, NEW r \in Requests, Fail(r)
  PROVE  CookieInv'
<1>1. /\ request'[r] = Idle /\ \A q \in Requests : q # r => request'[q] = request[q]
      /\ UNCHANGED <<used, stored, cookie>> /\ faults' # 0
  BY RequestsChange, TimesAssumption DEF Fail, TokenInv, TypeOK, table
<1>2. \A q \in Requests : InFlight(q)' => InFlight(q) /\ request'[q] = request[q]
  BY <1>1 DEF InFlight, Idle
<1>3. \A q \in Requests : request'[q].stage = "accept" => request'[q] = request[q]
  BY <1>1 DEF Idle
<1>4. TokensFromCookies' /\ CookiesDiffer'
  BY <1>1, <1>2 DEF CookieInv, TokensFromCookies, CookiesDiffer
<1>5. AnswersUnseen'
  BY <1>1, <1>2, <1>3 DEF CookieInv, AnswersUnseen, Unseen
<1> QED BY <1>1, <1>4, <1>5 DEF CookieInv, CookiesCovered

LEMMA NextKeepsCookies == TokenInv /\ CookieInv /\ [Next]_vars => CookieInv'
<1> SUFFICES ASSUME TokenInv, CookieInv, [Next]_vars PROVE CookieInv'
  OBVIOUS
<1>1. ASSUME UNCHANGED <<used, stored, request, cookie, faults>> PROVE CookieInv'
  <2>1. TokensFromCookies' /\ CookiesDiffer'
    BY <1>1 DEF CookieInv, TokensFromCookies, CookiesDiffer, InFlight
  <2>2. AnswersUnseen'
    BY <1>1 DEF CookieInv, AnswersUnseen, Unseen, InFlight
  <2>3. CookiesCovered'
    BY <1>1 DEF CookieInv, CookiesCovered, CookieCovered, Replaces
  <2> QED BY <2>1, <2>2, <2>3 DEF CookieInv
<1>2. CASE PassTime \/ UNCHANGED vars
  BY <1>1, <1>2 DEF PassTime, vars, table
<1>3. ASSUME NEW r \in Requests, Serve(r) \/ Fail(r) PROVE CookieInv'
  BY <1>3, StatementKeepsCookies, DeliverKeepsCookies, FailKeepsCookies DEF Serve
<1>4. ASSUME NEW r \in Requests, NEW b \in Browsers,
             LoginRequest(r, b) \/ RefreshRequest(r, b) \/ LogoutRequest(r, b)
      PROVE  CookieInv'
  BY <1>4, BeginKeepsCookies
<1> QED BY <1>2, <1>3, <1>4 DEF Next

LEMMA InitCookies == Init => CookieInv
  BY DEF Init, Idle, CookieInv, TokensFromCookies, CookiesDiffer, AnswersUnseen, CookiesCovered,
         CookieCovered, InFlight

(* setRefreshTokenCookie: however many refreshes, logins and logouts of a     *)
(* browser race and in whatever order their answers come, as long as each is *)
(* answered the browser is left with a cookie that works, has expired or is  *)
(* gone.                                                                     *)
THEOREM CookiesAlwaysWork == Spec => []CookieWorks
<1>1. CookieInv => CookieWorks
  BY DEF CookieInv, CookiesCovered, CookieCovered, CookieWorks, Replaces, Idle
<1> QED BY <1>1, InitCookies, NextKeepsCookies, TokenInvariant, PTL DEF Spec
==============================================================================

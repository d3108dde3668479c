---------------------------- MODULE AccountsProofs ----------------------------
(* For any numbers of users, names and requests: no key has two accounts, no  *)
(* account changes hands, and every answer is true. That a refusal is true    *)
(* rests on what was true some statements before it was sent, so RequestOK    *)
(* keeps with every request what its look-ups and its insert have seen.      *)
EXTENDS Accounts, TLAPS

(* What a request knows and what stage it is in fit each other and the table. *)
StageOK(me, rows, saved) ==
  /\ me.stage = "answer" <=> me.answer # "none"
  /\ me.stage \in {"register", "insert"} => me.kind = "register"
  /\ me.stage = "login" => me.kind = "login"
  /\ me.stage = "rename" => me.kind = "rename"
  /\ me.stage = "save" => me.kind # "rename"
  /\ me.stage \in {"register", "login", "insert"} => me.user = NoUser
  /\ me.stage = "save" \/ me.kind = "rename" => me.user # NoUser
  /\ me.user # NoUser => Matches(rows, me.user, me)
  /\ me.byName = "taken" \/ me.byEmail = "taken" => me.refusable
  /\ me.answer = "refused" => me.refusable /\ (me.kind # "rename" => me.user = NoUser)
  /\ me.answer = "done" => me.user # NoUser /\ (me.kind # "rename" => me.user \in saved)

RequestOK(me, rows, saved) ==
  me # Idle =>
    /\ StageOK(me, rows, saved)
    /\ me.answer = "none" /\ Deserved(me, rows) => me.refusable

AccountsInv ==
  /\ TypeOK
  /\ OneAccountPerKey
  /\ \A r \in Requests : RequestOK(request[r], account, sessions)

(* An account never goes away and keeps its email and its password. *)
Preserves(rows, later) ==
  \A u \in Users : Exists(rows, u) =>
    Exists(later, u) /\ later[u].email = rows[u].email /\ later[u].password = rows[u].password

------------------------------------------------------------------------------
LEMMA RowsAreNotNone == \A row \in Row : row # None
  BY DEF Row, None

LEMMA RequestsAreNotIdle == \A me \in Request : me # Idle
  BY DEF Request, Idle

LEMMA DeservedIsBoolean ==
  ASSUME NEW me \in Request, NEW rows
  PROVE  Deserved(me, rows) \in BOOLEAN
<1>1. me.kind \in {"register", "login", "rename"}
  BY DEF Request
<1>2. CASE me.kind = "register"
  BY <1>2 DEF Deserved, NameTaken, EmailTaken
<1>3. CASE me.kind = "login"
  BY <1>3 DEF Deserved
<1>4. CASE me.kind = "rename"
  BY <1>4 DEF Deserved, NameTaken
<1> QED BY <1>1, <1>2, <1>3, <1>4

LEMMA DeservedOf ==
  ASSUME NEW me, NEW rows
  PROVE  /\ me.kind = "register" =>
              (Deserved(me, rows) <=> NameTaken(rows, me.name, NoUser) \/ EmailTaken(rows, me.email))
         /\ me.kind = "login" => (Deserved(me, rows) <=> ~\E u \in Users : Matches(rows, u, me))
         /\ me.kind = "rename" => (Deserved(me, rows) <=> NameTaken(rows, me.name, me.user))
<1>1. CASE me.kind = "register"
  BY <1>1 DEF Deserved
<1>2. CASE me.kind = "login"
  BY <1>2 DEF Deserved
<1>3. CASE me.kind = "rename"
  BY <1>3 DEF Deserved
<1> QED BY <1>1, <1>2, <1>3

LEMMA InitAccounts == Init => AccountsInv
<1> SUFFICES ASSUME Init PROVE AccountsInv
  OBVIOUS
<1>1. TypeOK
  BY FaultBound DEF Init, TypeOK
<1>2. OneAccountPerKey
  BY DEF Init, OneAccountPerKey, Exists
<1>3. \A r \in Requests : request[r] = Idle
  BY DEF Init
<1> QED BY <1>1, <1>2, <1>3 DEF AccountsInv, RequestOK

(* A request moves and the table stays. *)
LEMMA MoveKeeps ==
  ASSUME AccountsInv, NEW r \in Requests, NEW next \in {Idle} \cup Request,
         Advance(r, next), account' = account, faults' \in 0 .. MaxFaults,
         sessions \subseteq sessions', sessions' \subseteq Users,
         RequestOK(next, account, sessions')
  PROVE  AccountsInv'
<1>1. request' = [request EXCEPT ![r] = next] /\ request \in [Requests -> {Idle} \cup Request]
  BY DEF Advance, AccountsInv, TypeOK
<1>2. TypeOK'
  BY <1>1 DEF AccountsInv, TypeOK
<1>3. OneAccountPerKey'
  BY DEF AccountsInv, OneAccountPerKey
<1>4. ASSUME NEW q \in Requests PROVE RequestOK(request'[q], account', sessions')
  <2>1. CASE q = r
    BY <1>1, <2>1
  <2>2. CASE q # r
    <3>1. request'[q] = request[q] /\ RequestOK(request[q], account, sessions)
      BY <1>1, <2>2 DEF AccountsInv
    <3> QED BY <3>1 DEF RequestOK, StageOK
  <2> QED BY <2>1, <2>2
<1> QED BY <1>2, <1>3, <1>4 DEF AccountsInv

(* What Witness makes of one request. *)
Witnessed(me, rows) ==
  IF Undecided(me) THEN [me EXCEPT !.refusable = @ \/ Deserved(me, rows)] ELSE me

LEMMA WitnessedIsOK ==
  ASSUME NEW me \in Request, NEW rows, NEW saved, StageOK(me, rows, saved)
  PROVE  Witnessed(me, rows) \in Request /\ RequestOK(Witnessed(me, rows), rows, saved)
<1>1. me # Idle /\ me.refusable \in BOOLEAN
  BY RequestsAreNotIdle DEF Request
<1>2. CASE me.answer # "none"
  BY <1>2 DEF Witnessed, Undecided, RequestOK
<1>3. CASE me.answer = "none"
  <2> DEFINE it == [me EXCEPT !.refusable = me.refusable \/ Deserved(me, rows)]
  <2>1. (me.refusable \/ Deserved(me, rows)) \in BOOLEAN
    BY <1>1, DeservedIsBoolean
  <2>2. it \in Request
    BY <2>1 DEF Request
  <2>3. Witnessed(me, rows) = it
    BY <1>1, <1>3 DEF Witnessed, Undecided
  <2>4. /\ it.stage = me.stage /\ it.kind = me.kind /\ it.name = me.name /\ it.email = me.email
        /\ it.password = me.password /\ it.byName = me.byName /\ it.byEmail = me.byEmail
        /\ it.user = me.user /\ it.answer = me.answer
    BY DEF Request
  <2>5. it.refusable <=> me.refusable \/ Deserved(me, rows)
    BY DEF Request
  <2> HIDE DEF it
  <2>6. \A u : Matches(rows, u, it) <=> Matches(rows, u, me)
    BY <2>4 DEF Matches
  <2>7. Deserved(it, rows) => Deserved(me, rows)
    <3>1. me.kind \in {"register", "login", "rename"}
      BY DEF Request
    <3> QED BY <2>4, <2>6, <3>1, DeservedOf
  <2>8. StageOK(it, rows, saved)
    BY <1>3, <2>4, <2>5, <2>6 DEF StageOK
  <2> QED BY <2>2, <2>3, <2>5, <2>7, <2>8 DEF RequestOK
<1> QED BY <1>2, <1>3

(* The table changes and every request takes note. *)
LEMMA WriteKeeps ==
  ASSUME AccountsInv, NEW r \in Requests, NEW next \in Request,
         request' = Witness([request EXCEPT ![r] = next], account'),
         account' \in [Users -> {None} \cup Row], Preserves(account, account'),
         OneAccountPerKey', sessions' = sessions, faults' = faults,
         StageOK(next, account', sessions)
  PROVE  AccountsInv'
<1>1. request \in [Requests -> {Idle} \cup Request]
  BY DEF AccountsInv, TypeOK
<1>2. ASSUME NEW q \in Requests
      PROVE  /\ request'[q] \in {Idle} \cup Request
             /\ RequestOK(request'[q], account', sessions')
  <2>1. CASE q = r
    <3>1. request'[q] = Witnessed(next, account')
      BY <1>1, <2>1 DEF Witness, Witnessed
    <3> QED BY <3>1, WitnessedIsOK
  <2>2. CASE q # r
    <3>1. request'[q] = Witnessed(request[q], account')
      BY <1>1, <2>2 DEF Witness, Witnessed
    <3>2. CASE request[q] = Idle
      BY <3>1, <3>2 DEF Witnessed, Undecided, RequestOK
    <3>3. CASE request[q] # Idle
      <4>1. request[q] \in Request /\ StageOK(request[q], account, sessions)
        BY <1>1, <3>3 DEF AccountsInv, RequestOK
      <4>2. request[q].user # NoUser => request[q].user \in Users
        BY <4>1 DEF Request
      <4>3. StageOK(request[q], account', sessions)
        BY <4>1, <4>2 DEF StageOK, Preserves, Matches
      <4> QED BY <3>1, <4>1, <4>3, WitnessedIsOK
    <3> QED BY <3>2, <3>3
  <2> QED BY <2>1, <2>2
<1>3. request' \in [Requests -> {Idle} \cup Request]
  BY <1>2 DEF Witness
<1>4. TypeOK'
  BY <1>3 DEF AccountsInv, TypeOK
<1> QED BY <1>2, <1>4 DEF AccountsInv

------------------------------------------------------------------------------
(* One lemma per action. *)

LEMMA ReadRequest ==
  ASSUME AccountsInv, NEW r \in Requests, request[r] # Idle
  PROVE  /\ request[r] \in Request
         /\ StageOK(request[r], account, sessions)
         /\ request[r].answer = "none" /\ Deserved(request[r], account) => request[r].refusable
         /\ sessions \subseteq Users /\ faults \in 0 .. MaxFaults
  BY DEF AccountsInv, TypeOK, RequestOK

LEMMA ArriveKeeps ==
  ASSUME AccountsInv, NEW r \in Requests, NEW kind \in {"register", "login", "rename"},
         NEW name \in Names, NEW email \in Emails, NEW password \in Passwords,
         NEW user \in Users \cup {NoUser}, Arrive(r, kind, name, email, password, user),
         user = NoUser <=> kind # "rename",
         user # NoUser => Exists(account, user) /\ account[user].email = email
                          /\ account[user].password = password
  PROVE  AccountsInv'
<1> DEFINE me == [stage |-> kind, kind |-> kind, name |-> name, email |-> email,
                  password |-> password, byName |-> "pending", byEmail |-> "pending",
                  user |-> user, answer |-> "none", refusable |-> FALSE]
           it == [me EXCEPT !.refusable = Deserved(me, account)]
<1>1. me \in Request
  BY DEF Request, LookUp
<1>2. it \in Request /\ Advance(r, it)
  BY <1>1, DeservedIsBoolean DEF Request, Arrive
<1>3. /\ it.stage = kind /\ it.kind = kind /\ it.name = name /\ it.email = email
      /\ it.password = password /\ it.byName = "pending" /\ it.byEmail = "pending"
      /\ it.user = user /\ it.answer = "none" /\ (it.refusable <=> Deserved(me, account))
  BY <1>1, DeservedIsBoolean
<1>4. /\ me.kind = kind /\ me.name = name /\ me.email = email /\ me.user = user
      /\ me.password = password
  OBVIOUS
<1> HIDE DEF me, it
<1>5. Deserved(it, account) => Deserved(me, account)
  <2>1. \A u : Matches(account, u, it) <=> Matches(account, u, me)
    BY <1>3, <1>4 DEF Matches
  <2> QED BY <1>3, <1>4, <2>1, DeservedOf
<1>6. StageOK(it, account, sessions)
  BY <1>3 DEF StageOK, Matches
<1>7. RequestOK(it, account, sessions)
  BY <1>3, <1>5, <1>6 DEF RequestOK
<1> QED BY <1>2, <1>7, MoveKeeps DEF Arrive, AccountsInv, TypeOK

LEMMA RequestKeeps ==
  ASSUME AccountsInv, NEW r \in Requests,
         RegisterRequest(r) \/ LoginRequest(r) \/ RenameRequest(r)
  PROVE  AccountsInv'
<1>1. CASE RegisterRequest(r)
  BY <1>1, ArriveKeeps DEF RegisterRequest
<1>2. CASE LoginRequest(r)
  BY <1>2, ArriveKeeps DEF LoginRequest
<1>3. CASE RenameRequest(r)
  <2>1. PICK user \in Users, name \in Names :
          /\ Exists(account, user)
          /\ Arrive(r, "rename", name, account[user].email, account[user].password, user)
    BY <1>3 DEF RenameRequest
  <2>2. account[user].email \in Emails /\ account[user].password \in Passwords
    BY <2>1 DEF Exists, AccountsInv, TypeOK, Row
  <2> QED BY <2>1, <2>2, NoUserIsNone, ArriveKeeps
<1> QED BY <1>1, <1>2, <1>3

LEMMA LookUpKeeps ==
  ASSUME AccountsInv, NEW r \in Requests, FindUserByUsername(r) \/ FindUserByEmail(r)
  PROVE  AccountsInv'
<1> DEFINE me == request[r]
<1>1. me.stage = "register" /\ me # Idle
  BY DEF FindUserByUsername, FindUserByEmail, Idle
<1>2. /\ me \in Request /\ StageOK(me, account, sessions)
      /\ me.answer = "none" /\ Deserved(me, account) => me.refusable
      /\ sessions \subseteq Users /\ faults \in 0 .. MaxFaults
  BY <1>1, ReadRequest
<1>3. me.kind = "register" /\ me.answer = "none"
  BY <1>1, <1>2 DEF StageOK, Request
<1>4. NameTaken(account, me.name, NoUser) \/ EmailTaken(account, me.email) => me.refusable
  BY <1>2, <1>3, DeservedOf
<1>5. ASSUME NEW it \in Request, Advance(r, it), UNCHANGED <<account, sessions, faults>>,
             it.stage = me.stage, it.kind = me.kind, it.name = me.name, it.email = me.email,
             it.password = me.password, it.user = me.user, it.answer = me.answer,
             it.refusable = me.refusable,
             it.byName = "taken" \/ it.byEmail = "taken" => me.refusable
      PROVE  AccountsInv'
  <2> HIDE DEF me
  <2>1. StageOK(it, account, sessions)
    BY <1>2, <1>5 DEF StageOK, Matches
  <2>2. Deserved(it, account) => Deserved(me, account)
    BY <1>3, <1>5, DeservedOf
  <2>3. RequestOK(it, account, sessions)
    BY <1>2, <1>3, <1>5, <2>1, <2>2 DEF RequestOK
  <2> QED BY <1>2, <1>5, <2>3, MoveKeeps
<1>6. CASE FindUserByUsername(r)
  <2> DEFINE seen == IF NameTaken(account, me.name, NoUser) THEN "taken" ELSE "free"
             it == [me EXCEPT !.byName = seen]
  <2>1. Advance(r, it) /\ UNCHANGED <<account, sessions, faults>>
    BY <1>6 DEF FindUserByUsername
  <2>2. seen \in LookUp /\ (seen = "taken" => me.refusable)
    BY <1>4 DEF LookUp
  <2>3. it \in Request
    BY <1>2, <2>2 DEF Request
  <2>4. it.byName = seen /\ it.byEmail = me.byEmail
    BY <1>2 DEF Request
  <2>5. /\ it.stage = me.stage /\ it.kind = me.kind /\ it.name = me.name
        /\ it.email = me.email /\ it.password = me.password /\ it.user = me.user
        /\ it.answer = me.answer /\ it.refusable = me.refusable
    BY <1>2 DEF Request
  <2>6. it.byName = "taken" \/ it.byEmail = "taken" => me.refusable
    BY <1>2, <2>2, <2>4 DEF StageOK
  <2> HIDE DEF it, me
  <2> QED BY <1>5, <2>1, <2>3, <2>5, <2>6
<1>7. CASE FindUserByEmail(r)
  <2> DEFINE seen == IF EmailTaken(account, me.email) THEN "taken" ELSE "free"
             it == [me EXCEPT !.byEmail = seen]
  <2>1. Advance(r, it) /\ UNCHANGED <<account, sessions, faults>>
    BY <1>7 DEF FindUserByEmail
  <2>2. seen \in LookUp /\ (seen = "taken" => me.refusable)
    BY <1>4 DEF LookUp
  <2>3. it \in Request
    BY <1>2, <2>2 DEF Request
  <2>4. it.byEmail = seen /\ it.byName = me.byName
    BY <1>2 DEF Request
  <2>5. /\ it.stage = me.stage /\ it.kind = me.kind /\ it.name = me.name
        /\ it.email = me.email /\ it.password = me.password /\ it.user = me.user
        /\ it.answer = me.answer /\ it.refusable = me.refusable
    BY <1>2 DEF Request
  <2>6. it.byName = "taken" \/ it.byEmail = "taken" => me.refusable
    BY <1>2, <2>2, <2>4 DEF StageOK
  <2> HIDE DEF it, me
  <2> QED BY <1>5, <2>1, <2>3, <2>5, <2>6
<1> QED BY <1>6, <1>7

(* What the answers of a request need. *)
LEMMA AnswerIsOK ==
  ASSUME NEW me \in Request, StageOK(me, account, sessions),
         NEW saved, sessions \subseteq saved,
         NEW what \in {"done", "refused", "failed"},
         what = "refused" => me.refusable /\ (me.kind # "rename" => me.user = NoUser),
         what = "done" => me.user # NoUser /\ (me.kind # "rename" => me.user \in saved)
  PROVE  /\ Answer(me, what) \in Request
         /\ StageOK(Answer(me, what), account, saved)
         /\ RequestOK(Answer(me, what), account, saved)
<1> DEFINE it == Answer(me, what)
<1>1. it \in Request
  BY DEF Request, Answer
<1>2. /\ it.stage = "answer" /\ it.answer = what /\ it.kind = me.kind /\ it.name = me.name
      /\ it.email = me.email /\ it.password = me.password /\ it.byName = me.byName
      /\ it.byEmail = me.byEmail /\ it.user = me.user /\ it.refusable = me.refusable
  BY DEF Request, Answer
<1> HIDE DEF it
<1>3. StageOK(it, account, saved)
  BY <1>2 DEF StageOK, Matches
<1> QED BY <1>1, <1>2, <1>3 DEF RequestOK, it

LEMMA CheckKeeps ==
  ASSUME AccountsInv, NEW r \in Requests, CheckAvailable(r)
  PROVE  AccountsInv'
<1> DEFINE me == request[r]
<1>1. /\ me.stage = "register" /\ me # Idle /\ UNCHANGED <<account, sessions, faults>>
      /\ Advance(r, IF "taken" \in {me.byName, me.byEmail} THEN Answer(me, "refused")
                    ELSE [me EXCEPT !.stage = "insert"])
  BY DEF CheckAvailable, Idle
<1>2. /\ me \in Request /\ StageOK(me, account, sessions)
      /\ me.answer = "none" /\ Deserved(me, account) => me.refusable
      /\ sessions \subseteq Users /\ faults \in 0 .. MaxFaults
  BY <1>1, ReadRequest
<1>3. me.answer = "none" /\ me.kind = "register" /\ me.user = NoUser
  BY <1>1, <1>2 DEF StageOK, Request
<1>4. CASE "taken" \in {me.byName, me.byEmail}
  <2>1. Advance(r, Answer(me, "refused")) /\ me.refusable
    BY <1>1, <1>2, <1>4 DEF StageOK
  <2> HIDE DEF me
  <2> QED BY <1>1, <1>2, <1>3, <2>1, AnswerIsOK, MoveKeeps
<1>5. CASE "taken" \notin {me.byName, me.byEmail}
  <2> DEFINE it == [me EXCEPT !.stage = "insert"]
  <2>1. Advance(r, it) /\ it \in Request
    BY <1>1, <1>2, <1>5 DEF Request
  <2>2. /\ it.stage = "insert" /\ it.kind = me.kind /\ it.name = me.name
        /\ it.email = me.email /\ it.password = me.password /\ it.byName = me.byName
        /\ it.byEmail = me.byEmail /\ it.user = me.user /\ it.answer = me.answer
        /\ it.refusable = me.refusable
    BY <1>2 DEF Request
  <2> HIDE DEF it, me
  <2>3. StageOK(it, account, sessions)
    BY <1>2, <1>3, <2>2 DEF StageOK, Matches
  <2>4. Deserved(it, account) => Deserved(me, account)
    BY <1>3, <2>2, DeservedOf
  <2>5. RequestOK(it, account, sessions)
    BY <1>2, <1>3, <2>2, <2>3, <2>4 DEF RequestOK
  <2> QED BY <1>1, <1>2, <2>1, <2>5, MoveKeeps
<1> QED BY <1>4, <1>5

LEMMA InsertKeeps ==
  ASSUME AccountsInv, NEW r \in Requests, InsertUser(r)
  PROVE  AccountsInv'
<1> DEFINE me == request[r]
<1>1. me.stage = "insert" /\ me # Idle /\ UNCHANGED <<sessions, faults>>
  <2>1. request[r].stage = "insert" /\ UNCHANGED <<sessions, faults>>
    BY Zenon DEF InsertUser
  <2>2. request[r] # Idle
    BY <2>1 DEF Idle
  <2> QED BY <2>1, <2>2
<1>2. /\ me \in Request /\ StageOK(me, account, sessions)
      /\ me.answer = "none" /\ Deserved(me, account) => me.refusable
      /\ sessions \subseteq Users /\ faults \in 0 .. MaxFaults
  BY <1>1, ReadRequest
<1>3. me.answer = "none" /\ me.kind = "register" /\ me.user = NoUser
  BY <1>1, <1>2 DEF StageOK, Request
<1>4. CASE NameTaken(account, me.name, NoUser) \/ EmailTaken(account, me.email)
  <2>1. Advance(r, Answer(me, "refused")) /\ account' = account
    BY <1>4 DEF InsertUser
  <2>2. me.refusable
    BY <1>2, <1>3, <1>4, DeservedOf
  <2> HIDE DEF me
  <2> QED BY <1>1, <1>2, <1>3, <2>1, <2>2, AnswerIsOK, MoveKeeps
<1>5. CASE ~NameTaken(account, me.name, NoUser) /\ ~EmailTaken(account, me.email)
  <2>1. PICK u \in Users :
          /\ ~Exists(account, u)
          /\ account' = [account EXCEPT ![u] = NewRow(me)]
          /\ request' = Witness([request EXCEPT ![r] = [me EXCEPT !.stage = "save", !.user = u]],
                                account')
    BY <1>5 DEF InsertUser
  <2> DEFINE it == [me EXCEPT !.stage = "save", !.user = u]
  <2>2. /\ it \in Request /\ it.stage = "save" /\ it.user = u /\ it.kind = me.kind
        /\ it.email = me.email /\ it.password = me.password /\ it.byName = me.byName
        /\ it.byEmail = me.byEmail /\ it.answer = me.answer /\ it.refusable = me.refusable
    BY <1>2 DEF Request
  <2>3. /\ NewRow(me) \in Row /\ NewRow(me).name = me.name /\ NewRow(me).email = me.email
        /\ NewRow(me).password = me.password
    BY <1>2 DEF NewRow, Row, Request
  <2>4. account \in [Users -> {None} \cup Row]
    BY DEF AccountsInv, TypeOK
  <2> HIDE DEF me, it
  <2>5. /\ account' \in [Users -> {None} \cup Row] /\ account'[u] = NewRow(me)
        /\ \A v \in Users : v # u => account'[v] = account[v]
        /\ Exists(account', u)
    BY <2>1, <2>3, <2>4, RowsAreNotNone DEF Exists
  <2>6. Preserves(account, account')
    BY <2>1, <2>5 DEF Preserves, Exists
  <2>7. \A v \in Users : v # u /\ Exists(account', v) =>
          account'[v].name # me.name /\ account'[v].email # me.email
    <3>1. ASSUME NEW v \in Users, v # u, Exists(account', v)
          PROVE  Exists(account, v) /\ account'[v] = account[v] /\ v # NoUser
      BY <2>5, <3>1, NoUserIsNone DEF Exists
    <3> QED BY <1>5, <3>1 DEF NameTaken, EmailTaken
  <2>8. OneAccountPerKey'
    <3> SUFFICES ASSUME NEW v \in Users, NEW w \in Users, Exists(account', v), Exists(account', w),
                        account'[v].name = account'[w].name \/ account'[v].email = account'[w].email,
                        v # w
                 PROVE  FALSE
      BY DEF OneAccountPerKey
    <3>1. v # u /\ w # u
      BY <2>3, <2>5, <2>7
    <3> QED BY <2>5, <3>1 DEF AccountsInv, OneAccountPerKey, Exists
  <2>9. Matches(account', it.user, it)
    BY <2>2, <2>3, <2>5 DEF Matches
  <2>10. StageOK(it, account', sessions)
    BY <1>2, <1>3, <2>2, <2>9, NoUserIsNone DEF StageOK
  <2>11. request' = Witness([request EXCEPT ![r] = it], account')
    BY <2>1 DEF it, me
  <2> QED BY <1>1, <2>2, <2>5, <2>6, <2>8, <2>10, <2>11, WriteKeeps
<1> QED BY <1>4, <1>5

LEMMA LoginKeeps ==
  ASSUME AccountsInv, NEW r \in Requests, FindCredentials(r)
  PROVE  AccountsInv'
<1> DEFINE me == request[r]
<1>1. me.stage = "login" /\ me # Idle /\ UNCHANGED <<account, sessions, faults>>
  <2>1. request[r].stage = "login" /\ UNCHANGED <<account, sessions, faults>>
    BY Zenon DEF FindCredentials
  <2>2. request[r] # Idle
    BY <2>1 DEF Idle
  <2> QED BY <2>1, <2>2
<1>2. /\ me \in Request /\ StageOK(me, account, sessions)
      /\ me.answer = "none" /\ Deserved(me, account) => me.refusable
      /\ sessions \subseteq Users /\ faults \in 0 .. MaxFaults
  BY <1>1, ReadRequest
<1>3. me.answer = "none" /\ me.kind = "login" /\ me.user = NoUser
  BY <1>1, <1>2 DEF StageOK, Request
<1>4. CASE ~\E u \in Users : Matches(account, u, me)
  <2>1. Advance(r, Answer(me, "refused"))
    BY <1>4 DEF FindCredentials
  <2>2. me.refusable
    BY <1>2, <1>3, <1>4, DeservedOf
  <2> HIDE DEF me
  <2> QED BY <1>1, <1>2, <1>3, <2>1, <2>2, AnswerIsOK, MoveKeeps
<1>5. CASE \E u \in Users : Matches(account, u, me)
  <2>1. PICK u \in Users : Matches(account, u, me)
                           /\ Advance(r, [me EXCEPT !.stage = "save", !.user = u])
    BY <1>5 DEF FindCredentials
  <2> DEFINE it == [me EXCEPT !.stage = "save", !.user = u]
  <2>2. /\ it \in Request /\ it.stage = "save" /\ it.user = u /\ it.kind = me.kind
        /\ it.email = me.email /\ it.password = me.password /\ it.byName = me.byName
        /\ it.byEmail = me.byEmail /\ it.answer = me.answer /\ it.refusable = me.refusable
    BY <1>2 DEF Request
  <2>3. Advance(r, it)
    BY <2>1
  <2> HIDE DEF me, it
  <2>4. \A v : Matches(account, v, it) <=> Matches(account, v, me)
    BY <2>2 DEF Matches
  <2>5. StageOK(it, account, sessions)
    BY <1>2, <1>3, <2>1, <2>2, <2>4, NoUserIsNone DEF StageOK
  <2>6. ~Deserved(it, account)
    BY <1>3, <2>1, <2>2, <2>4, DeservedOf
  <2>7. RequestOK(it, account, sessions)
    BY <2>5, <2>6 DEF RequestOK
  <2> QED BY <1>1, <1>2, <2>2, <2>3, <2>7, MoveKeeps
<1> QED BY <1>4, <1>5

LEMMA SaveKeeps ==
  ASSUME AccountsInv, NEW r \in Requests, SaveRefreshToken(r)
  PROVE  AccountsInv'
<1> DEFINE me == request[r]
<1>1. /\ me.stage = "save" /\ me # Idle /\ UNCHANGED <<account, faults>>
      /\ sessions' = sessions \cup {me.user} /\ Advance(r, Answer(me, "done"))
  BY DEF SaveRefreshToken, Idle
<1>2. /\ me \in Request /\ StageOK(me, account, sessions)
      /\ sessions \subseteq Users /\ faults \in 0 .. MaxFaults
  BY <1>1, ReadRequest
<1>3. me.user # NoUser /\ me.user \in Users
  BY <1>1, <1>2 DEF StageOK, Request
<1> HIDE DEF me
<1>4. sessions \subseteq sessions' /\ sessions' \subseteq Users /\ me.user \in sessions'
  BY <1>1, <1>2, <1>3
<1>5. /\ Answer(me, "done") \in Request
      /\ RequestOK(Answer(me, "done"), account, sessions')
  BY <1>2, <1>3, <1>4, AnswerIsOK
<1> QED BY <1>1, <1>2, <1>4, <1>5, MoveKeeps

LEMMA RenameKeeps ==
  ASSUME AccountsInv, NEW r \in Requests, UpdateUserProfile(r)
  PROVE  AccountsInv'
<1> DEFINE me == request[r]
<1>1. me.stage = "rename" /\ me # Idle /\ UNCHANGED <<sessions, faults>>
  BY DEF UpdateUserProfile, Idle
<1>2. /\ me \in Request /\ StageOK(me, account, sessions)
      /\ me.answer = "none" /\ Deserved(me, account) => me.refusable
      /\ sessions \subseteq Users /\ faults \in 0 .. MaxFaults
  BY <1>1, ReadRequest
<1>3. /\ me.answer = "none" /\ me.kind = "rename" /\ me.user # NoUser /\ me.user \in Users
      /\ me.name \in Names /\ Matches(account, me.user, me)
  BY <1>1, <1>2 DEF StageOK, Request
<1>4. CASE NameTaken(account, me.name, me.user)
  <2>1. Advance(r, Answer(me, "refused")) /\ account' = account
    BY <1>4 DEF UpdateUserProfile
  <2>2. me.refusable
    BY <1>2, <1>3, <1>4, DeservedOf
  <2> HIDE DEF me
  <2> QED BY <1>1, <1>2, <1>3, <2>1, <2>2, AnswerIsOK, MoveKeeps
<1>5. CASE ~NameTaken(account, me.name, me.user)
  <2> DEFINE u == me.user
  <2>1. /\ account' = [account EXCEPT ![u].name = me.name]
        /\ request' = Witness([request EXCEPT ![r] = Answer(me, "done")], account')
    BY <1>5 DEF UpdateUserProfile
  <2>2. /\ account \in [Users -> {None} \cup Row] /\ account[u] \in Row
    BY <1>3 DEF AccountsInv, TypeOK, Matches, Exists
  <2> DEFINE row == [account[u] EXCEPT !.name = me.name]
  <2>3. /\ row \in Row /\ row.name = me.name /\ row.email = account[u].email
        /\ row.password = account[u].password
    BY <1>3, <2>2 DEF Row
  <2>4. account' = [account EXCEPT ![u] = row]
    BY <1>3, <2>1, <2>2
  <2> HIDE DEF me, u, row
  <2>5. u \in Users /\ u = me.user
    BY <1>3 DEF u
  <2>6. /\ account' \in [Users -> {None} \cup Row] /\ account'[u] = row
        /\ \A v \in Users : v # u => account'[v] = account[v]
        /\ Exists(account', u) /\ Exists(account, u)
    BY <2>2, <2>3, <2>4, <2>5, RowsAreNotNone DEF Exists
  <2>7. Preserves(account, account')
    BY <2>3, <2>6 DEF Preserves, Exists
  <2>8. \A v \in Users : v # u /\ Exists(account', v) =>
          account'[v].name # me.name /\ account'[v].email # account[u].email
    <3>1. ASSUME NEW v \in Users, v # u, Exists(account', v)
          PROVE  Exists(account, v) /\ account'[v] = account[v]
      BY <2>6, <3>1 DEF Exists
    <3>2. ASSUME NEW v \in Users, v # u, Exists(account', v)
          PROVE  account'[v].name # me.name
      BY <1>5, <2>5, <3>1, <3>2 DEF NameTaken
    <3>3. ASSUME NEW v \in Users, v # u, Exists(account', v)
          PROVE  account'[v].email # account[u].email
      BY <2>5, <2>6, <3>1, <3>3 DEF AccountsInv, OneAccountPerKey
    <3> QED BY <3>2, <3>3
  <2>9. OneAccountPerKey'
    <3> SUFFICES ASSUME NEW v \in Users, NEW w \in Users, Exists(account', v), Exists(account', w),
                        account'[v].name = account'[w].name \/ account'[v].email = account'[w].email,
                        v # w
                 PROVE  FALSE
      BY DEF OneAccountPerKey
    <3>1. v # u /\ w # u
      BY <2>3, <2>6, <2>8
    <3> QED BY <2>6, <3>1 DEF AccountsInv, OneAccountPerKey, Exists
  <2>10. StageOK(me, account', sessions)
    BY <1>2, <1>3, <2>3, <2>5, <2>6, <2>7 DEF StageOK, Matches
  <2> DEFINE it == Answer(me, "done")
  <2>11. /\ it \in Request /\ it.stage = "answer" /\ it.answer = "done" /\ it.kind = me.kind
         /\ it.email = me.email /\ it.password = me.password /\ it.byName = me.byName
         /\ it.byEmail = me.byEmail /\ it.user = me.user /\ it.refusable = me.refusable
    BY <1>2 DEF Request, Answer
  <2> HIDE DEF it
  <2>12. StageOK(it, account', sessions)
    BY <1>3, <2>10, <2>11 DEF StageOK, Matches
  <2>13. request' = Witness([request EXCEPT ![r] = it], account')
    BY <2>1 DEF it
  <2> QED BY <1>1, <2>6, <2>7, <2>9, <2>11, <2>12, <2>13, WriteKeeps
<1> QED BY <1>4, <1>5

LEMMA FailKeeps ==
  ASSUME AccountsInv, NEW r \in Requests, Fail(r)
  PROVE  AccountsInv'
<1> DEFINE me == request[r]
<1>1. /\ me # Idle /\ faults < MaxFaults /\ faults' = faults + 1
      /\ Advance(r, Answer(me, "failed")) /\ UNCHANGED <<account, sessions>>
  BY DEF Fail
<1>2. /\ me \in Request /\ StageOK(me, account, sessions)
      /\ sessions \subseteq Users /\ faults \in 0 .. MaxFaults
  BY <1>1, ReadRequest
<1>3. faults' \in 0 .. MaxFaults
  BY <1>1, <1>2, FaultBound
<1> HIDE DEF me
<1>4. /\ Answer(me, "failed") \in Request
      /\ RequestOK(Answer(me, "failed"), account, sessions)
  BY <1>2, AnswerIsOK
<1> QED BY <1>1, <1>2, <1>3, <1>4, MoveKeeps

LEMMA RespondKeeps ==
  ASSUME AccountsInv, NEW r \in Requests, Respond(r)
  PROVE  AccountsInv'
<1>1. Advance(r, Idle) /\ UNCHANGED <<account, sessions, faults>>
  BY DEF Respond
<1>2. sessions \subseteq Users /\ faults \in 0 .. MaxFaults
  BY DEF AccountsInv, TypeOK
<1>3. RequestOK(Idle, account, sessions)
  BY DEF RequestOK
<1> QED BY <1>1, <1>2, <1>3, MoveKeeps

LEMMA NextAccounts == AccountsInv /\ [Next]_vars => AccountsInv'
<1> SUFFICES ASSUME AccountsInv, [Next]_vars PROVE AccountsInv'
  OBVIOUS
<1>1. CASE Next
  <2>1. PICK r \in Requests :
          \/ RegisterRequest(r) \/ LoginRequest(r) \/ RenameRequest(r)
          \/ FindUserByUsername(r) \/ FindUserByEmail(r) \/ CheckAvailable(r) \/ InsertUser(r)
          \/ FindCredentials(r) \/ SaveRefreshToken(r) \/ UpdateUserProfile(r)
          \/ Fail(r) \/ Respond(r)
    BY <1>1 DEF Next
  <2> QED BY <2>1, RequestKeeps, LookUpKeeps, CheckKeeps, InsertKeeps, LoginKeeps, SaveKeeps,
             RenameKeeps, FailKeeps, RespondKeeps
<1>2. CASE UNCHANGED vars
  BY <1>2 DEF vars, AccountsInv, TypeOK, OneAccountPerKey
<1> QED BY <1>1, <1>2

LEMMA AccountsInvHolds == Spec => []AccountsInv
<1> QED BY InitAccounts, NextAccounts, PTL DEF Spec

------------------------------------------------------------------------------
(* The rows, the sessions and the requests have their types. *)
THEOREM AccountsTypeCorrect == Spec => []TypeOK
<1>1. AccountsInv => TypeOK
  BY DEF AccountsInv
<1> QED BY <1>1, AccountsInvHolds, PTL

(* However many registrations and renames race for a name or an email, one    *)
(* account has it.                                                           *)
THEOREM KeysStayUnique == Spec => []OneAccountPerKey
<1>1. AccountsInv => OneAccountPerKey
  BY DEF AccountsInv
<1> QED BY <1>1, AccountsInvHolds, PTL

(* A refusal was deserved at some moment of its request, a success has its    *)
(* account and its session, and an error leaves at most an account that its   *)
(* owner can log in to.                                                      *)
THEOREM AnswersAreAlwaysTrue == Spec => []AnswersAreTrue
<1>1. AccountsInv => AnswersAreTrue
  <2> SUFFICES ASSUME AccountsInv, NEW r \in Requests, request[r].stage = "answer"
               PROVE  LET me == request[r] IN
                      /\ me.answer = "refused" =>
                           me.refusable /\ (me.kind # "rename" => me.user = NoUser)
                      /\ me.user # NoUser => Matches(account, me.user, me)
                      /\ me.answer = "done" =>
                           me.user # NoUser /\ (me.kind # "rename" => me.user \in sessions)
    BY DEF AnswersAreTrue
  <2>1. request[r] # Idle
    BY DEF Idle
  <2>2. StageOK(request[r], account, sessions)
    BY <2>1, ReadRequest
  <2> QED BY <2>2 DEF StageOK
<1> QED BY <1>1, AccountsInvHolds, PTL

(* Accounts are neither removed nor taken over, and a name changes only when  *)
(* the owner of the account asks for it.                                     *)
THEOREM AccountsAlwaysKept == Spec => AccountsAreKept
<1> DEFINE Kept ==
      \A u \in Users : Exists(account, u) =>
        /\ account'[u] = [account[u] EXCEPT !.name = account'[u].name]
        /\ account'[u] # account[u] => Owned(u)
<1>1. AccountsInv /\ [Next]_vars => [Kept]_vars
  <2> SUFFICES ASSUME AccountsInv, Next, NEW u \in Users, Exists(account, u)
               PROVE  /\ account'[u] = [account[u] EXCEPT !.name = account'[u].name]
                      /\ account'[u] # account[u] => Owned(u)
    OBVIOUS
  <2>1. account \in [Users -> {None} \cup Row] /\ account[u] \in Row
    BY DEF AccountsInv, TypeOK, Exists
  <2>2. CASE account'[u] = account[u]
    BY <2>1, <2>2 DEF Row
  <2>3. CASE account'[u] # account[u]
    <3>1. PICK r \in Requests : InsertUser(r) \/ UpdateUserProfile(r)
      BY <2>3 DEF Next, RegisterRequest, LoginRequest, RenameRequest, Arrive, FindUserByUsername,
                  FindUserByEmail, CheckAvailable, FindCredentials, SaveRefreshToken, Fail, Respond
    <3>2. ~InsertUser(r)
      BY <2>1, <2>3 DEF InsertUser, Exists
    <3>3. /\ account' = [account EXCEPT ![request[r].user].name = request[r].name]
          /\ request[r].stage = "rename"
      BY <2>3, <3>1, <3>2 DEF UpdateUserProfile
    <3>4. request[r].user = u
      BY <2>1, <2>3, <3>3
    <3>5. account'[u] = [account[u] EXCEPT !.name = request[r].name]
      BY <2>1, <3>3, <3>4
    <3>6. request[r] # Idle /\ request[r].kind = "rename"
      <4>1. request[r] # Idle
        BY <3>3 DEF Idle
      <4> QED BY <3>3, <4>1, ReadRequest DEF StageOK
    <3> QED BY <2>1, <3>4, <3>5, <3>6 DEF Owned, Row
  <2> QED BY <2>2, <2>3
<1>2. AccountsAreKept <=> [][Kept]_vars
  BY PTL DEF AccountsAreKept
<1> QED BY <1>1, <1>2, AccountsInvHolds, PTL DEF Spec
===============================================================================

------------------------------- MODULE Accounts -------------------------------
(* apps/server/modules/auth and modules/user on the table User: registration, *)
(* login and the change of a profile. A registration looks both keys up in    *)
(* two statements that run at the same time, hashes the password, inserts the *)
(* row and stores a refresh token, each in a statement of its own; between    *)
(* them other requests register, and rename. A statement is atomic, and the   *)
(* unique constraints of User are checked by the one that writes.            *)
EXTENDS Naturals

CONSTANTS
  Users,       \* ids of rows of User
  Names, Emails, Passwords,
  Requests,    \* requests that can be in flight at once
  NoUser,
  MaxFaults    \* bound: statements that fail

ASSUME NoUserIsNone == NoUser \notin Users
ASSUME FaultBound == MaxFaults \in Nat

VARIABLES
  account,   \* account[u]: the row of User with id u
  sessions,  \* the users for whom a refresh token has been stored
  request,   \* request[r]: how far r has come
  faults

vars == <<account, sessions, request, faults>>

None    == [name |-> "none"]
Row     == [name: Names, email: Emails, password: Passwords]
Exists(rows, u) == rows[u] # None

(* byName, byEmail: what the look-ups of a registration have returned. user:  *)
(* the row it inserted, logged in to or changes. answer: 201 and 200, 409 and *)
(* 401, or 500. refusable: history: at some moment since the request came the *)
(* table was such that it deserved to be refused.                            *)
Idle == [stage |-> "idle"]
LookUp  == {"pending", "free", "taken"}
Request ==
  [stage: {"register", "login", "rename", "insert", "save", "answer"},
   name: Names, email: Emails, password: Passwords, byName: LookUp, byEmail: LookUp,
   user: Users \cup {NoUser}, answer: {"none", "done", "refused", "failed"},
   refusable: BOOLEAN, kind: {"register", "login", "rename"}]

Init ==
  /\ account = [u \in Users |-> None]
  /\ sessions = {}
  /\ request = [r \in Requests |-> Idle]
  /\ faults = 0

NameTaken(rows, name, except) ==
  \E u \in Users \ {except} : Exists(rows, u) /\ rows[u].name = name
EmailTaken(rows, email) ==
  \E u \in Users : Exists(rows, u) /\ rows[u].email = email
Matches(rows, u, me) ==
  Exists(rows, u) /\ rows[u].email = me.email /\ rows[u].password = me.password

(* The API's reasons for a refusal: docs/api-architecture.md.                *)
Deserved(me, rows) ==
  CASE me.kind = "register" -> NameTaken(rows, me.name, NoUser) \/ EmailTaken(rows, me.email)
    [] me.kind = "login"    -> ~\E u \in Users : Matches(rows, u, me)
    [] me.kind = "rename"   -> NameTaken(rows, me.name, me.user)

Undecided(me) == me # Idle /\ me.answer = "none"
Witness(requests, rows) ==
  [r \in Requests |->
    IF Undecided(requests[r])
    THEN [requests[r] EXCEPT !.refusable = @ \/ Deserved(requests[r], rows)]
    ELSE requests[r]]

Advance(r, next) == request' = [request EXCEPT ![r] = next]
Answer(me, what) == [me EXCEPT !.stage = "answer", !.answer = what]
------------------------------------------------------------------------------
(* A request arrives, validated. A profile change comes with the access token *)
(* of an account, and accounts are never deleted.                            *)
Arrive(r, kind, name, email, password, user) ==
  LET me == [stage |-> kind, kind |-> kind, name |-> name, email |-> email,
             password |-> password, byName |-> "pending", byEmail |-> "pending",
             user |-> user, answer |-> "none", refusable |-> FALSE] IN
  /\ request[r] = Idle
  /\ Advance(r, [me EXCEPT !.refusable = Deserved(me, account)])
  /\ UNCHANGED <<account, sessions, faults>>

RegisterRequest(r) ==
  \E name \in Names, email \in Emails, password \in Passwords :
    Arrive(r, "register", name, email, password, NoUser)

LoginRequest(r) ==
  \E name \in Names, email \in Emails, password \in Passwords :
    Arrive(r, "login", name, email, password, NoUser)

RenameRequest(r) ==
  \E user \in Users, name \in Names :
    /\ Exists(account, user)
    /\ Arrive(r, "rename", name, account[user].email, account[user].password, user)

(* registerUserService: the two look-ups of Promise.all.                     *)
FindUserByUsername(r) ==
  /\ request[r].stage = "register" /\ request[r].byName = "pending"
  /\ Advance(r, [request[r] EXCEPT !.byName =
       IF NameTaken(account, request[r].name, NoUser) THEN "taken" ELSE "free"])
  /\ UNCHANGED <<account, sessions, faults>>

FindUserByEmail(r) ==
  /\ request[r].stage = "register" /\ request[r].byEmail = "pending"
  /\ Advance(r, [request[r] EXCEPT !.byEmail =
       IF EmailTaken(account, request[r].email) THEN "taken" ELSE "free"])
  /\ UNCHANGED <<account, sessions, faults>>

CheckAvailable(r) ==
  LET me == request[r] IN
  /\ me.stage = "register" /\ me.byName # "pending" /\ me.byEmail # "pending"
  /\ Advance(r, IF "taken" \in {me.byName, me.byEmail} THEN Answer(me, "refused")
                ELSE [me EXCEPT !.stage = "insert"])
  /\ UNCHANGED <<account, sessions, faults>>

(* createUser: a violation of @unique is P2002, which errorMiddleware turns   *)
(* into 409.                                                                 *)
NewRow(me) == [name |-> me.name, email |-> me.email, password |-> me.password]

FaultyInsertUser(r) ==                       \* trusts the look-ups, without @unique
  LET me == request[r] IN
  /\ me.stage = "insert"
  /\ \E u \in Users :
       /\ ~Exists(account, u)
       /\ account' = [account EXCEPT ![u] = NewRow(me)]
       /\ request' = Witness([request EXCEPT ![r] = [me EXCEPT !.stage = "save", !.user = u]],
                             account')
  /\ UNCHANGED <<sessions, faults>>
FaultyUpsertUser(r) ==                       \* upsert by email in the place of create
  LET me == request[r] IN
  /\ me.stage = "insert"
  /\ ~NameTaken(account, me.name, NoUser)
  /\ \E u \in Users :
       /\ IF EmailTaken(account, me.email) THEN account[u] # None /\ account[u].email = me.email
          ELSE ~Exists(account, u)
       /\ account' = [account EXCEPT ![u] = NewRow(me)]
       /\ request' = Witness([request EXCEPT ![r] = [me EXCEPT !.stage = "save", !.user = u]],
                             account')
  /\ UNCHANGED <<sessions, faults>>
InsertUser(r) ==
  LET me == request[r] IN
  /\ me.stage = "insert"
  /\ \/ /\ NameTaken(account, me.name, NoUser) \/ EmailTaken(account, me.email)
        /\ Advance(r, Answer(me, "refused"))
        /\ UNCHANGED account
     \/ /\ ~NameTaken(account, me.name, NoUser) /\ ~EmailTaken(account, me.email)
        /\ \E u \in Users :
             /\ ~Exists(account, u)
             /\ account' = [account EXCEPT ![u] = NewRow(me)]
             /\ request' = Witness([request EXCEPT ![r] =
                                      [me EXCEPT !.stage = "save", !.user = u]], account')
  /\ UNCHANGED <<sessions, faults>>

(* loginUserService. *)
FindCredentials(r) ==
  LET me == request[r] IN
  /\ me.stage = "login"
  /\ \/ \E u \in Users : Matches(account, u, me)
                         /\ Advance(r, [me EXCEPT !.stage = "save", !.user = u])
     \/ /\ ~\E u \in Users : Matches(account, u, me)
        /\ Advance(r, Answer(me, "refused"))
  /\ UNCHANGED <<account, sessions, faults>>

(* saveRefreshTokenService, for both. *)
SaveRefreshToken(r) ==
  LET me == request[r] IN
  /\ me.stage = "save"
  /\ sessions' = sessions \cup {me.user}
  /\ Advance(r, Answer(me, "done"))
  /\ UNCHANGED <<account, faults>>

(* updateUserProfile: one UPDATE, a name that is another's is P2002.         *)
FaultyUpdateUserProfile(r) ==                \* looks for the name among all, also its own
  LET me == request[r] IN
  /\ me.stage = "rename"
  /\ \/ /\ NameTaken(account, me.name, NoUser)
        /\ Advance(r, Answer(me, "refused"))
        /\ UNCHANGED account
     \/ /\ ~NameTaken(account, me.name, NoUser)
        /\ account' = [account EXCEPT ![me.user].name = me.name]
        /\ request' = Witness([request EXCEPT ![r] = Answer(me, "done")], account')
  /\ UNCHANGED <<sessions, faults>>
UpdateUserProfile(r) ==
  LET me == request[r] IN
  /\ me.stage = "rename"
  /\ \/ /\ NameTaken(account, me.name, me.user)
        /\ Advance(r, Answer(me, "refused"))
        /\ UNCHANGED account
     \/ /\ ~NameTaken(account, me.name, me.user)
        /\ account' = [account EXCEPT ![me.user].name = me.name]
        /\ request' = Witness([request EXCEPT ![r] = Answer(me, "done")], account')
  /\ UNCHANGED <<sessions, faults>>

(* A statement fails otherwise: 500.                                         *)
Fail(r) ==
  /\ request[r] # Idle /\ request[r].answer = "none"
  /\ faults < MaxFaults
  /\ faults' = faults + 1
  /\ Advance(r, Answer(request[r], "failed"))
  /\ UNCHANGED <<account, sessions>>

(* The answer is sent, or lost with the connection.                          *)
Respond(r) ==
  /\ request[r].stage = "answer"
  /\ Advance(r, Idle)
  /\ UNCHANGED <<account, sessions, faults>>

Next ==
  \E r \in Requests :
    \/ RegisterRequest(r) \/ LoginRequest(r) \/ RenameRequest(r)
    \/ FindUserByUsername(r) \/ FindUserByEmail(r) \/ CheckAvailable(r) \/ InsertUser(r)
    \/ FindCredentials(r) \/ SaveRefreshToken(r) \/ UpdateUserProfile(r)
    \/ Fail(r) \/ Respond(r)

Spec == Init /\ [][Next]_vars
------------------------------------------------------------------------------
(* Every variable has its type. *)
TypeOK ==
  /\ account \in [Users -> {None} \cup Row]
  /\ sessions \subseteq Users
  /\ request \in [Requests -> {Idle} \cup Request]
  /\ faults \in 0 .. MaxFaults

(* registerUserService, model User: of the registrations and renames that     *)
(* found a key free at the same time, one gets it.                           *)
OneAccountPerKey ==
  \A u, v \in Users :
    /\ Exists(account, u) /\ Exists(account, v)
    /\ account[u].name = account[v].name \/ account[u].email = account[v].email
    => u = v

(* docs/api-architecture.md: 409 "when the username or email already exists", *)
(* 401 for wrong credentials. A refusal is true of some moment of the         *)
(* request, whichever statement it was that found out, and it has not left an *)
(* account or a session behind; and who is told of success has an account     *)
(* with the email and the password of the request, and a refresh token. An    *)
(* error can leave an account behind, but then login is open to it.          *)
AnswersAreTrue ==
  \A r \in Requests :
    LET me == request[r] IN
    /\ me.stage = "answer" /\ me.answer = "refused" =>
         me.refusable /\ (me.kind # "rename" => me.user = NoUser)
    /\ me.stage = "answer" /\ me.user # NoUser => Matches(account, me.user, me)
    /\ me.stage = "answer" /\ me.answer = "done" =>
         me.user # NoUser /\ (me.kind # "rename" => me.user \in sessions)

(* createUser, updateUserProfile: no request that races with another takes an *)
(* account over: a row never vanishes, its email and password never change,   *)
(* and its name only at the request of its owner.                            *)
Owned(u) == \E r \in Requests : request[r] # Idle /\ request[r].kind = "rename"
                                /\ request[r].user = u
AccountsAreKept ==
  [][\A u \in Users : Exists(account, u) =>
       /\ account'[u] = [account[u] EXCEPT !.name = account'[u].name]
       /\ account'[u] # account[u] => Owned(u)]_vars
==============================================================================

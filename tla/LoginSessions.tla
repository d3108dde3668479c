---------------------------- MODULE LoginSessions ----------------------------
(* What apps/server/modules/auth promises about a login session, whatever     *)
(* requests race: from its login until it ends it has one refresh token,     *)
(* which a refresh replaces, and once it has ended it never comes back. A     *)
(* session is named after the token of its login.                            *)
EXTENDS Naturals

CONSTANTS Tokens, NoToken

VARIABLES
  current,  \* current[s]: the token session s can be continued with
  used      \* the tokens that have ever been current

Init ==
  /\ current = [s \in Tokens |-> NoToken]
  /\ used = {}

LogIn(s) ==
  /\ s \notin used
  /\ current' = [current EXCEPT ![s] = s]
  /\ used' = used \cup {s}

Rotate(s, next) ==
  /\ current[s] # NoToken
  /\ next \notin used
  /\ current' = [current EXCEPT ![s] = next]
  /\ used' = used \cup {next}

LogOut(s) ==
  /\ current[s] # NoToken
  /\ current' = [current EXCEPT ![s] = NoToken]
  /\ UNCHANGED used

Next ==
  \E s \in Tokens :
    \/ LogIn(s) \/ LogOut(s)
    \/ \E next \in Tokens : Rotate(s, next)

Spec == Init /\ [][Next]_<<current, used>>
==============================================================================

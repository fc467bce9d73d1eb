------------------------------- MODULE WebAuth -------------------------------
(***************************************************************************)
(* The web interface's account and sessions: /api/auth.  Onboarding counts *)
(* the users twice before it inserts one; requests interleave between the  *)
(* statements.  A session is a signed cookie in the browser and nothing    *)
(* else; tabs of a browser share it, and answers may be overtaken.         *)
(***************************************************************************)
EXTENDS Naturals

CONSTANTS
  Browsers,
  Requests,       \* identities of concurrently running handlers
  Credentials,    \* records of a username and a password, neither empty
  NoCredentials,  \* an empty username or an empty password
  DatabaseFails   \* TRUE: statements may fail

ASSUME ConstantsAssumption ==
  /\ \A c \in Credentials : DOMAIN c = {"name", "password"}
  /\ NoCredentials \notin Credentials
  /\ DatabaseFails \in BOOLEAN

VARIABLES
  users,    \* the table of users
  cookie,   \* cookie[b]: the "authenticated" value in the browser's session
  req       \* req[r]: the running request, or Idle

vars == <<users, cookie, req>>

(* No value, true and false.                                               *)
Sessions == {"none", "in", "out"}

Ops == {"onboard", "canOnboard", "login", "logout", "validate"}

Steps == {"start", "count", "recount", "insert", "done"}

Statuses == {0, 204, 400, 401, 403, 500}

Idle == [pc |-> "idle"]

ActiveRequests ==
  [ pc : Steps, op : Ops, browser : Browsers,
    session : Sessions, given : Credentials \cup {NoCredentials}, waiting : BOOLEAN,
    status : Statuses, setCookie : Sessions ]

Init ==
  /\ users = {}
  /\ cookie = [b \in Browsers |-> "none"]
  /\ req = [r \in Requests |-> Idle]

-----------------------------------------------------------------------------
(* A tab of a browser sends a request with the cookie of the moment.       *)
Send(r, b) ==
  /\ req[r] = Idle
  /\ \E op \in Ops, given \in Credentials \cup {NoCredentials} :
       req' = [req EXCEPT ![r] =
                 [ pc |-> "start", op |-> op, browser |-> b, session |-> cookie[b],
                   given |-> given, waiting |-> TRUE, status |-> 0, setCookie |-> "none" ]]
  /\ UNCHANGED <<users, cookie>>

Started(r, op) == req[r].pc = "start" /\ req[r].op = op

Goto(r, pc) == req' = [req EXCEPT ![r] = [@ EXCEPT !.pc = pc]]

(* setCookie "none" leaves the cookie alone.                               *)
Answer(r, status, setCookie) ==
  req' = [req EXCEPT ![r] =
            [@ EXCEPT !.pc = "done", !.status = status, !.setCookie = setCookie]]

Refuse(r, status) == Answer(r, status, "none")

(* A query for a browser that is gone fails as well.                       *)
QueryFails(r) == DatabaseFails \/ ~req[r].waiting

(* The body of a login or an onboarding cannot be decoded; an onboarding   *)
(* looks at the session first.                                             *)
BadBody(r) ==
  /\ \/ Started(r, "login")
     \/ Started(r, "onboard") /\ req[r].session = "none"
  /\ Refuse(r, 400)
  /\ UNCHANGED <<users, cookie>>

(* The onboarding that takes empty credentials.                            *)
OnboardEmpty(r) ==
  /\ Started(r, "onboard")
  /\ IF req[r].session = "none" THEN Goto(r, "count") ELSE Refuse(r, 403)
  /\ UNCHANGED <<users, cookie>>

(* Any value of "authenticated" forbids onboarding, false included.        *)
Onboard(r) ==
  /\ Started(r, "onboard")
  /\ IF req[r].session = "none" /\ req[r].given # NoCredentials
       THEN Goto(r, "count")
       ELSE Refuse(r, 403)
  /\ UNCHANGED <<users, cookie>>

(* auth.CreateUser counts, and then user.CreateUser counts again, it and   *)
(* the INSERT in a context that no browser cancels.                        *)
CountUsers(r) ==
  /\ \/ /\ req[r].pc = "count" /\ users = {}
        /\ Goto(r, "recount")
     \/ /\ req[r].pc = "recount" /\ users = {}
        /\ Goto(r, "insert")
     \/ /\ req[r].pc = "count" /\ (users # {} \/ QueryFails(r))
        /\ Refuse(r, 403)
     \/ /\ req[r].pc = "recount" /\ (users # {} \/ DatabaseFails)
        /\ Refuse(r, 403)
  /\ UNCHANGED <<users, cookie>>

(* The insertion without UNIQUE on the username.                           *)
StoreUserAnyName(r) ==
  /\ req[r].pc = "insert"
  /\ \/ users' = users \cup {req[r].given} /\ Answer(r, 204, "none")
     \/ DatabaseFails /\ UNCHANGED users /\ Refuse(r, 403)
     \/ DatabaseFails /\ users' = users \cup {req[r].given} /\ Refuse(r, 403)
  /\ UNCHANGED cookie

NameTaken(name) == \E u \in users : u.name = name

(* The insertion with its error ignored.                                   *)
StoreUserIgnoringError(r) ==
  /\ req[r].pc = "insert"
  /\ users' = IF NameTaken(req[r].given.name) THEN users ELSE users \cup {req[r].given}
  /\ Answer(r, 204, "none")
  /\ UNCHANGED cookie

(* The INSERT, which a taken name fails; it may be done and yet reported   *)
(* as failed.                                                              *)
StoreUser(r) ==
  /\ req[r].pc = "insert"
  /\ \/ /\ ~NameTaken(req[r].given.name)
        /\ users' = users \cup {req[r].given}
        /\ Answer(r, 204, "none") \/ (DatabaseFails /\ Refuse(r, 403))
     \/ /\ NameTaken(req[r].given.name) \/ DatabaseFails
        /\ Refuse(r, 403)
        /\ UNCHANGED users
  /\ UNCHANGED cookie

CanOnboard(r) ==
  /\ Started(r, "canOnboard")
  /\ \/ users = {} /\ Answer(r, 204, "none")
     \/ users # {} /\ Refuse(r, 403)
     \/ QueryFails(r) /\ Refuse(r, 500)
  /\ UNCHANGED <<users, cookie>>

(* The user is found by name and the password compared with its hash.      *)
Login(r) ==
  /\ Started(r, "login")
  /\ \/ req[r].given \in users /\ Answer(r, 204, "in")
     \/ /\ req[r].given \notin users \/ QueryFails(r)
        /\ Refuse(r, 401)
  /\ UNCHANGED <<users, cookie>>

Logout(r) ==
  /\ Started(r, "logout")
  /\ Answer(r, 204, "out")
  /\ UNCHANGED <<users, cookie>>

Validate(r) ==
  /\ Started(r, "validate")
  /\ IF req[r].session = "in" THEN Answer(r, 204, "none") ELSE Refuse(r, 401)
  /\ UNCHANGED <<users, cookie>>

(* The browser takes the answer and the cookie in it.                      *)
Deliver(r) ==
  /\ req[r].pc = "done"
  /\ cookie' = IF req[r].waiting /\ req[r].setCookie # "none"
                 THEN [cookie EXCEPT ![req[r].browser] = req[r].setCookie]
                 ELSE cookie
  /\ req' = [req EXCEPT ![r] = Idle]
  /\ UNCHANGED users

(* The tab is closed or loses the connection.                              *)
GiveUp(r) ==
  /\ req[r] # Idle
  /\ req[r].waiting
  /\ req' = [req EXCEPT ![r] = [@ EXCEPT !.waiting = FALSE]]
  /\ UNCHANGED <<users, cookie>>

(* The process ends and starts anew; the key that signs cookies is in its  *)
(* configuration file.                                                     *)
Restart ==
  /\ \E r \in Requests : req[r] # Idle
  /\ req' = [r \in Requests |-> Idle]
  /\ UNCHANGED <<users, cookie>>

Handle(r) ==
  \/ BadBody(r) \/ Onboard(r) \/ CountUsers(r) \/ StoreUser(r)
  \/ CanOnboard(r) \/ Login(r) \/ Logout(r) \/ Validate(r)

Next ==
  \/ \E r \in Requests, b \in Browsers : Send(r, b)
  \/ \E r \in Requests : Handle(r) \/ Deliver(r) \/ GiveUp(r)
  \/ Restart

Spec == Init /\ [][Next]_vars

-----------------------------------------------------------------------------
(* Properties                                                              *)

(* Types of the state; no handler counts or inserts with empty credentials. *)
TypeOK ==
  /\ users \subseteq Credentials
  /\ cookie \in [Browsers -> Sessions]
  /\ req \in [Requests -> ActiveRequests \cup {Idle}]
  /\ \A r \in Requests :
       req[r].pc \in {"count", "recount", "insert"} => req[r].given \in Credentials

(* There is one account at most (error of both CreateUser functions: "only *)
(* 1 user account is supported at the moment").                            *)
OneAccount == \A u, v \in users : u = v

(* An onboarding answered 204 has set up the account: these credentials,   *)
(* and no others for that name, log in from then on, whoever else was      *)
(* onboarding at the time.                                                 *)
OnboardAnswersAreTrue ==
  \A r \in Requests :
    req[r].pc = "done" /\ req[r].op = "onboard" /\ req[r].status = 204 =>
      \A u \in Credentials :
        u.name = req[r].given.name => (u \in users <=> u = req[r].given)
=============================================================================

---------------------------- MODULE WebAuthProofs ----------------------------
(* Theorems about WebAuth, for any number of browsers, requests and names. *)
EXTENDS WebAuth, TLAPS

(* An onboarding answered 204 has inserted its credentials.                *)
RequestOK(q) ==
  q.pc = "done" /\ q.op = "onboard" /\ q.status = 204 => q.given \in users

(* Two rows never have one name, and no request is deceived.               *)
Inv ==
  /\ TypeOK
  /\ \A u, v \in users : u.name = v.name => u = v
  /\ \A r \in Requests : RequestOK(req[r])

(* An empty table satisfies the invariant.                                 *)
LEMMA InitInv == Init => Inv
BY DEF Init, Inv, TypeOK, RequestOK, Idle, Sessions

(* A step that gives one request a new state and leaves the table alone.   *)
LEMMA RequestStep ==
  ASSUME Inv, NEW r \in Requests, NEW q \in ActiveRequests,
         UNCHANGED <<users, cookie>>, req' = [req EXCEPT ![r] = q],
         q.pc \in {"count", "recount", "insert"} => q.given \in Credentials,
         q.pc = "done" /\ q.op = "onboard" => q.status # 204
  PROVE  Inv'
BY DEF Inv, TypeOK, RequestOK

(* A request that has not been answered yet has all its fields.            *)
LEMMA Running ==
  ASSUME Inv, NEW r \in Requests, req[r].pc # "idle"
  PROVE  req[r] \in ActiveRequests
BY DEF Inv, TypeOK, Idle

(* An answer changes its request and keeps its type.                       *)
LEMMA AnswerShape ==
  ASSUME Inv, NEW r \in Requests, req[r].pc # "idle",
         NEW status \in Statuses, NEW setCookie \in Sessions,
         Answer(r, status, setCookie)
  PROVE  \E q \in ActiveRequests :
           /\ req' = [req EXCEPT ![r] = q]
           /\ q.pc = "done" /\ q.status = status
           /\ q.op = req[r].op /\ q.given = req[r].given
<1>1. PICK p \in ActiveRequests : p = req[r]
  BY Running
<1>2. PICK q : q = [p EXCEPT !.pc = "done", !.status = status, !.setCookie = setCookie]
  OBVIOUS
<1>3. req' = [req EXCEPT ![r] = q]
  BY <1>1, <1>2 DEF Answer
<1>4. q \in ActiveRequests
  <2>1. "done" \in Steps
    BY DEF Steps
  <2> QED  BY <1>1, <1>2, <2>1 DEF ActiveRequests
<1>5. q.pc = "done" /\ q.status = status /\ q.op = p.op /\ q.given = p.given
  BY <1>1, <1>2 DEF ActiveRequests
<1> QED  BY <1>1, <1>3, <1>4, <1>5

(* A query's answer.                                                       *)
LEMMA AnswerStep ==
  ASSUME Inv, NEW r \in Requests, req[r].pc # "idle", UNCHANGED <<users, cookie>>,
         NEW status \in Statuses, NEW setCookie \in Sessions,
         Answer(r, status, setCookie),
         req[r].op = "onboard" => status # 204
  PROVE  Inv'
<1>1. PICK q \in ActiveRequests :
        /\ req' = [req EXCEPT ![r] = q]
        /\ q.pc = "done" /\ q.status = status
        /\ q.op = req[r].op /\ q.given = req[r].given
  BY AnswerShape
<1>2. q.pc \notin {"count", "recount", "insert"}
  BY <1>1
<1>3. q.op = "onboard" => q.status # 204
  BY <1>1
<1> QED  BY <1>1, <1>2, <1>3, RequestStep

(* An onboarding passes one of its checks.                                 *)
LEMMA GotoStep ==
  ASSUME Inv, NEW r \in Requests, req[r].pc # "idle", UNCHANGED <<users, cookie>>,
         NEW pc \in {"count", "recount", "insert"}, Goto(r, pc),
         req[r].given \in Credentials
  PROVE  Inv'
<1> DEFINE q == [req[r] EXCEPT !.pc = pc]
<1>1. req[r] \in ActiveRequests
  BY Running
<1>2. q \in ActiveRequests /\ q.pc = pc /\ q.given = req[r].given
  BY <1>1 DEF ActiveRequests, Steps
<1>3. req' = [req EXCEPT ![r] = q]
  BY DEF Goto
<1> QED  BY <1>2, <1>3, RequestStep

(* The INSERT.                                                             *)
LEMMA StoreUserStep ==
  ASSUME Inv, NEW r \in Requests, StoreUser(r)
  PROVE  Inv'
<1> DEFINE c == req[r].given
<1>1. req[r].pc = "insert" /\ req[r] # Idle /\ UNCHANGED cookie
  BY DEF StoreUser, Idle
<1>2. c \in Credentials /\ req[r] \in ActiveRequests
  BY <1>1, Running DEF Inv, TypeOK
<1>3. CASE UNCHANGED users /\ Refuse(r, 403)
  BY <1>1, <1>3, AnswerStep DEF Refuse, Sessions, Statuses
<1>4. CASE /\ ~NameTaken(c.name)
           /\ users' = users \cup {c}
           /\ Answer(r, 204, "none") \/ (DatabaseFails /\ Refuse(r, 403))
  <2>1. PICK status \in {204, 403} : Answer(r, status, "none")
    BY <1>4 DEF Refuse
  <2>2. PICK q \in ActiveRequests :
          /\ req' = [req EXCEPT ![r] = q]
          /\ q.pc = "done" /\ q.given = c
    BY <1>1, <2>1, AnswerShape DEF Sessions, Statuses
  <2>4. TypeOK'
    BY <1>1, <1>2, <1>4, <2>2 DEF Inv, TypeOK
  <2>5. \A u, v \in users' : u.name = v.name => u = v
    BY <1>4 DEF Inv, NameTaken
  <2>6. \A s \in Requests : RequestOK(req[s])'
    BY <1>2, <1>4, <2>2 DEF Inv, TypeOK, RequestOK
  <2> QED  BY <2>4, <2>5, <2>6 DEF Inv
<1> QED  BY <1>3, <1>4 DEF StoreUser

(* The other steps of a handler.                                           *)
LEMMA HandleStep ==
  ASSUME Inv, NEW r \in Requests, Handle(r)
  PROVE  Inv'
<1>1. CASE BadBody(r)
  BY <1>1, AnswerStep DEF BadBody, Started, Refuse, Sessions, Statuses
<1>2. CASE Onboard(r)
  <2>1. req[r].pc = "start" /\ req[r] \in ActiveRequests
    BY <1>2, Running DEF Onboard, Started
  <2>2. CASE Refuse(r, 403)
    BY <1>2, <2>1, <2>2, AnswerStep DEF Onboard, Refuse, Sessions, Statuses
  <2>3. CASE req[r].given # NoCredentials /\ Goto(r, "count")
    <3>1. req[r].given \in Credentials
      BY <2>1, <2>3 DEF ActiveRequests
    <3> QED  BY <1>2, <2>1, <2>3, <3>1, GotoStep DEF Onboard
  <2> QED  BY <1>2, <2>2, <2>3 DEF Onboard
<1>3. CASE CountUsers(r)
  <2>1. req[r].pc \in {"count", "recount"} /\ req[r].pc # "idle" /\ req[r] # Idle
    BY <1>3 DEF CountUsers, Idle
  <2>2. req[r].given \in Credentials
    BY <2>1 DEF Inv, TypeOK
  <2>3. CASE Refuse(r, 403)
    BY <1>3, <2>1, <2>3, AnswerStep DEF CountUsers, Refuse, Sessions, Statuses
  <2>4. CASE Goto(r, "recount") \/ Goto(r, "insert")
    BY <1>3, <2>1, <2>2, <2>4, GotoStep DEF CountUsers
  <2> QED  BY <1>3, <2>3, <2>4 DEF CountUsers
<1>4. CASE StoreUser(r)
  BY <1>4, StoreUserStep
<1>5. CASE CanOnboard(r)
  BY <1>5, AnswerStep DEF CanOnboard, Started, Refuse, Sessions, Statuses
<1>6. CASE Login(r)
  BY <1>6, AnswerStep DEF Login, Started, Refuse, Sessions, Statuses
<1>7. CASE Logout(r)
  BY <1>7, AnswerStep DEF Logout, Started, Sessions, Statuses
<1>8. CASE Validate(r)
  BY <1>8, AnswerStep DEF Validate, Started, Refuse, Sessions, Statuses
<1> QED  BY <1>1, <1>2, <1>3, <1>4, <1>5, <1>6, <1>7, <1>8 DEF Handle

(* Every step keeps the invariant.                                         *)
LEMMA NextInv == Inv /\ [Next]_vars => Inv'
<1> SUFFICES ASSUME Inv, [Next]_vars  PROVE Inv'
  OBVIOUS
<1>1. ASSUME NEW r \in Requests, NEW b \in Browsers, Send(r, b)  PROVE Inv'
  <2>1. PICK op \in Ops, given \in Credentials \cup {NoCredentials} :
          req' = [req EXCEPT ![r] =
                   [ pc |-> "start", op |-> op, browser |-> b, session |-> cookie[b],
                     given |-> given, waiting |-> TRUE, status |-> 0, setCookie |-> "none" ]]
    BY <1>1 DEF Send
  <2> DEFINE q == [ pc |-> "start", op |-> op, browser |-> b, session |-> cookie[b],
                    given |-> given, waiting |-> TRUE, status |-> 0, setCookie |-> "none" ]
  <2>2. cookie[b] \in Sessions
    BY DEF Inv, TypeOK
  <2>3. q \in ActiveRequests
    BY <2>2 DEF ActiveRequests, Sessions, Steps, Statuses
  <2>4. q.pc = "start"
    OBVIOUS
  <2> QED  BY <1>1, <2>1, <2>3, <2>4, RequestStep DEF Send
<1>2. ASSUME NEW r \in Requests, Handle(r)  PROVE Inv'
  BY <1>2, HandleStep
<1>3. ASSUME NEW r \in Requests, Deliver(r)  PROVE Inv'
  <2>1. req[r] \in ActiveRequests
    BY <1>3, Running DEF Deliver
  <2>2. req[r].browser \in Browsers /\ req[r].setCookie \in Sessions
    BY <2>1 DEF ActiveRequests
  <2>3. Idle.pc = "idle"
    BY DEF Idle
  <2> QED  BY <1>3, <2>2, <2>3 DEF Deliver, Inv, TypeOK, RequestOK
<1>4. ASSUME NEW r \in Requests, GiveUp(r)  PROVE Inv'
  <2> DEFINE q == [req[r] EXCEPT !.waiting = FALSE]
  <2>1. req[r] \in ActiveRequests /\ req' = [req EXCEPT ![r] = q]
    BY <1>4 DEF GiveUp, Inv, TypeOK
  <2>2. /\ q \in ActiveRequests
        /\ q.pc = req[r].pc /\ q.op = req[r].op
        /\ q.given = req[r].given /\ q.status = req[r].status
    BY <2>1 DEF ActiveRequests
  <2>3. RequestOK(req[r])
    BY DEF Inv
  <2> QED  BY <1>4, <2>1, <2>2, <2>3 DEF GiveUp, Inv, TypeOK, RequestOK
<1>5. CASE Restart
  <2>1. Idle.pc = "idle"
    BY DEF Idle
  <2> QED  BY <1>5, <2>1 DEF Restart, Inv, TypeOK, RequestOK
<1>6. CASE UNCHANGED vars
  BY <1>6 DEF vars, Inv, TypeOK, RequestOK
<1> QED  BY <1>1, <1>2, <1>3, <1>4, <1>5, <1>6 DEF Next

(* The inductive invariant of onboarding holds in every state.             *)
THEOREM Invariance == Spec => []Inv
<1> QED  BY InitInv, NextInv, PTL DEF Spec

(* Every reachable state is of its type.                                   *)
THEOREM TypeCorrect == Spec => []TypeOK
<1>1. Inv => TypeOK
  BY DEF Inv
<1> QED  BY <1>1, Invariance, PTL

(* Who was told 204 has the account, and nobody else has one by that name. *)
THEOREM OnboardingIsExclusive == Spec => []OnboardAnswersAreTrue
<1>1. Inv => OnboardAnswersAreTrue
  <2> SUFFICES ASSUME Inv, NEW r \in Requests,
                      req[r].pc = "done", req[r].op = "onboard", req[r].status = 204,
                      NEW u \in Credentials, u.name = req[r].given.name
               PROVE  u \in users <=> u = req[r].given
    BY DEF OnboardAnswersAreTrue
  <2>1. req[r].given \in users
    BY DEF Inv, RequestOK, Idle
  <2> QED  BY <2>1 DEF Inv
<1> QED  BY <1>1, Invariance, PTL

(* Where everyone asks for the same name, the UNIQUE username alone keeps  *)
(* the accounts down to one.                                               *)
THEOREM OneAccountPerName ==
  ASSUME \A c, d \in Credentials : c.name = d.name
  PROVE  Spec => []OneAccount
<1>1. Inv => OneAccount
  BY DEF Inv, TypeOK, OneAccount
<1> QED  BY <1>1, Invariance, PTL
=============================================================================

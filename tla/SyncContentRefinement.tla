------------------------ MODULE SyncContentRefinement ------------------------
(***************************************************************************)
(* Every behaviour of SyncContent is, seen through Register's mapping, a   *)
(* behaviour of SyncRegister: each handler takes effect in one statement.  *)
(***************************************************************************)
EXTENDS SyncContentProofs

(* An empty database is an empty register.                                 *)
LEMMA InitRefines == Init => Register!Init
BY DEF Init, Register!Init, Register!Empty, Register!NoEtag, Register!NoCall,
       NoRow, NoEtag, StoredEtags, AbstractCalls, AbstractCall, Idle

(* The calls change with the requests, one at a time.                      *)
LEMMA CallsStep ==
  ASSUME Inv, NEW r \in Requests, NEW q, req' = [req EXCEPT ![r] = q]
  PROVE  AbstractCalls' = [AbstractCalls EXCEPT ![r] = AbstractCall(q)]
<1>1. \A s \in Requests : req'[s] = IF s = r THEN q ELSE req[s]
  BY DEF Inv, RequestsOK
<1> QED  BY <1>1 DEF AbstractCalls, AbstractCall

(* A request whose handler has not answered yet.                           *)
LEMMA PendingCall ==
  ASSUME Inv, NEW r \in Requests, req[r].pc \in Steps \ {"done"}
  PROVE  /\ AbstractCalls[r] = [st |-> "called", op |-> req[r].op, key |-> req[r].key,
                                match |-> req[r].match, body |-> req[r].body]
         /\ AbstractCalls[r].st = "called"
         /\ AbstractCalls[r].op = req[r].op /\ AbstractCalls[r].key = req[r].key
         /\ AbstractCalls[r].match = req[r].match
         /\ AbstractCalls[r].body = req[r].body
         /\ RequestShape(req[r]) /\ RequestClaims(req[r]) /\ req[r] # Idle
<1>1. RequestShape(req[r]) /\ RequestClaims(req[r]) /\ req[r] # Idle
  BY DEF Inv, RequestsOK, Idle, Steps
<1>2. req[r].pc \notin {"idle", "done"}
  BY DEF Steps
<1> QED  BY <1>1, <1>2 DEF AbstractCalls, AbstractCall

(* An answer that stores nothing is a reply.                               *)
LEMMA AnswerRefines ==
  ASSUME Inv, NEW r \in Requests, NEW status, NEW etag, NEW data,
         req[r].pc \in Steps \ {"done"}, Answer(r, status, etag, data)
  PROVE  \E q : /\ q.op = req[r].op /\ q.status = status
                /\ Register!Reply(r, Kind(q), etag, data)
<1>1. PICK p : p = req[r]
  OBVIOUS
<1>2. p \in ActiveRequests
  BY <1>1, PendingCall DEF RequestShape
<1>3. PICK q : q = [p EXCEPT !.pc = "done", !.status = status,
                             !.etag = etag, !.data = data]
  OBVIOUS
<1>4. /\ q.pc = "done" /\ q.status = status /\ q.etag = etag /\ q.data = data
      /\ q.op = p.op
  BY <1>2, <1>3 DEF ActiveRequests
<1>5. AbstractCalls' = [AbstractCalls EXCEPT ![r] = AbstractCall(q)]
  BY <1>1, <1>3, CallsStep DEF Answer
<1>6. AbstractCall(q) = [st |-> "answered", kind |-> Kind(q), etag |-> etag, data |-> data]
  BY <1>4 DEF AbstractCall
<1> QED  BY <1>1, <1>4, <1>5, <1>6 DEF Register!Reply, Register!Answered

(* The answer to a write is a reply.                                       *)
LEMMA AnswerPutRefines ==
  ASSUME Inv, NEW r \in Requests, req[r].pc \in {"update", "insert"},
         NEW err \in BOOLEAN, NEW drawn \in Nat, NEW newEtag \in Nat,
         ~err /\ newEtag = NoEtag => req[r].match # NoEtag,
         AnswerPut(r, err, drawn, newEtag)
  PROVE  Register!Reply(r,
           IF err THEN "failed" ELSE IF newEtag = NoEtag THEN "conflict" ELSE "stored",
           newEtag, NoPayload)
<1>1. PICK q : /\ req' = [req EXCEPT ![r] = q] /\ q.pc = "done" /\ q.op = "put"
               /\ q.status = PutStatus(err, newEtag)
               /\ q.etag = newEtag /\ q.data = NoPayload
  BY AnswerPutShape
<1>2. AbstractCalls' = [AbstractCalls EXCEPT ![r] = AbstractCall(q)]
  BY <1>1, CallsStep
<1>3. AbstractCall(q) = [st |-> "answered", kind |-> Kind(q), etag |-> newEtag, data |-> NoPayload]
  BY <1>1 DEF AbstractCall
<1>4. Kind(q) = IF err THEN "failed" ELSE IF newEtag = NoEtag THEN "conflict" ELSE "stored"
  BY <1>1 DEF Kind, PutStatus
<1> QED  BY <1>2, <1>3, <1>4 DEF Register!Reply, Register!Answered

-----------------------------------------------------------------------------
(* Steps that Register does not see.                                       *)
LEMMA HiddenStep ==
  ASSUME Inv, NEW r \in Requests, NEW q, req' = [req EXCEPT ![r] = q],
         AbstractCall(q) = AbstractCall(req[r]), UNCHANGED <<rows, versions>>
  PROVE  UNCHANGED Register!vars
<1>1. AbstractCalls' = AbstractCalls
  BY CallsStep DEF AbstractCalls
<1> QED  BY <1>1 DEF Register!vars, StoredEtags

(* Passing to the next statement is hidden.                                *)
LEMMA GotoRefines ==
  ASSUME Inv, NEW r \in Requests, NEW pc \in Steps \ {"done"},
         req[r].pc \in Steps \ {"done"},
         Goto(r, pc), UNCHANGED <<rows, versions>>
  PROVE  UNCHANGED Register!vars
<1>1. PICK p : p = req[r]
  OBVIOUS
<1>2. p \in ActiveRequests
  BY <1>1, PendingCall DEF RequestShape
<1>3. PICK q : q = [p EXCEPT !.pc = pc]
  OBVIOUS
<1>4. req' = [req EXCEPT ![r] = q]
  BY <1>1, <1>3 DEF Goto
<1>5. AbstractCall(q) = AbstractCall(p)
  <2>1. q.pc = pc /\ q.op = p.op /\ q.key = p.key /\ q.match = p.match /\ q.body = p.body
    BY <1>2, <1>3 DEF ActiveRequests
  <2>2. pc \notin {"idle", "done"} /\ p.pc \notin {"idle", "done"}
    BY <1>1 DEF Steps
  <2> QED  BY <2>1, <2>2 DEF AbstractCall
<1> QED  BY <1>1, <1>4, <1>5, HiddenStep

(* A device that stops waiting is hidden.                                  *)
LEMMA GiveUpRefines ==
  ASSUME Inv, NEW r \in Requests, GiveUp(r)
  PROVE  UNCHANGED Register!vars
<1>1. PICK p : p = req[r]
  OBVIOUS
<1>2. p \in ActiveRequests
  BY <1>1 DEF GiveUp, Idle, Inv, RequestsOK, RequestShape
<1>3. PICK q : q = [p EXCEPT !.waiting = FALSE]
  OBVIOUS
<1>4. req' = [req EXCEPT ![r] = q] /\ UNCHANGED <<rows, versions>>
  BY <1>1, <1>3 DEF GiveUp
<1>5. /\ q.pc = p.pc /\ q.op = p.op /\ q.key = p.key /\ q.match = p.match
      /\ q.body = p.body /\ q.etag = p.etag /\ q.data = p.data /\ q.status = p.status
  BY <1>2, <1>3 DEF ActiveRequests
<1>6. AbstractCall(q) = AbstractCall(p)
  BY <1>5 DEF AbstractCall, Kind
<1> QED  BY <1>1, <1>4, <1>6, HiddenStep

(* Minting a key is hidden; deleting one may empty its register.           *)
LEMMA KeysRefine ==
  ASSUME Inv, NEW k \in Keys, StoreKey(k) \/ DeleteKey(k)
  PROVE  Register!Next \/ UNCHANGED Register!vars
<1>1. UNCHANGED <<AbstractCalls, StoredEtags>>
  BY DEF StoreKey, DeleteKey, AbstractCalls, StoredEtags
<1>2. k \in RowKeys /\ (UNCHANGED rows \/ rows' = [rows EXCEPT ![k] = NoRow])
  BY DEF StoreKey, DeleteKey, RowKeys
<1>3. NoRow = Register!Empty
  BY DEF NoRow, NoEtag, Register!Empty, Register!NoEtag
<1> QED  BY <1>1, <1>2, <1>3 DEF Register!vars, Register!Next, Register!Retire

(* Sending a request calls the register.                                   *)
LEMMA SendRefines ==
  ASSUME Inv, NEW r \in Requests, NEW d \in Devices, SendGet(r, d) \/ SendPut(r, d)
  PROVE  Register!Call(r)
<1>1. PICK op \in {"get", "put"}, via \in {"header", "query", "session"},
           match \in {NoEtag, copy[d].etag}, body \in Payloads \cup {NoPayload} :
        Send(r, d, op, via, match, body)
  BY ConstantsAssumption DEF SendGet, SendPut
<1>2. PICK q : q = [ pc |-> "auth", waiting |-> TRUE, dev |-> d, op |-> op,
                     via |-> via, key |-> RowKey(d, via), match |-> match,
                     body |-> body, etagNew |-> NoEtag,
                     status |-> 0, etag |-> NoEtag, data |-> NoPayload ]
  OBVIOUS
<1>3. req' = [req EXCEPT ![r] = q] /\ UNCHANGED <<rows, versions>> /\ req[r] = Idle
  BY <1>1, <1>2 DEF Send
<1>4. RowKey(d, via) \in RowKeys /\ match \in Nat
  BY ConstantsAssumption DEF RowKey, RowKeys, Inv, StateOK, Contents, NoEtag
<1>5. AbstractCall(q) = [st |-> "called", op |-> op, key |-> RowKey(d, via),
                         match |-> match, body |-> body]
  BY <1>2 DEF AbstractCall
<1>6. AbstractCalls' = [AbstractCalls EXCEPT ![r] = AbstractCall(q)]
  BY <1>3, CallsStep
<1>7. AbstractCalls[r] = Register!NoCall
  BY <1>3 DEF AbstractCalls, AbstractCall, Idle, Register!NoCall
<1>8. AbstractCalls'[r] = AbstractCall(q)
  BY <1>6 DEF AbstractCalls
<1>9. AbstractCall(q) \in Register!Calls
  BY <1>4, <1>5 DEF Register!Calls
<1> QED  BY <1>3, <1>6, <1>7, <1>8, <1>9 DEF Register!Call, StoredEtags

(* A failure is one of the register.                                       *)
LEMMA FailRefines ==
  ASSUME Inv, NEW r \in Requests, req[r].pc \in Steps \ {"done"},
         Register!Reply(r, "failed", NoEtag, NoPayload), UNCHANGED <<rows, versions>>
  PROVE  Register!Fail(r)
BY PendingCall DEF Register!Fail, StoredEtags, NoEtag, Register!NoEtag

(* Queries read the register.                                              *)
LEMMA ReadsRefine ==
  ASSUME Inv, NEW r \in Requests,
         \/ Authenticate(r) \/ GetSyncDataETag(r) \/ GetSyncDataAndETag(r)
         \/ QueryFails(r) \/ ReadBodyFails(r)
  PROVE  Register!Get(r) \/ Register!Fail(r) \/ UNCHANGED Register!vars
<1>1. /\ UNCHANGED <<rows, versions>> /\ StoredEtags' = StoredEtags
      /\ req[r].pc \in Steps \ {"done"}
  BY DEF Authenticate, GetSyncDataETag, GetSyncDataAndETag, QueryFails,
         ReadBodyFails, Steps, StoredEtags
<1>2. /\ RequestShape(req[r]) /\ RequestClaims(req[r])
      /\ AbstractCalls[r].st = "called" /\ AbstractCalls[r].op = req[r].op
      /\ AbstractCalls[r].key = req[r].key /\ AbstractCalls[r].match = req[r].match
  BY <1>1, PendingCall
<1>3. ASSUME NEW status \in {400, 401, 500}, Answer(r, status, NoEtag, NoPayload)
      PROVE  Register!Fail(r)
  <2>1. Register!Reply(r, "failed", NoEtag, NoPayload)
    BY <1>1, <1>3, AnswerRefines DEF Kind
  <2> QED  BY <1>1, <2>1, FailRefines
<1>4. CASE QueryFails(r) \/ ReadBodyFails(r)
  BY <1>3, <1>4 DEF QueryFails, ReadBodyFails
<1>5. CASE Authenticate(r)
  <2>1. FirstStep(req[r]) \in Steps \ {"done"}
    BY <1>2 DEF RequestShape, ActiveRequests, FirstStep, Steps
  <2> QED  BY <1>1, <1>3, <1>5, <2>1, GotoRefines DEF Authenticate
<1>6. CASE GetSyncDataETag(r)
  <2>1. CASE rows[req[r].key].etag # req[r].match
    <3>1. "data" \in Steps \ {"done"}
      BY DEF Steps
    <3> QED  BY <1>1, <1>6, <2>1, <3>1, GotoRefines DEF GetSyncDataETag
  <2>2. CASE rows[req[r].key].etag = req[r].match
    <3>1. Answer(r, 304, NoEtag, NoPayload) /\ req[r].match # NoEtag /\ req[r].op = "get"
      BY <1>2, <1>6, <2>2 DEF GetSyncDataETag, RequestShape
    <3>2. Register!Reply(r, "unchanged", NoEtag, NoPayload)
      BY <1>1, <3>1, AnswerRefines DEF Kind
    <3> QED  BY <1>1, <1>2, <2>2, <3>1, <3>2 DEF Register!Get, NoEtag, Register!NoEtag
  <2> QED  BY <2>1, <2>2
<1>7. CASE GetSyncDataAndETag(r)
  <2> DEFINE row == rows[req[r].key]
  <2>1. req[r].op = "get" /\ req[r].pc = "data"
    BY <1>2, <1>7 DEF GetSyncDataAndETag, RequestShape
  <2>2. CASE row = NoRow
    <3>1. Register!Reply(r, "missing", NoEtag, NoPayload)
      BY <1>1, <1>7, <2>2, AnswerRefines DEF GetSyncDataAndETag, Kind
    <3> QED  BY <1>1, <1>2, <2>1, <2>2, <3>1 DEF Register!Get, NoRow, NoEtag, Register!NoEtag
  <2>3. CASE row # NoRow
    <3>1. Answer(r, 200, row.etag, row.data)
      BY <1>7, <2>3 DEF GetSyncDataAndETag
    <3>2. Register!Reply(r, "found", row.etag, row.data)
      BY <1>1, <2>1, <3>1, AnswerRefines DEF Kind
    <3>3. row.etag # NoEtag
      BY <1>2, <2>3 DEF RequestShape, ActiveRequests, Inv, StateOK, HoldersOK, Versions
    <3>4. row.etag # req[r].match
      BY <1>2, <2>1, <3>3 DEF RequestClaims
    <3> QED  BY <1>1, <1>2, <2>1, <3>2, <3>3, <3>4 DEF Register!Get, NoEtag, Register!NoEtag
  <2> QED  BY <2>2, <2>3
<1> QED  BY <1>4, <1>5, <1>6, <1>7

(* A write that takes effect is a put.                                     *)
LEMMA WritesRefine ==
  ASSUME Inv, NEW r \in Requests, NEW e, Drawn(r, e),
         req[r].pc \in {"update", "insert"},
         req[r].match # NoEtag => rows[req[r].key].etag = req[r].match,
         Writes(r, e)
  PROVE  Register!Put(r)
<1>1. e \in Nat \ {NoEtag} /\ ~Stored(e)
  BY DrawnIsFresh
<1>2. req[r].pc \in Steps \ {"done"}
  BY DEF Steps
<1>3. /\ RequestShape(req[r])
      /\ AbstractCalls[r].st = "called" /\ AbstractCalls[r].op = "put"
      /\ AbstractCalls[r].key = req[r].key /\ AbstractCalls[r].match = req[r].match
      /\ AbstractCalls[r].body = req[r].body /\ req[r].key \in RowKeys
  <2>1. /\ RequestShape(req[r])
        /\ AbstractCalls[r].st = "called" /\ AbstractCalls[r].op = req[r].op
        /\ AbstractCalls[r].key = req[r].key /\ AbstractCalls[r].match = req[r].match
        /\ AbstractCalls[r].body = req[r].body
    BY <1>2, PendingCall
  <2>2. req[r].op = "put" /\ req[r].key \in RowKeys
    BY <2>1 DEF RequestShape, ActiveRequests
  <2> QED  BY <2>1, <2>2
<1>4. Register!Permitted(r)
  BY <1>3 DEF Register!Permitted, NoEtag, Register!NoEtag
<1>5. /\ rows' = [rows EXCEPT ![req[r].key] = [etag |-> e, data |-> req[r].body]]
      /\ rows'[req[r].key].etag = e
  BY <1>3 DEF Writes, StoreVersion, Inv, StateOK
<1>6. StoredEtags' = StoredEtags \cup {e} /\ e \notin StoredEtags
  <2> DEFINE new == [etag |-> e, key |-> req[r].key, data |-> req[r].body,
                     dev |-> req[r].dev, base |-> req[r].match]
  <2>1. versions' = versions \cup {new} /\ new.etag = e
    BY DEF Writes, StoreVersion
  <2> HIDE DEF new
  <2>2. StoredEtags' = StoredEtags \cup {e}
    BY <2>1 DEF StoredEtags
  <2> QED  BY <1>1, <2>2 DEF StoredEtags, Stored
<1>7. \/ Register!Reply(r, "stored", e, NoPayload)
      \/ Register!Reply(r, "failed", NoEtag, NoPayload)
  <2>1. e \in Nat /\ NoEtag \in Nat /\ e # NoEtag
    BY <1>1 DEF NoEtag
  <2>2. CASE AnswerPut(r, FALSE, e, e)
    <3>1. Register!Reply(r, IF FALSE THEN "failed"
                            ELSE IF e = NoEtag THEN "conflict" ELSE "stored", e, NoPayload)
      BY <2>1, <2>2, AnswerPutRefines
    <3> QED  BY <2>1, <3>1
  <2>3. CASE AnswerPut(r, TRUE, e, NoEtag)
    <3>1. Register!Reply(r, IF TRUE THEN "failed"
                            ELSE IF NoEtag = NoEtag THEN "conflict" ELSE "stored",
                         NoEtag, NoPayload)
      BY <2>1, <2>3, AnswerPutRefines
    <3> QED  BY <3>1
  <2> QED  BY <2>2, <2>3 DEF Writes
<1> QED  BY <1>1, <1>3, <1>4, <1>5, <1>6, <1>7 DEF Register!Put, NoEtag, Register!NoEtag

(* A write without effect is a conflict or a failure.                      *)
LEMMA WritesNothingRefines ==
  ASSUME Inv, NEW r \in Requests, NEW e, Drawn(r, e), NEW err \in BOOLEAN,
         req[r].pc \in {"update", "insert"},
         err \/ (req[r].match # NoEtag /\ rows[req[r].key].etag # req[r].match),
         WritesNothing(r, err, e)
  PROVE  Register!Fail(r) \/ Register!Conflict(r)
<1>1. e \in Nat /\ NoEtag \in Nat
  BY DrawnIsFresh DEF NoEtag
<1>2. req[r].pc \in Steps \ {"done"}
  BY DEF Steps
<1>3. /\ UNCHANGED <<rows, versions>> /\ UNCHANGED StoredEtags
      /\ AnswerPut(r, err, e, NoEtag)
  BY DEF WritesNothing, StoredEtags
<1>4. Register!Reply(r, IF err THEN "failed"
                        ELSE IF NoEtag = NoEtag THEN "conflict" ELSE "stored",
                     NoEtag, NoPayload)
  BY <1>1, <1>3, AnswerPutRefines
<1>5. CASE err
  BY <1>2, <1>3, <1>4, <1>5, FailRefines
<1>6. CASE ~err
  <2>1. /\ AbstractCalls[r].st = "called" /\ AbstractCalls[r].op = "put"
        /\ AbstractCalls[r].key = req[r].key /\ AbstractCalls[r].match = req[r].match
    BY <1>2, PendingCall DEF RequestShape
  <2>2. ~Register!Permitted(r)
    BY <1>6, <2>1 DEF Register!Permitted, NoEtag, Register!NoEtag
  <2>3. Register!Reply(r, "conflict", NoEtag, NoPayload)
    BY <1>4, <1>6
  <2> QED  BY <1>3, <2>1, <2>2, <2>3 DEF Register!Conflict, NoEtag, Register!NoEtag
<1> QED  BY <1>5, <1>6

(* The write statements of putContent.                                     *)
LEMMA PutsRefine ==
  ASSUME Inv, NEW r \in Requests,
         SetSyncDataIfMatch(r) \/ UpdateSyncData(r) \/ InsertSyncData(r)
  PROVE  \/ Register!Put(r) \/ Register!Fail(r) \/ Register!Conflict(r)
         \/ UNCHANGED Register!vars
<1>1. CASE SetSyncDataIfMatch(r)
  <2>1. Drawn(r, NewEtag) /\ req[r].pc = "update" /\ req[r].match # NoEtag
    BY <1>1 DEF SetSyncDataIfMatch, DrawEtag, Drawn, NewEtag
  <2>2. CASE rows[req[r].key].etag = req[r].match /\ Writes(r, NewEtag)
    BY <2>1, <2>2, WritesRefine
  <2>3. CASE rows[req[r].key].etag # req[r].match /\ WritesNothing(r, FALSE, NewEtag)
    BY <2>1, <2>3, WritesNothingRefines
  <2>4. CASE WritesNothing(r, TRUE, NewEtag)
    BY <2>1, <2>4, WritesNothingRefines
  <2> QED  BY <1>1, <2>2, <2>3, <2>4 DEF SetSyncDataIfMatch
<1>2. CASE UpdateSyncData(r)
  <2>1. Drawn(r, NewEtag) /\ req[r].pc = "update" /\ req[r].match = NoEtag
    BY <1>2 DEF UpdateSyncData, DrawEtag, Drawn, NewEtag
  <2>2. CASE Writes(r, NewEtag)
    BY <2>1, <2>2, WritesRefine
  <2>3. CASE /\ req' = [req EXCEPT ![r] = [@ EXCEPT !.pc = "insert", !.etagNew = NewEtag]]
             /\ UNCHANGED <<rows, versions>>
    <3>1. PICK p : p = req[r]
      OBVIOUS
    <3>2. req[r].pc \in Steps \ {"done"}
      BY <2>1 DEF Steps
    <3>3. p \in ActiveRequests /\ p.pc = "update"
      BY <2>1, <3>1, <3>2, PendingCall DEF RequestShape
    <3>4. PICK q : q = [p EXCEPT !.pc = "insert", !.etagNew = NewEtag]
      OBVIOUS
    <3>5. /\ q.pc = "insert" /\ q.op = p.op /\ q.key = p.key
          /\ q.match = p.match /\ q.body = p.body
      BY <3>3, <3>4 DEF ActiveRequests
    <3>6. AbstractCall(q) = AbstractCall(p)
      BY <3>3, <3>5 DEF AbstractCall
    <3>7. req' = [req EXCEPT ![r] = q]
      BY <2>3, <3>1, <3>4
    <3> QED  BY <2>3, <3>1, <3>6, <3>7, HiddenStep
  <2>4. CASE WritesNothing(r, TRUE, NewEtag)
    BY <2>1, <2>4, WritesNothingRefines
  <2> QED  BY <1>2, <2>2, <2>3, <2>4 DEF UpdateSyncData
<1>3. CASE InsertSyncData(r)
  <2>1. req[r].pc = "insert" /\ Drawn(r, req[r].etagNew)
    BY <1>3 DEF InsertSyncData, Drawn
  <2>2. req[r].match = NoEtag
    BY <2>1 DEF Inv, RequestsOK, RequestShape, Idle
  <2>3. CASE Writes(r, req[r].etagNew)
    BY <2>1, <2>2, <2>3, WritesRefine
  <2>4. CASE WritesNothing(r, TRUE, req[r].etagNew)
    BY <2>1, <2>4, WritesNothingRefines
  <2> QED  BY <1>3, <2>3, <2>4 DEF InsertSyncData
<1> QED  BY <1>1, <1>2, <1>3

(* An answer delivered is a return.                                        *)
LEMMA DeliverRefines ==
  ASSUME Inv, NEW r \in Requests, Deliver(r)
  PROVE  Register!Return(r)
<1>1. req[r].pc = "done" /\ req' = [req EXCEPT ![r] = Idle] /\ UNCHANGED <<rows, versions>>
  BY DEF Deliver
<1>2. AbstractCalls[r].st = "answered"
  BY <1>1 DEF AbstractCalls, AbstractCall
<1>3. AbstractCall(Idle) = Register!NoCall
  BY DEF AbstractCall, Idle, Register!NoCall
<1>4. AbstractCalls' = [AbstractCalls EXCEPT ![r] = AbstractCall(Idle)]
  BY <1>1, CallsStep
<1> QED  BY <1>1, <1>2, <1>3, <1>4 DEF Register!Return, StoredEtags

(* Every step is a step of the register or hidden.                         *)
LEMMA NextRefines == Inv /\ [Next]_vars => [Register!Next]_(Register!vars)
<1> SUFFICES ASSUME Inv, [Next]_vars  PROVE Register!Next \/ UNCHANGED Register!vars
  OBVIOUS
<1>1. ASSUME NEW k \in Keys, StoreKey(k) \/ DeleteKey(k)
      PROVE  Register!Next \/ UNCHANGED Register!vars
  BY <1>1, KeysRefine
<1>2. ASSUME NEW r \in Requests, NEW d \in Devices, SendGet(r, d) \/ SendPut(r, d)
      PROVE  Register!Next
  BY <1>2, SendRefines DEF Register!Next
<1>3. ASSUME NEW r \in Requests, Handle(r)
      PROVE  Register!Next \/ UNCHANGED Register!vars
  BY <1>3, ReadsRefine, PutsRefine DEF Handle, Register!Next
<1>4. ASSUME NEW r \in Requests, Deliver(r)
      PROVE  Register!Next
  BY <1>4, DeliverRefines DEF Register!Next
<1>5. ASSUME NEW r \in Requests, GiveUp(r)
      PROVE  UNCHANGED Register!vars
  BY <1>5, GiveUpRefines
<1>6. CASE Restart
  <2>1. Register!Abort
    BY <1>6 DEF Restart, Register!Abort, Register!NoCall, AbstractCalls, AbstractCall,
                Idle, StoredEtags
  <2> QED  BY <2>1 DEF Register!Next
<1>7. CASE UNCHANGED vars
  BY <1>7 DEF vars, Register!vars, AbstractCalls, StoredEtags
<1> QED  BY <1>1, <1>2, <1>3, <1>4, <1>5, <1>6, <1>7 DEF Next

(* The endpoints implement one atomic register per row: every request      *)
(* takes effect at most once, at an instant between sending and answer.    *)
THEOREM RegisterImplemented == Spec => ImplementsRegister
<1> QED  BY InitRefines, NextRefines, Invariance, PTL
         DEF Spec, ImplementsRegister, Register!Spec
=============================================================================

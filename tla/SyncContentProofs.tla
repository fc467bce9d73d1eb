-------------------------- MODULE SyncContentProofs --------------------------
(***************************************************************************)
(* Invariants of SyncContent for every set of devices, keys, requests and  *)
(* payloads, every way of authenticating, either database, and no bound on *)
(* the number of writes.                                                   *)
(***************************************************************************)
EXTENDS SyncContent, TLAPS

Stored(e) == \E v \in versions : v.etag = e

(* What a running request may look like, whatever the other requests do.   *)
RequestShape(q) ==
  /\ q \in ActiveRequests
  /\ q.op = "put" => q.body \in Payloads
  /\ q.op = "get" => q.etagNew = NoEtag
  /\ q.pc \in {"etag", "data"} => q.op = "get"
  /\ q.pc \in {"update", "insert"} => q.op = "put"
  /\ q.pc \notin {"insert", "done"} => q.etagNew = NoEtag
  /\ q.pc = "etag" => q.match # NoEtag
  /\ q.pc = "insert" => q.etagNew # NoEtag /\ q.match = NoEtag
  /\ q.status = 412 => q.match # NoEtag
  /\ q.pc # "done" => q.data = NoPayload

(* What it claims about the etags, the rows and the history.               *)
RequestClaims(q) ==
  /\ q.etagNew <= minted
  /\ q.pc = "insert" => ~Stored(q.etagNew)
  /\ q.match # NoEtag => Stored(q.match)
  /\ q.pc = "data" /\ q.match # NoEtag => rows[q.key].etag # q.match
  /\ q.pc = "done" /\ q.status = 200 =>
       IsVersion(q.etag, IF q.op = "put" THEN q.body ELSE q.data)
  /\ q.pc = "done" /\ q.op = "put" =>
       /\ q.status = 200 => Stored(q.etagNew) /\ q.etag = q.etagNew
       /\ q.status = 412 => ~Stored(q.etagNew) /\ rows[q.key].etag # q.match
       /\ q.status \in {400, 401} => ~Stored(q.etagNew)

StateOK ==
  /\ api \in [Keys -> {"unminted", "live", "deleted"}]
  /\ rows \in [RowKeys -> Contents]
  /\ minted \in Nat
  /\ versions \subseteq Versions
  /\ copy \in [Devices -> Contents]

RequestsOK ==
  /\ DOMAIN req = Requests
  /\ req = [r \in Requests |-> req[r]]
  /\ \A r \in Requests :
       req[r] = Idle \/ (RequestShape(req[r]) /\ RequestClaims(req[r]))
  /\ \A r, s \in Requests :
       r # s /\ req[r] # Idle /\ req[s] # Idle /\ req[r].etagNew # NoEtag
         => req[r].etagNew # req[s].etagNew

(* The history: etags are unique, none is ahead of the counter, a version  *)
(* that an accepted conditional write replaced is in no row any more.      *)
HistoryOK ==
  /\ \A v \in versions : v.etag <= minted
  /\ \A v, w \in versions : v.etag = w.etag => v = w
  /\ \A v \in versions : v.base # NoEtag =>
       Stored(v.base) /\ \A k \in RowKeys : rows[k].etag # v.base
  /\ NoLostUpdate

HoldersOK ==
  /\ \A k \in RowKeys : rows[k] = NoRow \/
       \E v \in versions : v.key = k /\ v.etag = rows[k].etag /\ v.data = rows[k].data
  /\ \A d \in Devices : copy[d] = NoRow \/ IsVersion(copy[d].etag, copy[d].data)

Inv == StateOK /\ RequestsOK /\ HistoryOK /\ HoldersOK

-----------------------------------------------------------------------------
(* The empty database satisfies the invariant.                             *)
LEMMA InitInv == Init => Inv
BY ConstantsAssumption
   DEF Init, Inv, StateOK, RequestsOK, HistoryOK, HoldersOK, NoLostUpdate,
       Contents, NoRow, NoEtag, RowKeys, Versions

(* A step of one request that writes no row.                               *)
LEMMA QuietStep ==
  ASSUME Inv, NEW r \in Requests, NEW q,
         UNCHANGED <<api, rows, versions, copy>>,
         minted' \in {minted, minted + 1},
         req' = [req EXCEPT ![r] = q],
         q = Idle \/ (RequestShape(q) /\ RequestClaims(q)'),
         q = Idle \/ q.etagNew \in {NoEtag, minted + 1}
           \/ (req[r] # Idle /\ q.etagNew = req[r].etagNew)
  PROVE  Inv'
<1> USE DEF Inv
<1>1. minted \in Nat /\ minted' \in Nat /\ minted <= minted'
  BY DEF StateOK
<1>2. StateOK'
  BY <1>1 DEF StateOK
<1>3. HistoryOK' /\ HoldersOK'
  BY <1>1 DEF StateOK, HistoryOK, HoldersOK, NoLostUpdate, Stored, IsVersion, Versions
<1>4. ASSUME NEW p, RequestShape(p), RequestClaims(p)
      PROVE  RequestClaims(p)'
  <2>1. p.etagNew \in Nat
    BY <1>4 DEF RequestShape, ActiveRequests
  <2> QED  BY <1>1, <1>4, <2>1 DEF RequestClaims, Stored, IsVersion
<1>5. ASSUME NEW s \in Requests
      PROVE  (req[s] = Idle \/ (RequestShape(req[s]) /\ RequestClaims(req[s])))'
  <2>1. PICK p : p = req'[s]
    OBVIOUS
  <2>2. p = Idle \/ (RequestShape(p) /\ RequestClaims(p)')
    <3>1. CASE s = r
      BY <2>1, <3>1 DEF RequestsOK
    <3>2. CASE s # r
      BY <1>4, <2>1, <3>2 DEF RequestsOK
    <3> QED  BY <3>1, <3>2
  <2> QED  BY <2>1, <2>2 DEF RequestClaims
<1>6. ASSUME NEW s \in Requests, NEW t \in Requests,
             s # t, req'[s] # Idle, req'[t] # Idle, req'[s].etagNew # NoEtag
      PROVE  req'[s].etagNew # req'[t].etagNew
  <2>1. \A u \in Requests : req[u] # Idle => req[u].etagNew \in Nat /\ req[u].etagNew <= minted
    BY DEF RequestsOK, RequestShape, RequestClaims, ActiveRequests
  <2> QED  BY <1>1, <1>6, <2>1 DEF RequestsOK, NoEtag
<1>7. RequestsOK'
  BY <1>5, <1>6 DEF RequestsOK
<1> QED  BY <1>2, <1>3, <1>7

(* What becomes of a PUT that stored a version under etag e.               *)
PutStored(r, q, e) ==
  /\ req[r] # Idle /\ req[r].op = "put"
  /\ RequestShape(q) /\ q.etagNew = e /\ q.pc = "done"
  /\ q.op = req[r].op /\ q.body = req[r].body /\ q.match = req[r].match
  /\ (q.status = 200 /\ q.etag = e) \/ q.status = 500

(* A step of one request that stores a version under a fresh etag.         *)
LEMMA WriteStep ==
  ASSUME Inv, NEW r \in Requests, NEW q, NEW e,
         UNCHANGED <<api, copy>>,
         minted' \in {minted, minted + 1},
         e \in Nat \ {NoEtag}, e <= minted', ~Stored(e),
         \A s \in Requests \ {r} : req[s] # Idle => req[s].etagNew # e,
         req[r].match # NoEtag => rows[req[r].key].etag = req[r].match,
         StoreVersion(r, e),
         req' = [req EXCEPT ![r] = q],
         PutStored(r, q, e)
  PROVE  Inv'
<1> USE DEF Inv, PutStored
<1>1. minted \in Nat /\ minted' \in Nat /\ minted <= minted'
  BY DEF StateOK
<1>2. RequestShape(req[r]) /\ RequestClaims(req[r])
  BY DEF RequestsOK
<1> DEFINE k == req[r].key
           body == req[r].body
           new == [etag |-> e, key |-> k, data |-> body,
                   dev |-> req[r].dev, base |-> req[r].match]
<1>3. /\ k \in RowKeys /\ body \in Payloads /\ new \in Versions
      /\ req[r].match \in Nat
  BY <1>2 DEF RequestShape, ActiveRequests, Versions
<1>4. /\ rows' = [rows EXCEPT ![k] = [etag |-> e, data |-> body]]
      /\ versions' = versions \cup {new}
  BY DEF StoreVersion
<1>5. StateOK'
  BY <1>1, <1>3, <1>4 DEF StateOK, Contents
<1>6. \A v \in versions : v.etag \in Nat \ {NoEtag} /\ v.base \in Nat /\ v.etag <= minted
  BY DEF StateOK, Versions, HistoryOK
<1> HIDE DEF new
<1>7. new.etag = e /\ new.key = k /\ new.data = body /\ new.base = req[r].match
  BY DEF new
<1>8. \A x : Stored(x)' <=> Stored(x) \/ x = e
  BY <1>4, <1>7 DEF Stored
<1>9. \A l \in RowKeys : rows'[l] = IF l = k THEN [etag |-> e, data |-> body] ELSE rows[l]
  BY <1>4 DEF StateOK
<1>10. HistoryOK'
  <2>1. \A v \in versions' : v.etag <= minted'
    BY <1>1, <1>4, <1>6, <1>7
  <2>2. \A v, w \in versions' : v.etag = w.etag => v = w
    BY <1>4, <1>7 DEF HistoryOK, Stored
  <2>3. \A v \in versions' : v.base # NoEtag => Stored(v.base)'
    BY <1>2, <1>4, <1>8, <1>7 DEF HistoryOK, RequestClaims
  <2>4. ASSUME NEW l \in RowKeys, l # k, rows[l].etag # NoEtag
        PROVE  rows[l].etag # rows[k].etag
    BY <2>4, <1>3 DEF HoldersOK, HistoryOK, NoRow
  <2>5. ASSUME NEW v \in versions', v.base # NoEtag, NEW l \in RowKeys
        PROVE  rows'[l].etag # v.base
    <3>1. CASE v \in versions
      <4>1. rows[l].etag # v.base /\ v.base # e
        BY <2>5, <3>1 DEF HistoryOK
      <4> QED  BY <4>1, <1>9
    <3>2. CASE v = new
      <4>1. v.base = rows[k].etag /\ rows[k].etag # NoEtag
        BY <2>5, <3>2, <1>7
      <4>2. v.base # e
        BY <2>5, <3>2, <1>2, <1>7 DEF RequestClaims
      <4> QED  BY <4>1, <4>2, <2>4, <1>9
    <3> QED  BY <3>1, <3>2, <1>4
  <2>6. NoLostUpdate'
    <3>1. \A v \in versions : v.base # NoEtag => v.base # new.base
      BY <1>3, <1>7 DEF HistoryOK
    <3> QED  BY <3>1, <1>4 DEF HistoryOK, NoLostUpdate
  <2> QED  BY <2>1, <2>2, <2>3, <2>5, <2>6 DEF HistoryOK
<1>11. HoldersOK'
  <2>1. \A l \in RowKeys : rows'[l] = NoRow \/
          \E v \in versions' : v.key = l /\ v.etag = rows'[l].etag /\ v.data = rows'[l].data
    BY <1>4, <1>7, <1>9 DEF HoldersOK
  <2>2. \A d \in Devices : (copy[d] = NoRow \/ IsVersion(copy[d].etag, copy[d].data))'
    BY <1>4 DEF HoldersOK, IsVersion
  <2> QED  BY <2>1, <2>2 DEF HoldersOK
<1>12. ASSUME NEW p, RequestShape(p), RequestClaims(p), p.etagNew # e
       PROVE  RequestClaims(p)'
  <2>1. p.etagNew \in Nat /\ p.key \in RowKeys /\ p.match \in Nat
    BY <1>12 DEF RequestShape, ActiveRequests
  <2>2. p.etagNew <= minted'
    BY <1>1, <1>12, <2>1 DEF RequestClaims
  <2>3. p.match # NoEtag => Stored(p.match)'
    BY <1>8, <1>12 DEF RequestClaims
  <2>4. p.pc = "done" /\ p.status = 200 =>
          IsVersion(p.etag, IF p.op = "put" THEN p.body ELSE p.data)'
    BY <1>4, <1>12 DEF RequestClaims, IsVersion
  <2>5. /\ p.pc = "done" /\ p.op = "put" /\ p.status = 412 => rows'[p.key].etag # p.match
        /\ p.pc = "data" /\ p.match # NoEtag => rows'[p.key].etag # p.match
    BY <1>9, <1>12, <2>1 DEF RequestClaims, Stored
  <2> QED  BY <1>8, <1>12, <2>2, <2>3, <2>4, <2>5 DEF RequestClaims
<1>13. RequestClaims(q)'
  <2>1. e <= minted' /\ Stored(e)'
    BY <1>8
  <2>2. q.match # NoEtag => Stored(q.match)'
    BY <1>2, <1>8 DEF RequestClaims
  <2>3. IsVersion(e, q.body)'
    BY <1>4, <1>7 DEF IsVersion
  <2> QED  BY <2>1, <2>2, <2>3 DEF RequestClaims
<1>14. ASSUME NEW s \in Requests
       PROVE  (req[s] = Idle \/ (RequestShape(req[s]) /\ RequestClaims(req[s])))'
  <2>1. PICK p : p = req'[s]
    OBVIOUS
  <2>2. p = Idle \/ (RequestShape(p) /\ RequestClaims(p)')
    <3>1. CASE s = r
      BY <1>13, <2>1, <3>1 DEF RequestsOK
    <3>2. CASE s # r
      BY <1>12, <2>1, <3>2 DEF RequestsOK
    <3> QED  BY <3>1, <3>2
  <2> QED  BY <2>1, <2>2 DEF RequestClaims
<1>15. RequestsOK'
  BY <1>14 DEF RequestsOK
<1> QED  BY <1>5, <1>10, <1>11, <1>15

-----------------------------------------------------------------------------
(* An API key is minted or deleted.                                        *)
LEMMA KeysStep ==
  ASSUME Inv, NEW k \in Keys, StoreKey(k) \/ DeleteKey(k)
  PROVE  Inv'
<1>1. /\ api' \in [Keys -> {"unminted", "live", "deleted"}]
      /\ UNCHANGED <<minted, versions, req, copy>>
      /\ rows' \in {rows, [rows EXCEPT ![k] = NoRow]}
  BY DEF Inv, StateOK, StoreKey, DeleteKey
<1>2. k \in RowKeys /\ NoRow \in Contents
  BY DEF RowKeys, NoRow, NoEtag, Contents
<1>3. \A l \in RowKeys : rows'[l] \in {rows[l], NoRow}
  BY <1>1, <1>2 DEF Inv, StateOK
<1>4. StateOK'
  BY <1>1, <1>2 DEF Inv, StateOK
<1>5. HistoryOK' /\ HoldersOK'
  BY <1>1, <1>3 DEF Inv, HistoryOK, HoldersOK, NoLostUpdate, Stored, IsVersion,
                    NoRow
<1>6. ASSUME NEW p, RequestShape(p), RequestClaims(p)
      PROVE  RequestClaims(p)'
  <2>1. p.key \in RowKeys
    BY <1>6 DEF RequestShape, ActiveRequests
  <2>2. /\ p.pc = "done" /\ p.op = "put" /\ p.status = 412 => rows'[p.key].etag # p.match
        /\ p.pc = "data" /\ p.match # NoEtag => rows'[p.key].etag # p.match
    <3>1. CASE rows'[p.key] = rows[p.key]
      BY <1>6, <3>1 DEF RequestClaims
    <3>2. CASE rows'[p.key] = NoRow
      BY <1>6, <3>2 DEF RequestShape, NoRow
    <3> QED  BY <1>3, <2>1, <3>1, <3>2
  <2> QED  BY <1>1, <1>6, <2>2 DEF RequestClaims, Stored, IsVersion
<1>7. RequestsOK'
  BY <1>1, <1>6 DEF Inv, RequestsOK
<1> QED  BY <1>4, <1>5, <1>7 DEF Inv

(* A device sends a request.                                               *)
LEMMA SendStep ==
  ASSUME Inv, NEW r \in Requests, NEW d \in Devices, SendGet(r, d) \/ SendPut(r, d)
  PROVE  Inv'
<1>1. PICK op \in {"get", "put"}, via \in {"header", "query", "session"},
           match \in {NoEtag, copy[d].etag}, body \in Payloads \cup {NoPayload} :
        Send(r, d, op, via, match, body) /\ (op = "put" => body \in Payloads)
  BY ConstantsAssumption DEF SendGet, SendPut
<1>2. PICK q : q = [ pc |-> "auth", waiting |-> TRUE, dev |-> d, op |-> op,
                     via |-> via, key |-> RowKey(d, via), match |-> match,
                     body |-> body, etagNew |-> NoEtag,
                     status |-> 0, etag |-> NoEtag, data |-> NoPayload ]
  OBVIOUS
<1>3. req' = [req EXCEPT ![r] = q] /\ UNCHANGED <<api, rows, minted, versions, copy>>
  BY <1>1, <1>2 DEF Send
<1>4. RowKey(d, via) \in RowKeys /\ match \in Nat
  BY ConstantsAssumption DEF RowKey, RowKeys, Inv, StateOK, Contents, NoEtag
<1>5. RequestShape(q)
  <2>1. q \in ActiveRequests
    BY <1>2, <1>4 DEF ActiveRequests, Steps, Statuses, NoEtag
  <2> QED  BY <1>1, <1>2, <2>1 DEF RequestShape
<1>6. match # NoEtag => Stored(match)
  BY <1>1 DEF Inv, HoldersOK, IsVersion, Stored, NoRow
<1>7. RequestClaims(q)'
  BY <1>2, <1>3, <1>6 DEF RequestClaims, Stored, Inv, StateOK, NoEtag
<1> QED  BY <1>2, <1>3, <1>5, <1>7, QuietStep

(* An answer that needs no write.                                          *)
LEMMA AnswerStep ==
  ASSUME Inv, NEW r \in Requests, NEW status \in Statuses \ {412},
         NEW etag \in Nat, NEW data \in Payloads \cup {NoPayload},
         req[r].pc \in {"auth", "etag", "data", "update"},
         status = 200 => req[r].op = "get" /\ IsVersion(etag, data),
         Answer(r, status, etag, data),
         UNCHANGED <<api, rows, minted, versions, copy>>
  PROVE  Inv'
<1>1. PICK p : p = req[r]
  OBVIOUS
<1>2. RequestShape(p) /\ RequestClaims(p)
  BY <1>1 DEF Inv, RequestsOK, Idle
<1>3. PICK q : q = [p EXCEPT !.pc = "done", !.status = status,
                             !.etag = etag, !.data = data]
  OBVIOUS
<1>4. req' = [req EXCEPT ![r] = q]
  BY <1>1, <1>3 DEF Answer
<1>5. q \in ActiveRequests
  BY <1>2, <1>3 DEF RequestShape, ActiveRequests, Steps
<1>6. /\ q.pc = "done" /\ q.status = status /\ q.etag = etag /\ q.data = data
      /\ q.op = p.op /\ q.body = p.body /\ q.match = p.match
      /\ q.etagNew = NoEtag /\ p.etagNew = NoEtag
  BY <1>1, <1>2, <1>3 DEF RequestShape, ActiveRequests
<1>7. RequestShape(q)
  BY <1>2, <1>5, <1>6 DEF RequestShape
<1>8. RequestClaims(q)'
  <2>1. ~Stored(NoEtag)
    BY DEF Stored, Inv, StateOK, Versions
  <2>2. IsVersion(etag, data)' <=> IsVersion(etag, data)
    BY DEF IsVersion
  <2> QED  BY <1>1, <1>2, <1>6, <2>1, <2>2 DEF RequestClaims, Stored
<1> QED  BY <1>4, <1>6, <1>7, <1>8, QuietStep

(* A handler goes on to its next statement.                                *)
LEMMA GotoStep ==
  ASSUME Inv, NEW r \in Requests, NEW pc \in {"etag", "data", "update"},
         req[r].pc \in {"auth", "etag"},
         pc = "update" <=> req[r].op = "put",
         pc = "etag" => req[r].match # NoEtag,
         pc = "data" /\ req[r].match # NoEtag => rows[req[r].key].etag # req[r].match,
         Goto(r, pc),
         UNCHANGED <<api, rows, minted, versions, copy>>
  PROVE  Inv'
<1>1. PICK p : p = req[r]
  OBVIOUS
<1>2. RequestShape(p) /\ RequestClaims(p)
  BY <1>1 DEF Inv, RequestsOK, Idle
<1>3. PICK q : q = [p EXCEPT !.pc = pc]
  OBVIOUS
<1>4. req' = [req EXCEPT ![r] = q]
  BY <1>1, <1>3 DEF Goto
<1>5. q \in ActiveRequests
  BY <1>2, <1>3 DEF RequestShape, ActiveRequests, Steps
<1>6. /\ q.pc = pc /\ q.status = p.status /\ q.op = p.op /\ q.key = p.key
      /\ q.body = p.body /\ q.match = p.match /\ q.data = p.data
      /\ q.etagNew = NoEtag /\ p.etagNew = NoEtag
  BY <1>1, <1>2, <1>3 DEF RequestShape, ActiveRequests
<1>7. RequestShape(q)
  BY <1>1, <1>2, <1>5, <1>6 DEF RequestShape, ActiveRequests
<1>8. RequestClaims(q)'
  BY <1>1, <1>2, <1>6 DEF RequestClaims, Stored
<1> QED  BY <1>4, <1>6, <1>7, <1>8, QuietStep

(* The steps of a handler that write nothing.                              *)
LEMMA ReadSteps ==
  ASSUME Inv, NEW r \in Requests,
         \/ Authenticate(r) \/ GetSyncDataETag(r) \/ GetSyncDataAndETag(r)
         \/ QueryFails(r) \/ ReadBodyFails(r)
  PROVE  Inv'
<1>1. PICK p : p = req[r]
  OBVIOUS
<1>2. /\ RequestShape(p) /\ RequestClaims(p)
      /\ {200, 304, 400, 401, 404, 500} \subseteq Statuses \ {412}
      /\ NoEtag \in Nat /\ NoPayload \in Payloads \cup {NoPayload}
  BY <1>1 DEF Inv, RequestsOK, Idle, Authenticate, GetSyncDataETag,
              GetSyncDataAndETag, QueryFails, ReadBodyFails, Statuses, NoEtag
<1>3. CASE Authenticate(r)
  <2>1. /\ FirstStep(p) \in {"etag", "data", "update"}
        /\ FirstStep(p) = "update" <=> p.op = "put"
        /\ FirstStep(p) = "etag" => p.match # NoEtag
        /\ FirstStep(p) = "data" => p.match = NoEtag
    BY <1>2 DEF RequestShape, ActiveRequests, FirstStep
  <2>2. CASE Goto(r, FirstStep(req[r]))
    BY <1>1, <1>3, <2>1, <2>2, GotoStep DEF Authenticate
  <2>3. CASE Answer(r, 401, NoEtag, NoPayload)
    BY <1>2, <1>3, <2>3, AnswerStep DEF Authenticate
  <2> QED  BY <1>3, <2>2, <2>3 DEF Authenticate
<1>4. CASE GetSyncDataETag(r)
  <2>1. CASE rows[req[r].key].etag # req[r].match
    BY <1>1, <1>2, <1>4, <2>1, GotoStep DEF GetSyncDataETag, RequestShape
  <2>2. CASE rows[req[r].key].etag = req[r].match
    BY <1>2, <1>4, <2>2, AnswerStep DEF GetSyncDataETag
  <2> QED  BY <1>4, <2>1, <2>2 DEF GetSyncDataETag
<1>5. CASE GetSyncDataAndETag(r)
  <2> DEFINE row == rows[req[r].key]
  <2>1. row \in Contents /\ (row = NoRow \/ IsVersion(row.etag, row.data))
    BY <1>1, <1>2 DEF RequestShape, ActiveRequests, Inv, StateOK, HoldersOK, IsVersion
  <2>2. CASE row = NoRow
    BY <1>2, <1>5, <2>2, AnswerStep DEF GetSyncDataAndETag
  <2>3. CASE row # NoRow
    <3>1. Answer(r, 200, row.etag, row.data) /\ req[r].pc = "data"
      BY <1>5, <2>3 DEF GetSyncDataAndETag
    <3>2. req[r].op = "get"
      BY <1>1, <1>2, <3>1 DEF RequestShape
    <3>3. row.etag \in Nat /\ row.data \in Payloads \cup {NoPayload}
      BY <2>1 DEF Contents
    <3> QED  BY <1>2, <1>5, <2>1, <2>3, <3>1, <3>2, <3>3, AnswerStep DEF GetSyncDataAndETag
  <2> QED  BY <2>2, <2>3
<1>6. CASE QueryFails(r)
  BY <1>2, <1>6, AnswerStep DEF QueryFails
<1>7. CASE ReadBodyFails(r)
  BY <1>2, <1>7, AnswerStep DEF ReadBodyFails
<1> QED  BY <1>3, <1>4, <1>5, <1>6, <1>7

(* The answer to a write statement.                                        *)
LEMMA AnswerPutShape ==
  ASSUME Inv, NEW r \in Requests, req[r].pc \in {"update", "insert"},
         NEW err \in BOOLEAN, NEW drawn \in Nat, NEW newEtag \in Nat,
         ~err /\ newEtag = NoEtag => req[r].match # NoEtag,
         AnswerPut(r, err, drawn, newEtag)
  PROVE  \E q : /\ req' = [req EXCEPT ![r] = q]
                /\ RequestShape(q) /\ q.pc = "done" /\ q.op = "put"
                /\ q.status = PutStatus(err, newEtag)
                /\ q.etag = newEtag /\ q.etagNew = drawn /\ q.key = req[r].key
                /\ q.body = req[r].body /\ q.match = req[r].match /\ q.data = NoPayload
<1>1. PICK p : p = req[r]
  OBVIOUS
<1>2. RequestShape(p)
  BY <1>1 DEF Inv, RequestsOK, Idle
<1>3. PutStatus(err, newEtag) \in Statuses
  BY DEF PutStatus, Statuses
<1>4. PutStatus(err, newEtag) = 412 => p.match # NoEtag
  BY <1>1 DEF PutStatus
<1>5. PICK q : q = [p EXCEPT !.pc = "done", !.status = PutStatus(err, newEtag),
                             !.etag = newEtag, !.etagNew = drawn]
  OBVIOUS
<1>6. req' = [req EXCEPT ![r] = q]
  BY <1>1, <1>5 DEF AnswerPut
<1>7. q \in ActiveRequests
  BY <1>2, <1>3, <1>5 DEF RequestShape, ActiveRequests, Steps
<1>8. /\ q.pc = "done" /\ q.op = "put" /\ q.status = PutStatus(err, newEtag)
      /\ q.etag = newEtag /\ q.etagNew = drawn /\ q.key = p.key
      /\ q.body = p.body /\ q.match = p.match /\ q.data = NoPayload
  BY <1>1, <1>2, <1>5 DEF RequestShape, ActiveRequests
<1>9. RequestShape(q)
  BY <1>1, <1>2, <1>4, <1>7, <1>8 DEF RequestShape
<1> QED  BY <1>1, <1>6, <1>8, <1>9

(* An etag a write statement may use: drawn in this step, or by this       *)
(* request in an earlier one and not stored yet.                           *)
Drawn(r, e) ==
  \/ e = minted + 1 /\ minted' = minted + 1
  \/ e = req[r].etagNew /\ req[r].pc = "insert" /\ minted' = minted

(* An etag drawn now, or before an INSERT, belongs to no stored version.   *)
LEMMA DrawnIsFresh ==
  ASSUME Inv, NEW r \in Requests, NEW e, Drawn(r, e)
  PROVE  /\ e \in Nat \ {NoEtag} /\ e <= minted' /\ ~Stored(e)
         /\ \A s \in Requests \ {r} : req[s] # Idle => req[s].etagNew # e
<1>1. minted \in Nat /\ \A v \in versions : v.etag \in Nat /\ v.etag <= minted
  BY DEF Inv, StateOK, HistoryOK, Versions
<1>2. \A s \in Requests : req[s] # Idle =>
        req[s].etagNew \in Nat /\ req[s].etagNew <= minted
  BY DEF Inv, RequestsOK, RequestShape, RequestClaims, ActiveRequests
<1>3. CASE e = minted + 1 /\ minted' = minted + 1
  BY <1>1, <1>2, <1>3 DEF Stored, NoEtag
<1>4. CASE e = req[r].etagNew /\ req[r].pc = "insert" /\ minted' = minted
  <2>1. req[r] # Idle /\ e # NoEtag /\ ~Stored(e)
    BY <1>4 DEF Inv, RequestsOK, RequestShape, RequestClaims, Idle
  <2>2. e \in Nat /\ e <= minted'
    BY <1>2, <1>4, <2>1
  <2>3. \A s \in Requests \ {r} : req[s] # Idle => req[s].etagNew # e
    BY <1>4, <2>1 DEF Inv, RequestsOK
  <2> QED  BY <2>1, <2>2, <2>3
<1> QED  BY <1>3, <1>4 DEF Drawn

(* A write statement that takes effect.                                    *)
LEMMA WritesStep ==
  ASSUME Inv, NEW r \in Requests, NEW e, Drawn(r, e),
         req[r].pc \in {"update", "insert"},
         req[r].match # NoEtag => rows[req[r].key].etag = req[r].match,
         Writes(r, e), UNCHANGED <<api, copy>>
  PROVE  Inv'
<1>1. /\ e \in Nat \ {NoEtag} /\ e <= minted' /\ ~Stored(e)
      /\ \A s \in Requests \ {r} : req[s] # Idle => req[s].etagNew # e
  BY DrawnIsFresh
<1>2. PICK newEtag \in {e, NoEtag}, err \in BOOLEAN :
        AnswerPut(r, err, e, newEtag) /\ (err <=> newEtag = NoEtag)
  BY <1>1 DEF Writes
<1>3. newEtag \in Nat /\ e \in Nat
  BY <1>1 DEF NoEtag
<1>4. PICK q : /\ req' = [req EXCEPT ![r] = q]
               /\ RequestShape(q) /\ q.pc = "done" /\ q.op = "put"
               /\ q.status = PutStatus(err, newEtag)
               /\ q.etag = newEtag /\ q.etagNew = e /\ q.key = req[r].key
               /\ q.body = req[r].body /\ q.match = req[r].match
  BY <1>2, <1>3, AnswerPutShape
<1>5. (q.status = 200 /\ q.etag = e) \/ q.status = 500
  BY <1>2, <1>4 DEF PutStatus
<1>6. req[r] # Idle /\ req[r].op = "put"
  BY DEF Inv, RequestsOK, RequestShape, Idle
<1>7. minted' \in {minted, minted + 1} /\ StoreVersion(r, e)
  BY DEF Drawn, Writes
<1>8. req' = [req EXCEPT ![r] = q] /\ PutStored(r, q, e)
  BY <1>4, <1>5, <1>6 DEF PutStored
<1> QED  BY <1>1, <1>7, <1>8, WriteStep

(* A write statement without effect.                                       *)
LEMMA WritesNothingStep ==
  ASSUME Inv, NEW r \in Requests, NEW e, Drawn(r, e), NEW err \in BOOLEAN,
         req[r].pc \in {"update", "insert"},
         err \/ (req[r].match # NoEtag /\ rows[req[r].key].etag # req[r].match),
         WritesNothing(r, err, e), UNCHANGED <<api, copy>>
  PROVE  Inv'
<1>1. /\ e \in Nat \ {NoEtag} /\ e <= minted' /\ ~Stored(e)
      /\ \A s \in Requests \ {r} : req[s] # Idle => req[s].etagNew # e
  BY DrawnIsFresh
<1>2. AnswerPut(r, err, e, NoEtag) /\ UNCHANGED <<rows, versions>>
  BY DEF WritesNothing
<1>3. NoEtag \in Nat /\ e \in Nat
  BY <1>1 DEF NoEtag
<1>4. PICK q : /\ req' = [req EXCEPT ![r] = q]
               /\ RequestShape(q) /\ q.pc = "done" /\ q.op = "put"
               /\ q.status = PutStatus(err, NoEtag)
               /\ q.etag = NoEtag /\ q.etagNew = e /\ q.key = req[r].key
               /\ q.body = req[r].body /\ q.match = req[r].match
  BY <1>2, <1>3, AnswerPutShape
<1>5. q.status = IF err THEN 500 ELSE 412
  BY <1>4 DEF PutStatus
<1>6. RequestClaims(req[r]) /\ req[r] # Idle
  BY DEF Inv, RequestsOK, Idle
<1>7. RequestClaims(q)'
  BY <1>1, <1>2, <1>4, <1>5, <1>6 DEF RequestClaims, Stored
<1>8. q.etagNew \in {NoEtag, minted + 1} \/ (req[r] # Idle /\ q.etagNew = req[r].etagNew)
  BY <1>4, <1>6 DEF Drawn
<1>9. minted' \in {minted, minted + 1}
  BY DEF Drawn
<1> QED  BY <1>2, <1>4, <1>7, <1>8, <1>9, QuietStep

(* The write statements of putContent.                                     *)
LEMMA PutSteps ==
  ASSUME Inv, NEW r \in Requests,
         SetSyncDataIfMatch(r) \/ UpdateSyncData(r) \/ InsertSyncData(r)
  PROVE  Inv'
<1>1. PICK p : p = req[r]
  OBVIOUS
<1>2. RequestShape(p) /\ RequestClaims(p)
  <2>1. p.pc \in {"update", "insert"}
    BY <1>1 DEF SetSyncDataIfMatch, UpdateSyncData, InsertSyncData
  <2> QED  BY <1>1, <2>1 DEF Inv, RequestsOK, Idle
<1>3. CASE SetSyncDataIfMatch(r)
  <2>1. /\ Drawn(r, NewEtag) /\ req[r].pc = "update" /\ req[r].match # NoEtag
        /\ UNCHANGED <<api, copy>>
    BY <1>3 DEF SetSyncDataIfMatch, DrawEtag, Drawn, NewEtag
  <2>2. CASE rows[req[r].key].etag = req[r].match /\ Writes(r, NewEtag)
    BY <2>1, <2>2, WritesStep
  <2>3. CASE rows[req[r].key].etag # req[r].match /\ WritesNothing(r, FALSE, NewEtag)
    BY <2>1, <2>3, WritesNothingStep
  <2>4. CASE WritesNothing(r, TRUE, NewEtag)
    BY <2>1, <2>4, WritesNothingStep
  <2> QED  BY <1>3, <2>2, <2>3, <2>4 DEF SetSyncDataIfMatch
<1>4. CASE UpdateSyncData(r)
  <2>1. /\ Drawn(r, NewEtag) /\ req[r].pc = "update" /\ req[r].match = NoEtag
        /\ UNCHANGED <<api, copy>>
    BY <1>4 DEF UpdateSyncData, DrawEtag, Drawn, NewEtag
  <2>2. CASE Writes(r, NewEtag)
    BY <2>1, <2>2, WritesStep
  <2>3. CASE /\ req' = [req EXCEPT ![r] = [@ EXCEPT !.pc = "insert", !.etagNew = NewEtag]]
             /\ UNCHANGED <<rows, versions>>
    <3>1. NewEtag = minted + 1 /\ minted' = minted + 1 /\ minted \in Nat
      BY <1>4 DEF UpdateSyncData, DrawEtag, NewEtag, Inv, StateOK
    <3>2. PICK q : q = [p EXCEPT !.pc = "insert", !.etagNew = NewEtag]
      OBVIOUS
    <3>3. req' = [req EXCEPT ![r] = q]
      BY <1>1, <2>3, <3>2
    <3>4. q \in ActiveRequests
      <4>1. NewEtag \in Nat /\ "insert" \in Steps
        BY <3>1 DEF Steps
      <4> QED  BY <1>2, <3>2, <4>1 DEF RequestShape, ActiveRequests
    <3>5. /\ q.pc = "insert" /\ q.etagNew = minted + 1 /\ q.op = "put"
          /\ q.status = p.status /\ q.body = p.body /\ q.match = NoEtag
          /\ q.data = p.data
      BY <1>1, <1>2, <2>1, <3>1, <3>2 DEF RequestShape, ActiveRequests
    <3>6. RequestShape(q)
      BY <1>1, <1>2, <2>1, <3>1, <3>4, <3>5 DEF RequestShape, NoEtag
    <3>7. RequestClaims(q)'
      <4>1. ~Stored(minted + 1)
        BY <2>1, <3>1, DrawnIsFresh
      <4> QED  BY <2>3, <3>1, <3>5, <4>1 DEF RequestClaims, Stored
    <3> QED  BY <2>1, <2>3, <3>1, <3>3, <3>5, <3>6, <3>7, QuietStep
  <2>4. CASE WritesNothing(r, TRUE, NewEtag)
    BY <2>1, <2>4, WritesNothingStep
  <2> QED  BY <1>4, <2>2, <2>3, <2>4 DEF UpdateSyncData
<1>5. CASE InsertSyncData(r)
  <2>1. /\ Drawn(r, req[r].etagNew) /\ req[r].pc = "insert" /\ req[r].match = NoEtag
        /\ UNCHANGED <<api, copy>>
    BY <1>1, <1>2, <1>5 DEF InsertSyncData, Drawn, RequestShape
  <2>2. CASE Writes(r, req[r].etagNew)
    BY <2>1, <2>2, WritesStep
  <2>3. CASE WritesNothing(r, TRUE, req[r].etagNew)
    BY <2>1, <2>3, WritesNothingStep
  <2> QED  BY <1>5, <2>2, <2>3 DEF InsertSyncData
<1> QED  BY <1>3, <1>4, <1>5

(* A device stops waiting.                                                 *)
LEMMA GiveUpStep ==
  ASSUME Inv, NEW r \in Requests, GiveUp(r)
  PROVE  Inv'
<1>1. PICK p : p = req[r]
  OBVIOUS
<1>2. RequestShape(p) /\ RequestClaims(p) /\ p # Idle
  BY <1>1 DEF Inv, RequestsOK, Idle, GiveUp
<1>3. PICK q : q = [p EXCEPT !.waiting = FALSE]
  OBVIOUS
<1>4. req' = [req EXCEPT ![r] = q] /\ UNCHANGED <<api, rows, minted, versions, copy>>
  BY <1>1, <1>3 DEF GiveUp
<1>5. q \in ActiveRequests
  BY <1>2, <1>3 DEF RequestShape, ActiveRequests
<1>6. /\ q.pc = p.pc /\ q.op = p.op /\ q.key = p.key /\ q.match = p.match
      /\ q.body = p.body /\ q.etagNew = p.etagNew /\ q.status = p.status
      /\ q.etag = p.etag /\ q.data = p.data
  BY <1>2, <1>3 DEF RequestShape, ActiveRequests
<1>7. RequestShape(q)
  BY <1>2, <1>5, <1>6 DEF RequestShape
<1>8. RequestClaims(q)'
  BY <1>2, <1>4, <1>6 DEF RequestClaims, Stored, IsVersion
<1> QED  BY <1>1, <1>2, <1>4, <1>6, <1>7, <1>8, QuietStep

(* A device takes the answer.                                              *)
LEMMA DeliverStep ==
  ASSUME Inv, NEW r \in Requests, Deliver(r)
  PROVE  Inv'
<1>1. /\ req[r] # Idle /\ req[r].pc = "done"
      /\ RequestShape(req[r]) /\ RequestClaims(req[r])
  BY DEF Deliver, Inv, RequestsOK, Idle
<1>2. UNCHANGED <<api, rows, minted, versions>> /\ req' = [req EXCEPT ![r] = Idle]
  BY DEF Deliver
<1>3. /\ copy' \in [Devices -> Contents]
      /\ \A d \in Devices : copy'[d] = NoRow \/ IsVersion(copy'[d].etag, copy'[d].data)
  <2>1. CASE req[r].waiting /\ req[r].status = 200
    <3> DEFINE c == [etag |-> req[r].etag,
                     data |-> IF req[r].op = "put" THEN req[r].body ELSE req[r].data]
    <3>1. c \in Contents /\ IsVersion(c.etag, c.data) /\ req[r].dev \in Devices
      BY <1>1, <2>1 DEF RequestShape, RequestClaims, ActiveRequests, Contents
    <3>2. copy' = [copy EXCEPT ![req[r].dev] = c]
      BY <2>1 DEF Deliver, Learn
    <3> QED  BY <3>1, <3>2 DEF Inv, StateOK, HoldersOK
  <2>2. CASE ~(req[r].waiting /\ req[r].status = 200)
    BY <2>2 DEF Deliver, Learn, Inv, StateOK, HoldersOK
  <2> QED  BY <2>1, <2>2
<1>4. StateOK'
  BY <1>2, <1>3 DEF Inv, StateOK
<1>5. HistoryOK' /\ HoldersOK'
  BY <1>2, <1>3 DEF Inv, HistoryOK, HoldersOK, NoLostUpdate, Stored, IsVersion
<1>6. \A p : RequestClaims(p)' <=> RequestClaims(p)
  BY <1>2 DEF RequestClaims, Stored, IsVersion
<1>7. \A s \in Requests : req'[s] = IF s = r THEN Idle ELSE req[s]
  BY <1>2 DEF Inv, RequestsOK
<1>8. ASSUME NEW s \in Requests
      PROVE  (req[s] = Idle \/ (RequestShape(req[s]) /\ RequestClaims(req[s])))'
  <2>1. PICK p : p = req'[s]
    OBVIOUS
  <2>2. p = Idle \/ (RequestShape(p) /\ RequestClaims(p)')
    BY <1>6, <1>7, <2>1 DEF Inv, RequestsOK
  <2> QED  BY <2>1, <2>2 DEF RequestClaims
<1>9. RequestsOK'
  BY <1>2, <1>7, <1>8 DEF Inv, RequestsOK
<1> QED  BY <1>4, <1>5, <1>9 DEF Inv

(* The server restarts: every running request is gone.                     *)
LEMMA RestartStep == Inv /\ Restart => Inv'
<1> SUFFICES ASSUME Inv, Restart  PROVE Inv'
  OBVIOUS
<1>1. UNCHANGED <<api, rows, minted, versions, copy>> /\ req' = [r \in Requests |-> Idle]
  BY DEF Restart
<1>2. StateOK' /\ HistoryOK' /\ HoldersOK'
  BY <1>1 DEF Inv, StateOK, HistoryOK, HoldersOK, NoLostUpdate, Stored, IsVersion
<1>3. RequestsOK'
  BY <1>1 DEF RequestsOK
<1> QED  BY <1>2, <1>3 DEF Inv

(* Every step keeps the invariant.                                         *)
LEMMA NextInv == Inv /\ [Next]_vars => Inv'
<1> SUFFICES ASSUME Inv, [Next]_vars  PROVE Inv'
  OBVIOUS
<1>1. ASSUME NEW k \in Keys, StoreKey(k) \/ DeleteKey(k)  PROVE Inv'
  BY <1>1, KeysStep
<1>2. ASSUME NEW r \in Requests, NEW d \in Devices, SendGet(r, d) \/ SendPut(r, d)
      PROVE  Inv'
  BY <1>2, SendStep
<1>3. ASSUME NEW r \in Requests, Handle(r)  PROVE Inv'
  BY <1>3, ReadSteps, PutSteps DEF Handle
<1>4. ASSUME NEW r \in Requests, Deliver(r)  PROVE Inv'
  BY <1>4, DeliverStep
<1>5. ASSUME NEW r \in Requests, GiveUp(r)  PROVE Inv'
  BY <1>5, GiveUpStep
<1>6. CASE Restart
  BY <1>6, RestartStep
<1>7. CASE UNCHANGED vars
  BY <1>7 DEF vars, Inv, StateOK, RequestsOK, RequestClaims, HistoryOK, HoldersOK,
              NoLostUpdate, Stored, IsVersion
<1> QED  BY <1>1, <1>2, <1>3, <1>4, <1>5, <1>6, <1>7 DEF Next

(* The inductive invariant holds in every state of every behaviour of the  *)
(* endpoints.                                                              *)
THEOREM Invariance == Spec => []Inv
<1> QED  BY InitInv, NextInv, PTL DEF Spec

-----------------------------------------------------------------------------
(* The types of the state are kept.                                        *)
THEOREM TypeCorrect == Spec => []TypeOK
<1>1. Inv => TypeOK
  BY DEF Inv, StateOK, RequestsOK, RequestShape, TypeOK
<1> QED  BY <1>1, Invariance, PTL

(* Whatever holds an etag holds the content it was minted for: rows,       *)
(* answers under way and devices, in every behaviour.                      *)
THEOREM EtagsNameContents == Spec => []VersionsAreExact
<1>1. Inv => VersionsAreExact
  BY DEF Inv, RequestsOK, RequestClaims, Idle, HistoryOK, HoldersOK,
         VersionsAreExact, IsVersion
<1> QED  BY <1>1, Invariance, PTL

(* No two accepted conditional writes replace the same version.            *)
THEOREM UpdatesAreNotLost == Spec => []NoLostUpdate
<1>1. Inv => NoLostUpdate
  BY DEF Inv, HistoryOK
<1> QED  BY <1>1, Invariance, PTL

(* A PUT is answered with what it did.                                     *)
THEOREM AnswersAreTrue == Spec => []PutAnswersAreTrue
<1>1. Inv => PutAnswersAreTrue
  BY DEF Inv, RequestsOK, RequestClaims, Idle, PutAnswersAreTrue, Stored
<1> QED  BY <1>1, Invariance, PTL

-----------------------------------------------------------------------------
(* A row keeps its version, loses it, or takes one never stored before.    *)
LEMMA RowsTakeFreshVersions ==
  ASSUME Inv, [Next]_vars, NEW k \in RowKeys
  PROVE  rows'[k] = rows[k] \/ rows'[k] = NoRow \/ ~Stored(rows'[k].etag)
<1>1. ASSUME NEW l \in Keys, StoreKey(l) \/ DeleteKey(l)
      PROVE  rows'[k] \in {rows[k], NoRow}
  BY <1>1 DEF StoreKey, DeleteKey, RowKeys, Inv, StateOK
<1>2. ASSUME NEW r \in Requests, NEW e, Writes(r, e), Drawn(r, e)
      PROVE  rows'[k] = rows[k] \/ ~Stored(rows'[k].etag)
  <2>1. ~Stored(e)
    BY <1>2, DrawnIsFresh
  <2> QED  BY <1>2, <2>1 DEF Writes, StoreVersion, Inv, StateOK
<1>3. ASSUME NEW r \in Requests, Handle(r)
      PROVE  UNCHANGED rows \/ \E e : Writes(r, e) /\ Drawn(r, e)
  <2>1. CASE Authenticate(r) \/ GetSyncDataETag(r) \/ GetSyncDataAndETag(r)
               \/ QueryFails(r) \/ ReadBodyFails(r)
    BY <2>1 DEF Authenticate, GetSyncDataETag, GetSyncDataAndETag, QueryFails, ReadBodyFails
  <2>2. CASE SetSyncDataIfMatch(r) \/ UpdateSyncData(r)
    <3>1. Writes(r, NewEtag) \/ UNCHANGED rows
      BY <2>2 DEF SetSyncDataIfMatch, UpdateSyncData, WritesNothing
    <3>2. Drawn(r, NewEtag)
      BY <2>2 DEF SetSyncDataIfMatch, UpdateSyncData, DrawEtag, Drawn, NewEtag
    <3> QED  BY <3>1, <3>2
  <2>3. CASE InsertSyncData(r)
    <3>1. Writes(r, req[r].etagNew) \/ UNCHANGED rows
      BY <2>3 DEF InsertSyncData, WritesNothing
    <3>2. Drawn(r, req[r].etagNew)
      BY <2>3 DEF InsertSyncData, Drawn
    <3> QED  BY <3>1, <3>2
  <2> QED  BY <1>3, <2>1, <2>2, <2>3 DEF Handle
<1>4. ASSUME NEW r \in Requests, NEW d \in Devices, SendGet(r, d) \/ SendPut(r, d)
      PROVE  UNCHANGED rows
  BY <1>4 DEF SendGet, SendPut, Send
<1>5. ASSUME NEW r \in Requests, Deliver(r) \/ GiveUp(r)
      PROVE  UNCHANGED rows
  BY <1>5 DEF Deliver, GiveUp
<1>6. Restart \/ UNCHANGED vars => UNCHANGED rows
  BY DEF Restart, vars
<1> QED  BY <1>1, <1>2, <1>3, <1>4, <1>5, <1>6 DEF Next

(* An etag that a device holds and a row does not never comes back to the  *)
(* row: a precondition that fails once fails for good.                     *)
THEOREM NoABA == Spec => StaleStaysStale
<1> DEFINE Stale == \A d \in Devices, k \in RowKeys :
       copy[d].etag # NoEtag /\ copy[d].etag = copy'[d].etag
         /\ rows[k].etag # copy[d].etag
       => rows'[k].etag # copy[d].etag
<1>1. Inv /\ [Next]_vars => Stale
  <2> SUFFICES ASSUME Inv, [Next]_vars, NEW d \in Devices, NEW k \in RowKeys,
                      copy[d].etag # NoEtag, rows[k].etag # copy[d].etag
               PROVE  rows'[k].etag # copy[d].etag
    OBVIOUS
  <2>1. Stored(copy[d].etag)
    BY DEF Inv, HoldersOK, IsVersion, Stored, NoRow
  <2> QED  BY <2>1, RowsTakeFreshVersions DEF NoRow
<1>2. Inv /\ [Next]_vars => [Stale]_vars
  BY <1>1
<1> QED  BY <1>2, Invariance, PTL DEF Spec, StaleStaysStale

-----------------------------------------------------------------------------
(* Keys and devices.                                                       *)

(* A request works on the row that its credential names; an answer with a  *)
(* version has one of that row; and where foreign keys are enforced there  *)
(* are rows of live keys alone.                                            *)
KeysOK ==
  /\ \A r \in Requests : req[r] # Idle =>
       req[r].via \in Vias /\ req[r].key = RowKey(req[r].dev, req[r].via)
  /\ \A r \in Requests : req[r].pc = "done" /\ req[r].status = 200 =>
       \E v \in versions : v.etag = req[r].etag /\ v.key = req[r].key
  /\ \A v \in versions : \E via \in Vias : v.key = RowKey(v.dev, via)
  /\ ForeignKeys => NoOrphanData /\ \A v \in versions : v.key \in Keys

(* The row of a device whose requests all name the same one.               *)
Home(d) == IF Vias = {"header"} THEN KeyOf[d] ELSE EmptyKey

(* No version of a row is later than the row's, unless its key is gone     *)
(* with it; what a device holds is a version of its row, and what it waits *)
(* for is not older.                                                       *)
OrderOK ==
  /\ \A v \in versions :
       \/ v.etag <= rows[v.key].etag
       \/ ForeignKeys /\ v.key \in Keys /\ api[v.key] = "deleted"
  /\ \A d \in Devices :
       copy[d] = NoRow \/ \E v \in versions : v.etag = copy[d].etag /\ v.key = Home(d)
  /\ \A r, s \in Requests :
       r # s /\ req[r].waiting /\ req[s].waiting => req[r].dev # req[s].dev
  /\ \A r \in Requests :
       req[r].pc = "done" /\ req[r].waiting /\ req[r].status = 200 =>
         copy[req[r].dev].etag <= req[r].etag

(* A step of a handler leaves alone whose request it is.                   *)
SameRequest(p, q) ==
  /\ q.key = p.key /\ q.dev = p.dev /\ q.via = p.via /\ q.waiting = p.waiting
  /\ q.pc \in Steps

(* A write statement that takes effect, on a row that allows it.           *)
WritesRow(r, e) ==
  /\ Writes(r, e) /\ Drawn(r, e)
  /\ \/ req[r].pc = "update" /\ rows[req[r].key] # NoRow
     \/ req[r].pc = "insert" /\ Insertable(req[r].key)

(* What a handler's step does: it answers with the row's version, or it    *)
(* writes one, or neither.                                                 *)
Effect(r, q) ==
  \/ /\ UNCHANGED <<rows, versions>>
     /\ q.pc = "done" /\ q.status = 200 =>
          rows[q.key] # NoRow /\ q.etag = rows[q.key].etag
  \/ \E e : WritesRow(r, e) /\ (q.status = 200 => q.etag = e)

(* A request with other fields assigned is the same request.               *)
LEMMA AssignedIsSame ==
  ASSUME NEW p \in ActiveRequests, NEW q \in ActiveRequests,
         \/ q = [p EXCEPT !.pc = q.pc]
         \/ q = [p EXCEPT !.pc = q.pc, !.etagNew = q.etagNew]
         \/ q = [p EXCEPT !.pc = q.pc, !.status = q.status, !.etag = q.etag, !.data = q.data]
         \/ q = [p EXCEPT !.pc = q.pc, !.status = q.status, !.etag = q.etag,
                          !.etagNew = q.etagNew]
  PROVE  SameRequest(p, q)
BY DEF ActiveRequests, SameRequest

(* A read, a refusal or a failure.                                         *)
LEMMA QuietEffect ==
  ASSUME Inv, NEW r \in Requests,
         \/ Authenticate(r) \/ GetSyncDataETag(r) \/ GetSyncDataAndETag(r)
         \/ QueryFails(r) \/ ReadBodyFails(r)
  PROVE  \E q : /\ req' = [req EXCEPT ![r] = q]
                /\ SameRequest(req[r], q) /\ Effect(r, q)
<1>1. PICK p : p = req[r]
  OBVIOUS
<1>2. RequestShape(p) /\ p \in ActiveRequests
  BY <1>1 DEF Inv, RequestsOK, RequestShape, Idle, Authenticate, GetSyncDataETag,
              GetSyncDataAndETag, QueryFails, ReadBodyFails
<1>3. UNCHANGED <<api, rows, minted, versions, copy>>
  BY DEF Authenticate, GetSyncDataETag, GetSyncDataAndETag, QueryFails, ReadBodyFails
<1>4. ASSUME NEW pc \in {"etag", "data", "update"}, Goto(r, pc)
      PROVE  \E q : /\ req' = [req EXCEPT ![r] = q]
                    /\ SameRequest(req[r], q) /\ Effect(r, q)
  <2>1. PICK q : q = [p EXCEPT !.pc = pc]
    OBVIOUS
  <2>2. q \in ActiveRequests /\ q.pc = pc
    BY <1>2, <2>1 DEF ActiveRequests, Steps
  <2>3. SameRequest(p, q)
    BY <1>2, <2>1, <2>2, AssignedIsSame
  <2>4. req' = [req EXCEPT ![r] = q]
    BY <1>1, <1>4, <2>1 DEF Goto
  <2>5. Effect(r, q)
    BY <1>3, <2>2 DEF Effect
  <2> QED BY <1>1, <2>3, <2>4, <2>5
<1>5. ASSUME NEW status \in Statuses, NEW etag \in Nat, NEW data \in Payloads \cup {NoPayload},
             Answer(r, status, etag, data),
             status = 200 => rows[p.key] # NoRow /\ etag = rows[p.key].etag
      PROVE  \E q : /\ req' = [req EXCEPT ![r] = q]
                    /\ SameRequest(req[r], q) /\ Effect(r, q)
  <2>1. PICK q : q = [p EXCEPT !.pc = "done", !.status = status, !.etag = etag, !.data = data]
    OBVIOUS
  <2>2. /\ q \in ActiveRequests
        /\ q.pc = "done" /\ q.status = status /\ q.etag = etag /\ q.data = data
    BY <1>2, <2>1 DEF ActiveRequests, Steps
  <2>3. SameRequest(p, q)
    BY <1>2, <2>1, <2>2, AssignedIsSame
  <2>4. req' = [req EXCEPT ![r] = q]
    BY <1>1, <1>5, <2>1 DEF Answer
  <2>5. Effect(r, q)
    BY <1>3, <1>5, <2>2, <2>3 DEF Effect, SameRequest
  <2> QED BY <1>1, <2>3, <2>4, <2>5
<1>6. /\ {304, 400, 401, 404, 500} \subseteq Statuses \ {200} /\ 200 \in Statuses
      /\ NoEtag \in Nat /\ NoPayload \in Payloads \cup {NoPayload}
  BY DEF Statuses, NoEtag
<1>7. ASSUME NEW status \in Statuses \ {200}, Answer(r, status, NoEtag, NoPayload)
      PROVE  \E q : /\ req' = [req EXCEPT ![r] = q]
                    /\ SameRequest(req[r], q) /\ Effect(r, q)
  BY <1>5, <1>6, <1>7
<1>8. CASE Authenticate(r)
  <2>1. FirstStep(req[r]) \in {"etag", "data", "update"}
    BY <1>1, <1>2 DEF ActiveRequests, FirstStep
  <2> QED BY <1>4, <1>6, <1>7, <1>8, <2>1 DEF Authenticate
<1>9. CASE GetSyncDataETag(r)
  BY <1>4, <1>6, <1>7, <1>9 DEF GetSyncDataETag
<1>10. CASE GetSyncDataAndETag(r)
  <2> DEFINE row == rows[req[r].key]
  <2>1. row.etag \in Nat /\ row.data \in Payloads \cup {NoPayload}
    BY <1>1, <1>2 DEF ActiveRequests, Inv, StateOK, Contents
  <2>2. CASE row = NoRow
    BY <1>6, <1>7, <1>10, <2>2 DEF GetSyncDataAndETag
  <2>3. CASE row # NoRow
    <3>1. Answer(r, 200, row.etag, row.data)
      BY <1>10, <2>3 DEF GetSyncDataAndETag
    <3> QED BY <1>1, <1>5, <1>6, <2>1, <2>3, <3>1
  <2> QED BY <2>2, <2>3
<1>11. CASE QueryFails(r) \/ ReadBodyFails(r)
  BY <1>6, <1>7, <1>11 DEF QueryFails, ReadBodyFails
<1> QED BY <1>8, <1>9, <1>10, <1>11

(* A write statement, with or without effect.                              *)
LEMMA PutEffect ==
  ASSUME Inv, NEW r \in Requests,
         SetSyncDataIfMatch(r) \/ UpdateSyncData(r) \/ InsertSyncData(r)
  PROVE  \E q : /\ req' = [req EXCEPT ![r] = q]
                /\ SameRequest(req[r], q) /\ Effect(r, q)
<1>1. PICK p : p = req[r]
  OBVIOUS
<1>2. RequestShape(p) /\ p \in ActiveRequests
  <2>1. p.pc \in {"update", "insert"}
    BY <1>1 DEF SetSyncDataIfMatch, UpdateSyncData, InsertSyncData
  <2> QED BY <1>1, <2>1 DEF Inv, RequestsOK, RequestShape, Idle
<1>3. PICK e \in Nat : Drawn(r, e) /\ e = IF p.pc = "update" THEN NewEtag ELSE p.etagNew
  <2>1. p.pc = "update" => minted \in Nat /\ minted' = minted + 1
    BY <1>1 DEF SetSyncDataIfMatch, UpdateSyncData, InsertSyncData, DrawEtag, Inv, StateOK
  <2>2. p.pc # "update" => p.pc = "insert" /\ minted' = minted /\ p.etagNew \in Nat
    BY <1>1, <1>2 DEF SetSyncDataIfMatch, UpdateSyncData, InsertSyncData, ActiveRequests
  <2> QED BY <1>1, <2>1, <2>2 DEF Drawn, NewEtag
<1>4. ASSUME NEW err \in BOOLEAN, NEW etag \in Nat, AnswerPut(r, err, e, etag)
      PROVE  \E q : /\ req' = [req EXCEPT ![r] = q] /\ SameRequest(req[r], q)
                    /\ q.status = PutStatus(err, etag) /\ q.etag = etag
  <2>1. PICK q : q = [p EXCEPT !.pc = "done", !.status = PutStatus(err, etag),
                               !.etag = etag, !.etagNew = e]
    OBVIOUS
  <2>2. PutStatus(err, etag) \in Statuses
    BY DEF PutStatus, Statuses
  <2>3. /\ q \in ActiveRequests /\ q.pc = "done" /\ q.status = PutStatus(err, etag)
        /\ q.etag = etag /\ q.etagNew = e
    BY <1>2, <2>1, <2>2 DEF ActiveRequests, Steps
  <2>4. SameRequest(p, q)
    BY <1>2, <2>1, <2>3, AssignedIsSame
  <2>5. req' = [req EXCEPT ![r] = q]
    BY <1>1, <1>4, <2>1 DEF AnswerPut
  <2> QED BY <1>1, <2>3, <2>4, <2>5
<1>5. ASSUME NEW err \in BOOLEAN, WritesNothing(r, err, e)
      PROVE  \E q : /\ req' = [req EXCEPT ![r] = q]
                    /\ SameRequest(req[r], q) /\ Effect(r, q)
  <2>1. PICK q : /\ req' = [req EXCEPT ![r] = q] /\ SameRequest(req[r], q)
                 /\ q.status = PutStatus(err, NoEtag)
    BY <1>4, <1>5 DEF WritesNothing, NoEtag
  <2>2. q.status # 200
    BY <2>1 DEF PutStatus
  <2> QED BY <1>5, <2>1, <2>2 DEF WritesNothing, Effect
<1>6. ASSUME WritesRow(r, e)
      PROVE  \E q : /\ req' = [req EXCEPT ![r] = q]
                    /\ SameRequest(req[r], q) /\ Effect(r, q)
  <2>1. PICK err \in BOOLEAN, etag \in Nat :
          AnswerPut(r, err, e, etag) /\ (err \/ etag = e)
    BY <1>6 DEF WritesRow, Writes, NoEtag
  <2>2. PICK q : /\ req' = [req EXCEPT ![r] = q] /\ SameRequest(req[r], q)
                 /\ q.status = PutStatus(err, etag) /\ q.etag = etag
    BY <1>4, <2>1
  <2>3. q.status = 200 => q.etag = e
    BY <2>1, <2>2 DEF PutStatus
  <2>4. Effect(r, q)
    BY <1>6, <2>3 DEF Effect
  <2> QED BY <2>2, <2>4
<1>7. CASE SetSyncDataIfMatch(r)
  <2>1. req[r].pc = "update" /\ req[r].match # NoEtag /\ e = NewEtag
    BY <1>1, <1>3, <1>7 DEF SetSyncDataIfMatch
  <2>2. rows[req[r].key].etag = req[r].match => rows[req[r].key] # NoRow
    BY <2>1 DEF NoRow
  <2>3. \/ Writes(r, e) /\ rows[req[r].key] # NoRow
        \/ \E err \in BOOLEAN : WritesNothing(r, err, e)
    BY <1>7, <2>1, <2>2 DEF SetSyncDataIfMatch
  <2> QED BY <1>3, <1>5, <1>6, <2>1, <2>3 DEF WritesRow
<1>8. CASE UpdateSyncData(r)
  <2>1. req[r].pc = "update" /\ e = NewEtag
    BY <1>1, <1>3, <1>8 DEF UpdateSyncData
  <2>2. CASE rows[req[r].key] # NoRow /\ Writes(r, e)
    BY <1>3, <1>6, <2>1, <2>2 DEF WritesRow
  <2>3. CASE /\ req' = [req EXCEPT ![r] = [@ EXCEPT !.pc = "insert", !.etagNew = NewEtag]]
             /\ UNCHANGED <<rows, versions>>
    <3>1. PICK q : q = [p EXCEPT !.pc = "insert", !.etagNew = e]
      OBVIOUS
    <3>2. q \in ActiveRequests /\ q.pc = "insert" /\ q.etagNew = e
      BY <1>2, <3>1 DEF ActiveRequests, Steps
    <3>3. SameRequest(p, q)
      BY <1>2, <3>1, <3>2, AssignedIsSame
    <3>4. req' = [req EXCEPT ![r] = q]
      BY <1>1, <2>1, <2>3, <3>1
    <3> QED BY <1>1, <2>3, <3>2, <3>3, <3>4 DEF Effect
  <2>4. CASE WritesNothing(r, TRUE, e)
    BY <1>5, <2>4
  <2> QED BY <1>8, <2>1, <2>2, <2>3, <2>4 DEF UpdateSyncData
<1>9. CASE InsertSyncData(r)
  <2>1. req[r].pc = "insert" /\ e = req[r].etagNew
    BY <1>1, <1>3, <1>9 DEF InsertSyncData
  <2> QED BY <1>3, <1>5, <1>6, <1>9, <2>1 DEF InsertSyncData, WritesRow
<1> QED BY <1>7, <1>8, <1>9

(* Every step of a handler has its effect.                                 *)
LEMMA HandleEffect ==
  ASSUME Inv, NEW r \in Requests, Handle(r)
  PROVE  /\ req[r] # Idle /\ UNCHANGED <<api, copy>>
         /\ \E q : req' = [req EXCEPT ![r] = q] /\ SameRequest(req[r], q) /\ Effect(r, q)
<1>1. req[r].pc # "idle" /\ UNCHANGED <<api, copy>>
  BY DEF Handle, Authenticate, GetSyncDataETag, GetSyncDataAndETag, QueryFails,
         ReadBodyFails, SetSyncDataIfMatch, UpdateSyncData, InsertSyncData
<1>2. \E q : req' = [req EXCEPT ![r] = q] /\ SameRequest(req[r], q) /\ Effect(r, q)
  BY QuietEffect, PutEffect DEF Handle
<1>3. req[r] # Idle
  BY <1>1 DEF Idle
<1> QED BY <1>1, <1>2, <1>3

(* A handler's step keeps requests, rows and versions with their keys.     *)
LEMMA HandleKeepsKeys ==
  ASSUME Inv, KeysOK, NEW r \in Requests, Handle(r)
  PROVE  KeysOK'
<1> DEFINE k == req[r].key
           d == req[r].dev
<1>1. req[r] # Idle /\ UNCHANGED api /\ k \in RowKeys
  BY HandleEffect DEF Inv, RequestsOK, RequestShape, ActiveRequests
<1>2. PICK q : req' = [req EXCEPT ![r] = q] /\ SameRequest(req[r], q) /\ Effect(r, q)
  BY HandleEffect
<1>3. q.key = k /\ q.dev = d /\ q.via = req[r].via
  BY <1>2 DEF SameRequest
<1>4. req[r].via \in Vias /\ k = RowKey(d, req[r].via)
  BY <1>1 DEF KeysOK
<1>5. \A s \in Requests : req'[s] = IF s = r THEN q ELSE req[s]
  BY <1>2 DEF Inv, RequestsOK
<1>6. \A s \in Requests : req'[s] # Idle =>
        req'[s].via \in Vias /\ req'[s].key = RowKey(req'[s].dev, req'[s].via)
  BY <1>3, <1>4, <1>5 DEF KeysOK
<1>7. CASE /\ UNCHANGED <<rows, versions>>
           /\ q.pc = "done" /\ q.status = 200 =>
                rows[q.key] # NoRow /\ q.etag = rows[q.key].etag
  <2>1. q.pc = "done" /\ q.status = 200 =>
          \E v \in versions : v.etag = q.etag /\ v.key = q.key
    BY <1>1, <1>3, <1>7 DEF Inv, HoldersOK
  <2>2. \A s \in Requests : req'[s].pc = "done" /\ req'[s].status = 200 =>
          \E v \in versions : v.etag = req'[s].etag /\ v.key = req'[s].key
    BY <1>5, <2>1 DEF KeysOK
  <2>3. NoOrphanData => NoOrphanData'
    BY <1>1, <1>7 DEF NoOrphanData
  <2> QED BY <1>6, <1>7, <2>2, <2>3 DEF KeysOK
<1>8. ASSUME NEW e, WritesRow(r, e), q.status = 200 => q.etag = e
      PROVE  KeysOK'
  <2> DEFINE new == [etag |-> e, key |-> k, data |-> req[r].body, dev |-> d, base |-> req[r].match]
  <2>1. /\ versions' = versions \cup {new}
        /\ \A l \in RowKeys : l # k => rows'[l] = rows[l]
    BY <1>1, <1>8 DEF WritesRow, Writes, StoreVersion, Inv, StateOK
  <2>2. new.etag = e /\ new.key = k /\ new.dev = d
    OBVIOUS
  <2> HIDE DEF new
  <2>3. ForeignKeys => k \in Keys /\ api[k] = "live"
    BY <1>1, <1>8 DEF WritesRow, Insertable, KeysOK, NoOrphanData
  <2>4. \A s \in Requests : req'[s].pc = "done" /\ req'[s].status = 200 =>
          \E v \in versions' : v.etag = req'[s].etag /\ v.key = req'[s].key
    <3> SUFFICES ASSUME NEW s \in Requests, req'[s].pc = "done", req'[s].status = 200
                 PROVE  \E v \in versions' : v.etag = req'[s].etag /\ v.key = req'[s].key
      OBVIOUS
    <3>1. CASE s = r
      BY <1>3, <1>5, <1>8, <2>1, <2>2, <3>1
    <3>2. CASE s # r
      BY <1>5, <2>1, <3>2 DEF KeysOK
    <3> QED BY <3>1, <3>2
  <2>5. \A v \in versions' : \E via \in Vias : v.key = RowKey(v.dev, via)
    BY <1>4, <2>1, <2>2 DEF KeysOK
  <2>6. ForeignKeys => NoOrphanData' /\ \A v \in versions' : v.key \in Keys
    BY <1>1, <2>1, <2>2, <2>3 DEF KeysOK, NoOrphanData
  <2> QED BY <1>6, <2>4, <2>5, <2>6 DEF KeysOK
<1> QED BY <1>2, <1>7, <1>8 DEF Effect

(* So does every other step.                                               *)
LEMMA NextKeepsKeys == Inv /\ KeysOK /\ [Next]_vars => KeysOK'
<1> SUFFICES ASSUME Inv, KeysOK, [Next]_vars  PROVE KeysOK'
  OBVIOUS
<1>1. ASSUME NEW k \in Keys, StoreKey(k) \/ DeleteKey(k)  PROVE KeysOK'
  <2>1. /\ UNCHANGED <<versions, req>>
        /\ \A l \in Keys : l # k => api'[l] = api[l]
        /\ StoreKey(k) => api'[k] = "live" /\ rows' = rows
        /\ DeleteKey(k) /\ ForeignKeys =>
             \A l \in RowKeys : rows'[l] = IF l = k THEN NoRow ELSE rows[l]
    BY <1>1 DEF StoreKey, DeleteKey, Inv, StateOK, RowKeys
  <2>2. ForeignKeys /\ NoOrphanData => NoOrphanData'
    BY <1>1, <2>1 DEF NoOrphanData
  <2> QED BY <2>1, <2>2 DEF KeysOK
<1>2. ASSUME NEW r \in Requests, NEW d \in Devices, SendGet(r, d) \/ SendPut(r, d)
      PROVE  KeysOK'
  <2>1. PICK op \in {"get", "put"}, via \in Vias, match \in Nat, body \in Payloads \cup {NoPayload} :
          Send(r, d, op, via, match, body)
    BY <1>2 DEF SendGet, SendPut, Inv, StateOK, Contents, NoEtag
  <2>2. PICK q : /\ q.via = via /\ q.key = RowKey(d, via) /\ q.dev = d /\ q.pc = "auth"
                 /\ req' = [req EXCEPT ![r] = q]
    BY <2>1 DEF Send
  <2>3. \A s \in Requests : req'[s] = IF s = r THEN q ELSE req[s]
    BY <2>2 DEF Inv, RequestsOK
  <2>4. UNCHANGED <<api, rows, versions>>
    BY <2>1 DEF Send
  <2> QED BY <2>2, <2>3, <2>4 DEF KeysOK, NoOrphanData
<1>3. ASSUME NEW r \in Requests, Handle(r)  PROVE KeysOK'
  BY <1>3, HandleKeepsKeys
<1>4. ASSUME NEW r \in Requests, Deliver(r)  PROVE KeysOK'
  <2>1. \A s \in Requests : req'[s] = IF s = r THEN Idle ELSE req[s]
    BY <1>4 DEF Deliver, Inv, RequestsOK
  <2>2. UNCHANGED <<api, rows, versions>> /\ Idle.pc # "done"
    BY <1>4 DEF Deliver, Idle
  <2> QED BY <2>1, <2>2 DEF KeysOK, NoOrphanData
<1>5. ASSUME NEW r \in Requests, GiveUp(r)  PROVE KeysOK'
  <2>1. req[r] # Idle
    BY <1>5 DEF GiveUp, Idle
  <2>2. PICK q : q = [req[r] EXCEPT !.waiting = FALSE]
    OBVIOUS
  <2>3. /\ q.pc = req[r].pc /\ q.status = req[r].status /\ q.etag = req[r].etag
        /\ q.key = req[r].key /\ q.via = req[r].via /\ q.dev = req[r].dev
    BY <2>1, <2>2 DEF Inv, RequestsOK, RequestShape, ActiveRequests
  <2>4. \A s \in Requests : req'[s] = IF s = r THEN q ELSE req[s]
    BY <1>5, <2>2 DEF GiveUp, Inv, RequestsOK
  <2>5. UNCHANGED <<api, rows, versions>>
    BY <1>5 DEF GiveUp
  <2> QED BY <2>1, <2>3, <2>4, <2>5 DEF KeysOK, NoOrphanData
<1>6. CASE Restart
  BY <1>6 DEF Restart, KeysOK, NoOrphanData, Idle
<1>7. CASE UNCHANGED vars
  BY <1>7 DEF vars, KeysOK, NoOrphanData
<1> QED  BY <1>1, <1>2, <1>3, <1>4, <1>5, <1>6, <1>7 DEF Next

(* Requests, answers, rows and versions stay with their keys.              *)
THEOREM KeysInvariance == Spec => []KeysOK
<1>1. Init => KeysOK
  BY DEF Init, KeysOK, NoOrphanData, Idle
<1> QED  BY <1>1, NextKeepsKeys, Invariance, PTL DEF Spec

(* Where the database enforces foreign keys, a row's key is live, even     *)
(* when it is deleted between a request's authentication and its write.    *)
THEOREM DataGoesWithItsKey ==
  ASSUME ForeignKeys  PROVE Spec => []NoOrphanData
<1>1. KeysOK => NoOrphanData
  BY DEF KeysOK
<1> QED  BY <1>1, KeysInvariance, PTL

(* A device is answered with data of its own key alone, if the database    *)
(* enforces foreign keys, which leaves no row for requests without a       *)
(* header, or if there are no such requests.                               *)
THEOREM KeysStaySeparate ==
  ASSUME ForeignKeys \/ Vias = {"header"}  PROVE Spec => []KeysAreSeparate
<1>1. Inv /\ KeysOK => KeysAreSeparate
  <2> SUFFICES ASSUME Inv, KeysOK, NEW r \in Requests, req[r].pc = "done", req[r].status = 200
               PROVE  \E v \in versions :
                        v.etag = req[r].etag /\ KeyOf[v.dev] = KeyOf[req[r].dev]
    BY DEF KeysAreSeparate
  <2>1. PICK v \in versions : v.etag = req[r].etag /\ v.key = req[r].key
    BY DEF KeysOK
  <2>2. req[r] # Idle
    BY DEF Idle
  <2>3. PICK via \in Vias : v.key = RowKey(v.dev, via)
    BY DEF KeysOK
  <2>4. req[r].via \in Vias /\ req[r].key = RowKey(req[r].dev, req[r].via)
    BY <2>2 DEF KeysOK
  <2>5. v.key = KeyOf[v.dev] /\ req[r].key = KeyOf[req[r].dev]
    <3>1. CASE Vias = {"header"}
      BY <2>3, <2>4, <3>1 DEF RowKey
    <3>2. CASE ForeignKeys
      <4>1. v.key # EmptyKey
        BY <3>2, ConstantsAssumption DEF KeysOK
      <4> QED BY <2>1, <2>3, <2>4, <4>1 DEF RowKey
    <3> QED BY <3>1, <3>2
  <2>6. v.etag = req[r].etag /\ KeyOf[v.dev] = KeyOf[req[r].dev]
    BY <2>1, <2>5
  <2> QED BY <2>6
<1> QED  BY <1>1, Invariance, KeysInvariance, PTL

-----------------------------------------------------------------------------
(* Order.  The requests of a device all name the same row.                 *)
OneRowEach == Vias = {"header"} \/ "header" \notin Vias

(* That row is its home, and the versions written for it are there.        *)
LEMMA HomeIs ==
  ASSUME OneRowEach, KeysOK
  PROVE  /\ \A r \in Requests : req[r] # Idle => req[r].key = Home(req[r].dev)
         /\ \A v \in versions : v.key = Home(v.dev)
BY DEF OneRowEach, KeysOK, Home, RowKey

(* A handler's step: what is read or written is not older than what the    *)
(* device holds, and what is written is the latest of its row.             *)
LEMMA HandleKeepsOrder ==
  ASSUME OneRowEach, Inv, KeysOK, OrderOK, NEW r \in Requests, Handle(r)
  PROVE  OrderOK'
<1> DEFINE k == req[r].key
           d == req[r].dev
<1>1. req[r] # Idle /\ UNCHANGED <<api, copy>> /\ k \in RowKeys /\ d \in Devices
  BY HandleEffect DEF Inv, RequestsOK, RequestShape, ActiveRequests
<1>2. PICK q : req' = [req EXCEPT ![r] = q] /\ SameRequest(req[r], q) /\ Effect(r, q)
  BY HandleEffect
<1>3. q.key = k /\ q.dev = d /\ q.waiting = req[r].waiting
  BY <1>2 DEF SameRequest
<1>4. \A s \in Requests : req'[s] = IF s = r THEN q ELSE req[s]
  BY <1>2 DEF Inv, RequestsOK
<1>5. \A s, t \in Requests :
        s # t /\ req'[s].waiting /\ req'[t].waiting => req'[s].dev # req'[t].dev
  BY <1>3, <1>4 DEF OrderOK
<1>6. k = Home(d)
  BY <1>1, HomeIs
<1>7. /\ \A l \in RowKeys : rows[l].etag \in Nat
      /\ \A v \in versions : v.etag \in Nat \ {0} /\ v.key \in RowKeys /\ v.etag <= minted
      /\ minted \in Nat /\ copy[d].etag \in Nat
  BY <1>1 DEF Inv, StateOK, HistoryOK, Contents, Versions, NoEtag
<1>8. ForeignKeys /\ rows[k] # NoRow => k \in Keys /\ api[k] = "live"
  BY <1>1 DEF KeysOK, NoOrphanData
<1>9. ASSUME copy[d] # NoRow
      PROVE  \E v \in versions : v.etag = copy[d].etag /\ v.key = k
  BY <1>1, <1>6, <1>9 DEF OrderOK
<1>10. CASE /\ UNCHANGED <<rows, versions>>
            /\ q.pc = "done" /\ q.status = 200 =>
                 rows[q.key] # NoRow /\ q.etag = rows[q.key].etag
  <2>1. ASSUME q.pc = "done", q.status = 200  PROVE copy[d].etag <= q.etag
    <3>1. rows[k] # NoRow /\ q.etag = rows[k].etag
      BY <1>3, <1>10, <2>1
    <3>2. CASE copy[d] = NoRow
      BY <1>1, <1>7, <3>1, <3>2 DEF NoRow, NoEtag
    <3>3. CASE copy[d] # NoRow
      <4>1. PICK v \in versions : v.etag = copy[d].etag /\ v.key = k
        BY <1>9, <3>3
      <4>2. ~(ForeignKeys /\ k \in Keys /\ api[k] = "deleted")
        BY <1>8, <3>1
      <4> QED BY <3>1, <4>1, <4>2 DEF OrderOK
    <3> QED BY <3>2, <3>3
  <2>2. \A s \in Requests :
          req'[s].pc = "done" /\ req'[s].waiting /\ req'[s].status = 200 =>
            copy'[req'[s].dev].etag <= req'[s].etag
    BY <1>1, <1>3, <1>4, <2>1 DEF OrderOK
  <2> QED BY <1>1, <1>5, <1>10, <2>2 DEF OrderOK
<1>11. ASSUME NEW e, WritesRow(r, e), q.status = 200 => q.etag = e
       PROVE  OrderOK'
  <2> DEFINE new == [etag |-> e, key |-> k, data |-> req[r].body, dev |-> d, base |-> req[r].match]
  <2>1. /\ versions' = versions \cup {new}
        /\ \A l \in RowKeys : l # k => rows'[l] = rows[l]
        /\ rows'[k].etag = e
    BY <1>1, <1>11 DEF WritesRow, Writes, StoreVersion, Inv, StateOK
  <2>2. new.etag = e /\ new.key = k
    OBVIOUS
  <2> HIDE DEF new
  <2>3. e \in Nat
    BY <1>11, DrawnIsFresh DEF WritesRow
  <2>4. ASSUME NEW v \in versions, v.key = k  PROVE v.etag <= e
    <3>1. CASE req[r].pc = "update"
      <4>1. e = minted + 1
        BY <1>11, <3>1 DEF WritesRow, Drawn
      <4> QED BY <1>7, <4>1
    <3>2. CASE req[r].pc = "insert"
      <4>1. rows[k] = NoRow /\ ~(ForeignKeys /\ k \in Keys /\ api[k] = "deleted")
        BY <1>11, <3>2 DEF WritesRow, Insertable
      <4>2. v.etag <= rows[k].etag
        BY <2>4, <4>1 DEF OrderOK
      <4> QED BY <1>7, <4>1, <4>2 DEF NoRow, NoEtag
    <3> QED BY <1>11, <3>1, <3>2 DEF WritesRow
  <2>5. copy[d].etag <= e
    <3>1. CASE copy[d] = NoRow
      BY <1>1, <2>3, <3>1 DEF NoRow, NoEtag
    <3>2. CASE copy[d] # NoRow
      BY <1>9, <2>4, <3>2
    <3> QED BY <3>1, <3>2
  <2>6. \A v \in versions' :
          \/ v.etag <= rows'[v.key].etag
          \/ ForeignKeys /\ v.key \in Keys /\ api'[v.key] = "deleted"
    <3> SUFFICES ASSUME NEW v \in versions'
                 PROVE  \/ v.etag <= rows'[v.key].etag
                        \/ ForeignKeys /\ v.key \in Keys /\ api[v.key] = "deleted"
      BY <1>1
    <3>1. CASE v = new
      BY <2>1, <2>2, <2>3, <3>1
    <3>2. CASE v \in versions /\ v.key = k
      BY <2>1, <2>4, <3>2
    <3>3. CASE v \in versions /\ v.key # k
      BY <1>7, <2>1, <3>3 DEF OrderOK
    <3> QED BY <2>1, <3>1, <3>2, <3>3
  <2>7. \A c \in Devices :
          copy'[c] = NoRow \/ \E v \in versions' : v.etag = copy'[c].etag /\ v.key = Home(c)
    BY <1>1, <2>1 DEF OrderOK
  <2>8. \A s \in Requests :
          req'[s].pc = "done" /\ req'[s].waiting /\ req'[s].status = 200 =>
            copy'[req'[s].dev].etag <= req'[s].etag
    BY <1>1, <1>3, <1>4, <1>11, <2>5 DEF OrderOK
  <2> QED BY <1>5, <2>6, <2>7, <2>8 DEF OrderOK
<1> QED BY <1>2, <1>10, <1>11 DEF Effect

(* A device that takes an answer takes one of its row, and not an older    *)
(* one; nobody else that waits is of that device.                          *)
LEMMA DeliverKeepsOrder ==
  ASSUME OneRowEach, Inv, KeysOK, OrderOK, NEW r \in Requests, Deliver(r)
  PROVE  OrderOK' /\ \A d \in Devices : copy'[d].etag >= copy[d].etag
<1> DEFINE d == req[r].dev
<1>1. /\ req[r] # Idle /\ req[r].pc = "done" /\ d \in Devices
      /\ copy \in [Devices -> Contents]
      /\ \A c \in Devices : copy[c].etag \in Nat
  BY DEF Deliver, Idle, Inv, RequestsOK, RequestShape, ActiveRequests, StateOK, Contents
<1>2. UNCHANGED <<api, rows, minted, versions>> /\ copy' = Learn(req[r])
  BY DEF Deliver
<1>3. \A s \in Requests : req'[s] = IF s = r THEN Idle ELSE req[s]
  BY DEF Deliver, Inv, RequestsOK
<1>4. Idle.pc = "idle" /\ Idle.waiting = FALSE
  BY DEF Idle
<1>5. \A v \in versions' :
        \/ v.etag <= rows'[v.key].etag
        \/ ForeignKeys /\ v.key \in Keys /\ api'[v.key] = "deleted"
  BY <1>2 DEF OrderOK
<1>6. \A s, t \in Requests :
        s # t /\ req'[s].waiting /\ req'[t].waiting => req'[s].dev # req'[t].dev
  BY <1>3, <1>4 DEF OrderOK
<1>7. CASE req[r].waiting /\ req[r].status = 200
  <2> DEFINE c == [etag |-> req[r].etag,
                   data |-> IF req[r].op = "put" THEN req[r].body ELSE req[r].data]
  <2>1. \A x \in Devices : copy'[x] = IF x = d THEN c ELSE copy[x]
    BY <1>1, <1>2, <1>7 DEF Learn
  <2>2. c.etag = req[r].etag /\ copy[d].etag <= req[r].etag
    BY <1>1, <1>7 DEF OrderOK
  <2>3. \E v \in versions : v.etag = c.etag /\ v.key = Home(d)
    BY <1>1, <1>7, <2>2, HomeIs DEF KeysOK
  <2>4. req[r].etag \in Nat
    BY <1>1 DEF Inv, RequestsOK, RequestShape, ActiveRequests
  <2> HIDE DEF c
  <2>5. \A x \in Devices : copy'[x].etag >= copy[x].etag
    BY <1>1, <2>1, <2>2, <2>4
  <2>6. \A x \in Devices :
          copy'[x] = NoRow \/ \E v \in versions' : v.etag = copy'[x].etag /\ v.key = Home(x)
    BY <1>2, <2>1, <2>3 DEF OrderOK
  <2>7. ASSUME NEW s \in Requests,
               req'[s].pc = "done", req'[s].waiting, req'[s].status = 200
        PROVE  copy'[req'[s].dev].etag <= req'[s].etag
    <3>1. s # r /\ req'[s] = req[s]
      BY <1>3, <1>4, <2>7
    <3>2. req[s].dev # d /\ copy[req[s].dev].etag <= req[s].etag
      BY <1>7, <2>7, <3>1 DEF OrderOK
    <3>3. req[s].dev \in Devices
      BY <2>7, <3>1 DEF Idle, Inv, RequestsOK, RequestShape, ActiveRequests
    <3> QED BY <2>1, <3>1, <3>2, <3>3
  <2> QED BY <1>5, <1>6, <2>5, <2>6, <2>7 DEF OrderOK
<1>8. CASE ~(req[r].waiting /\ req[r].status = 200)
  <2>1. copy' = copy
    BY <1>2, <1>8 DEF Learn
  <2>2. \A s \in Requests :
          req'[s].pc = "done" /\ req'[s].waiting /\ req'[s].status = 200 =>
            copy'[req'[s].dev].etag <= req'[s].etag
    BY <1>3, <1>4, <2>1 DEF OrderOK
  <2> QED BY <1>1, <1>2, <1>5, <1>6, <2>1, <2>2 DEF OrderOK
<1> QED BY <1>7, <1>8

(* Every step keeps the order, and takes no device back.                   *)
LEMMA NextKeepsOrder ==
  ASSUME OneRowEach, Inv, KeysOK, OrderOK, [Next]_vars
  PROVE  OrderOK' /\ \A d \in Devices : copy'[d].etag >= copy[d].etag
<1> DEFINE Forward == \A d \in Devices : copy'[d].etag >= copy[d].etag
<1>1. ASSUME UNCHANGED copy  PROVE Forward
  BY <1>1 DEF Inv, StateOK, Contents
<1> HIDE DEF Forward
<1>2. ASSUME NEW k \in Keys, StoreKey(k) \/ DeleteKey(k)  PROVE OrderOK' /\ Forward
  <2>1. /\ UNCHANGED <<versions, req, copy>>
        /\ \A l \in Keys : l # k => api'[l] = api[l]
        /\ \A l \in RowKeys : l # k => rows'[l] = rows[l]
        /\ StoreKey(k) => rows' = rows /\ api[k] = "unminted"
        /\ DeleteKey(k) => api'[k] = "deleted" /\ (~ForeignKeys => rows' = rows)
    BY <1>2 DEF StoreKey, DeleteKey, Inv, StateOK, RowKeys
  <2>2. ASSUME NEW v \in versions
        PROVE  \/ v.etag <= rows'[v.key].etag
               \/ ForeignKeys /\ v.key \in Keys /\ api'[v.key] = "deleted"
    <3>1. v.key \in RowKeys
      BY DEF Inv, StateOK, Versions
    <3>2. CASE v.key # k
      BY <2>1, <3>1, <3>2 DEF OrderOK
    <3>3. CASE v.key = k
      BY <1>2, <2>1, <3>3 DEF OrderOK
    <3> QED BY <3>2, <3>3
  <2>3. OrderOK'
    BY <2>1, <2>2 DEF OrderOK
  <2> QED BY <1>1, <2>1, <2>3
<1>3. ASSUME NEW r \in Requests, NEW d \in Devices, SendGet(r, d) \/ SendPut(r, d)
      PROVE  OrderOK' /\ Forward
  <2>1. PICK op, via, match, body : Send(r, d, op, via, match, body)
    BY <1>3 DEF SendGet, SendPut
  <2>2. PICK q : /\ q.dev = d /\ q.pc = "auth" /\ q.waiting = TRUE
                 /\ req' = [req EXCEPT ![r] = q]
    BY <2>1 DEF Send
  <2>3. \A s \in Requests : req'[s] = IF s = r THEN q ELSE req[s]
    BY <2>2 DEF Inv, RequestsOK
  <2>4. UNCHANGED <<api, rows, versions, copy>> /\ ~Awaits(d)
    BY <2>1 DEF Send
  <2>5. \A s, t \in Requests :
          s # t /\ req'[s].waiting /\ req'[t].waiting => req'[s].dev # req'[t].dev
    BY <2>2, <2>3, <2>4 DEF OrderOK, Awaits
  <2>6. \A s \in Requests :
          req'[s].pc = "done" /\ req'[s].waiting /\ req'[s].status = 200 =>
            copy'[req'[s].dev].etag <= req'[s].etag
    BY <2>2, <2>3, <2>4 DEF OrderOK
  <2>7. OrderOK'
    BY <2>4, <2>5, <2>6 DEF OrderOK
  <2> QED BY <1>1, <2>4, <2>7
<1>4. ASSUME NEW r \in Requests, Handle(r)  PROVE OrderOK' /\ Forward
  BY <1>1, <1>4, HandleEffect, HandleKeepsOrder
<1>5. ASSUME NEW r \in Requests, Deliver(r)  PROVE OrderOK' /\ Forward
  BY <1>5, DeliverKeepsOrder DEF Forward
<1>6. ASSUME NEW r \in Requests, GiveUp(r)  PROVE OrderOK' /\ Forward
  <2>1. PICK q : q = [req[r] EXCEPT !.waiting = FALSE]
    OBVIOUS
  <2>2. q.waiting = FALSE
    <3>1. req[r] \in ActiveRequests
      BY <1>6 DEF GiveUp, Idle, Inv, RequestsOK, RequestShape
    <3> QED BY <2>1, <3>1 DEF ActiveRequests
  <2>3. \A s \in Requests : req'[s] = IF s = r THEN q ELSE req[s]
    BY <1>6, <2>1 DEF GiveUp, Inv, RequestsOK
  <2>4. UNCHANGED <<api, rows, versions, copy>>
    BY <1>6 DEF GiveUp
  <2>5. OrderOK'
    BY <2>2, <2>3, <2>4 DEF OrderOK
  <2> QED BY <1>1, <2>4, <2>5
<1>7. CASE Restart
  <2>1. OrderOK'
    BY <1>7 DEF Restart, OrderOK, Idle
  <2>2. copy' = copy
    BY <1>7 DEF Restart
  <2> QED BY <1>1, <2>1, <2>2 DEF Forward
<1>8. CASE UNCHANGED vars
  <2>1. OrderOK'
    BY <1>8 DEF vars, OrderOK
  <2>2. copy' = copy
    BY <1>8 DEF vars
  <2> QED BY <1>1, <2>1, <2>2 DEF Forward
<1> QED  BY <1>2, <1>3, <1>4, <1>5, <1>6, <1>7, <1>8 DEF Next, Forward

(* No answer takes a device back to an older version of its row, where its *)
(* requests all name the same row.                                         *)
THEOREM DevicesMoveForward ==
  ASSUME OneRowEach  PROVE Spec => CopiesMoveForward
<1> DEFINE Forward == \A d \in Devices : copy'[d].etag >= copy[d].etag
<1>1. Init => OrderOK
  BY DEF Init, OrderOK, NoRow, Idle
<1>2. Inv /\ KeysOK /\ OrderOK /\ [Next]_vars => OrderOK' /\ [Forward]_vars
  BY NextKeepsOrder
<1> QED  BY <1>1, <1>2, Invariance, KeysInvariance, PTL DEF Spec, CopiesMoveForward
=============================================================================

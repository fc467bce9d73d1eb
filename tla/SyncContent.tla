----------------------------- MODULE SyncContent -----------------------------
(***************************************************************************)
(* GET and PUT /api/sync/content: the authentication middleware, the two   *)
(* handlers, the SQL statements they run one by one, and the API keys that *)
(* come and go meanwhile.  Handlers of concurrent requests interleave      *)
(* between statements; a statement is atomic.  A device keeps the last     *)
(* version it was answered with, may stop waiting while its handler runs   *)
(* on, and may ask again.                                                  *)
(***************************************************************************)
EXTENDS Naturals, FiniteSets

CONSTANTS
  Devices,      \* clients
  Keys,         \* API keys that can be minted
  KeyOf,        \* the API key each device is configured with
  EmptyKey,     \* the value of a missing X-API-Token header
  Requests,     \* identities of concurrently running handlers
  Payloads,     \* sync data, opaque to the server
  NoPayload,    \* no sync data
  Vias,         \* where a request carries its credential
  ForeignKeys,  \* TRUE: the database enforces foreign keys (Postgres)
  MaxPuts       \* bound: etags minted in a behaviour

ASSUME ConstantsAssumption ==
  /\ KeyOf \in [Devices -> Keys]
  /\ EmptyKey \notin Keys
  /\ NoPayload \notin Payloads
  /\ Vias \subseteq {"header", "query", "session"}
  /\ ForeignKeys \in BOOLEAN
  /\ MaxPuts \in Nat

VARIABLES
  api,       \* api[k]: "unminted", "live" (a row of api_key) or "deleted"
  rows,      \* rows[k]: the sync_data row whose user_api_key is k
  minted,    \* number of etags minted so far; etags are 1..minted
  versions,  \* history: every version a row has held
  req,       \* req[r]: the running request, or Idle
  copy       \* copy[d]: the version the device was last answered with

vars == <<api, rows, minted, versions, req, copy>>

RowKeys == Keys \cup {EmptyKey}

NoEtag == 0

NoRow == [etag |-> NoEtag, data |-> NoPayload]

Steps == {"auth", "etag", "data", "update", "insert", "done"}

Statuses == {0, 200, 304, 400, 401, 404, 412, 500}

Idle == [pc |-> "idle", waiting |-> FALSE]

ActiveRequests ==
  [ pc : Steps, waiting : BOOLEAN, dev : Devices, op : {"get", "put"},
    via : {"header", "query", "session"}, key : RowKeys,
    match : Nat, body : Payloads \cup {NoPayload}, etagNew : Nat,
    status : Statuses, etag : Nat, data : Payloads \cup {NoPayload} ]

Versions ==
  [etag : Nat \ {NoEtag}, key : RowKeys, data : Payloads, dev : Devices, base : Nat]

Contents == [etag : Nat, data : Payloads \cup {NoPayload}]

Init ==
  /\ api = [k \in Keys |-> "unminted"]
  /\ rows = [k \in RowKeys |-> NoRow]
  /\ minted = 0
  /\ versions = {}
  /\ req = [r \in Requests |-> Idle]
  /\ copy = [d \in Devices |-> NoRow]

-----------------------------------------------------------------------------
(* API keys                                                                *)

StoreKey(k) ==
  /\ api[k] = "unminted"
  /\ api' = [api EXCEPT ![k] = "live"]
  /\ UNCHANGED <<rows, minted, versions, req, copy>>

(* Deletes the api_key row alone.                                          *)
DeleteKeyNoCascade(k) ==
  /\ api[k] = "live"
  /\ api' = [api EXCEPT ![k] = "deleted"]
  /\ UNCHANGED <<rows, minted, versions, req, copy>>

(* ON DELETE CASCADE takes the sync_data row along, where it is enforced.  *)
DeleteKey(k) ==
  /\ api[k] = "live"
  /\ api' = [api EXCEPT ![k] = "deleted"]
  /\ rows' = IF ForeignKeys THEN [rows EXCEPT ![k] = NoRow] ELSE rows
  /\ UNCHANGED <<minted, versions, req, copy>>

-----------------------------------------------------------------------------
(* A request is sent                                                       *)

RowKeyOfServer(d, via) == CHOOSE k \in Keys : TRUE

(* The handlers read the key from the header alone, however the middleware *)
(* accepted the request.                                                   *)
RowKey(d, via) == IF via = "header" THEN KeyOf[d] ELSE EmptyKey

PendingMints ==
  {r \in Requests : req[r].pc \in {"auth", "update"} /\ req[r].op = "put"}

Awaits(d) == \E r \in Requests : req[r].waiting /\ req[r].dev = d

Send(r, d, op, via, match, body) ==
  /\ req[r] = Idle
  /\ ~Awaits(d)
  /\ api[KeyOf[d]] # "unminted"
  /\ req' = [req EXCEPT ![r] =
               [ pc |-> "auth", waiting |-> TRUE, dev |-> d, op |-> op,
                 via |-> via, key |-> RowKey(d, via), match |-> match,
                 body |-> body, etagNew |-> NoEtag,
                 status |-> 0, etag |-> NoEtag, data |-> NoPayload ]]
  /\ UNCHANGED <<api, rows, minted, versions, copy>>

(* If-None-Match and If-Match are left out or name the held version.       *)
SendGet(r, d) ==
  \E via \in Vias, match \in {NoEtag, copy[d].etag} :
    Send(r, d, "get", via, match, NoPayload)

SendPut(r, d) ==
  /\ minted + Cardinality(PendingMints) < MaxPuts
  /\ \E via \in Vias, match \in {NoEtag, copy[d].etag}, body \in Payloads :
       Send(r, d, "put", via, match, body)

-----------------------------------------------------------------------------
(* The handler                                                             *)

Goto(r, pc) == req' = [req EXCEPT ![r] = [@ EXCEPT !.pc = pc]]

Answer(r, status, etag, data) ==
  req' = [req EXCEPT ![r] =
            [@ EXCEPT !.pc = "done", !.status = status, !.etag = etag, !.data = data]]

FirstStep(q) ==
  CASE q.op = "put"                       -> "update"
    [] q.op = "get" /\ q.match = NoEtag   -> "data"
    [] q.op = "get" /\ q.match # NoEtag   -> "etag"

(* IsAuthenticated.  A key is looked up in the table each time, and a      *)
(* failing lookup refuses it; a session is authenticated by its cookie,    *)
(* and refused if the cookie does not say so.                              *)
Authenticate(r) ==
  /\ req[r].pc = "auth"
  /\ \/ /\ req[r].via = "session" \/ api[KeyOf[req[r].dev]] = "live"
        /\ Goto(r, FirstStep(req[r]))
     \/ Answer(r, 401, NoEtag, NoPayload)
  /\ UNCHANGED <<api, rows, minted, versions, copy>>

(* The etag query with a missing row taken for an unchanged one.           *)
GetSyncDataETagNilMatches(r) ==
  /\ req[r].pc = "etag"
  /\ IF rows[req[r].key].etag \in {NoEtag, req[r].match}
       THEN Answer(r, 304, NoEtag, NoPayload)
       ELSE Goto(r, "data")
  /\ UNCHANGED <<api, rows, minted, versions, copy>>

GetSyncDataETag(r) ==
  /\ req[r].pc = "etag"
  /\ IF rows[req[r].key].etag = req[r].match
       THEN Answer(r, 304, NoEtag, NoPayload)
       ELSE Goto(r, "data")
  /\ UNCHANGED <<api, rows, minted, versions, copy>>

GetSyncDataAndETag(r) ==
  /\ req[r].pc = "data"
  /\ LET row == rows[req[r].key] IN
       IF row = NoRow THEN Answer(r, 404, NoEtag, NoPayload)
                      ELSE Answer(r, 200, row.etag, row.data)
  /\ UNCHANGED <<api, rows, minted, versions, copy>>

QueryFails(r) ==
  /\ req[r].pc \in {"etag", "data"}
  /\ Answer(r, 500, NoEtag, NoPayload)
  /\ UNCHANGED <<api, rows, minted, versions, copy>>

(* The request body cannot be read to its end.                             *)
ReadBodyFails(r) ==
  /\ req[r].pc = "update"
  /\ Answer(r, 400, NoEtag, NoPayload)
  /\ UNCHANGED <<api, rows, minted, versions, copy>>

PutStatusLastHeader(err, newEtag) == IF newEtag = NoEtag THEN 412 ELSE 200

(* putContent writes 500 on an error and does not return: a nil etag then  *)
(* writes 412 as well, and the first status written is the one sent.       *)
PutStatus(err, newEtag) ==
  CASE err                      -> 500
    [] ~err /\ newEtag = NoEtag -> 412
    [] ~err /\ newEtag # NoEtag -> 200

AnswerPut(r, err, drawn, newEtag) ==
  req' = [req EXCEPT ![r] =
            [@ EXCEPT !.pc = "done", !.status = PutStatus(err, newEtag),
                      !.etag = newEtag, !.etagNew = drawn]]

StoreVersion(r, e) ==
  /\ rows' = [rows EXCEPT ![req[r].key] = [etag |-> e, data |-> req[r].body]]
  /\ versions' = versions \cup
       {[etag |-> e, key |-> req[r].key, data |-> req[r].body,
         dev |-> req[r].dev, base |-> req[r].match]}

(* A write statement that changes the row either reports so or fails; a    *)
(* failure may be reported after the commit (the connection broke, the     *)
(* request's context was cancelled).                                       *)
Writes(r, e) ==
  /\ StoreVersion(r, e)
  /\ \/ AnswerPut(r, FALSE, e, e)
     \/ AnswerPut(r, TRUE, e, NoEtag)

WritesNothing(r, err, e) ==
  /\ AnswerPut(r, err, e, NoEtag)
  /\ UNCHANGED <<rows, versions>>

(* Etags drawn from a space too small for them to stay unique.             *)
NewEtagRepeating == (minted % 2) + 1

(* The etag variable left empty.                                           *)
NewEtagEmpty == NoEtag

(* uuid.NewString(): fresh whenever it is drawn; here, the next number.    *)
NewEtag == minted + 1

DrawEtag == minted' = minted + 1

(* The conditional write without its condition on data_etag.               *)
SetSyncDataIfMatchAnyEtag(r) ==
  /\ req[r].pc = "update" /\ req[r].match # NoEtag
  /\ DrawEtag
  /\ \/ rows[req[r].key] # NoRow /\ Writes(r, NewEtag)
     \/ rows[req[r].key] = NoRow /\ WritesNothing(r, FALSE, NewEtag)
     \/ WritesNothing(r, TRUE, NewEtag)
  /\ UNCHANGED <<api, copy>>

(* The conditional write leaving data_etag out of the columns it sets.     *)
SetSyncDataIfMatchKeepEtag(r) ==
  /\ req[r].pc = "update" /\ req[r].match # NoEtag
  /\ DrawEtag
  /\ \/ /\ rows[req[r].key].etag = req[r].match
        /\ rows' = [rows EXCEPT ![req[r].key].data = req[r].body]
        /\ UNCHANGED versions
        /\ AnswerPut(r, FALSE, NewEtag, NewEtag)
     \/ rows[req[r].key].etag # req[r].match /\ WritesNothing(r, FALSE, NewEtag)
     \/ WritesNothing(r, TRUE, NewEtag)
  /\ UNCHANGED <<api, copy>>

(* If-Match is given: one UPDATE conditional on the etag.                  *)
SetSyncDataIfMatch(r) ==
  /\ req[r].pc = "update" /\ req[r].match # NoEtag
  /\ DrawEtag
  /\ \/ rows[req[r].key].etag = req[r].match /\ Writes(r, NewEtag)
     \/ rows[req[r].key].etag # req[r].match /\ WritesNothing(r, FALSE, NewEtag)
     \/ WritesNothing(r, TRUE, NewEtag)
  /\ UNCHANGED <<api, copy>>

(* No If-Match: an UPDATE; when it finds no row, an INSERT of its own.     *)
UpdateSyncData(r) ==
  /\ req[r].pc = "update" /\ req[r].match = NoEtag
  /\ DrawEtag
  /\ \/ rows[req[r].key] # NoRow /\ Writes(r, NewEtag)
     \/ /\ rows[req[r].key] = NoRow
        /\ req' = [req EXCEPT ![r] =
                     [@ EXCEPT !.pc = "insert", !.etagNew = NewEtag]]
        /\ UNCHANGED <<rows, versions>>
     \/ WritesNothing(r, TRUE, NewEtag)
  /\ UNCHANGED <<api, copy>>

(* The constraints of sync_data: user_api_key is UNIQUE and, where it is   *)
(* enforced, references a row of api_key.                                  *)
Insertable(k) ==
  /\ rows[k] = NoRow
  /\ ForeignKeys => k \in Keys /\ api[k] = "live"

(* INSERT OR REPLACE.                                                      *)
InsertSyncDataOrReplace(r) ==
  /\ req[r].pc = "insert"
  /\ Writes(r, req[r].etagNew) \/ WritesNothing(r, TRUE, req[r].etagNew)
  /\ UNCHANGED <<api, minted, copy>>

InsertSyncData(r) ==
  /\ req[r].pc = "insert"
  /\ \/ Insertable(req[r].key) /\ Writes(r, req[r].etagNew)
     \/ WritesNothing(r, TRUE, req[r].etagNew)
  /\ UNCHANGED <<api, minted, copy>>

Handle(r) ==
  \/ Authenticate(r)
  \/ GetSyncDataETag(r) \/ GetSyncDataAndETag(r) \/ QueryFails(r)
  \/ ReadBodyFails(r) \/ SetSyncDataIfMatch(r)
  \/ UpdateSyncData(r) \/ InsertSyncData(r)

-----------------------------------------------------------------------------
(* The answer, and what can happen to it                                   *)

(* The device takes the version in a 200 answer for its copy.              *)
Learn(q) ==
  IF q.waiting /\ q.status = 200
    THEN [copy EXCEPT ![q.dev] =
            [etag |-> q.etag, data |-> IF q.op = "put" THEN q.body ELSE q.data]]
    ELSE copy

Deliver(r) ==
  /\ req[r].pc = "done"
  /\ copy' = Learn(req[r])
  /\ req' = [req EXCEPT ![r] = Idle]
  /\ UNCHANGED <<api, rows, minted, versions>>

(* The device times out or loses the connection; the handler runs on.      *)
GiveUp(r) ==
  /\ req[r].waiting
  /\ req' = [req EXCEPT ![r] = [@ EXCEPT !.waiting = FALSE]]
  /\ UNCHANGED <<api, rows, minted, versions, copy>>

(* The server process exits, at any point of any handler, and starts anew. *)
Restart ==
  /\ \E r \in Requests : req[r] # Idle
  /\ req' = [r \in Requests |-> Idle]
  /\ UNCHANGED <<api, rows, minted, versions, copy>>

Next ==
  \/ \E k \in Keys : StoreKey(k) \/ DeleteKey(k)
  \/ \E r \in Requests, d \in Devices : SendGet(r, d) \/ SendPut(r, d)
  \/ \E r \in Requests : Handle(r) \/ Deliver(r) \/ GiveUp(r)
  \/ Restart

Spec == Init /\ [][Next]_vars

-----------------------------------------------------------------------------
(* Properties                                                              *)

(* Types of the state.                                                     *)
TypeOK ==
  /\ api \in [Keys -> {"unminted", "live", "deleted"}]
  /\ rows \in [RowKeys -> Contents]
  /\ minted \in Nat
  /\ versions \subseteq Versions
  /\ req \in [Requests -> ActiveRequests \cup {Idle}]
  /\ copy \in [Devices -> Contents]

IsVersion(etag, data) == \E v \in versions : v.etag = etag /\ v.data = data

(* An etag stands for one content for good: whatever holds an etag, a row, *)
(* an answer under way or a device, holds the content it was minted for,   *)
(* so "304 Not Modified" always leaves the device with the server's data.  *)
VersionsAreExact ==
  /\ \A v, w \in versions : v.etag = w.etag => v = w
  /\ \A k \in RowKeys : rows[k] = NoRow \/ IsVersion(rows[k].etag, rows[k].data)
  /\ \A r \in Requests :
       req[r].pc = "done" /\ req[r].status = 200 =>
         IsVersion(req[r].etag, IF req[r].op = "put" THEN req[r].body ELSE req[r].data)
  /\ \A d \in Devices : copy[d] = NoRow \/ IsVersion(copy[d].etag, copy[d].data)

(* No lost update: two accepted conditional writes never build on the same *)
(* version, with whatever retries, abandoned handlers and restarts.        *)
NoLostUpdate ==
  \A v, w \in versions : v.base = w.base /\ v.base # NoEtag => v = w

(* The answer to a PUT is the truth: 200 when the write took effect under  *)
(* the etag in the answer, 412 when it did not and the version it named is *)
(* not the current one, 400 and 401 when it did not.                       *)
PutAnswersAreTrue ==
  \A r \in Requests :
    LET q == req[r]
        Took == \E v \in versions : v.etag = q.etagNew
    IN q.pc = "done" /\ q.op = "put" =>
         /\ q.status = 200 => Took /\ q.etag = q.etagNew
         /\ q.status = 412 => ~Took /\ rows[q.key].etag # q.match
         /\ q.status \in {400, 401} => ~Took

(* Reads do not go back: no answer makes a device swap the version it      *)
(* holds for an older one of the same row.                                 *)
CopiesMoveForward == [][\A d \in Devices : copy'[d].etag >= copy[d].etag]_vars

(* A version that a device holds and the server has replaced never becomes *)
(* current again: an If-Match or If-None-Match that misses once misses for *)
(* good (no ABA).                                                          *)
StaleStaysStale ==
  [][\A d \in Devices, k \in RowKeys :
       copy[d].etag # NoEtag /\ copy[d].etag = copy'[d].etag
         /\ rows[k].etag # copy[d].etag
       => rows'[k].etag # copy[d].etag]_vars

(* Devices with different API keys never see each other's data (README:    *)
(* "each with their own syncing data").                                    *)
KeysAreSeparate ==
  \A r \in Requests :
    req[r].pc = "done" /\ req[r].op = "get" /\ req[r].status = 200 =>
      \E v \in versions :
        v.etag = req[r].etag /\ KeyOf[v.dev] = KeyOf[req[r].dev]

(* The data of a key goes with the key (ON DELETE CASCADE), also when the  *)
(* key is deleted between a request's authentication and its write.        *)
NoOrphanData ==
  \A k \in RowKeys : rows[k] # NoRow => k \in Keys /\ api[k] = "live"

-----------------------------------------------------------------------------
(* The endpoints implement an atomic register per row.                     *)

Kind(q) ==
  CASE q.status = 304                  -> "unchanged"
    [] q.status = 404                  -> "missing"
    [] q.status = 412                  -> "conflict"
    [] q.status \in {400, 401, 500}    -> "failed"
    [] q.status = 200 /\ q.op = "get"  -> "found"
    [] q.status = 200 /\ q.op = "put"  -> "stored"

AbstractCall(q) ==
  CASE q.pc = "idle" -> [st |-> "idle"]
    [] q.pc = "done" ->
         [st |-> "answered", kind |-> Kind(q), etag |-> q.etag, data |-> q.data]
    [] q.pc \notin {"idle", "done"} ->
         [st |-> "called", op |-> q.op, key |-> q.key,
          match |-> q.match, body |-> q.body]

AbstractCalls == [r \in Requests |-> AbstractCall(req[r])]

StoredEtags == {v.etag : v \in versions}

Register ==
  INSTANCE SyncRegister WITH
    Keys <- RowKeys, reg <- rows, used <- StoredEtags, call <- AbstractCalls

(* Every request takes effect at most once, at one instant between its     *)
(* sending and its answer, though its handler runs several statements.     *)
ImplementsRegister == Register!Spec
=============================================================================

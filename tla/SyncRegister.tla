---------------------------- MODULE SyncRegister ----------------------------
(***************************************************************************)
(* What the sync endpoints promise a device, with no handler, SQL          *)
(* statement or authentication step in sight: one register per key, read   *)
(* and written atomically.  Every call takes effect at most once, at one   *)
(* instant between the call and its answer, and the answer tells what      *)
(* happened at that instant.  SyncContent is shown to implement this.      *)
(***************************************************************************)
EXTENDS Naturals

CONSTANTS
  Keys,        \* registers
  Requests,    \* identities of concurrent calls
  Payloads,    \* contents a register can hold
  NoPayload    \* the absence of a content

NoEtag == 0

VARIABLES
  reg,     \* reg[k]: the register's current version
  used,    \* etags some register has held
  call     \* call[r]: an outstanding call

vars == <<reg, used, call>>

Empty == [etag |-> NoEtag, data |-> NoPayload]

NoCall == [st |-> "idle"]

Calls ==
  [ st : {"called"}, op : {"get", "put"}, key : Keys, match : Nat,
    body : Payloads \cup {NoPayload} ]

Answered(kind, etag, data) ==
  [st |-> "answered", kind |-> kind, etag |-> etag, data |-> data]

Init ==
  /\ reg = [k \in Keys |-> Empty]
  /\ used = {}
  /\ call = [r \in Requests |-> NoCall]

Call(r) ==
  /\ call[r] = NoCall
  /\ call'[r] \in Calls
  /\ call' = [call EXCEPT ![r] = call'[r]]
  /\ UNCHANGED <<reg, used>>

Reply(r, kind, etag, data) ==
  call' = [call EXCEPT ![r] = Answered(kind, etag, data)]

(* A read answers with the version the register holds at that instant:     *)
(* "unchanged" when it is the one the caller named, the version otherwise. *)
Get(r) ==
  /\ call[r].st = "called" /\ call[r].op = "get"
  /\ LET cur == reg[call[r].key] IN
       \/ /\ cur.etag = NoEtag
          /\ Reply(r, "missing", NoEtag, NoPayload)
       \/ /\ cur.etag # NoEtag /\ cur.etag = call[r].match
          /\ Reply(r, "unchanged", NoEtag, NoPayload)
       \/ /\ cur.etag # NoEtag /\ cur.etag # call[r].match
          /\ Reply(r, "found", cur.etag, cur.data)
  /\ UNCHANGED <<reg, used>>

(* A write may name the version it replaces; naming none replaces any.     *)
Permitted(r) == call[r].match \in {NoEtag, reg[call[r].key].etag}

(* The register takes the caller's content under an etag never used        *)
(* before.  The caller is told so, or told of a failure.                   *)
Put(r) ==
  /\ call[r].st = "called" /\ call[r].op = "put"
  /\ Permitted(r)
  /\ LET e == reg'[call[r].key].etag IN
       /\ e \in Nat \ (used \cup {NoEtag})
       /\ reg' = [reg EXCEPT ![call[r].key] = [etag |-> e, data |-> call[r].body]]
       /\ used' = used \cup {e}
       /\ \/ Reply(r, "stored", e, NoPayload)
          \/ Reply(r, "failed", NoEtag, NoPayload)

Conflict(r) ==
  /\ call[r].st = "called" /\ call[r].op = "put"
  /\ ~Permitted(r)
  /\ Reply(r, "conflict", NoEtag, NoPayload)
  /\ UNCHANGED <<reg, used>>

Fail(r) ==
  /\ call[r].st = "called"
  /\ Reply(r, "failed", NoEtag, NoPayload)
  /\ UNCHANGED <<reg, used>>

Return(r) ==
  /\ call[r].st = "answered"
  /\ call' = [call EXCEPT ![r] = NoCall]
  /\ UNCHANGED <<reg, used>>

(* The server stops: no outstanding call is answered or takes effect.      *)
Abort ==
  /\ call' = [r \in Requests |-> NoCall]
  /\ UNCHANGED <<reg, used>>

(* A key is retired and its register with it.                              *)
Retire(k) ==
  /\ reg' = [reg EXCEPT ![k] = Empty]
  /\ UNCHANGED <<used, call>>

Next ==
  \/ \E r \in Requests :
       \/ Call(r) \/ Get(r) \/ Put(r) \/ Conflict(r) \/ Fail(r) \/ Return(r)
  \/ Abort
  \/ \E k \in Keys : Retire(k)

Spec == Init /\ [][Next]_vars
=============================================================================

---------------------------- MODULE Notifications ----------------------------
(***************************************************************************)
(* The notification service.  Configurations live in a table; the service  *)
(* keeps a slice of senders made from it, which every handler that changes *)
(* the table empties and fills again, without a lock.  A reported sync     *)
(* event starts a goroutine that ranges over that slice and lets each      *)
(* sender that can take the event send it, one after the other.            *)
(***************************************************************************)
EXTENDS Naturals, FiniteSets, Sequences, SequencesExt

CONSTANTS
  Admins,      \* identities of concurrently running notification handlers
  Ids,         \* row ids of the table
  Settings,    \* what a row may say (Setting below)
  Events,      \* identities of reported events
  Kinds,       \* kinds of events
  SyncKinds,   \* the kinds parseSyncEvent accepts
  Faults,      \* what may fail: "write", "reply", "list"
  MaxChanges   \* bound: table statements in a behaviour

(* A setting: the enabled flag, whether its type has a sender, whether the *)
(* webhook, key or token its sender needs is there, the events it names.   *)
Setting ==
  [enabled : BOOLEAN, supported : BOOLEAN, address : BOOLEAN, events : SUBSET Kinds]

NoSetting == [enabled |-> FALSE, supported |-> FALSE, address |-> FALSE, events |-> {}]

ASSUME ConstantsAssumption ==
  /\ IsFiniteSet(Ids)
  /\ Kinds # {}
  /\ Settings \subseteq Setting \ {NoSetting}
  /\ SyncKinds \subseteq Kinds
  /\ Faults \subseteq {"write", "reply", "list"}
  /\ MaxChanges \in Nat

VARIABLES
  table,     \* table[i]: the setting of row i, or NoSetting
  senders,   \* the service's slice of senders
  admin,     \* admin[a]: a running store, update or delete handler
  post,      \* post[e]: a reported event and the goroutine sending it
  gone,      \* history: rows whose deletion was done and answered
  stale,     \* history: the last change was not followed by a full reload
  changes    \* number of table statements so far

vars == <<table, senders, admin, post, gone, stale, changes>>

Sender == [id : Ids, setting : Settings]

IdleAdmin == [pc |-> "idle", deleting |-> {}, todo |-> <<>>, slice |-> <<>>]

(* kept: the rows that could take the event since it was reported.  calm:  *)
(* no handler changed notifications meanwhile.  barred: rows deleted, and  *)
(* so answered, before it was reported.                                    *)
NewPost ==
  [pc |-> "unreported", kind |-> CHOOSE k \in Kinds : TRUE, slice |-> <<>>,
   left |-> <<>>, sent |-> <<>>, kept |-> {}, calm |-> TRUE, barred |-> {}]

Rows == {i \in Ids : table[i] # NoSetting}

CanSend(s, kind) == s.enabled /\ s.address /\ kind \in s.events

Init ==
  /\ table = [i \in Ids |-> NoSetting]
  /\ senders = <<>>
  /\ admin = [a \in Admins |-> IdleAdmin]
  /\ post = [e \in Events |-> NewPost]
  /\ gone = {}
  /\ stale = FALSE
  /\ changes = 0

-----------------------------------------------------------------------------
(* The handlers                                                            *)

(* The table changed in the rows ids: the events still without a list of   *)
(* senders notice.                                                         *)
Disturbed(ids, deleted) ==
  [e \in Events |->
     IF post[e].pc \in {"spawned", "half"}
       THEN [post[e] EXCEPT !.kept = @ \ ids, !.calm = FALSE,
                            !.barred = @ \ (ids \ deleted)]
       ELSE post[e]]

(* One statement on the table, which goes through, or fails, or goes       *)
(* through and fails afterwards (the request's context was cancelled).     *)
(* The handler then answers: 204 to a deletion in every case.              *)
Change(a, newTable, ids, deleted) ==
  /\ admin[a].pc = "idle"
  /\ changes < MaxChanges
  /\ changes' = changes + 1
  /\ post' = Disturbed(ids, deleted)
  /\ \/ /\ table' = newTable
        /\ admin' = [admin EXCEPT ![a] = [@ EXCEPT !.pc = "reset", !.deleting = deleted]]
        /\ gone' = gone \ ids
        /\ UNCHANGED stale
     \/ /\ "reply" \in Faults
        /\ table' = newTable
        /\ gone' = gone \ ids
        /\ stale' = TRUE
        /\ UNCHANGED admin
     \/ /\ "write" \in Faults
        /\ UNCHANGED <<table, admin, gone, stale>>
  /\ UNCHANGED senders

Store(a) ==
  \E i \in Ids \ Rows, s \in Settings :
    Change(a, [table EXCEPT ![i] = s], {i}, {})

(* An UPDATE of a row that is not there changes nothing and succeeds.      *)
Update(a) ==
  \E i \in Ids, s \in Settings :
    IF i \in Rows THEN Change(a, [table EXCEPT ![i] = s], {i}, {})
                  ELSE Change(a, table, {}, {})

Delete(a) ==
  \E i \in Ids : Change(a, [table EXCEPT ![i] = NoSetting], {i}, {i})

(* The slice left as it was.                                               *)
ResetSendersNot(a) ==
  /\ admin[a].pc = "reset"
  /\ admin' = [admin EXCEPT ![a].pc = "list"]
  /\ UNCHANGED <<table, senders, post, gone, stale, changes>>

ResetSenders(a) ==
  /\ admin[a].pc = "reset"
  /\ senders' = <<>>
  /\ admin' = [admin EXCEPT ![a].pc = "list"]
  /\ UNCHANGED <<table, post, gone, stale, changes>>

(* The senders that the rows of the table call for.                        *)
Registered ==
  {x \in [id : Rows, setting : Settings] :
     x.setting = table[x.id] /\ x.setting.enabled /\ x.setting.supported}

Answered(a) ==
  /\ admin' = [admin EXCEPT ![a] = IdleAdmin]
  /\ gone' = gone \cup admin[a].deleting
  /\ stale' = FALSE

(* registerSenders: the query, in the order of the rows' names.  A failing *)
(* query is logged and the slice stays as it is.                           *)
List(a) ==
  /\ admin[a].pc = "list"
  /\ \/ /\ Registered # {}
        /\ \E todo \in SetToSeqs(Registered) :
             admin' = [admin EXCEPT ![a] = [@ EXCEPT !.pc = "read", !.todo = todo]]
        /\ UNCHANGED <<gone, stale>>
     \/ Registered = {} /\ Answered(a)
     \/ /\ "list" \in Faults
        /\ admin' = [admin EXCEPT ![a] = IdleAdmin]
        /\ stale' = TRUE
        /\ UNCHANGED gone
  /\ UNCHANGED <<table, senders, post, changes>>

(* s.senders = append(s.senders, ...): the slice is read, then written.    *)
AppendReads(a) ==
  /\ admin[a].pc = "read"
  /\ admin' = [admin EXCEPT ![a] = [@ EXCEPT !.pc = "write", !.slice = senders]]
  /\ UNCHANGED <<table, senders, post, gone, stale, changes>>

AppendWrites(a) ==
  /\ admin[a].pc = "write"
  /\ senders' = Append(admin[a].slice, Head(admin[a].todo))
  /\ IF Len(admin[a].todo) = 1
       THEN Answered(a)
       ELSE /\ admin' = [admin EXCEPT ![a] =
                           [@ EXCEPT !.pc = "read", !.todo = Tail(admin[a].todo), !.slice = <<>>]]
            /\ UNCHANGED <<gone, stale>>
  /\ UNCHANGED <<table, post, changes>>

-----------------------------------------------------------------------------
(* Events                                                                  *)

(* parseSyncEvent refuses other kinds; the answer does not wait for the    *)
(* goroutine.                                                              *)
Report(e) ==
  /\ post[e].pc = "unreported"
  /\ \E kind \in Kinds :
       post' = [post EXCEPT ![e] =
         IF kind \in SyncKinds
           THEN [@ EXCEPT !.pc = "spawned", !.kind = kind,
                          !.kept = {x.id : x \in {y \in Registered : CanSend(y.setting, kind)}},
                          !.calm = ~stale /\ \A a \in Admins : admin[a].pc = "idle",
                          !.barred = gone]
           ELSE [@ EXCEPT !.pc = "refused", !.kind = kind]]
  /\ UNCHANGED <<table, senders, admin, gone, stale, changes>>

(* The process starts: what was running is lost, and NewService registers  *)
(* the senders before any request is served.                               *)
Started ==
  /\ \/ \E list \in SetToSeqs(Registered) : senders' = list /\ stale' = FALSE
     \/ "list" \in Faults /\ senders' = <<>> /\ stale' = TRUE
  /\ admin' = [a \in Admins |-> IdleAdmin]
  /\ post' = [e \in Events |->
                IF post[e].pc \in {"spawned", "half", "sending"}
                  THEN [post[e] EXCEPT !.pc = "lost", !.slice = <<>>, !.left = <<>>]
                  ELSE post[e]]
  /\ UNCHANGED <<table, gone, changes>>

Restart ==
  /\ \/ \E a \in Admins : admin[a].pc # "idle"
     \/ \E e \in Events : post[e].pc \in {"spawned", "half", "sending"}
  /\ Started

(* The goroutine evaluates s.senders, an array and a length.  They are     *)
(* loaded one after the other while a handler may write the slice.         *)
LoadSenders(e) ==
  /\ post[e].pc = "spawned"
  /\ post' = [post EXCEPT ![e] = [@ EXCEPT !.pc = "half", !.slice = senders]]
  /\ UNCHANGED <<table, senders, admin, gone, stale, changes>>

(* The loop's body before its test.                                        *)
RangeOverEmpty(e, array, len) ==
  /\ len <= Len(array)
  /\ post' = [post EXCEPT ![e] =
                [@ EXCEPT !.pc = "sending", !.slice = <<>>, !.left = SubSeq(array, 1, len)]]
  /\ UNCHANGED <<table, senders, admin, gone, stale, changes>>

(* The range starts over the array of one load with the length of another. *)
RangeOver(e, array, len) ==
  LET pc == IF len = 0 THEN "done" ELSE "sending" IN
  /\ len <= Len(array)
  /\ post' = [post EXCEPT ![e] =
                [@ EXCEPT !.pc = pc, !.slice = <<>>, !.left = SubSeq(array, 1, len)]]
  /\ UNCHANGED <<table, senders, admin, gone, stale, changes>>

(* A length beyond the array: the goroutine calls a method of what is no   *)
(* sender, and the panic, which nothing recovers, ends the process.        *)
StartSending(e) ==
  /\ post[e].pc = "half"
  /\ LET slice == post[e].slice IN
       \/ RangeOver(e, slice, Len(senders))
       \/ RangeOver(e, senders, Len(slice))
       \/ Len(slice) # Len(senders) /\ Started

(* A failing send ends the loop.                                           *)
SendNextOrStop(e) ==
  /\ post[e].pc = "sending"
  /\ LET x    == Head(post[e].left)
         sent == IF CanSend(x.setting, post[e].kind) THEN <<x.id>> ELSE <<>>
     IN \E left \in {Tail(post[e].left), <<>>} :
          post' = [post EXCEPT ![e] =
                    [@ EXCEPT !.pc = IF left = <<>> THEN "done" ELSE "sending",
                              !.left = left, !.sent = post[e].sent \o sent]]
  /\ UNCHANGED <<table, senders, admin, gone, stale, changes>>

(* The loop goes on only from a sender that took the event.                *)
SendNextOnceTaken(e) ==
  /\ post[e].pc = "sending"
  /\ CanSend(Head(post[e].left).setting, post[e].kind)
  /\ LET x    == Head(post[e].left)
         left == Tail(post[e].left)
     IN post' = [post EXCEPT ![e] =
                  [@ EXCEPT !.pc = IF left = <<>> THEN "done" ELSE "sending",
                            !.left = left, !.sent = Append(post[e].sent, x.id)]]
  /\ UNCHANGED <<table, senders, admin, gone, stale, changes>>

(* One iteration.  A send takes at most the 30 seconds of its client, and  *)
(* its result is ignored.                                                  *)
SendNext(e) ==
  /\ post[e].pc = "sending"
  /\ LET x    == Head(post[e].left)
         left == Tail(post[e].left)
         sent == IF CanSend(x.setting, post[e].kind) THEN <<x.id>> ELSE <<>>
     IN post' = [post EXCEPT ![e] =
                  [@ EXCEPT !.pc = IF left = <<>> THEN "done" ELSE "sending",
                            !.left = left, !.sent = post[e].sent \o sent]]
  /\ UNCHANGED <<table, senders, admin, gone, stale, changes>>

HandleAdmin(a) ==
  \/ Store(a) \/ Update(a) \/ Delete(a)
  \/ ResetSenders(a) \/ List(a) \/ AppendReads(a) \/ AppendWrites(a)

Goroutine(e) == LoadSenders(e) \/ StartSending(e) \/ SendNext(e)

Next ==
  \/ \E a \in Admins : HandleAdmin(a)
  \/ \E e \in Events : Report(e) \/ Goroutine(e)
  \/ Restart

Spec == Init /\ [][Next]_vars

(* The Go scheduler runs every goroutine that can run.                     *)
Fairness == \A e \in Events : WF_vars(Goroutine(e))

FairSpec == Spec /\ Fairness

-----------------------------------------------------------------------------
(* Properties                                                              *)

(* Types of the state, and which parts of it a step of a handler or of a   *)
(* goroutine uses.                                                         *)
TypeOK ==
  /\ table \in [Ids -> Settings \cup {NoSetting}]
  /\ senders \in Seq(Sender)
  /\ \A a \in Admins :
       /\ admin[a].pc \in {"idle", "reset", "list", "read", "write"}
       /\ admin[a].deleting \subseteq Ids
       /\ admin[a].todo \in Seq(Sender) /\ admin[a].slice \in Seq(Sender)
       /\ admin[a].todo # <<>> <=> admin[a].pc \in {"read", "write"}
  /\ \A e \in Events :
       /\ post[e].pc \in {"unreported", "refused", "spawned", "half", "sending", "done", "lost"}
       /\ post[e].kind \in Kinds /\ post[e].calm \in BOOLEAN
       /\ post[e].slice \in Seq(Sender) /\ post[e].left \in Seq(Sender)
       /\ post[e].left # <<>> <=> post[e].pc = "sending"
       /\ post[e].sent \in Seq(Ids)
       /\ post[e].kept \subseteq Ids /\ post[e].barred \subseteq Ids
  /\ gone \subseteq Ids
  /\ stale \in BOOLEAN
  /\ changes \in 0..MaxChanges

Once(s) == \A i, j \in DOMAIN s : s[i] = s[j] => i = j

(* When no handler is at work, the senders are those that the table calls  *)
(* for, each once (comments in Store, Update and Delete: "reset senders",  *)
(* "re register senders"), unless the last change failed after its         *)
(* statement or the listing failed.                                        *)
SendersMatchTable ==
  (\A a \in Admins : admin[a].pc = "idle") /\ ~stale =>
    {senders[i] : i \in DOMAIN senders} = Registered /\ Once(senders)

(* An event reported and taken up while nobody changes notifications, with *)
(* the senders in order, is given to each sender that can take it, and to  *)
(* no other, whatever becomes of the sends to the others.                  *)
CalmEventsReachTheirSenders ==
  \A e \in Events :
    post[e].pc = "done" /\ post[e].calm =>
      {post[e].sent[i] : i \in DOMAIN post[e].sent} = post[e].kept

(* No sender is given an event twice, even when its goroutine starts while *)
(* a handler empties and fills the slice.                                  *)
SentAtMostOnce == \A e \in Events : Once(post[e].sent)

(* A notification whose deletion was done and answered is not sent an      *)
(* event reported later, unless it is stored again.                        *)
DeletedStayQuiet ==
  \A e \in Events :
    post[e].barred \cap {post[e].sent[i] : i \in DOMAIN post[e].sent} = {}

(* Every reported event is dealt with, unless the process ends: no sender  *)
(* can hold up those behind it for good.                                   *)
EventsEnd ==
  \A e \in Events : post[e].pc = "spawned" ~> post[e].pc \in {"done", "lost"}
=============================================================================

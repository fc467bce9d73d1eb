------------------------- MODULE NotificationsProofs --------------------------
(***************************************************************************)
(* Invariants of Notifications: types for any number of handlers; the      *)
(* others for one handler at a time (OneAdmin), any number of rows, events *)
(* and kinds, all faults, and no bound on the changes.                     *)
(***************************************************************************)
EXTENDS Notifications, FunctionTheorems, FiniteSetTheorems, SequenceTheorems, TLAPS

(* Notifications are changed by one client at a time.  The run             *)
(* notification_admins shows what two at once do.                          *)
OneAdmin == \A a, b \in Admins : a = b

Elems(s) == {s[i] : i \in DOMAIN s}

IdsOf(s) == {s[i].id : i \in DOMAIN s}

Apart(s) == \A i, j \in DOMAIN s : s[i].id = s[j].id => i = j

AllIdle == \A a \in Admins : admin[a].pc = "idle"

-----------------------------------------------------------------------------
(* The types, in three parts.                                              *)

AdminRecord ==
  [pc : {"idle", "reset", "list", "read", "write"}, deleting : SUBSET Ids,
   todo : Seq(Sender), slice : Seq(Sender)]

PostRecord ==
  [pc : {"unreported", "refused", "spawned", "half", "sending", "done", "lost"},
   kind : Kinds, slice : Seq(Sender), left : Seq(Sender), sent : Seq(Ids),
   kept : SUBSET Ids, calm : BOOLEAN, barred : SUBSET Ids]

AdminFits(q) ==
  /\ q \in AdminRecord
  /\ q.todo # <<>> <=> q.pc \in {"read", "write"}
  /\ q.pc = "idle" => q.deleting = {}

PostFits(p) ==
  p \in PostRecord /\ (p.left # <<>> <=> p.pc = "sending")

TableOK ==
  /\ table \in [Ids -> Settings \cup {NoSetting}]
  /\ senders \in Seq(Sender)
  /\ gone \subseteq Ids
  /\ stale \in BOOLEAN
  /\ changes \in 0..MaxChanges

AdminsOK == DOMAIN admin = Admins /\ \A a \in Admins : AdminFits(admin[a])

PostsOK == DOMAIN post = Events /\ \A e \in Events : PostFits(post[e])

TypeInv == TableOK /\ AdminsOK /\ PostsOK

-----------------------------------------------------------------------------
(* The senders and the table.                                              *)

(* What the senders are while the handler a is at its place: those of the  *)
(* table together with those it has still to append.                       *)
Filling(a) ==
  /\ admin[a].pc = "list" => senders = <<>>
  /\ admin[a].pc \in {"read", "write"} =>
       /\ Apart(admin[a].todo)
       /\ IdsOf(senders) \cap IdsOf(admin[a].todo) = {}
       /\ Elems(senders) \cup Elems(admin[a].todo) = Registered
  /\ admin[a].pc = "write" => admin[a].slice = senders

SendersOK ==
  /\ Apart(senders)
  /\ AllIdle /\ ~stale => Elems(senders) = Registered
  /\ \A a \in Admins : Filling(a)

-----------------------------------------------------------------------------
(* What an event is sent.                                                  *)

(* No sender is there twice, in what is left and what was sent.            *)
NoneTwice(p) ==
  /\ Apart(p.slice) /\ Apart(p.left) /\ Once(p.sent)
  /\ IdsOf(p.left) \cap Elems(p.sent) = {}

Takers(kind) == {x.id : x \in {y \in Registered : CanSend(y.setting, kind)}}

TakersOf(s, kind) == {x.id : x \in {y \in Elems(s) : CanSend(y.setting, kind)}}

(* A calm event waits beside idle handlers; once its goroutine ranges over *)
(* the senders, what was sent and what is left are those that can take it. *)
CalmOK(p) ==
  /\ p.pc # "half" => p.slice = <<>>
  /\ p.pc \in {"unreported", "refused", "spawned", "half"} => p.sent = <<>>
  /\ p.calm /\ p.pc \in {"spawned", "half"} =>
       AllIdle /\ ~stale /\ p.kept = Takers(p.kind)
  /\ p.calm /\ p.pc = "half" => p.slice = senders
  /\ p.calm /\ p.pc \in {"sending", "done"} =>
       Elems(p.sent) \cup TakersOf(p.left, p.kind) = p.kept

-----------------------------------------------------------------------------
(* Deleted notifications.                                                  *)

(* The rows of ids are not there, and no sender is theirs.                 *)
Hushed(ids) == ids \cap Rows = {} /\ ids \cap IdsOf(senders) = {}

(* An event has nothing to send for the rows that were deleted before it.  *)
Barred(p) ==
  /\ p.pc \in {"spawned", "half"} => Hushed(p.barred)
  /\ p.barred \cap IdsOf(p.slice) = {} /\ p.barred \cap IdsOf(p.left) = {}
  /\ p.barred \cap Elems(p.sent) = {}

GoneOK ==
  /\ Hushed(gone)
  /\ \A a \in Admins : admin[a].deleting \cap Rows = {}

EventOK(e) == NoneTwice(post[e]) /\ CalmOK(post[e]) /\ Barred(post[e])

EventsOK == \A e \in Events : EventOK(e)

-----------------------------------------------------------------------------
(* Sequences of senders.                                                   *)

LEMMA EmptyIs ==
  /\ Elems(<<>>) = {} /\ IdsOf(<<>>) = {} /\ Apart(<<>>) /\ Once(<<>>)
  /\ \A S : <<>> \in Seq(S)
BY DEF Elems, IdsOf, Apart, Once

LEMMA Places ==
  ASSUME NEW s \in Seq(Sender)
  PROVE  /\ Len(s) \in Nat /\ DOMAIN s = 1..Len(s) /\ Elems(s) \subseteq Sender
         /\ IdsOf(s) \subseteq Ids
         /\ \A i \in 1..Len(s) : s[i] \in Sender
         /\ IdsOf(s) = {x.id : x \in Elems(s)}
<1>1. Len(s) \in Nat /\ DOMAIN s = 1..Len(s) /\ \A i \in 1..Len(s) : s[i] \in Sender
  BY LenProperties
<1> QED BY <1>1 DEF Elems, IdsOf, Sender

LEMMA Appended ==
  ASSUME NEW s \in Seq(Sender), NEW x \in Sender
  PROVE  /\ Append(s, x) \in Seq(Sender) /\ Append(s, x) # <<>>
         /\ Elems(Append(s, x)) = Elems(s) \cup {x}
         /\ IdsOf(Append(s, x)) = IdsOf(s) \cup {x.id}
         /\ Apart(s) /\ x.id \notin IdsOf(s) => Apart(Append(s, x))
<1> DEFINE t == Append(s, x)
<1>1. /\ t \in Seq(Sender) /\ t # <<>> /\ Len(t) = Len(s) + 1 /\ Len(s) \in Nat
      /\ DOMAIN s = 1..Len(s) /\ DOMAIN t = 1..Len(t)
      /\ \A i \in 1..Len(s) : t[i] = s[i]
      /\ t[Len(s) + 1] = x
  BY AppendProperties, LenProperties
<1>2. DOMAIN t = DOMAIN s \cup {Len(s) + 1}
  BY <1>1
<1> HIDE DEF t
<1>3. Elems(t) = Elems(s) \cup {x}
  BY <1>1, <1>2 DEF Elems
<1>4. IdsOf(t) = IdsOf(s) \cup {x.id}
  BY <1>1, <1>2 DEF IdsOf
<1>5. ASSUME Apart(s), x.id \notin IdsOf(s) PROVE Apart(t)
  <2>1. \A i \in DOMAIN s : s[i].id # x.id
    BY <1>5 DEF IdsOf
  <2> QED BY <1>1, <1>2, <1>5, <2>1 DEF Apart
<1> QED BY <1>1, <1>3, <1>4, <1>5 DEF t

LEMMA Taken ==
  ASSUME NEW s \in Seq(Sender), s # <<>>
  PROVE  /\ Head(s) \in Sender /\ Tail(s) \in Seq(Sender)
         /\ Elems(s) = {Head(s)} \cup Elems(Tail(s))
         /\ IdsOf(s) = {Head(s).id} \cup IdsOf(Tail(s))
         /\ Apart(s) => Apart(Tail(s)) /\ Head(s).id \notin IdsOf(Tail(s))
         /\ Tail(s) = <<>> <=> Len(s) = 1
<1> DEFINE t == Tail(s)
<1>1. /\ Head(s) \in Sender /\ t \in Seq(Sender) /\ Len(t) = Len(s) - 1
      /\ \A i \in 1..Len(t) : t[i] = s[i + 1]
      /\ Len(s) \in Nat \ {0} /\ Len(t) \in Nat
      /\ DOMAIN s = 1..Len(s) /\ DOMAIN t = 1..Len(t)
  BY HeadTailProperties, LenProperties, EmptySeq
<1>2. Head(s) = s[1]
  OBVIOUS
<1>3. \A i \in DOMAIN s : i = 1 \/ (i - 1 \in DOMAIN t /\ s[i] = t[i - 1])
  BY <1>1
<1>4. 1 \in DOMAIN s /\ \A i \in DOMAIN t : i + 1 \in DOMAIN s /\ t[i] = s[i + 1]
  BY <1>1
<1>5. t = <<>> <=> Len(s) = 1
  BY <1>1, EmptySeq
<1> HIDE DEF t
<1>6. Elems(s) = {Head(s)} \cup Elems(t)
  BY <1>2, <1>3, <1>4 DEF Elems
<1>7. IdsOf(s) = {Head(s).id} \cup IdsOf(t)
  BY <1>2, <1>3, <1>4 DEF IdsOf
<1>8. ASSUME Apart(s) PROVE Apart(t) /\ Head(s).id \notin IdsOf(t)
  <2>1. Apart(t)
    BY <1>1, <1>4, <1>8 DEF Apart
  <2>2. \A i \in DOMAIN t : t[i].id # s[1].id
    BY <1>1, <1>4, <1>8 DEF Apart
  <2> QED BY <1>2, <2>1, <2>2 DEF IdsOf
<1> QED BY <1>1, <1>5, <1>6, <1>7, <1>8 DEF t

LEMMA Beginning ==
  ASSUME NEW s \in Seq(Sender), NEW n \in Nat, n <= Len(s)
  PROVE  LET t == SubSeq(s, 1, n) IN
         /\ t \in Seq(Sender)
         /\ IdsOf(t) \subseteq IdsOf(s)
         /\ Apart(s) => Apart(t)
         /\ n = Len(s) => t = s
         /\ n = 0 <=> t = <<>>
<1> DEFINE t == SubSeq(s, 1, n)
<1>1. Len(s) \in Nat /\ DOMAIN s = 1..Len(s) /\ \A i \in 1..Len(s) : s[i] \in Sender
  BY LenProperties
<1>2. /\ t \in Seq(Sender) /\ Len(t) = n /\ DOMAIN t = 1..n
      /\ \A i \in 1..n : t[i] = s[i]
  BY <1>1, SubSeqProperties, LenProperties
<1>3. n = Len(s) => t = s
  BY SubSeqFull
<1>4. n = 0 <=> t = <<>>
  BY <1>2, EmptySeq
<1> HIDE DEF t
<1>5. IdsOf(t) \subseteq IdsOf(s)
  BY <1>1, <1>2 DEF IdsOf
<1>6. Apart(s) => Apart(t)
  BY <1>1, <1>2 DEF Apart
<1> QED BY <1>2, <1>3, <1>4, <1>5, <1>6 DEF t

LEMMA SentOn ==
  ASSUME NEW t \in Seq(Ids), NEW i \in Ids
  PROVE  /\ t \o <<i>> \in Seq(Ids) /\ t \o <<>> = t
         /\ Elems(t \o <<i>>) = Elems(t) \cup {i}
         /\ Once(t) /\ i \notin Elems(t) => Once(t \o <<i>>)
<1> DEFINE u == t \o <<i>>
<1>1. /\ u \in Seq(Ids) /\ Len(u) = Len(t) + 1 /\ Len(t) \in Nat
      /\ DOMAIN t = 1..Len(t) /\ DOMAIN u = 1..Len(u)
      /\ \A j \in 1..Len(t) : u[j] = t[j]
      /\ u[Len(t) + 1] = i
  BY AppendProperties, AppendIsConcat, LenProperties
<1>2. DOMAIN u = DOMAIN t \cup {Len(t) + 1}
  BY <1>1
<1>3. t \o <<>> = t
  BY ConcatEmptySeq
<1> HIDE DEF u
<1>4. Elems(u) = Elems(t) \cup {i}
  BY <1>1, <1>2 DEF Elems
<1>5. ASSUME Once(t), i \notin Elems(t) PROVE Once(u)
  <2>1. \A j \in DOMAIN t : t[j] # i
    BY <1>5 DEF Elems
  <2> QED BY <1>1, <1>2, <1>5, <2>1 DEF Once
<1> QED BY <1>1, <1>3, <1>4, <1>5 DEF u

-----------------------------------------------------------------------------
(* The senders that the table calls for, and a listing of them.            *)

LEMMA RegisteredIs ==
  /\ Registered \subseteq Sender
  /\ \A x \in Registered : x.id \in Rows
  /\ \A x, y \in Registered : x.id = y.id => x = y
  /\ IsFiniteSet(Registered)
<1>1. Registered \subseteq Sender /\ \A x \in Registered : x.id \in Rows
  BY DEF Registered, Sender, Rows
<1>2. \A x, y \in Registered : x.id = y.id => x = y
  BY DEF Registered
<1>3. IsFiniteSet(Registered)
  <2> DEFINE f == [x \in Registered |-> x.id]
  <2>1. f \in Injection(Registered, Ids)
    BY <1>1, <1>2 DEF Injection, IsInjective, Sender
  <2> HIDE DEF f
  <2> QED BY <2>1, ConstantsAssumption, FS_Injection
<1> QED BY <1>1, <1>2, <1>3

LEMMA Listed ==
  ASSUME NEW s \in SetToSeqs(Registered)
  PROVE  /\ s \in Seq(Sender) /\ Apart(s) /\ Elems(s) = Registered
         /\ s = <<>> <=> Registered = {}
<1> DEFINE n == Cardinality(Registered)
<1>1. n \in Nat
  BY RegisteredIs, FS_CardinalityType
<1>2. s \in [1..n -> Registered] /\ \A i, j \in 1..n : i # j => s[i] # s[j]
  BY DEF SetToSeqs
<1> HIDE DEF n
<1>3. s \in [1..n -> Sender]
  BY <1>2, RegisteredIs
<1>4. s \in Seq(Sender)
  BY <1>1, <1>3, SeqDef
<1>5. Apart(s)
  BY <1>2, RegisteredIs DEF Apart
<1>6. s \in Injection(1..n, Registered)
  BY <1>2 DEF Injection, IsInjective
<1>7. Cardinality(1..n) = n
  BY <1>1, FS_Interval
<1>8. s \in Surjection(1..n, Registered)
  BY <1>6, <1>7, RegisteredIs, FS_Injection DEF n
<1>9. Elems(s) = Registered
  BY <1>2, <1>8 DEF Surjection, Elems
<1>10. s = <<>> <=> Registered = {}
  <2>1. s = <<>> => Elems(s) = {}
    BY EmptyIs
  <2>2. ASSUME Registered = {} PROVE s = <<>>
    <3>1. 1..n = {}
      BY <1>2, <2>2
    <3>2. Len(s) = 0
      BY <1>1, <1>2, <1>4, <3>1, LenProperties
    <3> QED BY <1>4, <3>2, EmptySeq
  <2> QED BY <1>9, <2>1, <2>2
<1> QED BY <1>4, <1>5, <1>9, <1>10

-----------------------------------------------------------------------------
(* What the steps do.                                                      *)

(* A statement writes settings into the rows ids, or removes them.         *)
Sensible(t, ids, deleted) ==
  /\ t \in [Ids -> Settings \cup {NoSetting}]
  /\ ids \subseteq Ids /\ deleted \subseteq ids
  /\ \A i \in Ids \ ids : t[i] = table[i]
  /\ \A i \in deleted : t[i] = NoSetting

LEMMA ChangesAreSensible ==
  ASSUME TableOK, NEW a \in Admins, Store(a) \/ Update(a) \/ Delete(a)
  PROVE  \E t, ids, deleted : Change(a, t, ids, deleted) /\ Sensible(t, ids, deleted)
<1>1. table \in [Ids -> Settings \cup {NoSetting}]
  BY DEF TableOK
<1>2. ASSUME NEW i \in Ids, NEW x \in Settings \cup {NoSetting}, NEW deleted \in {{}, {i}},
             deleted = {i} => x = NoSetting,
             Change(a, [table EXCEPT ![i] = x], {i}, deleted)
      PROVE  \E t, ids, d : Change(a, t, ids, d) /\ Sensible(t, ids, d)
  <2>1. Sensible([table EXCEPT ![i] = x], {i}, deleted)
    BY <1>1, <1>2 DEF Sensible
  <2> QED BY <1>2, <2>1
<1>3. CASE Store(a)
  <2>1. PICK i \in Ids, x \in Settings : Change(a, [table EXCEPT ![i] = x], {i}, {})
    BY <1>3 DEF Store, Rows
  <2> QED BY <1>2, <2>1
<1>4. CASE Update(a)
  <2>1. PICK i \in Ids, x \in Settings :
          Change(a, [table EXCEPT ![i] = x], {i}, {}) \/ Change(a, table, {}, {})
    BY <1>4 DEF Update
  <2>2. Sensible(table, {}, {})
    BY <1>1 DEF Sensible
  <2> QED BY <1>2, <2>1, <2>2
<1>5. CASE Delete(a)
  <2>1. PICK i \in Ids : Change(a, [table EXCEPT ![i] = NoSetting], {i}, {i})
    BY <1>5 DEF Delete
  <2> QED BY <1>2, <2>1
<1> QED BY <1>3, <1>4, <1>5

(* A handler's place and what it holds after a step of its own.            *)
AdminBecomes(a, q) == admin' = [admin EXCEPT ![a] = q] /\ AdminFits(q)

LEMMA OneAdminChanges ==
  ASSUME AdminsOK, NEW a \in Admins, NEW q, AdminBecomes(a, q)
  PROVE  /\ AdminsOK' /\ admin'[a] = q
         /\ \A b \in Admins : b # a => admin'[b] = admin[b]
BY DEF AdminsOK, AdminBecomes

LEMMA IdleAdminFits ==
  AdminFits(IdleAdmin) /\ IdleAdmin.pc = "idle" /\ IdleAdmin.deleting = {}
<1>1. <<>> \in Seq(Sender)
  BY EmptyIs
<1> QED BY <1>1 DEF IdleAdmin, AdminFits, AdminRecord

LEMMA AdminPlaces ==
  ASSUME AdminsOK, NEW a \in Admins
  PROVE  /\ AdminFits(admin[a]) /\ admin[a] \in AdminRecord
         /\ admin[a].todo \in Seq(Sender) /\ admin[a].slice \in Seq(Sender)
         /\ admin[a].deleting \subseteq Ids
BY DEF AdminsOK, AdminFits, AdminRecord

LEMMA AdminMoves ==
  ASSUME AdminsOK, NEW a \in Admins, senders \in Seq(Sender)
  PROVE  /\ admin[a].pc = "idle" =>
              \A deleted \in SUBSET Ids :
                AdminFits([admin[a] EXCEPT !.pc = "reset", !.deleting = deleted])
         /\ admin[a].pc = "reset" => AdminFits([admin[a] EXCEPT !.pc = "list"])
         /\ admin[a].pc = "list" =>
              \A s \in Seq(Sender) \ {<<>>} :
                AdminFits([admin[a] EXCEPT !.pc = "read", !.todo = s])
         /\ admin[a].pc = "read" =>
              AdminFits([admin[a] EXCEPT !.pc = "write", !.slice = senders])
         /\ admin[a].pc = "write" /\ Len(admin[a].todo) # 1 =>
              AdminFits([admin[a] EXCEPT !.pc = "read", !.todo = Tail(admin[a].todo),
                                         !.slice = <<>>])
<1>1. AdminFits(admin[a]) /\ admin[a] \in AdminRecord
  BY AdminPlaces
<1>2. ASSUME admin[a].pc = "idle", NEW deleted \in SUBSET Ids
      PROVE  AdminFits([admin[a] EXCEPT !.pc = "reset", !.deleting = deleted])
  BY <1>1, <1>2 DEF AdminFits, AdminRecord
<1>3. ASSUME admin[a].pc = "reset" PROVE AdminFits([admin[a] EXCEPT !.pc = "list"])
  BY <1>1, <1>3 DEF AdminFits, AdminRecord
<1>4. ASSUME admin[a].pc = "list", NEW s \in Seq(Sender) \ {<<>>}
      PROVE  AdminFits([admin[a] EXCEPT !.pc = "read", !.todo = s])
  BY <1>1, <1>4 DEF AdminFits, AdminRecord
<1>5. ASSUME admin[a].pc = "read"
      PROVE  AdminFits([admin[a] EXCEPT !.pc = "write", !.slice = senders])
  BY <1>1, <1>5 DEF AdminFits, AdminRecord
<1>6. ASSUME admin[a].pc = "write", Len(admin[a].todo) # 1
      PROVE  AdminFits([admin[a] EXCEPT !.pc = "read", !.todo = Tail(admin[a].todo),
                                        !.slice = <<>>])
  <2> DEFINE t == Tail(admin[a].todo)
  <2>1. admin[a].todo \in Seq(Sender) /\ admin[a].todo # <<>>
    BY <1>1, <1>6 DEF AdminFits, AdminRecord
  <2>2. t \in Seq(Sender) \ {<<>>} /\ <<>> \in Seq(Sender)
    BY <1>6, <2>1, Taken, EmptyIs
  <2> HIDE DEF t
  <2>3. AdminFits([admin[a] EXCEPT !.pc = "read", !.todo = t, !.slice = <<>>])
    BY <1>1, <2>2 DEF AdminFits, AdminRecord
  <2> QED BY <2>3 DEF t
<1> QED BY <1>2, <1>3, <1>4, <1>5, <1>6

-----------------------------------------------------------------------------
(* An event after a step of its own, or after somebody else's.             *)

LEMMA PostPlaces ==
  ASSUME PostsOK, NEW e \in Events
  PROVE  /\ PostFits(post[e]) /\ post[e] \in PostRecord /\ post[e].kind \in Kinds
         /\ post[e].slice \in Seq(Sender) /\ post[e].left \in Seq(Sender)
         /\ post[e].sent \in Seq(Ids) /\ post[e].calm \in BOOLEAN
         /\ post[e].kept \subseteq Ids /\ post[e].barred \subseteq Ids
BY DEF PostsOK, PostFits, PostRecord

PostBecomes(e, p) == post' = [post EXCEPT ![e] = p] /\ PostFits(p)

LEMMA OnePostChanges ==
  ASSUME PostsOK, NEW e \in Events, NEW p, PostBecomes(e, p)
  PROVE  /\ PostsOK' /\ post'[e] = p
         /\ \A d \in Events : d # e => post'[d] = post[d]
BY DEF PostsOK, PostBecomes

(* The table changes under an event: only one that waits notices.          *)
Notices(p, q, ids, deleted) ==
  /\ PostFits(q) /\ q.pc = p.pc /\ q.kind = p.kind /\ q.sent = p.sent
  /\ q.slice = p.slice /\ q.left = p.left
  /\ p.pc \in {"spawned", "half"} => ~q.calm /\ q.barred = p.barred \ (ids \ deleted)
  /\ p.pc \notin {"spawned", "half"} => q = p

LEMMA DisturbedIs ==
  ASSUME PostsOK, NEW ids, NEW deleted, post' = Disturbed(ids, deleted)
  PROVE  PostsOK' /\ \A e \in Events : Notices(post[e], post'[e], ids, deleted)
<1>1. ASSUME NEW e \in Events PROVE Notices(post[e], post'[e], ids, deleted)
  <2>1. PostFits(post[e]) /\ post[e] \in PostRecord
    BY PostPlaces
  <2>2. CASE post[e].pc \in {"spawned", "half"}
    <3> DEFINE kept == post[e].kept \ ids
               barred == post[e].barred \ (ids \ deleted)
    <3>1. post'[e] = [post[e] EXCEPT !.kept = kept, !.calm = FALSE, !.barred = barred]
      BY <2>2 DEF Disturbed
    <3>2. kept \subseteq Ids /\ barred \subseteq Ids
      BY PostPlaces
    <3> HIDE DEF kept
    <3>3. barred = post[e].barred \ (ids \ deleted)
      OBVIOUS
    <3> HIDE DEF barred
    <3> QED BY <2>1, <2>2, <3>1, <3>2, <3>3 DEF Notices, PostFits, PostRecord
  <2>3. CASE post[e].pc \notin {"spawned", "half"}
    <3>1. post'[e] = post[e]
      BY <2>3 DEF Disturbed
    <3> QED BY <2>1, <2>3, <3>1 DEF Notices
  <2> QED BY <2>2, <2>3
<1>2. DOMAIN post' = Events
  BY DEF Disturbed
<1> QED BY <1>1, <1>2 DEF PostsOK, Notices

(* The process ends under an event.                                        *)
EndsWith(p, q) ==
  /\ PostFits(q)
  /\ p.pc \in {"spawned", "half", "sending"} =>
       /\ q.pc = "lost" /\ q.slice = <<>> /\ q.left = <<>>
       /\ q.sent = p.sent /\ q.barred = p.barred
  /\ p.pc \notin {"spawned", "half", "sending"} => q = p

LEMMA StartedIs ==
  ASSUME PostsOK, Started
  PROVE  PostsOK' /\ \A e \in Events : EndsWith(post[e], post'[e])
<1>1. ASSUME NEW e \in Events PROVE EndsWith(post[e], post'[e])
  <2>1. PostFits(post[e]) /\ post[e] \in PostRecord /\ <<>> \in Seq(Sender)
    BY PostPlaces, EmptyIs
  <2>2. CASE post[e].pc \in {"spawned", "half", "sending"}
    <3>1. post'[e] = [post[e] EXCEPT !.pc = "lost", !.slice = <<>>, !.left = <<>>]
      BY <2>2 DEF Started
    <3> QED BY <2>1, <2>2, <3>1 DEF EndsWith, PostFits, PostRecord
  <2>3. CASE post[e].pc \notin {"spawned", "half", "sending"}
    <3>1. post'[e] = post[e]
      BY <2>3 DEF Started
    <3> QED BY <2>1, <2>3, <3>1 DEF EndsWith
  <2> QED BY <2>2, <2>3
<1>2. DOMAIN post' = Events
  BY DEF Started
<1> QED BY <1>1, <1>2 DEF PostsOK, EndsWith

(* Report.                                                                 *)
Reported(e, p) ==
  /\ PostBecomes(e, p)
  /\ p.slice = post[e].slice /\ p.left = post[e].left /\ p.sent = post[e].sent
  /\ \/ p.pc = "refused" /\ p.barred = post[e].barred
     \/ /\ p.pc = "spawned" /\ p.kept = Takers(p.kind) /\ p.barred = gone
        /\ p.calm <=> ~stale /\ AllIdle

LEMMA ReportIs ==
  ASSUME TypeInv, NEW e \in Events, Report(e)
  PROVE  post[e].pc = "unreported" /\ \E p : Reported(e, p)
<1>1. PostFits(post[e]) /\ post[e] \in PostRecord /\ gone \subseteq Ids /\ post[e].pc = "unreported"
  BY PostPlaces DEF TypeInv, TableOK, Report
<1>2. PICK kind \in Kinds :
        post' = [post EXCEPT ![e] =
          IF kind \in SyncKinds
            THEN [post[e] EXCEPT !.pc = "spawned", !.kind = kind,
                    !.kept = {x.id : x \in {y \in Registered : CanSend(y.setting, kind)}},
                    !.calm = ~stale /\ \A a \in Admins : admin[a].pc = "idle",
                    !.barred = gone]
            ELSE [post[e] EXCEPT !.pc = "refused", !.kind = kind]]
  BY DEF Report
<1>3. Takers(kind) \subseteq Ids
  BY RegisteredIs DEF Takers, Sender
<1>4. CASE kind \in SyncKinds
  <2> DEFINE kept == Takers(kind)
             calm == ~stale /\ AllIdle
             p == [post[e] EXCEPT !.pc = "spawned", !.kind = kind, !.kept = kept,
                                  !.calm = calm, !.barred = gone]
  <2>1. post' = [post EXCEPT ![e] = p]
    BY <1>2, <1>4 DEF Takers, AllIdle
  <2>2. calm \in BOOLEAN /\ kept \subseteq Ids
    BY <1>3
  <2>3. kept = Takers(kind) /\ (calm <=> ~stale /\ AllIdle)
    OBVIOUS
  <2> HIDE DEF kept, calm
  <2>4. PostFits(p)
    BY <1>1, <2>2 DEF PostFits, PostRecord
  <2>5. /\ p.pc = "spawned" /\ p.kind = kind /\ p.kept = kept /\ p.calm = calm /\ p.barred = gone
        /\ p.slice = post[e].slice /\ p.left = post[e].left /\ p.sent = post[e].sent
    BY <1>1 DEF PostRecord
  <2> HIDE DEF p
  <2>6. Reported(e, p)
    BY <2>1, <2>3, <2>4, <2>5 DEF Reported, PostBecomes
  <2> QED BY <1>1, <2>6
<1>5. CASE kind \notin SyncKinds
  <2> DEFINE p == [post[e] EXCEPT !.pc = "refused", !.kind = kind]
  <2>1. post' = [post EXCEPT ![e] = p]
    BY <1>2, <1>5
  <2>2. PostFits(p)
    BY <1>1 DEF PostFits, PostRecord
  <2>3. /\ p.pc = "refused" /\ p.barred = post[e].barred
        /\ p.slice = post[e].slice /\ p.left = post[e].left /\ p.sent = post[e].sent
    BY <1>1 DEF PostRecord
  <2> HIDE DEF p
  <2>4. Reported(e, p)
    BY <2>1, <2>2, <2>3 DEF Reported, PostBecomes
  <2> QED BY <1>1, <2>4
<1> QED BY <1>4, <1>5

(* LoadSenders.                                                            *)
Loads(e, p) ==
  /\ PostBecomes(e, p) /\ p.pc = "half" /\ p.slice = senders
  /\ p.kind = post[e].kind /\ p.left = post[e].left /\ p.sent = post[e].sent
  /\ p.kept = post[e].kept /\ p.calm = post[e].calm /\ p.barred = post[e].barred

LEMMA LoadIs ==
  ASSUME TypeInv, NEW e \in Events, LoadSenders(e)
  PROVE  post[e].pc = "spawned" /\ \E p : Loads(e, p)
<1>1. PostFits(post[e]) /\ post[e] \in PostRecord /\ senders \in Seq(Sender)
        /\ post[e].pc = "spawned"
  BY PostPlaces DEF TypeInv, TableOK, LoadSenders
<1> DEFINE p == [post[e] EXCEPT !.pc = "half", !.slice = senders]
<1>2. post' = [post EXCEPT ![e] = p]
  BY DEF LoadSenders
<1>3. PostFits(p)
  BY <1>1 DEF PostFits, PostRecord
<1>4. /\ p.pc = "half" /\ p.slice = senders
      /\ p.kind = post[e].kind /\ p.left = post[e].left /\ p.sent = post[e].sent
      /\ p.kept = post[e].kept /\ p.calm = post[e].calm /\ p.barred = post[e].barred
  BY <1>1 DEF PostRecord
<1> HIDE DEF p
<1>5. Loads(e, p)
  BY <1>2, <1>3, <1>4 DEF Loads, PostBecomes
<1> QED BY <1>1, <1>5

(* The range over a beginning of an array.                                 *)
Ranges(e, p, array, len) ==
  /\ PostBecomes(e, p) /\ p.pc = (IF len = 0 THEN "done" ELSE "sending")
  /\ p.slice = <<>> /\ p.left = SubSeq(array, 1, len)
  /\ p.kind = post[e].kind /\ p.sent = post[e].sent
  /\ p.kept = post[e].kept /\ p.calm = post[e].calm /\ p.barred = post[e].barred

LEMMA RangeIs ==
  ASSUME PostsOK, NEW e \in Events, NEW array \in Seq(Sender), NEW len \in Nat,
         RangeOver(e, array, len)
  PROVE  len <= Len(array) /\ \E p : Ranges(e, p, array, len)
<1>1. PostFits(post[e]) /\ post[e] \in PostRecord /\ <<>> \in Seq(Sender)
  BY PostPlaces, EmptyIs
<1> DEFINE pc == IF len = 0 THEN "done" ELSE "sending"
           left == SubSeq(array, 1, len)
           p == [post[e] EXCEPT !.pc = pc, !.slice = <<>>, !.left = left]
<1>2. len <= Len(array) /\ post' = [post EXCEPT ![e] = p]
  BY DEF RangeOver
<1>3. left \in Seq(Sender) /\ (left # <<>> <=> pc = "sending") /\ pc \in {"done", "sending"}
  BY <1>2, Beginning
<1>4. pc = (IF len = 0 THEN "done" ELSE "sending") /\ left = SubSeq(array, 1, len)
  OBVIOUS
<1> HIDE DEF pc, left
<1>5. PostFits(p)
  BY <1>1, <1>3 DEF PostFits, PostRecord
<1>6. /\ p.pc = pc /\ p.slice = <<>> /\ p.left = left
      /\ p.kind = post[e].kind /\ p.sent = post[e].sent
      /\ p.kept = post[e].kept /\ p.calm = post[e].calm /\ p.barred = post[e].barred
  BY <1>1 DEF PostRecord
<1> HIDE DEF p
<1>7. Ranges(e, p, array, len)
  BY <1>2, <1>4, <1>5, <1>6 DEF Ranges, PostBecomes
<1> QED BY <1>2, <1>7

(* One iteration of the loop.                                              *)
Sends(e, p) ==
  LET x == Head(post[e].left) IN
  /\ PostBecomes(e, p) /\ p.pc \in {"sending", "done"}
  /\ p.left = Tail(post[e].left) /\ (p.pc = "done" <=> p.left = <<>>)
  /\ p.sent = post[e].sent \o (IF CanSend(x.setting, post[e].kind) THEN <<x.id>> ELSE <<>>)
  /\ p.kind = post[e].kind /\ p.slice = post[e].slice
  /\ p.kept = post[e].kept /\ p.calm = post[e].calm /\ p.barred = post[e].barred

LEMMA SendIs ==
  ASSUME PostsOK, NEW e \in Events, SendNext(e)
  PROVE  post[e].pc = "sending" /\ post[e].left # <<>> /\ \E p : Sends(e, p)
<1>1. PostFits(post[e]) /\ post[e] \in PostRecord /\ post[e].pc = "sending"
        /\ post[e].left # <<>> /\ post[e].left \in Seq(Sender) /\ post[e].sent \in Seq(Ids)
  BY PostPlaces DEF SendNext, PostFits
<1> DEFINE x    == Head(post[e].left)
           left == Tail(post[e].left)
           pc   == IF left = <<>> THEN "done" ELSE "sending"
           sent == post[e].sent \o (IF CanSend(x.setting, post[e].kind) THEN <<x.id>> ELSE <<>>)
           p    == [post[e] EXCEPT !.pc = pc, !.left = left, !.sent = sent]
<1>2. post' = [post EXCEPT ![e] = p]
  BY DEF SendNext
<1>3. left \in Seq(Sender) /\ x.id \in Ids
  BY <1>1, Taken DEF Sender
<1>4. sent \in Seq(Ids)
  <2>1. post[e].sent \o <<x.id>> \in Seq(Ids) /\ post[e].sent \o <<>> = post[e].sent
    BY <1>1, <1>3, SentOn
  <2> HIDE DEF x
  <2> QED BY <1>1, <2>1
<1>5. pc \in {"sending", "done"} /\ (pc = "done" <=> left = <<>>)
  OBVIOUS
<1>6. left = Tail(post[e].left)
        /\ sent = post[e].sent \o (IF CanSend(Head(post[e].left).setting, post[e].kind)
                                     THEN <<Head(post[e].left).id>> ELSE <<>>)
  OBVIOUS
<1> HIDE DEF x, left, pc, sent
<1>7. PostFits(p)
  BY <1>1, <1>3, <1>4, <1>5 DEF PostFits, PostRecord
<1>8. /\ p.pc = pc /\ p.left = left /\ p.sent = sent
      /\ p.kind = post[e].kind /\ p.slice = post[e].slice
      /\ p.kept = post[e].kept /\ p.calm = post[e].calm /\ p.barred = post[e].barred
  BY <1>1 DEF PostRecord
<1> HIDE DEF p
<1>9. Sends(e, p)
  BY <1>2, <1>5, <1>6, <1>7, <1>8 DEF Sends, PostBecomes
<1> QED BY <1>1, <1>9

-----------------------------------------------------------------------------
(* Types.                                                                  *)

(* A goroutine that begins to send, or whose panic ends the process.       *)
LEMMA StartSendingIs ==
  ASSUME TypeInv, NEW e \in Events, StartSending(e)
  PROVE  /\ post[e].pc = "half"
         /\ \/ RangeOver(e, post[e].slice, Len(senders))
            \/ RangeOver(e, senders, Len(post[e].slice))
            \/ Started
         /\ post[e].slice \in Seq(Sender) /\ senders \in Seq(Sender)
         /\ Len(senders) \in Nat /\ Len(post[e].slice) \in Nat
<1>1. post[e].slice \in Seq(Sender) /\ senders \in Seq(Sender)
  BY PostPlaces DEF TypeInv, TableOK
<1> QED BY <1>1, LenProperties DEF StartSending

LEMMA GoroutineKeepsTypes ==
  ASSUME TypeInv, NEW e \in Events, Goroutine(e)
  PROVE  PostsOK'
<1>0. PostsOK
  BY DEF TypeInv
<1>1. CASE LoadSenders(e)
  BY <1>0, <1>1, LoadIs, OnePostChanges DEF Loads
<1>2. CASE StartSending(e)
  <2>1. ASSUME NEW array \in Seq(Sender), NEW len \in Nat, RangeOver(e, array, len)
        PROVE  PostsOK'
    BY <1>0, <2>1, RangeIs, OnePostChanges DEF Ranges
  <2>2. CASE Started
    BY <1>0, <2>2, StartedIs
  <2> QED BY <1>2, <2>1, <2>2, StartSendingIs
<1>3. CASE SendNext(e)
  BY <1>0, <1>3, SendIs, OnePostChanges DEF Sends
<1> QED BY <1>1, <1>2, <1>3 DEF Goroutine

LEMMA NextPostsOK ==
  ASSUME TypeInv, [Next]_vars
  PROVE  PostsOK'
<1>0. PostsOK /\ TableOK
  BY DEF TypeInv
<1>1. CASE UNCHANGED post
  BY <1>0, <1>1 DEF PostsOK
<1>2. CASE UNCHANGED vars
  BY <1>1, <1>2 DEF vars
<1>3. ASSUME NEW a \in Admins, Store(a) \/ Update(a) \/ Delete(a) PROVE PostsOK'
  <2>1. PICK t, ids, deleted : Change(a, t, ids, deleted)
    BY <1>0, <1>3, ChangesAreSensible
  <2>2. post' = Disturbed(ids, deleted)
    BY <2>1 DEF Change
  <2> QED BY <1>0, <2>2, DisturbedIs
<1>4. ASSUME NEW a \in Admins, ResetSenders(a) \/ List(a) \/ AppendReads(a) \/ AppendWrites(a)
      PROVE  PostsOK'
  BY <1>1, <1>4 DEF ResetSenders, List, AppendReads, AppendWrites
<1>5. ASSUME NEW e \in Events, Report(e) PROVE PostsOK'
  BY <1>0, <1>5, ReportIs, OnePostChanges DEF Reported
<1>6. ASSUME NEW e \in Events, Goroutine(e) PROVE PostsOK'
  BY <1>6, GoroutineKeepsTypes
<1>7. CASE Restart
  BY <1>0, <1>7, StartedIs DEF Restart
<1> QED BY <1>2, <1>3, <1>4, <1>5, <1>6, <1>7 DEF Next, HandleAdmin

LEMMA NextAdminsOK ==
  ASSUME TypeInv, [Next]_vars
  PROVE  AdminsOK'
<1>0. AdminsOK /\ TableOK /\ senders \in Seq(Sender)
  BY DEF TypeInv, TableOK
<1>1. CASE UNCHANGED admin
  BY <1>0, <1>1 DEF AdminsOK
<1>2. CASE admin' = [a \in Admins |-> IdleAdmin]
  BY <1>2, IdleAdminFits DEF AdminsOK
<1>3. ASSUME NEW a \in Admins, NEW q, AdminBecomes(a, q) PROVE AdminsOK'
  BY <1>0, <1>3, OneAdminChanges
<1>4. ASSUME NEW a \in Admins, Answered(a) PROVE AdminsOK'
  BY <1>3, <1>4, IdleAdminFits DEF Answered, AdminBecomes
<1>5. CASE UNCHANGED vars
  BY <1>1, <1>5 DEF vars
<1>6. ASSUME NEW a \in Admins, Store(a) \/ Update(a) \/ Delete(a) PROVE AdminsOK'
  <2>1. PICK t, ids, deleted : Change(a, t, ids, deleted) /\ Sensible(t, ids, deleted)
    BY <1>0, <1>6, ChangesAreSensible
  <2>2. deleted \in SUBSET Ids /\ admin[a].pc = "idle"
    BY <2>1 DEF Change, Sensible
  <2>3. CASE admin' = [admin EXCEPT ![a] = [admin[a] EXCEPT !.pc = "reset", !.deleting = deleted]]
    BY <1>0, <1>3, <2>2, <2>3, AdminMoves DEF AdminBecomes
  <2> QED BY <1>1, <2>1, <2>3 DEF Change
<1>7. ASSUME NEW a \in Admins, ResetSenders(a) PROVE AdminsOK'
  <2>1. admin[a].pc = "reset" /\ admin' = [admin EXCEPT ![a] = [admin[a] EXCEPT !.pc = "list"]]
    BY <1>7 DEF ResetSenders
  <2> QED BY <1>0, <1>3, <2>1, AdminMoves DEF AdminBecomes
<1>8. ASSUME NEW a \in Admins, List(a) PROVE AdminsOK'
  <2>1. CASE \E todo \in SetToSeqs(Registered) :
               Registered # {} /\
               admin' = [admin EXCEPT ![a] = [admin[a] EXCEPT !.pc = "read", !.todo = todo]]
    <3>1. PICK todo \in SetToSeqs(Registered) :
            Registered # {} /\
            admin' = [admin EXCEPT ![a] = [admin[a] EXCEPT !.pc = "read", !.todo = todo]]
      BY <2>1
    <3>2. todo \in Seq(Sender) \ {<<>>} /\ admin[a].pc = "list"
      BY <1>8, <3>1, Listed DEF List
    <3> QED BY <1>0, <1>3, <3>1, <3>2, AdminMoves DEF AdminBecomes
  <2>2. CASE admin' = [admin EXCEPT ![a] = IdleAdmin]
    BY <1>3, <2>2, IdleAdminFits DEF AdminBecomes
  <2> QED BY <1>4, <1>8, <2>1, <2>2 DEF List
<1>9. ASSUME NEW a \in Admins, AppendReads(a) PROVE AdminsOK'
  <2>1. admin[a].pc = "read"
          /\ admin' = [admin EXCEPT ![a] = [admin[a] EXCEPT !.pc = "write", !.slice = senders]]
    BY <1>9 DEF AppendReads
  <2> QED BY <1>0, <1>3, <2>1, AdminMoves DEF AdminBecomes
<1>10. ASSUME NEW a \in Admins, AppendWrites(a) PROVE AdminsOK'
  <2>1. CASE Len(admin[a].todo) # 1
    <3>1. admin[a].pc = "write"
            /\ admin' = [admin EXCEPT ![a] =
                 [admin[a] EXCEPT !.pc = "read", !.todo = Tail(admin[a].todo), !.slice = <<>>]]
      BY <1>10, <2>1 DEF AppendWrites
    <3> QED BY <1>0, <1>3, <2>1, <3>1, AdminMoves DEF AdminBecomes
  <2> QED BY <1>4, <1>10, <2>1 DEF AppendWrites
<1>11. ASSUME NEW e \in Events, Report(e) \/ Goroutine(e) PROVE AdminsOK'
  BY <1>1, <1>2, <1>11 DEF Report, Goroutine, LoadSenders, StartSending, RangeOver,
                          SendNext, Started
<1>12. CASE Restart
  BY <1>2, <1>12 DEF Restart, Started
<1> QED BY <1>5, <1>6, <1>7, <1>8, <1>9, <1>10, <1>11, <1>12 DEF Next, HandleAdmin

LEMMA NextTableOK ==
  ASSUME TypeInv, [Next]_vars
  PROVE  TableOK'
<1>0. AdminsOK /\ TableOK /\ MaxChanges \in Nat
  BY ConstantsAssumption DEF TypeInv
<1>1. /\ table \in [Ids -> Settings \cup {NoSetting}] /\ senders \in Seq(Sender)
      /\ gone \subseteq Ids /\ stale \in BOOLEAN /\ changes \in 0..MaxChanges
  BY <1>0 DEF TableOK
<1>2. CASE UNCHANGED <<table, senders, gone, stale, changes>>
  BY <1>0, <1>2 DEF TableOK
<1>3. CASE UNCHANGED vars
  BY <1>2, <1>3 DEF vars
<1>4. CASE Started
  <2>1. senders' \in Seq(Sender)
    BY <1>4, Listed, EmptyIs DEF Started
  <2>2. stale' \in BOOLEAN /\ UNCHANGED <<table, gone, changes>>
    BY <1>4 DEF Started
  <2> QED BY <1>1, <2>1, <2>2 DEF TableOK
<1>5. ASSUME NEW a \in Admins, Store(a) \/ Update(a) \/ Delete(a) PROVE TableOK'
  <2>1. PICK t, ids, deleted : Change(a, t, ids, deleted) /\ Sensible(t, ids, deleted)
    BY <1>0, <1>5, ChangesAreSensible
  <2>2. changes < MaxChanges /\ changes' = changes + 1 /\ UNCHANGED senders
    BY <2>1 DEF Change
  <2>3. changes' \in 0..MaxChanges
    BY <1>0, <1>1, <2>2
  <2>4. table' \in {table, t} /\ gone' \in {gone, gone \ ids} /\ stale' \in {stale, TRUE}
    BY <2>1 DEF Change
  <2> QED BY <1>1, <2>1, <2>2, <2>3, <2>4 DEF Sensible, TableOK
<1>6. ASSUME NEW a \in Admins, ResetSenders(a) \/ AppendReads(a) PROVE TableOK'
  BY <1>1, <1>6, EmptyIs DEF ResetSenders, AppendReads, TableOK
<1>7. ASSUME NEW a \in Admins, List(a) PROVE TableOK'
  <2>1. UNCHANGED <<table, senders, changes>> /\ gone' \in {gone, gone \cup admin[a].deleting}
          /\ stale' \in {stale, TRUE, FALSE}
    BY <1>7 DEF List, Answered
  <2>2. admin[a].deleting \subseteq Ids
    BY <1>0, AdminPlaces
  <2> QED BY <1>1, <2>1, <2>2 DEF TableOK
<1>8. ASSUME NEW a \in Admins, AppendWrites(a) PROVE TableOK'
  <2>1. UNCHANGED <<table, changes>> /\ gone' \in {gone, gone \cup admin[a].deleting}
          /\ stale' \in {stale, FALSE}
          /\ senders' = Append(admin[a].slice, Head(admin[a].todo)) /\ admin[a].pc = "write"
    BY <1>8 DEF AppendWrites, Answered
  <2>2. admin[a].deleting \subseteq Ids /\ admin[a].slice \in Seq(Sender)
          /\ admin[a].todo \in Seq(Sender) /\ AdminFits(admin[a])
    BY <1>0, AdminPlaces
  <2>3. Head(admin[a].todo) \in Sender
    BY <2>1, <2>2, Taken DEF AdminFits
  <2>4. senders' \in Seq(Sender)
    BY <2>1, <2>2, <2>3, Appended
  <2> QED BY <1>1, <2>1, <2>2, <2>4 DEF TableOK
<1>9. ASSUME NEW e \in Events, Report(e) \/ Goroutine(e) PROVE TableOK'
  BY <1>2, <1>4, <1>9 DEF Report, Goroutine, LoadSenders, StartSending, RangeOver, SendNext
<1>10. CASE Restart
  BY <1>4, <1>10 DEF Restart
<1> QED BY <1>3, <1>5, <1>6, <1>7, <1>8, <1>9, <1>10 DEF Next, HandleAdmin

LEMMA NewPostFits == PostFits(NewPost) /\ NewPost.pc = "unreported"
<1> DEFINE kind == CHOOSE k \in Kinds : TRUE
<1>1. kind \in Kinds /\ <<>> \in Seq(Sender) /\ <<>> \in Seq(Ids)
  BY ConstantsAssumption, EmptyIs
<1>2. NewPost = [pc |-> "unreported", kind |-> kind, slice |-> <<>>, left |-> <<>>,
                 sent |-> <<>>, kept |-> {}, calm |-> TRUE, barred |-> {}]
  BY DEF NewPost
<1> HIDE DEF kind
<1> QED BY <1>1, <1>2 DEF PostFits, PostRecord

LEMMA InitTypeInv ==
  ASSUME Init PROVE TypeInv
<1>1. TableOK
  <2>1. 0 \in 0..MaxChanges /\ <<>> \in Seq(Sender)
    BY ConstantsAssumption, EmptyIs
  <2> QED BY <2>1 DEF Init, TableOK
<1>2. AdminsOK
  BY IdleAdminFits DEF Init, AdminsOK
<1>3. PostsOK
  BY NewPostFits DEF Init, PostsOK
<1> QED BY <1>1, <1>2, <1>3 DEF TypeInv

LEMMA TypesAreOK ==
  ASSUME TypeInv PROVE TypeOK
<1>1. TableOK /\ AdminsOK /\ PostsOK
  BY DEF TypeInv
<1>2. \A a \in Admins : AdminFits(admin[a])
  BY <1>1 DEF AdminsOK
<1>3. \A e \in Events : PostFits(post[e])
  BY <1>1 DEF PostsOK
<1> QED BY <1>1, <1>2, <1>3 DEF TableOK, AdminFits, AdminRecord, PostFits, PostRecord, TypeOK

LEMMA TypeInvariance == Spec => []TypeInv
<1>1. TypeInv /\ [Next]_vars => TypeInv'
  BY NextTableOK, NextAdminsOK, NextPostsOK DEF TypeInv
<1> QED BY <1>1, InitTypeInv, PTL DEF Spec

(* Types of the state: the table, the slice of senders, the handlers of    *)
(* notification/service.go and the goroutines that send, for any number of *)
(* each; and which parts of it a step of a handler or goroutine uses.      *)
THEOREM TypeCorrect == Spec => []TypeOK
BY TypeInvariance, TypesAreOK, PTL

-----------------------------------------------------------------------------
(* The senders are those of the table.                                     *)

(* A handler that has to do with notifications, and its step.              *)
AtWork(a) == ResetSenders(a) \/ List(a) \/ AppendReads(a) \/ AppendWrites(a)

LEMMA SameTable ==
  ASSUME UNCHANGED table
  PROVE  Registered' = Registered /\ Rows' = Rows /\ \A kind : Takers(kind)' = Takers(kind)
BY DEF Registered, Rows, Takers

LEMMA NothingSent ==
  ASSUME SendersOK, UNCHANGED <<table, senders, admin, stale>>
  PROVE  SendersOK'
<1>1. Registered' = Registered
  BY SameTable
<1>2. AllIdle' = AllIdle /\ \A a \in Admins : Filling(a)' <=> Filling(a)
  BY <1>1 DEF AllIdle, Filling
<1> QED BY <1>1, <1>2 DEF SendersOK

LEMMA StartedSenders ==
  ASSUME Started
  PROVE  /\ SendersOK' /\ Elems(senders') \subseteq Registered
         /\ \A a \in Admins : admin'[a] = IdleAdmin
<1>1. \A a \in Admins : admin'[a] = IdleAdmin /\ admin'[a].pc = "idle"
  BY IdleAdminFits DEF Started
<1>2. \A a \in Admins : Filling(a)'
  BY <1>1 DEF Filling
<1>3. Registered' = Registered
  BY SameTable DEF Started
<1>4. CASE \E list \in SetToSeqs(Registered) : senders' = list
  <2>1. Apart(senders') /\ Elems(senders') = Registered
    BY <1>4, Listed
  <2> QED BY <1>1, <1>2, <1>3, <2>1 DEF SendersOK
<1>5. CASE senders' = <<>> /\ stale'
  BY <1>1, <1>2, <1>5, EmptyIs DEF SendersOK
<1> QED BY <1>4, <1>5 DEF Started

(* The last or a middle step of an append.                                 *)
LEMMA AppendingIs ==
  ASSUME TypeInv, SendersOK, NEW a \in Admins, AppendWrites(a)
  PROVE  LET x == Head(admin[a].todo) t == Tail(admin[a].todo) IN
         /\ senders \in Seq(Sender) /\ x \in Registered /\ x \in Sender
         /\ senders' = Append(senders, x)
         /\ Apart(senders') /\ Elems(senders') \cup Elems(t) = Registered
         /\ IdsOf(senders') = IdsOf(senders) \cup {x.id}
         /\ Apart(t) /\ IdsOf(senders') \cap IdsOf(t) = {}
         /\ t = <<>> <=> Len(admin[a].todo) = 1
<1> DEFINE s == admin[a].todo
           x == Head(s)
           t == Tail(s)
<1>1. s \in Seq(Sender) /\ AdminFits(admin[a]) /\ senders \in Seq(Sender)
  BY AdminPlaces DEF TypeInv, TableOK
<1>2. admin[a].pc = "write" /\ senders' = Append(admin[a].slice, x)
  BY DEF AppendWrites
<1>3. s # <<>>
  BY <1>1, <1>2 DEF AdminFits
<1>4. /\ Apart(s) /\ IdsOf(senders) \cap IdsOf(s) = {} /\ Elems(senders) \cup Elems(s) = Registered
      /\ admin[a].slice = senders /\ Apart(senders)
  BY <1>2 DEF SendersOK, Filling
<1> HIDE DEF s
<1>5. /\ x \in Sender /\ t \in Seq(Sender) /\ Elems(s) = {x} \cup Elems(t)
      /\ IdsOf(s) = {x.id} \cup IdsOf(t) /\ Apart(t) /\ x.id \notin IdsOf(t)
      /\ t = <<>> <=> Len(s) = 1
  BY <1>1, <1>3, <1>4, Taken
<1> HIDE DEF x, t
<1>6. x.id \notin IdsOf(senders)
  BY <1>4, <1>5
<1>7. senders' = Append(senders, x)
  BY <1>2, <1>4
<1>8. /\ Elems(senders') = Elems(senders) \cup {x} /\ IdsOf(senders') = IdsOf(senders) \cup {x.id}
      /\ Apart(senders')
  BY <1>1, <1>4, <1>5, <1>6, <1>7, Appended
<1>9. x \in Registered /\ Elems(senders') \cup Elems(t) = Registered
  BY <1>4, <1>5, <1>8
<1>10. IdsOf(senders') \cap IdsOf(t) = {}
  BY <1>4, <1>5, <1>8
<1> QED BY <1>1, <1>5, <1>7, <1>8, <1>9, <1>10 DEF s, x, t

LEMMA WorkKeepsSenders ==
  ASSUME OneAdmin, TypeInv, SendersOK, NEW a \in Admins, AtWork(a)
  PROVE  SendersOK'
<1>0. AdminsOK /\ AdminFits(admin[a]) /\ admin[a] \in AdminRecord /\ \A b \in Admins : b = a
  BY AdminPlaces DEF TypeInv, OneAdmin
<1>1. UNCHANGED table /\ Registered' = Registered
  BY SameTable DEF AtWork, ResetSenders, List, AppendReads, AppendWrites
<1>2. ASSUME NEW q, admin' = [admin EXCEPT ![a] = q]
      PROVE  \A b \in Admins : admin'[b] = q
  BY <1>0, <1>2 DEF AdminsOK
<1>3. ASSUME admin' = [admin EXCEPT ![a] = IdleAdmin], Apart(senders'),
             ~stale' => Elems(senders') = Registered
      PROVE  SendersOK'
  <2>1. \A b \in Admins : admin'[b].pc = "idle"
    BY <1>2, <1>3, IdleAdminFits
  <2> QED BY <1>1, <1>3, <2>1 DEF SendersOK, Filling
<1>4. CASE ResetSenders(a)
  <2>1. admin' = [admin EXCEPT ![a] = [admin[a] EXCEPT !.pc = "list"]] /\ senders' = <<>>
    BY <1>4 DEF ResetSenders
  <2>2. \A b \in Admins : admin'[b].pc = "list"
    <3>1. \A b \in Admins : admin'[b] = [admin[a] EXCEPT !.pc = "list"]
      BY <1>2, <2>1
    <3> QED BY <1>0, <3>1 DEF AdminRecord
  <2> QED BY <2>1, <2>2, EmptyIs DEF SendersOK, Filling, AllIdle
<1>5. CASE List(a)
  <2>1. senders = <<>> /\ UNCHANGED senders
    BY <1>5 DEF List, SendersOK, Filling
  <2>2. CASE \E todo \in SetToSeqs(Registered) :
               admin' = [admin EXCEPT ![a] = [admin[a] EXCEPT !.pc = "read", !.todo = todo]]
    <3>1. PICK todo \in SetToSeqs(Registered) :
            admin' = [admin EXCEPT ![a] = [admin[a] EXCEPT !.pc = "read", !.todo = todo]]
      BY <2>2
    <3>2. \A b \in Admins : admin'[b].pc = "read" /\ admin'[b].todo = todo
      <4>1. \A b \in Admins : admin'[b] = [admin[a] EXCEPT !.pc = "read", !.todo = todo]
        BY <1>2, <3>1
      <4> QED BY <1>0, <4>1 DEF AdminRecord
    <3>3. Apart(todo) /\ Elems(todo) = Registered
      BY Listed
    <3> QED BY <1>1, <2>1, <3>2, <3>3, EmptyIs DEF SendersOK, Filling, AllIdle
  <2>3. CASE admin' = [admin EXCEPT ![a] = IdleAdmin] /\ (Registered = {} \/ stale')
    BY <1>3, <2>1, <2>3, EmptyIs
  <2> QED BY <1>5, <2>2, <2>3 DEF List, Answered
<1>6. CASE AppendReads(a)
  <2>1. admin' = [admin EXCEPT ![a] = [admin[a] EXCEPT !.pc = "write", !.slice = senders]]
          /\ UNCHANGED senders /\ admin[a].pc = "read"
    BY <1>6 DEF AppendReads
  <2>2. \A b \in Admins :
          admin'[b].pc = "write" /\ admin'[b].todo = admin[a].todo /\ admin'[b].slice = senders
    <3>1. \A b \in Admins : admin'[b] = [admin[a] EXCEPT !.pc = "write", !.slice = senders]
      BY <1>2, <2>1
    <3> QED BY <1>0, <3>1 DEF AdminRecord
  <2>3. Filling(a)
    BY DEF SendersOK
  <2> QED BY <1>1, <2>1, <2>2, <2>3 DEF SendersOK, Filling, AllIdle
<1>7. CASE AppendWrites(a)
  <2> DEFINE t == Tail(admin[a].todo)
  <2>1. /\ Apart(senders') /\ Elems(senders') \cup Elems(t) = Registered
        /\ Apart(t) /\ IdsOf(senders') \cap IdsOf(t) = {}
        /\ t = <<>> <=> Len(admin[a].todo) = 1
    BY <1>7, AppendingIs
  <2> HIDE DEF t
  <2>2. CASE Len(admin[a].todo) = 1
    <3>1. admin' = [admin EXCEPT ![a] = IdleAdmin]
      BY <1>7, <2>2 DEF AppendWrites, Answered
    <3> QED BY <1>3, <2>1, <2>2, <3>1, EmptyIs
  <2>3. CASE Len(admin[a].todo) # 1
    <3>1. admin' = [admin EXCEPT ![a] = [admin[a] EXCEPT !.pc = "read", !.todo = t, !.slice = <<>>]]
      BY <1>7, <2>3 DEF AppendWrites, t
    <3>2. \A b \in Admins : admin'[b].pc = "read" /\ admin'[b].todo = t
      <4>1. \A b \in Admins :
              admin'[b] = [admin[a] EXCEPT !.pc = "read", !.todo = t, !.slice = <<>>]
        BY <1>2, <3>1
      <4> QED BY <1>0, <4>1 DEF AdminRecord
    <3> QED BY <1>1, <2>1, <3>2 DEF SendersOK, Filling, AllIdle
  <2> QED BY <2>2, <2>3
<1> QED BY <1>4, <1>5, <1>6, <1>7 DEF AtWork

LEMMA ChangeKeepsSenders ==
  ASSUME OneAdmin, TypeInv, SendersOK, NEW a \in Admins, NEW t, NEW ids, NEW deleted,
         Change(a, t, ids, deleted)
  PROVE  SendersOK'
<1>0. AdminsOK /\ admin[a] \in AdminRecord /\ \A b \in Admins : b = a
  BY AdminPlaces DEF TypeInv, OneAdmin
<1>1. UNCHANGED senders /\ Apart(senders) /\ admin[a].pc = "idle"
  BY DEF Change, SendersOK
<1>2. CASE admin' = [admin EXCEPT ![a] = [admin[a] EXCEPT !.pc = "reset", !.deleting = deleted]]
  <2>1. \A b \in Admins : admin'[b].pc = "reset"
    BY <1>0, <1>2 DEF AdminsOK, AdminRecord
  <2> QED BY <1>1, <2>1 DEF SendersOK, Filling, AllIdle
<1>3. CASE stale' /\ UNCHANGED admin
  <2>1. \A b \in Admins : admin'[b].pc = "idle"
    BY <1>0, <1>1, <1>3
  <2> QED BY <1>1, <1>3, <2>1 DEF SendersOK, Filling
<1>4. CASE UNCHANGED <<table, admin, stale>>
  BY <1>1, <1>4, NothingSent
<1> QED BY <1>2, <1>3, <1>4 DEF Change

LEMMA NextSendersOK ==
  ASSUME OneAdmin, TypeInv, SendersOK, [Next]_vars
  PROVE  SendersOK'
<1>1. CASE UNCHANGED vars
  BY <1>1, NothingSent DEF vars
<1>2. ASSUME NEW a \in Admins, Store(a) \/ Update(a) \/ Delete(a) PROVE SendersOK'
  BY <1>2, ChangesAreSensible, ChangeKeepsSenders DEF TypeInv
<1>3. ASSUME NEW a \in Admins, AtWork(a) PROVE SendersOK'
  BY <1>3, WorkKeepsSenders
<1>4. ASSUME NEW e \in Events, Report(e) \/ Goroutine(e) PROVE SendersOK'
  BY <1>4, NothingSent, StartedSenders
     DEF Report, Goroutine, LoadSenders, StartSending, RangeOver, SendNext
<1>5. CASE Restart
  BY <1>5, StartedSenders DEF Restart
<1> QED BY <1>1, <1>2, <1>3, <1>4, <1>5 DEF Next, HandleAdmin, AtWork

LEMMA InitSendersOK ==
  ASSUME Init PROVE SendersOK
<1>1. Registered = {}
  BY DEF Init, Registered, Rows
<1> QED BY <1>1, IdleAdminFits, EmptyIs DEF Init, SendersOK, Filling

LEMMA SendersInvariance ==
  ASSUME OneAdmin
  PROVE  Spec => []SendersOK
<1>1. TypeInv /\ SendersOK /\ [Next]_vars => SendersOK'
  BY NextSendersOK
<1> QED BY <1>1, InitSendersOK, TypeInvariance, PTL DEF Spec

(* When one client at a time changes notifications, and none does, the     *)
(* service's senders are those that the table calls for, each once         *)
(* (Store, Update, Delete, registerSenders), however often they were       *)
(* changed, unless the last change was not followed by a full reload.      *)
THEOREM SendersFollowTheTable ==
  ASSUME OneAdmin
  PROVE  Spec => []SendersMatchTable
<1>1. SendersOK => SendersMatchTable
  BY DEF SendersOK, SendersMatchTable, AllIdle, Elems, Apart, Once
<1> QED BY <1>1, SendersInvariance, PTL

-----------------------------------------------------------------------------
(* Deleted rows have no sender.                                            *)

(* Hushed after a step, for ids from before it.                            *)
HushedNext(ids) == ids \cap Rows' = {} /\ ids \cap IdsOf(senders') = {}

LEMMA IdsOfElems ==
  ASSUME NEW s \in Seq(Sender), Elems(s) \subseteq Registered
  PROVE  IdsOf(s) \subseteq Rows
BY Places, RegisteredIs

(* No step but a statement brings in senders that have no row.             *)
LEMMA SendersHaveRows ==
  ASSUME TypeInv, SendersOK,
         Started \/ (\E a \in Admins : AtWork(a)) \/ UNCHANGED <<table, senders>>
  PROVE  UNCHANGED table /\ IdsOf(senders') \subseteq IdsOf(senders) \cup Rows
<1>1. CASE UNCHANGED <<table, senders>>
  BY <1>1
<1>2. CASE Started
  <2>1. senders' \in Seq(Sender)
    BY <1>2, Listed, EmptyIs DEF Started
  <2>2. IdsOf(senders') \subseteq Rows
    <3>1. Elems(senders') \subseteq Registered
      BY <1>2, Listed, EmptyIs DEF Started
    <3> QED BY <2>1, <3>1, IdsOfElems
  <2> QED BY <1>2, <2>2 DEF Started
<1>3. ASSUME NEW a \in Admins, AtWork(a)
      PROVE  UNCHANGED table /\ IdsOf(senders') \subseteq IdsOf(senders) \cup Rows
  <2>1. CASE ResetSenders(a)
    BY <2>1, EmptyIs DEF ResetSenders
  <2>2. CASE List(a) \/ AppendReads(a)
    BY <2>2 DEF List, AppendReads
  <2>3. CASE AppendWrites(a)
    <3>1. IdsOf(senders') = IdsOf(senders) \cup {Head(admin[a].todo).id}
            /\ Head(admin[a].todo) \in Registered
      BY <2>3, AppendingIs
    <3>2. UNCHANGED table
      BY <2>3 DEF AppendWrites
    <3> QED BY <3>1, <3>2, RegisteredIs
  <2> QED BY <1>3, <2>1, <2>2, <2>3 DEF AtWork
<1> QED BY <1>1, <1>2, <1>3

LEMMA HushedStays ==
  ASSUME TypeInv, SendersOK,
         Started \/ (\E a \in Admins : AtWork(a)) \/ UNCHANGED <<table, senders>>,
         NEW ids, Hushed(ids)
  PROVE  HushedNext(ids)
<1>1. Rows' = Rows /\ IdsOf(senders') \subseteq IdsOf(senders) \cup Rows
  BY SendersHaveRows, SameTable
<1> QED BY <1>1 DEF Hushed, HushedNext

(* What a statement leaves alone.                                          *)
LEMMA HushedAfterChange ==
  ASSUME NEW a \in Admins, NEW t, NEW ids, NEW deleted,
         Change(a, t, ids, deleted), Sensible(t, ids, deleted)
  PROVE  /\ \A q \in SUBSET Ids : Hushed(q) => HushedNext(q \ (ids \ deleted))
         /\ \A q \in SUBSET Ids : Hushed(q) => HushedNext(q \ ids)
         /\ table' = t => deleted \cap Rows' = {}
<1>1. table' \in {table, t} /\ UNCHANGED senders
  BY DEF Change
<1>2. \A i \in Ids : i \notin ids \ deleted /\ i \notin Rows => i \notin Rows'
  BY <1>1 DEF Sensible, Rows
<1>4. table' = t => deleted \cap Rows' = {}
  BY DEF Sensible, Rows
<1> QED BY <1>1, <1>2, <1>4 DEF Hushed, HushedNext, Sensible

LEMMA NextGoneOK ==
  ASSUME OneAdmin, TypeInv, SendersOK, SendersOK', TypeInv', GoneOK, [Next]_vars
  PROVE  GoneOK'
<1>0. AdminsOK /\ TableOK /\ (senders \in Seq(Sender))'
  BY DEF TypeInv, TableOK
<1>1. ASSUME Started \/ (\E a \in Admins : AtWork(a)) \/ UNCHANGED <<table, senders>>,
             UNCHANGED gone,
             \A a \in Admins : admin'[a].deleting \subseteq admin[a].deleting
      PROVE  GoneOK'
  <2>1. HushedNext(gone)
    BY <1>1, HushedStays DEF GoneOK
  <2>2. Rows' = Rows
    BY <1>1, SendersHaveRows, SameTable
  <2> QED BY <1>1, <2>1, <2>2 DEF GoneOK, Hushed, HushedNext
<1>2. CASE UNCHANGED vars
  BY <1>1, <1>2 DEF vars
<1>3. ASSUME NEW a \in Admins, Store(a) \/ Update(a) \/ Delete(a) PROVE GoneOK'
  <2>1. PICK t, ids, deleted : Change(a, t, ids, deleted) /\ Sensible(t, ids, deleted)
    BY <1>0, <1>3, ChangesAreSensible
  <2>2. HushedNext(gone \ ids) /\ (table' = t => deleted \cap Rows' = {})
    BY <1>0, <2>1, HushedAfterChange DEF GoneOK, TableOK
  <2>3. admin[a] \in AdminRecord /\ admin[a].pc = "idle" /\ \A b \in Admins : b = a
    BY <1>0, <2>1, AdminPlaces DEF Change, OneAdmin
  <2>4. CASE /\ table' = t /\ gone' = gone \ ids
             /\ admin' = [admin EXCEPT ![a] = [admin[a] EXCEPT !.pc = "reset", !.deleting = deleted]]
    <3>1. \A b \in Admins : admin'[b].deleting = deleted
      BY <1>0, <2>3, <2>4 DEF AdminsOK, AdminRecord
    <3> QED BY <2>2, <2>4, <3>1 DEF GoneOK, Hushed, HushedNext
  <2>5. CASE table' = t /\ gone' = gone \ ids /\ UNCHANGED admin
    <3>1. admin[a].deleting = {}
      BY <1>0, <2>3, AdminPlaces DEF AdminFits
    <3> QED BY <2>2, <2>3, <2>5, <3>1 DEF GoneOK, Hushed, HushedNext
  <2>6. CASE UNCHANGED <<table, admin, gone>>
    <3>1. UNCHANGED senders
      BY <2>1 DEF Change
    <3> QED BY <1>1, <2>6, <3>1
  <2> QED BY <2>1, <2>4, <2>5, <2>6 DEF Change
<1>4. ASSUME NEW a \in Admins, AtWork(a) PROVE GoneOK'
  <2>0. admin[a] \in AdminRecord /\ \A b \in Admins : b = a
    BY <1>0, AdminPlaces DEF OneAdmin
  <2>1. HushedNext(gone) /\ Rows' = Rows
    BY <1>4, HushedStays, SendersHaveRows, SameTable DEF GoneOK
  <2>2. CASE Answered(a)
    <3>1. \A b \in Admins : admin'[b] = IdleAdmin
      BY <1>0, <2>0, <2>2 DEF Answered, AdminsOK
    <3>2. AllIdle' /\ ~stale' /\ \A b \in Admins : admin'[b].deleting = {}
      BY <2>2, <3>1, IdleAdminFits DEF AllIdle, Answered
    <3>3. IdsOf(senders') \subseteq Rows'
      <4>1. (Elems(senders) \subseteq Registered)'
        BY <3>2 DEF SendersOK
      <4>2. Registered' = Registered
        BY <1>4, SendersHaveRows, SameTable
      <4> QED BY <1>0, <2>1, <4>1, <4>2, IdsOfElems
    <3>4. admin[a].deleting \cap Rows' = {}
      BY <2>1 DEF GoneOK
    <3>5. gone' = gone \cup admin[a].deleting
      BY <2>2 DEF Answered
    <3>6. gone' \cap Rows' = {} /\ gone' \cap IdsOf(senders') = {}
      BY <2>1, <3>3, <3>4, <3>5 DEF HushedNext
    <3> QED BY <3>2, <3>6 DEF GoneOK, Hushed
  <2>3. CASE ~Answered(a)
    <3>1. UNCHANGED gone
      BY <1>4, <2>3 DEF AtWork, ResetSenders, List, AppendReads, AppendWrites
    <3>2. admin'[a].deleting \subseteq admin[a].deleting
      <4>1. CASE admin' = [admin EXCEPT ![a] = IdleAdmin]
        BY <1>0, <4>1, IdleAdminFits DEF AdminsOK
      <4>2. CASE admin' # [admin EXCEPT ![a] = IdleAdmin]
        <5>1. DOMAIN admin = Admins
          BY <1>0 DEF AdminsOK
        <5>2. CASE ResetSenders(a)
          BY <2>0, <5>1, <5>2 DEF ResetSenders, AdminRecord
        <5>3. CASE List(a)
          BY <2>0, <2>3, <4>2, <5>1, <5>3 DEF List, AdminRecord
        <5>4. CASE AppendReads(a)
          BY <2>0, <5>1, <5>4 DEF AppendReads, AdminRecord
        <5>5. CASE AppendWrites(a)
          BY <2>0, <2>3, <5>1, <5>5 DEF AppendWrites, AdminRecord
        <5> QED BY <1>4, <5>2, <5>3, <5>4, <5>5 DEF AtWork
      <4> QED BY <4>1, <4>2
    <3> QED BY <1>1, <1>4, <2>0, <3>1, <3>2
  <2> QED BY <2>2, <2>3
<1>5. ASSUME NEW e \in Events, Report(e) \/ Goroutine(e), ~Started PROVE GoneOK'
  BY <1>1, <1>5 DEF Report, Goroutine, LoadSenders, StartSending, RangeOver, SendNext
<1>6. CASE Started
  <2>1. UNCHANGED gone /\ \A a \in Admins : admin'[a].deleting = {}
    BY <1>6, IdleAdminFits DEF Started
  <2> QED BY <1>1, <1>6, <2>1
<1> QED BY <1>2, <1>3, <1>4, <1>5, <1>6 DEF Next, HandleAdmin, AtWork, Restart

-----------------------------------------------------------------------------
(* What events are sent.                                                   *)

LEMMA TakersAre ==
  ASSUME NEW s \in Seq(Sender), NEW kind
  PROVE  /\ TakersOf(<<>>, kind) = {}
         /\ Elems(s) = Registered => TakersOf(s, kind) = Takers(kind)
         /\ s # <<>> =>
              TakersOf(s, kind) =
                TakersOf(Tail(s), kind) \cup
                  (IF CanSend(Head(s).setting, kind) THEN {Head(s).id} ELSE {})
<1>1. TakersOf(<<>>, kind) = {}
  BY EmptyIs DEF TakersOf
<1>2. Elems(s) = Registered => TakersOf(s, kind) = Takers(kind)
  BY DEF TakersOf, Takers
<1>3. ASSUME s # <<>>
      PROVE  TakersOf(s, kind) = TakersOf(Tail(s), kind) \cup
                (IF CanSend(Head(s).setting, kind) THEN {Head(s).id} ELSE {})
  <2>1. Elems(s) = {Head(s)} \cup Elems(Tail(s))
    BY <1>3, Taken
  <2> QED BY <2>1 DEF TakersOf
<1> QED BY <1>1, <1>2, <1>3

(* A step that this event does not see.                                    *)
LEMMA EventUnseen ==
  ASSUME NEW e \in Events, EventOK(e), post'[e] = post[e],
         UNCHANGED <<table, senders, admin, stale>>
  PROVE  EventOK(e)'
<1>1. Rows' = Rows /\ AllIdle' = AllIdle /\ \A kind : Takers(kind)' = Takers(kind)
  BY SameTable DEF AllIdle
<1>2. NoneTwice(post'[e])
  BY DEF EventOK
<1>3. CalmOK(post[e])'
  BY <1>1 DEF EventOK, CalmOK
<1>4. Barred(post[e])'
  BY <1>1 DEF EventOK, Barred, Hushed
<1> QED BY <1>2, <1>3, <1>4 DEF EventOK

LEMMA EventBesideWork ==
  ASSUME TypeInv, SendersOK, NEW a \in Admins, AtWork(a), NEW e \in Events, EventOK(e)
  PROVE  EventOK(e)'
<1>1. post'[e] = post[e] /\ admin[a].pc # "idle"
  BY DEF AtWork, ResetSenders, List, AppendReads, AppendWrites
<1>2. ~(post[e].calm /\ post[e].pc \in {"spawned", "half"})
  BY <1>1 DEF EventOK, CalmOK, AllIdle
<1>3. NoneTwice(post'[e])
  BY <1>1 DEF EventOK
<1>4. CalmOK(post[e])'
  BY <1>1, <1>2 DEF EventOK, CalmOK
<1>5. post[e].pc \in {"spawned", "half"} => HushedNext(post[e].barred)
  BY HushedStays DEF EventOK, Barred
<1>6. Barred(post[e])'
  BY <1>1, <1>5 DEF EventOK, Barred, Hushed, HushedNext
<1> QED BY <1>3, <1>4, <1>6 DEF EventOK

LEMMA EventBesideChange ==
  ASSUME TypeInv, NEW a \in Admins, Store(a) \/ Update(a) \/ Delete(a),
         NEW e \in Events, EventOK(e)
  PROVE  EventOK(e)'
<1>0. TableOK /\ PostsOK
  BY DEF TypeInv
<1>1. PICK t, ids, deleted : Change(a, t, ids, deleted) /\ Sensible(t, ids, deleted)
  BY <1>0, ChangesAreSensible
<1>2. Notices(post[e], post'[e], ids, deleted)
  <2>1. post' = Disturbed(ids, deleted)
    BY <1>1 DEF Change
  <2> QED BY <1>0, <2>1, DisturbedIs
<1>3. NoneTwice(post'[e])
  BY <1>2 DEF EventOK, NoneTwice, Notices
<1>4. CalmOK(post[e])'
  BY <1>2 DEF EventOK, CalmOK, Notices
<1>5. Barred(post[e])'
  <2>1. CASE post[e].pc \in {"spawned", "half"}
    <3>1. post[e].barred \in SUBSET Ids /\ Hushed(post[e].barred)
      BY <1>0, <2>1, PostPlaces DEF EventOK, Barred
    <3>2. HushedNext(post[e].barred \ (ids \ deleted))
      BY <1>1, <3>1, HushedAfterChange
    <3>3. /\ post'[e].barred = post[e].barred \ (ids \ deleted)
          /\ post'[e].slice = post[e].slice /\ post'[e].left = post[e].left
          /\ post'[e].sent = post[e].sent
      BY <1>2, <2>1 DEF Notices
    <3> QED BY <3>2, <3>3 DEF EventOK, Barred, Hushed, HushedNext
  <2>2. CASE post[e].pc \notin {"spawned", "half"}
    <3>1. post'[e] = post[e]
      BY <1>2, <2>2 DEF Notices
    <3> QED BY <2>2, <3>1 DEF EventOK, Barred
  <2> QED BY <2>1, <2>2
<1> QED BY <1>3, <1>4, <1>5 DEF EventOK

LEMMA EventAtTheEnd ==
  ASSUME TypeInv, Started, NEW e \in Events, EventOK(e)
  PROVE  EventOK(e)'
<1>1. EndsWith(post[e], post'[e])
  BY StartedIs DEF TypeInv
<1>2. NoneTwice(post'[e])
  BY <1>1, EmptyIs DEF EventOK, NoneTwice, EndsWith
<1>3. CalmOK(post[e])'
  BY <1>1 DEF EventOK, CalmOK, EndsWith
<1>4. Barred(post[e])'
  BY <1>1, EmptyIs DEF EventOK, Barred, EndsWith
<1> QED BY <1>2, <1>3, <1>4 DEF EventOK

LEMMA EventIsReported ==
  ASSUME TypeInv, GoneOK, NEW e \in Events, Report(e), EventOK(e)
  PROVE  EventOK(e)'
<1>1. PICK p : Reported(e, p) /\ post[e].pc = "unreported"
  BY ReportIs
<1>2. post'[e] = p
  BY <1>1, OnePostChanges DEF Reported, TypeInv
<1>3. post[e].slice = <<>> /\ post[e].left = <<>> /\ post[e].sent = <<>>
  BY <1>1, PostPlaces DEF EventOK, CalmOK, PostFits, TypeInv
<1>4. p.slice = <<>> /\ p.left = <<>> /\ p.sent = <<>> /\ p.pc \in {"refused", "spawned"}
  BY <1>1, <1>3 DEF Reported
<1>5. UNCHANGED <<table, senders, admin, stale>>
  BY DEF Report
<1>6. Rows' = Rows /\ AllIdle' = AllIdle /\ Takers(p.kind)' = Takers(p'.kind)
  BY <1>5, SameTable DEF AllIdle, Takers, Registered, Rows
<1>7. NoneTwice(post'[e])
  BY <1>2, <1>4, EmptyIs DEF NoneTwice
<1>8. CalmOK(post[e])'
  <2>1. p.pc = "spawned" => p.kept = Takers(p.kind) /\ (p.calm <=> ~stale /\ AllIdle)
    BY <1>1, <1>4 DEF Reported
  <2>2. Takers(post[e].kind)' = Takers(p.kind)
    BY <1>2, <1>5 DEF Takers, Registered, Rows
  <2> QED BY <1>2, <1>4, <1>5, <1>6, <2>1, <2>2 DEF CalmOK
<1>9. Barred(post[e])'
  <2>1. p.pc = "spawned" => p.barred = gone
    BY <1>1 DEF Reported
  <2>2. Hushed(gone)
    BY DEF GoneOK
  <2> QED BY <1>2, <1>4, <1>5, <1>6, <2>1, <2>2, EmptyIs DEF Barred, Hushed
<1> QED BY <1>7, <1>8, <1>9 DEF EventOK

LEMMA EventIsLoaded ==
  ASSUME TypeInv, SendersOK, NEW e \in Events, LoadSenders(e), EventOK(e)
  PROVE  EventOK(e)'
<1>1. PICK p : Loads(e, p) /\ post[e].pc = "spawned"
  BY LoadIs
<1>2. post'[e] = p
  BY <1>1, OnePostChanges DEF Loads, TypeInv
<1>3. /\ p.pc = "half" /\ p.slice = senders /\ p.kind = post[e].kind /\ p.left = post[e].left
      /\ p.sent = post[e].sent /\ p.kept = post[e].kept /\ p.calm = post[e].calm
      /\ p.barred = post[e].barred
  BY <1>1 DEF Loads
<1>4. UNCHANGED <<table, senders, admin, stale>>
  BY DEF LoadSenders
<1>5. Rows' = Rows /\ AllIdle' = AllIdle
  BY <1>4, SameTable DEF AllIdle
<1>6. NoneTwice(post'[e])
  BY <1>2, <1>3 DEF NoneTwice, EventOK, SendersOK
<1>7. CalmOK(post[e])'
  <2>1. Takers(post[e].kind)' = Takers(post[e].kind)
    BY <1>2, <1>3, <1>4 DEF Takers, Registered, Rows
  <2> QED BY <1>1, <1>2, <1>3, <1>4, <1>5, <2>1 DEF CalmOK, EventOK
<1>8. Barred(post[e])'
  <2>1. Hushed(p.barred) /\ p.barred \cap IdsOf(p.left) = {} /\ p.barred \cap Elems(p.sent) = {}
    BY <1>1, <1>3 DEF EventOK, Barred
  <2> QED BY <1>2, <1>3, <1>4, <1>5, <2>1 DEF Barred, Hushed
<1> QED BY <1>6, <1>7, <1>8 DEF EventOK

LEMMA EventIsRanged ==
  ASSUME TypeInv, SendersOK, NEW e \in Events, StartSending(e), ~Started, EventOK(e)
  PROVE  EventOK(e)'
<1>0. PostsOK /\ post[e].pc = "half" /\ post[e].sent = <<>>
  BY StartSendingIs DEF TypeInv, EventOK, CalmOK
<1>1. PICK array \in {post[e].slice, senders}, len \in {Len(senders), Len(post[e].slice)} :
        RangeOver(e, array, len) /\ array \in Seq(Sender) /\ len \in Nat
  BY StartSendingIs
<1>2. PICK p : Ranges(e, p, array, len) /\ len <= Len(array)
  BY <1>0, <1>1, RangeIs
<1>3. post'[e] = p
  BY <1>0, <1>2, OnePostChanges DEF Ranges
<1>4. /\ p.pc = (IF len = 0 THEN "done" ELSE "sending")
      /\ p.slice = <<>> /\ p.left = SubSeq(array, 1, len) /\ p.kind = post[e].kind
      /\ p.sent = <<>> /\ p.kept = post[e].kept /\ p.calm = post[e].calm
      /\ p.barred = post[e].barred
  BY <1>0, <1>2 DEF Ranges
<1>5. /\ IdsOf(p.left) \subseteq IdsOf(array) /\ (Apart(array) => Apart(p.left))
      /\ (len = Len(array) => p.left = array)
  BY <1>1, <1>2, <1>4, Beginning
<1>6. NoneTwice(post'[e])
  <2>1. Apart(array)
    BY <1>1 DEF EventOK, NoneTwice, SendersOK
  <2> QED BY <1>3, <1>4, <1>5, <2>1, EmptyIs DEF NoneTwice
<1>7. CalmOK(post[e])'
  <2>1. ASSUME p.calm PROVE Elems(p.sent) \cup TakersOf(p.left, p.kind) = p.kept
    <3>1. AllIdle /\ ~stale /\ p.kept = Takers(p.kind) /\ post[e].slice = senders
      BY <1>0, <1>4, <2>1 DEF EventOK, CalmOK
    <3>2. p.left = senders /\ senders \in Seq(Sender)
      BY <1>1, <1>5, <3>1
    <3>3. Elems(senders) = Registered
      BY <3>1 DEF SendersOK
    <3>4. TakersOf(p.left, p.kind) = Takers(p.kind)
      BY <3>2, <3>3, TakersAre
    <3> QED BY <1>4, <3>1, <3>4, EmptyIs
  <2>2. p.pc \in {"sending", "done"}
    BY <1>4
  <2>3. (Elems(p.sent) \cup TakersOf(p.left, p.kind) = p.kept \/ ~p.calm)
    BY <2>1
  <2> QED BY <1>3, <1>4, <2>2, <2>3 DEF CalmOK
<1>8. Barred(post[e])'
  <2>1. p.barred \cap IdsOf(array) = {}
    BY <1>0, <1>1, <1>4 DEF EventOK, Barred, Hushed
  <2>2. p.pc \notin {"spawned", "half"}
    BY <1>4
  <2> QED BY <1>3, <1>4, <1>5, <2>1, <2>2, EmptyIs DEF Barred
<1> QED BY <1>6, <1>7, <1>8 DEF EventOK

LEMMA EventIsSent ==
  ASSUME TypeInv, NEW e \in Events, SendNext(e), EventOK(e)
  PROVE  EventOK(e)'
<1> DEFINE old  == post[e]
           x    == Head(old.left)
           left == Tail(old.left)
<1>0. PostsOK /\ old.pc = "sending" /\ old.left # <<>>
  BY SendIs DEF TypeInv
<1>1. PICK p : Sends(e, p)
  BY <1>0, SendIs
<1>2. post'[e] = p
  BY <1>0, <1>1, OnePostChanges DEF Sends
<1>3. old.left \in Seq(Sender) /\ old.sent \in Seq(Ids)
  BY <1>0, PostPlaces
<1>4. /\ IdsOf(old.left) = {x.id} \cup IdsOf(left) /\ x.id \in Ids
      /\ Apart(old.left) => Apart(left) /\ x.id \notin IdsOf(left)
  BY <1>0, <1>3, Taken DEF Sender
<1>5. /\ p.pc \in {"sending", "done"} /\ p.left = left
      /\ p.pc = "done" <=> p.left = <<>>
      /\ p.sent = old.sent \o (IF CanSend(x.setting, old.kind) THEN <<x.id>> ELSE <<>>)
      /\ p.kind = old.kind /\ p.slice = old.slice /\ p.kept = old.kept
      /\ p.calm = old.calm /\ p.barred = old.barred
  BY <1>1 DEF Sends
<1>6. TakersOf(old.left, old.kind) =
        TakersOf(left, old.kind) \cup (IF CanSend(x.setting, old.kind) THEN {x.id} ELSE {})
  BY <1>0, <1>3, TakersAre
<1>7. NoneTwice(old) /\ CalmOK(old) /\ Barred(old)
  BY DEF EventOK
<1> HIDE DEF x, left, old
<1>8. /\ Elems(p.sent) = Elems(old.sent) \cup
                           (IF CanSend(x.setting, old.kind) THEN {x.id} ELSE {})
      /\ Once(p.sent)
  <2>1. Once(old.sent) /\ x.id \notin Elems(old.sent)
    BY <1>4, <1>7 DEF NoneTwice
  <2>2. /\ old.sent \o <<>> = old.sent
        /\ Elems(old.sent \o <<x.id>>) = Elems(old.sent) \cup {x.id}
        /\ Once(old.sent \o <<x.id>>)
    BY <1>3, <1>4, <2>1, SentOn
  <2>3. CASE CanSend(x.setting, old.kind)
    BY <1>5, <2>2, <2>3
  <2>4. CASE ~CanSend(x.setting, old.kind)
    BY <1>5, <2>1, <2>2, <2>4
  <2> QED BY <2>3, <2>4
<1>9. NoneTwice(p)
  <2>1. Apart(p.slice) /\ Apart(p.left)
    BY <1>4, <1>5, <1>7 DEF NoneTwice
  <2>2. IdsOf(p.left) \cap Elems(p.sent) = {}
    BY <1>4, <1>5, <1>7, <1>8 DEF NoneTwice
  <2> QED BY <1>8, <2>1, <2>2 DEF NoneTwice
<1>10. CalmOK(post[e])'
  <2>1. p.calm => Elems(p.sent) \cup TakersOf(p.left, p.kind) = p.kept
    BY <1>0, <1>5, <1>6, <1>7, <1>8 DEF CalmOK
  <2>2. p.slice = <<>>
    BY <1>0, <1>5, <1>7 DEF CalmOK
  <2> QED BY <1>2, <1>5, <2>1, <2>2 DEF CalmOK
<1>11. Barred(post[e])'
  <2>1. /\ p.barred \cap IdsOf(p.slice) = {} /\ p.barred \cap IdsOf(p.left) = {}
        /\ p.barred \cap Elems(p.sent) = {}
    BY <1>4, <1>5, <1>7, <1>8 DEF Barred
  <2> QED BY <1>2, <1>5, <2>1 DEF Barred
<1> QED BY <1>2, <1>9, <1>10, <1>11 DEF EventOK

LEMMA NextEventsOK ==
  ASSUME TypeInv, SendersOK, GoneOK, EventsOK, [Next]_vars
  PROVE  EventsOK'
<1>1. SUFFICES ASSUME NEW e \in Events PROVE EventOK(e)'
  BY DEF EventsOK
<1>2. EventOK(e) /\ PostsOK
  BY DEF EventsOK, TypeInv
<1>3. CASE UNCHANGED vars
  BY <1>2, <1>3, EventUnseen DEF vars
<1>4. ASSUME NEW a \in Admins, Store(a) \/ Update(a) \/ Delete(a) PROVE EventOK(e)'
  BY <1>2, <1>4, EventBesideChange
<1>5. ASSUME NEW a \in Admins, AtWork(a) PROVE EventOK(e)'
  BY <1>2, <1>5, EventBesideWork
<1>6. CASE Started
  BY <1>2, <1>6, EventAtTheEnd
<1>7. ASSUME NEW d \in Events, Report(d) \/ Goroutine(d), ~Started PROVE EventOK(e)'
  <2>1. CASE d = e
    <3>1. CASE Report(e)
      BY <1>2, <3>1, EventIsReported
    <3>2. CASE LoadSenders(e)
      BY <1>2, <3>2, EventIsLoaded
    <3>3. CASE StartSending(e)
      BY <1>2, <1>7, <3>3, EventIsRanged
    <3>4. CASE SendNext(e)
      BY <1>2, <3>4, EventIsSent
    <3> QED BY <1>7, <2>1, <3>1, <3>2, <3>3, <3>4 DEF Goroutine
  <2>2. CASE d # e
    <3>1. UNCHANGED <<table, senders, admin, stale>>
      BY <1>7 DEF Report, Goroutine, LoadSenders, StartSending, RangeOver, SendNext
    <3>2. post'[e] = post[e]
      BY <1>2, <1>7, <2>2
         DEF Report, Goroutine, LoadSenders, StartSending, RangeOver, SendNext, PostsOK
    <3> QED BY <1>2, <3>1, <3>2, EventUnseen
  <2> QED BY <2>1, <2>2
<1> QED BY <1>3, <1>4, <1>5, <1>6, <1>7 DEF Next, HandleAdmin, AtWork, Restart

LEMMA EventsInvariance ==
  ASSUME OneAdmin
  PROVE  Spec => [](GoneOK /\ EventsOK)
<1>1. Init => GoneOK /\ EventsOK
  <2>1. Init => GoneOK
    BY IdleAdminFits DEF Init, GoneOK, Hushed
  <2>2. /\ NewPost.pc = "unreported" /\ NewPost.slice = <<>> /\ NewPost.left = <<>>
        /\ NewPost.sent = <<>> /\ NewPost.barred = {}
    BY DEF NewPost
  <2>3. NoneTwice(NewPost) /\ CalmOK(NewPost) /\ Barred(NewPost)
    BY <2>2, EmptyIs DEF NoneTwice, CalmOK, Barred
  <2>4. Init => \A e \in Events : post[e] = NewPost
    BY DEF Init
  <2> QED BY <2>1, <2>3, <2>4 DEF EventsOK, EventOK
<1>2. TypeInv /\ TypeInv' /\ SendersOK /\ SendersOK' /\ GoneOK /\ EventsOK /\ [Next]_vars
        => GoneOK' /\ EventsOK'
  BY NextGoneOK, NextEventsOK
<1> QED BY <1>1, <1>2, TypeInvariance, SendersInvariance, PTL DEF Spec

(* When one client at a time changes notifications, an event reported and  *)
(* taken up while none does, with the senders in order, is given to each   *)
(* sender that can take it and to no other (service.Send), whatever        *)
(* becomes of the sends to the others.                                     *)
THEOREM CalmEventsAreSent ==
  ASSUME OneAdmin
  PROVE  Spec => []CalmEventsReachTheirSenders
<1>1. TypeInv /\ EventsOK => CalmEventsReachTheirSenders
  <2>1. SUFFICES ASSUME PostsOK, EventsOK, NEW e \in Events, post[e].pc = "done", post[e].calm
                 PROVE  Elems(post[e].sent) = post[e].kept
    BY DEF CalmEventsReachTheirSenders, Elems, TypeInv
  <2>2. post[e].left = <<>>
    BY <2>1, PostPlaces DEF PostFits
  <2>3. TakersOf(post[e].left, post[e].kind) = {}
    BY <2>2, EmptyIs DEF TakersOf
  <2> QED BY <2>1, <2>3 DEF EventsOK, EventOK, CalmOK
<1> QED BY <1>1, TypeInvariance, EventsInvariance, PTL

(* When one client at a time changes notifications, no sender is given an  *)
(* event twice, even when its goroutine starts while the handler empties   *)
(* and fills the slice (service.Send, registerSenders).                    *)
THEOREM NothingIsSentTwice ==
  ASSUME OneAdmin
  PROVE  Spec => []SentAtMostOnce
<1>1. EventsOK => SentAtMostOnce
  BY DEF EventsOK, EventOK, NoneTwice, SentAtMostOnce
<1> QED BY <1>1, EventsInvariance, PTL

(* When one client at a time changes notifications, a notification whose   *)
(* deletion was done and answered (Delete) is not sent an event reported   *)
(* later, unless it is stored again; restarts and failures included.       *)
THEOREM TheDeletedStayQuiet ==
  ASSUME OneAdmin
  PROVE  Spec => []DeletedStayQuiet
<1>1. EventsOK => DeletedStayQuiet
  BY DEF EventsOK, EventOK, Barred, Elems, DeletedStayQuiet
<1> QED BY <1>1, EventsInvariance, PTL
=============================================================================

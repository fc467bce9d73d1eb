---------------------------- MODULE ServerProofs -----------------------------
(***************************************************************************)
(* The safety properties of the log and of the process.  The invariant     *)
(* says of each subscriber how far the stream has got with it (Due), which *)
(* depends on what the stream is doing and on the subscriber's place, and  *)
(* that it has been given all lines before (Follows).                      *)
(***************************************************************************)
EXTENDS Server, TLAPS

-----------------------------------------------------------------------------
(* Sequences.                                                              *)

(* A part of a sequence with the next element is the part up to it.        *)
LEMMA SubSeqGrows ==
  ASSUME NEW S, NEW s \in Seq(S), NEW a \in Nat \ {0}, NEW b \in Nat \ {0},
         a <= b, b <= Len(s)
  PROVE  Append(SubSeq(s, a, b - 1), s[b]) = SubSeq(s, a, b)
OBVIOUS

(* Appending leaves the parts as they are.                                 *)
LEMMA SubSeqOfAppend ==
  ASSUME NEW S, NEW s \in Seq(S), NEW x \in S, NEW a \in Nat \ {0}, NEW b \in Nat,
         a <= b + 1, b <= Len(s)
  PROVE  SubSeq(Append(s, x), a, b) = SubSeq(s, a, b)
OBVIOUS

(* An element appended to the second part is appended to the whole.        *)
LEMMA ConcatAppend ==
  ASSUME NEW S, NEW s \in Seq(S), NEW t \in Seq(S), NEW x \in S
  PROVE  s \o Append(t, x) = Append(s \o t, x)
OBVIOUS

(* The first element of the second part may be the last of the first.      *)
LEMMA ConcatMove ==
  ASSUME NEW S, NEW s \in Seq(S), NEW t \in Seq(S), t # <<>>
  PROVE  Append(s, Head(t)) \o Tail(t) = s \o t
OBVIOUS

(* Numbers of lines stay numbers of lines when there are more.             *)
LEMMA SeqWidens ==
  ASSUME NEW m \in Nat, NEW n \in Nat, n <= m, NEW s \in Seq(1..n)
  PROVE  s \in Seq(1..m)
OBVIOUS

(* The elements of two sequences in a row.                                 *)
LEMMA ConcatIs ==
  ASSUME NEW S, NEW l \in Seq(S), NEW r \in Seq(S)
  PROVE  /\ l \o r \in Seq(S)
         /\ Len(l \o r) = Len(l) + Len(r)
         /\ \A j \in 1..Len(l) : (l \o r)[j] = l[j]
         /\ \A j \in 1..Len(r) : (l \o r)[Len(l) + j] = r[j]
OBVIOUS

(* The elements that are left when one is removed.                         *)
LEMMA RemoveAtIs ==
  ASSUME NEW S, NEW s \in Seq(S), NEW i \in 1..Len(s)
  PROVE  /\ RemoveAt(s, i) \in Seq(S)
         /\ Len(RemoveAt(s, i)) = Len(s) - 1
         /\ \A j \in 1..(Len(s) - 1) : RemoveAt(s, i)[j] = IF j < i THEN s[j] ELSE s[j + 1]
<1> DEFINE l == SubSeq(s, 1, i - 1)
           r == SubSeq(s, i + 1, Len(s))
<1>1. Len(s) \in Nat /\ i \in Nat /\ 1 <= i /\ i <= Len(s)
  OBVIOUS
<1>2. /\ l \in Seq(S) /\ Len(l) = i - 1
      /\ \A j \in 1..(i - 1) : l[j] = s[j]
  BY <1>1
<1>3. /\ r \in Seq(S) /\ Len(r) = Len(s) - i
      /\ \A j \in 1..(Len(s) - i) : r[j] = s[i + j]
  BY <1>1
<1> HIDE DEF l, r
<1>4. /\ l \o r \in Seq(S) /\ Len(l \o r) = Len(s) - 1
      /\ \A j \in 1..(i - 1) : (l \o r)[j] = l[j]
      /\ \A j \in 1..(Len(s) - i) : (l \o r)[(i - 1) + j] = r[j]
  <2>1. /\ l \o r \in Seq(S)
        /\ Len(l \o r) = Len(l) + Len(r)
        /\ \A j \in 1..Len(l) : (l \o r)[j] = l[j]
        /\ \A j \in 1..Len(r) : (l \o r)[Len(l) + j] = r[j]
    <3>1. l \in Seq(S) /\ r \in Seq(S)
      BY <1>2, <1>3
    <3> QED BY <3>1, ConcatIs
  <2>2. (i - 1) + (Len(s) - i) = Len(s) - 1
    BY <1>1
  <2> QED BY <1>2, <1>3, <2>1, <2>2
<1>5. RemoveAt(s, i) = l \o r
  BY DEF RemoveAt, l, r
<1>6. ASSUME NEW j \in 1..(Len(s) - 1)
      PROVE  (l \o r)[j] = IF j < i THEN s[j] ELSE s[j + 1]
  <2>1. CASE j < i
    <3>1. j \in 1..(i - 1)
      BY <1>1, <2>1
    <3> QED BY <1>2, <1>4, <2>1, <3>1
  <2>2. CASE ~(j < i)
    <3> DEFINE k == j - (i - 1)
    <3>1. k \in 1..(Len(s) - i) /\ i + k = j + 1 /\ (i - 1) + k = j
      BY <1>1, <2>2
    <3> HIDE DEF k
    <3>2. r[k] = s[j + 1] /\ (l \o r)[j] = r[k]
      BY <1>3, <1>4, <3>1
    <3> QED BY <2>2, <3>2
  <2> QED BY <2>1, <2>2
<1> QED BY <1>4, <1>5, <1>6

-----------------------------------------------------------------------------
(* The invariant of the log.                                               *)

PageRecords ==
  [pc : {"away", "join", "open", "stall", "leave"}, conn : Seq(Nat), shown : Seq(Nat), from : Nat]

LogTypes ==
  /\ lines \in Nat /\ joins \in 0..MaxJoins
  /\ writing \in [Goroutines -> 0..lines]
  /\ queue \in Seq(1..lines) /\ Len(queue) <= QueueSize
  /\ sent \in Seq(1..lines)
  /\ subscribers \in Seq(Pages)
  /\ stream \in [pc : {"select", "send", "replay"}, at : Nat]
  /\ page \in [Pages -> PageRecords]
  /\ \A c \in Pages : Len(page[c].conn) <= ConnSize

StreamOK ==
  /\ stream.pc = "send" => stream.at \in 1..Len(subscribers) /\ Len(sent) > 0
  /\ stream.pc = "replay" => stream.at \in 1..Len(sent) /\ Len(subscribers) > 0

SubscribersOK ==
  /\ \A i, j \in 1..Len(subscribers) : subscribers[i] = subscribers[j] => i = j
  /\ \A c \in Pages : page[c].pc \in {"open", "stall", "leave"}
                        <=> \E i \in 1..Len(subscribers) : subscribers[i] = c

(* The place, among n lines, of the one that the i-th of m subscribers is  *)
(* given next by a stream in state st.                                     *)
Due(st, m, n, i) ==
  IF st.pc = "send" /\ i >= st.at THEN n
  ELSE IF st.pc = "replay" /\ i = m THEN st.at
  ELSE n + 1

(* The page of record p has been given the lines of s before place due.    *)
Follows(p, s, due) ==
  /\ p.from \in 1..due
  /\ p.shown \o p.conn = SubSeq(s, p.from, due - 1)

PagesOK ==
  \A i \in 1..Len(subscribers) :
    page[subscribers[i]].pc \in {"open", "stall"} =>
      Follows(page[subscribers[i]], sent, Due(stream, Len(subscribers), Len(sent), i))

LogInv == LogTypes /\ StreamOK /\ SubscribersOK /\ PagesOK

(* A new process has a new log.                                            *)
LEMMA LogStarted == LogStarts => LogInv'
<1> SUFFICES ASSUME LogStarts PROVE LogInv'
  OBVIOUS
<1> USE LoggingAssumption DEF LogStarts
<1>1. LogTypes'
  BY DEF LogTypes, NoLine, Selecting, NoPage, PageRecords
<1>2. StreamOK'
  BY DEF StreamOK, Selecting
<1>3. SubscribersOK'
  BY DEF SubscribersOK, NoPage
<1>4. PagesOK'
  BY DEF PagesOK
<1> QED BY <1>1, <1>2, <1>3, <1>4 DEF LogInv

(* The first state is that of a new process.                               *)
LEMMA LogInitially == LogInit => LogInv
<1> SUFFICES ASSUME LogInit PROVE LogInv
  OBVIOUS
<1> USE LoggingAssumption DEF LogInit
<1>1. LogTypes
  BY DEF LogTypes, NoLine, Selecting, NoPage, PageRecords
<1>2. StreamOK
  BY DEF StreamOK, Selecting
<1>3. SubscribersOK
  BY DEF SubscribersOK, NoPage
<1>4. PagesOK
  BY DEF PagesOK
<1> QED BY <1>1, <1>2, <1>3, <1>4 DEF LogInv

(* Steps that leave the log alone.                                         *)
LEMMA LogSame ==
  ASSUME LogInv, UNCHANGED logVars
  PROVE  LogInv'
<1> USE DEF logVars
<1>1. LogTypes'
  BY DEF LogInv, LogTypes
<1>2. StreamOK' /\ SubscribersOK'
  BY DEF LogInv, StreamOK, SubscribersOK
<1>3. PagesOK'
  BY DEF LogInv, PagesOK
<1> QED BY <1>1, <1>2, <1>3 DEF LogInv

(* A log call may make a line more.                                        *)
LEMMA CallTypes ==
  ASSUME LogTypes, NEW g \in Goroutines, Call(g)
  PROVE  /\ lines' \in Nat
         /\ writing' \in [Goroutines -> 0..lines']
         /\ queue \in Seq(1..lines') /\ sent \in Seq(1..lines')
<1>1. lines \in Nat /\ lines' \in Nat /\ lines <= lines'
  BY DEF LogTypes, Call
<1>2. queue \in Seq(1..lines') /\ sent \in Seq(1..lines')
  BY <1>1, SeqWidens DEF LogTypes
<1>3. writing' \in [Goroutines -> 0..lines']
  <2>1. writing \in [Goroutines -> 0..lines'] /\ lines' \in 0..lines'
    BY <1>1 DEF LogTypes
  <2>2. CASE writing' = [writing EXCEPT ![g] = lines']
    BY <2>1, <2>2
  <2>3. CASE writing' = writing
    BY <2>1, <2>3
  <2> QED BY <2>2, <2>3 DEF Call
<1> QED BY <1>1, <1>2, <1>3

(* A log call concerns no page yet.                                        *)
LEMMA CallStep ==
  ASSUME LogInv, NEW g \in Goroutines, Call(g),
         UNCHANGED <<queue, sent, stream, subscribers, page, joins>>
  PROVE  LogInv'
<1>1. LogTypes'
  BY CallTypes DEF LogInv, LogTypes
<1>2. StreamOK' /\ SubscribersOK' /\ PagesOK'
  BY DEF LogInv, StreamOK, SubscribersOK, PagesOK
<1> QED BY <1>1, <1>2 DEF LogInv

(* Nor does a line put into the queue.                                     *)
LEMMA PublishStep ==
  ASSUME LogInv, NEW g \in Goroutines, Publish(g)
  PROVE  LogInv'
<1>1. LogTypes'
  BY LoggingAssumption DEF LogInv, LogTypes, Publish, NoLine
<1>2. StreamOK' /\ SubscribersOK' /\ PagesOK'
  BY DEF LogInv, StreamOK, SubscribersOK, PagesOK, Publish
<1> QED BY <1>1, <1>2 DEF LogInv

-----------------------------------------------------------------------------
(* Lines given to pages.                                                   *)

-----------------------------------------------------------------------------
(* Lines given to pages.                                                   *)

Fed(p, line) == [p EXCEPT !.conn = Append(@, line)]

(* A page that has been given what is before a line is given the line.     *)
LEMMA FedFollows ==
  ASSUME NEW p \in PageRecords, NEW s \in Seq(Nat), NEW i \in 1..Len(s), Follows(p, s, i)
  PROVE  Follows(Fed(p, s[i]), s, i + 1)
<1> DEFINE q == Fed(p, s[i])
<1>1. /\ p.conn \in Seq(Nat) /\ p.shown \in Seq(Nat) /\ p.from \in Nat
      /\ Len(s) \in Nat /\ s[i] \in Nat
  BY DEF PageRecords
<1>2. q.shown = p.shown /\ q.from = p.from /\ q.conn = Append(p.conn, s[i])
  BY DEF Fed, PageRecords
<1> HIDE DEF q
<1>3. q.shown \o q.conn = Append(p.shown \o p.conn, s[i])
  <2>1. p.shown \o Append(p.conn, s[i]) = Append(p.shown \o p.conn, s[i])
    <3> DEFINE u == p.shown
               v == p.conn
               x == s[i]
    <3>1. u \in Seq(Nat) /\ v \in Seq(Nat) /\ x \in Nat
      BY <1>1
    <3> HIDE DEF u, v, x
    <3>2. u \o Append(v, x) = Append(u \o v, x)
      BY <3>1, ConcatAppend
    <3> QED BY <3>2 DEF u, v, x
  <2> QED BY <1>2, <2>1
<1>4. p.from \in Nat \ {0} /\ p.from <= i /\ i \in Nat \ {0} /\ i <= Len(s)
  BY DEF Follows
<1>5. Append(SubSeq(s, p.from, i - 1), s[i]) = SubSeq(s, p.from, i)
  BY <1>4, SubSeqGrows
<1>6. q.from \in 1..(i + 1) /\ (i + 1) - 1 = i
  BY <1>2, <1>4
<1>7. q.shown \o q.conn = SubSeq(s, q.from, (i + 1) - 1)
  BY <1>2, <1>3, <1>5, <1>6 DEF Follows
<1> QED BY <1>6, <1>7 DEF Follows, q

(* The record of a page given a line.                                      *)
LEMMA FedIs ==
  ASSUME NEW p \in PageRecords, NEW line \in Nat
  PROVE  /\ Fed(p, line) \in PageRecords /\ Fed(p, line).pc = p.pc
         /\ Len(Fed(p, line).conn) = Len(p.conn) + 1
<1>1. p.conn \in Seq(Nat)
  BY DEF PageRecords
<1>2. Append(p.conn, line) \in Seq(Nat) /\ Len(Append(p.conn, line)) = Len(p.conn) + 1
  BY <1>1
<1> QED BY <1>2 DEF PageRecords, Fed

(* No other page changes.                                                  *)
LEMMA FeedIs ==
  ASSUME LogTypes, NEW c \in Pages, NEW line \in Nat, Room(c), Feed(c, line)
  PROVE  /\ page' \in [Pages -> PageRecords]
         /\ \A d \in Pages : Len(page'[d].conn) <= ConnSize
         /\ \A d \in Pages : page'[d].pc = page[d].pc
         /\ \A d \in Pages : d # c => page'[d] = page[d]
         /\ page'[c] = Fed(page[c], line)
<1> DEFINE p == page[c]
           q == Fed(p, line)
<1>1. p \in PageRecords /\ Len(p.conn) < ConnSize /\ Len(p.conn) \in Nat
  BY DEF LogTypes, Room, PageRecords
<1>2. q \in PageRecords /\ q.pc = p.pc /\ Len(q.conn) = Len(p.conn) + 1
  BY <1>1, FedIs
<1>3. page' = [page EXCEPT ![c] = q]
  BY DEF Feed, Fed
<1> HIDE DEF q
<1>4. page' \in [Pages -> PageRecords] /\ page'[c] = q
      /\ \A d \in Pages : d # c => page'[d] = page[d]
  BY <1>2, <1>3 DEF LogTypes
<1>5. Len(q.conn) <= ConnSize
  BY <1>1, <1>2, LoggingAssumption
<1> QED BY <1>2, <1>4, <1>5 DEF LogTypes, q

-----------------------------------------------------------------------------
(* The stream's steps.                                                     *)

(* All pages are due the line taken.                                       *)
LEMMA TakeLineStep ==
  ASSUME LogInv, TakeLine
  PROVE  LogInv'
<1> DEFINE n == Len(sent)
           m == Len(subscribers)
<1>1. LogTypes
  BY DEF LogInv
<1>2. /\ Head(queue) \in 1..lines /\ Tail(queue) \in Seq(1..lines) /\ Len(Tail(queue)) <= QueueSize
      /\ m \in Nat /\ n \in Nat /\ sent \in Seq(Nat) /\ Head(queue) \in Nat
  <2>1. /\ queue \in Seq(1..lines) /\ queue # <<>> /\ Len(queue) <= QueueSize
        /\ subscribers \in Seq(Pages) /\ sent \in Seq(1..lines) /\ lines \in Nat
    BY <1>1 DEF TakeLine, LogTypes
  <2>2. /\ Head(queue) \in 1..lines /\ Tail(queue) \in Seq(1..lines)
        /\ Len(Tail(queue)) = Len(queue) - 1 /\ Len(queue) \in Nat
    BY <2>1
  <2>3. m \in Nat /\ n \in Nat /\ sent \in Seq(Nat)
    BY <2>1
  <2> QED BY <2>1, <2>2, <2>3, LoggingAssumption
<1>3. sent' \in Seq(1..lines) /\ Len(sent') = n + 1
  <2>1. sent \in Seq(1..lines) /\ sent' = Append(sent, Head(queue))
    BY <1>1 DEF TakeLine, LogTypes
  <2> QED BY <1>2, <2>1
<1>4. LogTypes'
  BY <1>1, <1>2, <1>3 DEF TakeLine, LogTypes, Selecting
<1>5. StreamOK'
  BY <1>1, <1>2, <1>3 DEF TakeLine, StreamOK, Selecting, LogTypes
<1>6. SubscribersOK'
  BY DEF LogInv, SubscribersOK, TakeLine
<1>7. ASSUME NEW i \in 1..m, page[subscribers[i]].pc \in {"open", "stall"}
      PROVE  Follows(page[subscribers[i]], sent', Due(stream', m, n + 1, i))
  <2> DEFINE p == page[subscribers[i]]
  <2>1. Due(stream, m, n, i) = n + 1
    BY DEF Due, TakeLine
  <2>2. p.from \in 1..(n + 1) /\ p.shown \o p.conn = SubSeq(sent, p.from, n)
    <3>1. Follows(p, sent, n + 1)
      BY <1>7, <2>1 DEF LogInv, PagesOK
    <3>2. (n + 1) - 1 = n
      BY <1>2
    <3> QED BY <3>1, <3>2 DEF Follows
  <2>3. Due(stream', m, n + 1, i) = n + 1
    BY <1>1, <1>2 DEF Due, TakeLine, LogTypes
  <2>4. SubSeq(sent', p.from, n) = SubSeq(sent, p.from, n)
    <3> DEFINE x == Head(queue)
               a == p.from
    <3>1. /\ x \in Nat /\ a \in Nat \ {0} /\ a <= n + 1 /\ n \in Nat /\ n <= Len(sent)
          /\ sent \in Seq(Nat) /\ sent' = Append(sent, x)
      BY <1>2, <2>2 DEF TakeLine
    <3> HIDE DEF x, a, n
    <3>2. SubSeq(Append(sent, x), a, n) = SubSeq(sent, a, n)
      BY <3>1, SubSeqOfAppend
    <3> QED BY <3>1, <3>2 DEF a
  <2>5. (n + 1) - 1 = n
    BY <1>2
  <2> QED BY <2>2, <2>3, <2>4, <2>5 DEF Follows
<1>8. PagesOK'
  BY <1>3, <1>7 DEF PagesOK, TakeLine
<1> QED BY <1>4, <1>5, <1>6, <1>8 DEF LogInv

(* One page after the other is given it.                                   *)
LEMMA SendLineStep ==
  ASSUME LogInv, SendLine
  PROVE  LogInv'
<1> DEFINE at == stream.at
           n == Len(sent)
           m == Len(subscribers)
           k == at
           c == subscribers[k]
<1>1. LogTypes
  BY DEF LogInv
<1>2. /\ k \in 1..m /\ m \in Nat /\ n \in Nat /\ c \in Pages
      /\ n \in 1..n /\ sent[n] \in Nat /\ sent \in Seq(Nat)
      /\ at \in Nat
  BY <1>1 DEF LogInv, LogTypes, StreamOK, SendLine
<1>3. Room(c) /\ Feed(c, sent[n])
  BY <1>2 DEF SendLine, Last
<1>4. /\ page' \in [Pages -> PageRecords]
      /\ \A d \in Pages : Len(page'[d].conn) <= ConnSize
      /\ \A d \in Pages : page'[d].pc = page[d].pc
      /\ \A d \in Pages : d # c => page'[d] = page[d]
      /\ page'[c] = Fed(page[c], sent[n])
  BY <1>1, <1>2, <1>3, FeedIs
<1>5. /\ stream' = IF at = m THEN [pc |-> "select", at |-> 0]
                   ELSE [pc |-> stream.pc, at |-> at + 1]
      /\ UNCHANGED <<lines, writing, queue, sent, subscribers, joins>>
  <2>1. stream = [pc |-> "send", at |-> at]
    BY <1>1 DEF SendLine, LogTypes
  <2>2. [stream EXCEPT !.at = @ + 1] = [pc |-> stream.pc, at |-> at + 1]
    BY <2>1
  <2> QED BY <2>2 DEF SendLine, Selecting
<1>6. LogTypes'
  BY <1>1, <1>2, <1>4, <1>5 DEF LogTypes
<1>7. StreamOK'
  BY <1>1, <1>2, <1>5 DEF SendLine, StreamOK, LogTypes, LogInv
<1>8. SubscribersOK'
  BY <1>4, <1>5 DEF LogInv, SubscribersOK
<1>9. ASSUME NEW i \in 1..m, page'[subscribers[i]].pc \in {"open", "stall"}
      PROVE  Follows(page'[subscribers[i]], sent, Due(stream', m, n, i))
  <2>1. subscribers[i] \in Pages /\ page[subscribers[i]].pc \in {"open", "stall"}
    BY <1>1, <1>4, <1>9 DEF LogTypes
  <2>2. Follows(page[subscribers[i]], sent, Due(stream, m, n, i))
    BY <2>1 DEF LogInv, PagesOK
  <2>3. CASE i = k
    <3>1. Due(stream, m, n, i) = n /\ Due(stream', m, n, i) = n + 1
      BY <1>1, <1>2, <1>5, <2>3 DEF Due, SendLine
    <3>2. page[c] \in PageRecords
      BY <1>1, <1>2 DEF LogTypes
    <3> QED BY <1>2, <1>4, <2>2, <2>3, <3>1, <3>2, FedFollows
  <2>4. CASE i # k
    <3>1. Due(stream', m, n, i) = Due(stream, m, n, i)
      BY <1>1, <1>2, <1>5, <2>4 DEF Due, SendLine
    <3>2. subscribers[i] # c
      BY <1>2, <2>4 DEF LogInv, SubscribersOK
    <3> QED BY <1>4, <2>1, <2>2, <3>1, <3>2
  <2> QED BY <2>3, <2>4
<1>10. PagesOK'
  BY <1>5, <1>9 DEF PagesOK
<1> QED BY <1>6, <1>7, <1>8, <1>10 DEF LogInv

(* The newcomer is given a line that was kept.                             *)
LEMMA ReplayStep ==
  ASSUME LogInv, Replay
  PROVE  LogInv'
<1> DEFINE at == stream.at
           n == Len(sent)
           m == Len(subscribers)
           k == m
           c == subscribers[k]
<1>1. LogTypes
  BY DEF LogInv
<1>2. /\ k \in 1..m /\ m \in Nat /\ n \in Nat /\ c \in Pages
      /\ at \in 1..n /\ sent[at] \in Nat /\ sent \in Seq(Nat)
      /\ at \in Nat
  BY <1>1 DEF LogInv, LogTypes, StreamOK, Replay
<1>3. Room(c) /\ Feed(c, sent[at])
  BY <1>2 DEF Replay, Last
<1>4. /\ page' \in [Pages -> PageRecords]
      /\ \A d \in Pages : Len(page'[d].conn) <= ConnSize
      /\ \A d \in Pages : page'[d].pc = page[d].pc
      /\ \A d \in Pages : d # c => page'[d] = page[d]
      /\ page'[c] = Fed(page[c], sent[at])
  BY <1>1, <1>2, <1>3, FeedIs
<1>5. /\ stream' = IF at = n THEN [pc |-> "select", at |-> 0]
                   ELSE [pc |-> stream.pc, at |-> at + 1]
      /\ UNCHANGED <<lines, writing, queue, sent, subscribers, joins>>
  <2>1. stream = [pc |-> "replay", at |-> at]
    BY <1>1 DEF Replay, LogTypes
  <2>2. [stream EXCEPT !.at = @ + 1] = [pc |-> stream.pc, at |-> at + 1]
    BY <2>1
  <2> QED BY <2>2 DEF Replay, Selecting
<1>6. LogTypes'
  BY <1>1, <1>2, <1>4, <1>5 DEF LogTypes
<1>7. StreamOK'
  BY <1>1, <1>2, <1>5 DEF Replay, StreamOK, LogTypes, LogInv
<1>8. SubscribersOK'
  BY <1>4, <1>5 DEF LogInv, SubscribersOK
<1>9. ASSUME NEW i \in 1..m, page'[subscribers[i]].pc \in {"open", "stall"}
      PROVE  Follows(page'[subscribers[i]], sent, Due(stream', m, n, i))
  <2>1. subscribers[i] \in Pages /\ page[subscribers[i]].pc \in {"open", "stall"}
    BY <1>1, <1>4, <1>9 DEF LogTypes
  <2>2. Follows(page[subscribers[i]], sent, Due(stream, m, n, i))
    BY <2>1 DEF LogInv, PagesOK
  <2>3. CASE i = k
    <3>1. Due(stream, m, n, i) = at /\ Due(stream', m, n, i) = at + 1
      BY <1>1, <1>2, <1>5, <2>3 DEF Due, Replay
    <3>2. page[c] \in PageRecords
      BY <1>1, <1>2 DEF LogTypes
    <3> QED BY <1>2, <1>4, <2>2, <2>3, <3>1, <3>2, FedFollows
  <2>4. CASE i # k
    <3>1. Due(stream', m, n, i) = Due(stream, m, n, i)
      BY <1>1, <1>2, <1>5, <2>4 DEF Due, Replay
    <3>2. subscribers[i] # c
      BY <1>2, <2>4 DEF LogInv, SubscribersOK
    <3> QED BY <1>4, <2>1, <2>2, <3>1, <3>2
  <2> QED BY <2>3, <2>4
<1>10. PagesOK'
  BY <1>5, <1>9 DEF PagesOK
<1> QED BY <1>6, <1>7, <1>8, <1>10 DEF LogInv

(* The kept lines begin in the log, or there are none.                     *)
LEMMA OldestKeptIs ==
  ASSUME Len(sent) \in Nat
  PROVE  /\ OldestKept \in 1..(Len(sent) + 1)
         /\ Len(sent) > 0 => OldestKept \in 1..Len(sent)
BY LoggingAssumption DEF OldestKept

(* A page just opened is due the first of its lines.                       *)
LEMMA NothingGivenYet ==
  ASSUME NEW s \in Seq(Nat), NEW a \in 1..(Len(s) + 1)
  PROVE  Follows(Opened(a), s, a)
<1>1. <<>> \o <<>> = SubSeq(s, a, a - 1)
  OBVIOUS
<1> QED BY <1>1 DEF Follows, Opened

(* The newcomer is the last of the subscribers, and due the kept lines.    *)
LEMMA RegisterStep ==
  ASSUME LogInv, NEW c \in Pages, Register(c)
  PROVE  LogInv'
<1> DEFINE n == Len(sent)
           m == Len(subscribers)
           old == OldestKept
           q == Opened(old)
<1>1. LogTypes
  BY DEF LogInv
<1>2. n \in Nat /\ m \in Nat /\ sent \in Seq(Nat) /\ (sent = <<>> <=> n = 0)
  BY <1>1 DEF LogTypes
<1>3. old \in 1..(n + 1) /\ (n > 0 => old \in 1..n)
  BY <1>2, OldestKeptIs
<1>4. q \in PageRecords /\ q.pc = "open" /\ Len(q.conn) = 0 /\ Follows(q, sent, old)
  <2>1. q = [pc |-> "open", conn |-> <<>>, shown |-> <<>>, from |-> old]
    BY DEF Opened
  <2>2. old \in Nat /\ <<>> \in Seq(Nat) /\ Len(<<>>) = 0
    BY <1>2, <1>3
  <2>3. Follows(q, sent, old)
    BY <1>2, <1>3, NothingGivenYet
  <2> HIDE DEF q, old
  <2> QED BY <2>1, <2>2, <2>3 DEF PageRecords
<1>5. /\ subscribers' \in Seq(Pages) /\ Len(subscribers') = m + 1
      /\ subscribers'[m + 1] = c
      /\ \A i \in 1..m : subscribers'[i] = subscribers[i]
  BY <1>1, <1>2 DEF Register, LogTypes
<1>6. /\ stream' = IF n = 0 THEN [pc |-> "select", at |-> 0] ELSE [pc |-> "replay", at |-> old]
      /\ stream.pc = "select" /\ page[c].pc = "join"
      /\ page' = [page EXCEPT ![c] = q]
      /\ UNCHANGED <<lines, writing, queue, sent, joins>>
  BY <1>2 DEF Register, Selecting
<1> HIDE DEF q, old
<1>7. /\ page' \in [Pages -> PageRecords] /\ page'[c] = q
      /\ \A d \in Pages : d # c => page'[d] = page[d]
  BY <1>1, <1>4, <1>6 DEF LogTypes
<1>8. \A d \in Pages : Len(page'[d].conn) <= ConnSize
  <2>1. Len(q.conn) <= ConnSize
    BY <1>4, LoggingAssumption
  <2> QED BY <1>1, <1>7, <2>1 DEF LogTypes
<1>9. \A i \in 1..m : subscribers[i] # c
  BY <1>6 DEF LogInv, SubscribersOK
<1>10. LogTypes'
  BY <1>1, <1>2, <1>3, <1>5, <1>6, <1>7, <1>8 DEF LogTypes
<1>11. StreamOK'
  BY <1>2, <1>3, <1>5, <1>6 DEF StreamOK
<1>12. SubscribersOK'
  <2>1. ASSUME NEW i \in 1..(m + 1), NEW j \in 1..(m + 1), subscribers'[i] = subscribers'[j]
        PROVE  i = j
    BY <1>2, <1>5, <1>9, <2>1 DEF LogInv, SubscribersOK
  <2>2. ASSUME NEW d \in Pages
        PROVE  page'[d].pc \in {"open", "stall", "leave"}
                 <=> \E i \in 1..(m + 1) : subscribers'[i] = d
    <3>1. CASE d = c
      BY <1>2, <1>4, <1>5, <1>7, <3>1
    <3>2. CASE d # c
      <4>1. page[d].pc \in {"open", "stall", "leave"} <=> \E i \in 1..m : subscribers[i] = d
        BY DEF LogInv, SubscribersOK
      <4>2. ASSUME NEW i \in 1..(m + 1), subscribers'[i] = d
            PROVE  \E j \in 1..m : subscribers[j] = d
        <5>1. i # m + 1
          BY <1>5, <3>2, <4>2
        <5>2. i \in 1..m
          BY <1>2, <5>1
        <5> QED BY <1>5, <4>2, <5>2
      <4>3. ASSUME NEW i \in 1..m, subscribers[i] = d
            PROVE  \E j \in 1..(m + 1) : subscribers'[j] = d
        <5>1. i \in 1..(m + 1)
          BY <1>2
        <5> QED BY <1>5, <4>3, <5>1
      <4> QED BY <1>7, <3>2, <4>1, <4>2, <4>3
    <3> QED BY <3>1, <3>2
  <2> QED BY <1>5, <2>1, <2>2 DEF SubscribersOK
<1>13. ASSUME NEW i \in 1..(m + 1), page'[subscribers'[i]].pc \in {"open", "stall"}
       PROVE  Follows(page'[subscribers'[i]], sent, Due(stream', m + 1, n, i))
  <2>1. CASE i = m + 1
    <3>1. Due(stream', m + 1, n, i) = old
      BY <1>2, <1>3, <1>6, <2>1 DEF Due
    <3> QED BY <1>4, <1>5, <1>7, <2>1, <3>1
  <2>2. CASE i \in 1..m
    <3>1. subscribers'[i] = subscribers[i] /\ subscribers[i] \in Pages /\ subscribers[i] # c
      BY <1>1, <1>5, <1>9, <2>2 DEF LogTypes
    <3>2. Due(stream', m + 1, n, i) = n + 1 /\ Due(stream, m, n, i) = n + 1
      BY <1>2, <1>6, <2>2 DEF Due
    <3> QED BY <1>7, <1>13, <2>2, <3>1, <3>2 DEF LogInv, PagesOK
  <2> QED BY <1>2, <2>1, <2>2
<1>14. PagesOK'
  BY <1>5, <1>6, <1>13 DEF PagesOK
<1> QED BY <1>10, <1>11, <1>12, <1>14 DEF LogInv

(* The subscribers behind the one that goes move up; all are at rest.      *)
LEMMA DeregisterStep ==
  ASSUME LogInv, NEW c \in Pages, Deregister(c)
  PROVE  LogInv'
<1> DEFINE n == Len(sent)
           m == Len(subscribers)
<1>1. LogTypes
  BY DEF LogInv
<1>2. n \in Nat /\ m \in Nat /\ subscribers \in Seq(Pages)
  BY <1>1 DEF LogTypes
<1>3. PICK k \in 1..m : subscribers[k] = c /\ subscribers' = RemoveAt(subscribers, k)
  BY <1>2 DEF Deregister
<1>4. /\ subscribers' \in Seq(Pages) /\ Len(subscribers') = m - 1 /\ m - 1 \in Nat
      /\ \A i \in 1..(m - 1) : subscribers'[i] = IF i < k THEN subscribers[i] ELSE subscribers[i + 1]
  <2>1. /\ RemoveAt(subscribers, k) \in Seq(Pages)
        /\ Len(RemoveAt(subscribers, k)) = Len(subscribers) - 1
        /\ \A i \in 1..(Len(subscribers) - 1) :
             RemoveAt(subscribers, k)[i] = IF i < k THEN subscribers[i] ELSE subscribers[i + 1]
    BY <1>2, RemoveAtIs
  <2>2. m - 1 \in Nat
    BY <1>2
  <2> QED BY <1>3, <2>1, <2>2
<1>5. /\ stream.pc = "select" /\ page[c].pc = "leave" /\ Call(c)
      /\ page' = [page EXCEPT ![c] = NoPage]
      /\ UNCHANGED <<queue, sent, stream, joins>>
  BY DEF Deregister
<1>6. /\ page' \in [Pages -> PageRecords] /\ page'[c] = NoPage
      /\ \A d \in Pages : d # c => page'[d] = page[d]
      /\ \A d \in Pages : Len(page'[d].conn) <= ConnSize
  <2>1. NoPage \in PageRecords
    BY DEF NoPage, PageRecords
  <2>2. Len(NoPage.conn) <= ConnSize
    BY LoggingAssumption DEF NoPage
  <2>3. /\ page' \in [Pages -> PageRecords] /\ page'[c] = NoPage
        /\ \A d \in Pages : d # c => page'[d] = page[d]
    BY <1>1, <1>5, <2>1 DEF LogTypes
  <2>4. \A d \in Pages : Len(page[d].conn) <= ConnSize
    BY <1>1 DEF LogTypes
  <2> QED BY <2>2, <2>3, <2>4
<1>7. LogTypes'
  BY <1>1, <1>4, <1>5, <1>6, CallTypes, LoggingAssumption DEF LogTypes
<1>8. StreamOK'
  BY <1>5 DEF StreamOK
<1>9. \A i \in 1..(m - 1) : \E j \in 1..m :
        /\ j # k /\ subscribers'[i] = subscribers[j]
        /\ j = IF i < k THEN i ELSE i + 1
  <2> TAKE i \in 1..(m - 1)
  <2>1. CASE i < k
    BY <1>2, <1>4, <2>1
  <2>2. CASE ~(i < k)
    BY <1>2, <1>4, <2>2
  <2> QED BY <2>1, <2>2
<1>10. SubscribersOK'
  <2>1. ASSUME NEW i \in 1..(m - 1), NEW j \in 1..(m - 1), subscribers'[i] = subscribers'[j]
        PROVE  i = j
    <3>1. PICK i1 \in 1..m : subscribers'[i] = subscribers[i1] /\ i1 = IF i < k THEN i ELSE i + 1
      BY <1>9
    <3>2. PICK j1 \in 1..m : subscribers'[j] = subscribers[j1] /\ j1 = IF j < k THEN j ELSE j + 1
      BY <1>9
    <3>3. subscribers[i1] = subscribers[j1]
      BY <2>1, <3>1, <3>2
    <3>4. i1 = j1
      BY <3>3 DEF LogInv, SubscribersOK
    <3> QED BY <1>2, <3>1, <3>2, <3>4
  <2>2. ASSUME NEW d \in Pages
        PROVE  page'[d].pc \in {"open", "stall", "leave"}
                 <=> \E i \in 1..(m - 1) : subscribers'[i] = d
    <3>1. CASE d = c
      BY <1>3, <1>6, <1>9, <3>1 DEF LogInv, SubscribersOK, NoPage
    <3>2. CASE d # c
      <4>1. page[d].pc \in {"open", "stall", "leave"} <=> \E j \in 1..m : subscribers[j] = d
        BY DEF LogInv, SubscribersOK
      <4>2. ASSUME NEW j \in 1..m, subscribers[j] = d
            PROVE  \E i \in 1..(m - 1) : subscribers'[i] = d
        <5>1. CASE j < k
          BY <1>2, <1>4, <4>2, <5>1
        <5>2. CASE j > k
          <6>1. j - 1 \in 1..(m - 1) /\ ~(j - 1 < k) /\ (j - 1) + 1 = j
            BY <1>2, <5>2
          <6> QED BY <1>4, <4>2, <6>1
        <5>3. j # k
          BY <1>3, <3>2, <4>2
        <5> QED BY <5>1, <5>2, <5>3
      <4> QED BY <1>6, <1>9, <3>2, <4>1, <4>2
    <3> QED BY <3>1, <3>2
  <2> QED BY <1>4, <2>1, <2>2 DEF SubscribersOK
<1>11. ASSUME NEW i \in 1..(m - 1), page'[subscribers'[i]].pc \in {"open", "stall"}
       PROVE  Follows(page'[subscribers'[i]], sent, Due(stream, m - 1, n, i))
  <2>1. PICK j \in 1..m : j # k /\ subscribers'[i] = subscribers[j]
    BY <1>9
  <2>2. subscribers[j] # c /\ subscribers[j] \in Pages
    BY <1>2, <1>3, <2>1 DEF LogInv, SubscribersOK
  <2>3. Due(stream, m - 1, n, i) = n + 1 /\ Due(stream, m, n, j) = n + 1
    BY <1>5 DEF Due
  <2> QED BY <1>6, <1>11, <2>1, <2>2, <2>3 DEF LogInv, PagesOK
<1>12. PagesOK'
  BY <1>4, <1>5, <1>11 DEF PagesOK
<1> QED BY <1>7, <1>8, <1>10, <1>12 DEF LogInv

-----------------------------------------------------------------------------
(* Pages' steps.                                                           *)

(* A page changes without its lines changing, or stops listening.          *)
LEMMA PageStep ==
  ASSUME LogInv, NEW c \in Pages, NEW p \in PageRecords,
         page' = [page EXCEPT ![c] = p], Len(p.conn) <= ConnSize,
         UNCHANGED <<lines, writing, queue, sent, stream, subscribers>>,
         joins' \in 0..MaxJoins,
         p.pc \in {"open", "stall", "leave"} <=> page[c].pc \in {"open", "stall", "leave"},
         p.pc \in {"open", "stall"} =>
           /\ page[c].pc \in {"open", "stall"}
           /\ p.from = page[c].from /\ p.shown \o p.conn = page[c].shown \o page[c].conn
  PROVE  LogInv'
<1>1. LogTypes
  BY DEF LogInv
<1>2. /\ page' \in [Pages -> PageRecords] /\ page'[c] = p
      /\ \A d \in Pages : d # c => page'[d] = page[d]
  BY <1>1 DEF LogTypes
<1>3. LogTypes'
  BY <1>1, <1>2 DEF LogTypes
<1>4. StreamOK'
  BY DEF LogInv, StreamOK
<1>5. SubscribersOK'
  BY <1>2 DEF LogInv, SubscribersOK
<1>6. ASSUME NEW i \in 1..Len(subscribers), page'[subscribers[i]].pc \in {"open", "stall"}
      PROVE  Follows(page'[subscribers[i]], sent, Due(stream, Len(subscribers), Len(sent), i))
  <2>1. subscribers[i] \in Pages
    BY <1>1 DEF LogTypes
  <2>2. page[subscribers[i]].pc \in {"open", "stall"}
    BY <1>2, <1>6, <2>1
  <2>3. Follows(page[subscribers[i]], sent, Due(stream, Len(subscribers), Len(sent), i))
    BY <2>2 DEF LogInv, PagesOK
  <2>4. CASE subscribers[i] = c
    BY <1>2, <1>6, <2>3, <2>4 DEF Follows
  <2>5. CASE subscribers[i] # c
    BY <1>2, <2>1, <2>3, <2>5
  <2> QED BY <2>4, <2>5
<1>7. PagesOK'
  BY <1>6 DEF PagesOK
<1> QED BY <1>3, <1>4, <1>5, <1>7 DEF LogInv

(* What a page's record holds.                                             *)
LEMMA PageRecord ==
  ASSUME LogInv, NEW c \in Pages
  PROVE  /\ page[c] \in PageRecords /\ Len(page[c].conn) <= ConnSize
         /\ page[c].conn \in Seq(Nat) /\ page[c].shown \in Seq(Nat) /\ page[c].from \in Nat
         /\ page[c] = [pc |-> page[c].pc, conn |-> page[c].conn,
                       shown |-> page[c].shown, from |-> page[c].from]
BY DEF LogInv, LogTypes, PageRecords

(* A page that asks is not yet a subscriber.                               *)
LEMMA ConnectStep ==
  ASSUME LogInv, NEW c \in Pages, Connect(c)
  PROVE  LogInv'
<1> DEFINE p == [page[c] EXCEPT !.pc = "join"]
<1>1. p \in PageRecords /\ p.conn = page[c].conn /\ p.pc = "join"
  BY PageRecord DEF PageRecords
<1>2. page' = [page EXCEPT ![c] = p]
  BY DEF Connect
<1>3. joins' \in 0..MaxJoins
  BY LoggingAssumption DEF Connect, LogInv, LogTypes
<1> HIDE DEF p
<1> QED BY <1>1, <1>2, <1>3, PageStep, PageRecord DEF Connect

(* A line shown was on its way.                                            *)
LEMMA ReadLineStep ==
  ASSUME LogInv, NEW c \in Pages, ReadLine(c)
  PROVE  LogInv'
<1> DEFINE conn == page[c].conn
           shown == page[c].shown
           p == [pc |-> "open", conn |-> Tail(conn), shown |-> Append(shown, Head(conn)),
                 from |-> page[c].from]
<1>1. /\ conn \in Seq(Nat) /\ conn # <<>> /\ shown \in Seq(Nat) /\ Len(conn) <= ConnSize
      /\ page[c].pc = "open" /\ page[c].from \in Nat
  BY PageRecord DEF ReadLine
<1>2. page' = [page EXCEPT ![c] = p]
  BY DEF ReadLine
<1> HIDE DEF conn, shown
<1>3. /\ Append(shown, Head(conn)) \o Tail(conn) = shown \o conn
      /\ Tail(conn) \in Seq(Nat) /\ Append(shown, Head(conn)) \in Seq(Nat)
      /\ Len(Tail(conn)) <= ConnSize
  <2>1. Append(shown, Head(conn)) \o Tail(conn) = shown \o conn
    BY <1>1, ConcatMove
  <2>2. /\ Tail(conn) \in Seq(Nat) /\ Append(shown, Head(conn)) \in Seq(Nat)
        /\ Len(Tail(conn)) <= ConnSize
    BY <1>1, LoggingAssumption
  <2> QED BY <2>1, <2>2
<1>4. p \in PageRecords
  BY <1>1, <1>3 DEF PageRecords
<1>5. /\ p.pc = "open" /\ p.from = page[c].from /\ Len(p.conn) <= ConnSize
      /\ p.shown \o p.conn = page[c].shown \o page[c].conn
  BY <1>3 DEF conn, shown
<1>6. joins' \in 0..MaxJoins
  BY DEF ReadLine, LogInv, LogTypes
<1> HIDE DEF p
<1> QED BY <1>1, <1>2, <1>4, <1>5, <1>6, PageStep DEF ReadLine

(* A page that sleeps keeps what it has.                                   *)
LEMMA StallStep ==
  ASSUME LogInv, NEW c \in Pages, Stall(c)
  PROVE  LogInv'
<1> DEFINE p == [page[c] EXCEPT !.pc = "stall"]
<1>1. /\ p \in PageRecords /\ p.conn = page[c].conn /\ p.pc = "stall"
      /\ p.shown = page[c].shown /\ p.from = page[c].from
  BY PageRecord DEF PageRecords
<1>2. page' = [page EXCEPT ![c] = p] /\ joins' \in 0..MaxJoins
  BY DEF Stall, LogInv, LogTypes
<1> HIDE DEF p
<1> QED BY <1>1, <1>2, PageStep, PageRecord DEF Stall

(* A page that leaves listens no more.                                     *)
LEMMA LeaveStep ==
  ASSUME LogInv, NEW c \in Pages, Leave(c)
  PROVE  LogInv'
<1> DEFINE p == [pc |-> "leave", conn |-> page[c].conn, shown |-> <<>>, from |-> 0]
<1>1. p \in PageRecords /\ p.conn = page[c].conn /\ p.pc = "leave"
  <2>1. page[c].conn \in Seq(Nat)
    BY PageRecord
  <2>2. <<>> \in Seq(Nat)
    OBVIOUS
  <2> QED BY <2>1, <2>2 DEF PageRecords
<1>2. page' = [page EXCEPT ![c] = p] /\ joins' \in 0..MaxJoins
  BY DEF Leave, LogInv, LogTypes
<1> HIDE DEF p
<1> QED BY <1>1, <1>2, PageStep, PageRecord DEF Leave

(* Nor do lines taken in vain reach it.                                    *)
LEMMA DrainStep ==
  ASSUME LogInv, NEW c \in Pages, Drain(c)
  PROVE  LogInv'
<1> DEFINE conn == page[c].conn
           p == [page[c] EXCEPT !.conn = Tail(conn)]
<1>1. conn \in Seq(Nat) /\ conn # <<>> /\ Len(conn) <= ConnSize
  BY PageRecord DEF Drain
<1>2. Tail(conn) \in Seq(Nat) /\ Len(Tail(conn)) <= ConnSize
  BY <1>1, LoggingAssumption
<1>3. p \in PageRecords /\ p.conn = Tail(conn) /\ p.pc = "leave"
  BY <1>2, PageRecord DEF PageRecords, Drain
<1>4. page' = [page EXCEPT ![c] = p] /\ joins' \in 0..MaxJoins
  BY DEF Drain, LogInv, LogTypes
<1> HIDE DEF p
<1> QED BY <1>2, <1>3, <1>4, PageStep DEF Drain

-----------------------------------------------------------------------------
(* The process.                                                            *)

RequestRecords ==
  [pc : {"none", "query", "answer"}, logged : BOOLEAN, answer : {"none", "done", "error"}]

ServerInv ==
  /\ main \in {"off", "open", "serve", "notify", "wait", "close", "exit"}
  /\ http \in {"off", "listen", "log", "serving", "blocked"}
  /\ database \in {"new", "open", "closed"}
  /\ signal \in BOOLEAN
  /\ requests \in 0..MaxRequests
  /\ request \in [Handlers -> RequestRecords]

(* The database is open before the server's goroutine is started and until *)
(* main has nothing left to do but to exit.                                *)
DatabaseInv ==
  /\ main \in {"off", "open", "serve"} => http = "off"
  /\ main \in {"serve", "notify", "wait", "close"} => database = "open"
  /\ http = "off" => \A h \in Handlers : request[h].pc = "none"
  /\ RequestsFindTheDatabase

Inv == LogInv /\ ServerInv /\ DatabaseInv

(* The record of no request.                                               *)
LEMMA NoRequestIs ==
  /\ NoRequest \in RequestRecords
  /\ NoRequest.pc = "none" /\ NoRequest.answer = "none"
BY DEF NoRequest, RequestRecords

(* Every step keeps the order of main, server, database and requests.      *)
LEMMA ServerStep ==
  ASSUME ServerInv, DatabaseInv, [Next]_vars
  PROVE  ServerInv' /\ DatabaseInv'
<1> USE ServerAssumption DEF ServerInv, DatabaseInv, RequestsFindTheDatabase
<1>1. ASSUME Ended PROVE ServerInv' /\ DatabaseInv'
  <2>1. /\ main' = "off" /\ http' = "off" /\ database' = "new" /\ signal' = FALSE
        /\ requests' = 0 /\ request' = [h \in Handlers |-> NoRequest]
    BY <1>1 DEF Ended
  <2>2. request' \in [Handlers -> RequestRecords]
    BY <2>1, NoRequestIs
  <2>3. \A h \in Handlers : request'[h].pc = "none" /\ request'[h].answer = "none"
    BY <2>1, NoRequestIs
  <2>4. 0 \in 0..MaxRequests /\ FALSE \in BOOLEAN
    OBVIOUS
  <2>5. ServerInv'
    BY <2>1, <2>2, <2>4
  <2>6. DatabaseInv'
    BY <2>1, <2>3
  <2> QED BY <2>5, <2>6
<1>2. CASE Boot
  BY <1>2 DEF Boot
<1>3. CASE MainStep
  <2>1. CASE OpenDatabase
    BY <2>1 DEF OpenDatabase
  <2>2. CASE SpawnHTTP
    BY <2>2 DEF SpawnHTTP
  <2>3. CASE Notify
    BY <2>3 DEF Notify
  <2>4. CASE Shutdown
    BY <2>4 DEF Shutdown
  <2>5. CASE Close
    BY <2>5 DEF Close
  <2>6. CASE Exit
    BY <1>1, <2>6 DEF Exit
  <2> QED BY <1>3, <2>1, <2>2, <2>3, <2>4, <2>5, <2>6 DEF MainStep
<1>4. CASE Signal
  BY <1>1, <1>4 DEF Signal
<1>5. CASE Crash
  BY <1>1, <1>5 DEF Crash
<1>6. CASE Listen
  BY <1>6 DEF Listen
<1>7. CASE Serve
  BY <1>7 DEF Serve
<1>8. ASSUME NEW h \in Handlers, Arrive(h) \/ Query(h) \/ Answer(h)
      PROVE  ServerInv' /\ DatabaseInv'
  <2>1. CASE Arrive(h)
    BY <2>1 DEF Arrive, RequestRecords
  <2>2. CASE Query(h)
    BY <2>2 DEF Query, RequestRecords
  <2>3. CASE Answer(h)
    BY <2>3, NoRequestIs DEF Answer
  <2> QED BY <1>8, <2>1, <2>2, <2>3
<1>9. CASE UNCHANGED serverVars
  BY <1>9 DEF serverVars
<1> QED
  <2>1. CASE Next
    BY <1>2, <1>3, <1>4, <1>5, <1>6, <1>7, <1>8, <1>9, <2>1
       DEF Next, LogCall, Streaming, ConnectPage, Reading, Leaving, Stalling
  <2>2. CASE UNCHANGED vars
    BY <1>9, <2>2 DEF vars
  <2> QED BY <2>1, <2>2

(* Every step keeps the log's invariant.                                   *)
LEMMA LogStep ==
  ASSUME LogInv, [Next]_vars
  PROVE  LogInv'
<1> USE ServerAssumption, LoggingAssumption
<1>1. ASSUME Ended PROVE LogInv'
  BY <1>1, LogStarted DEF Ended
<1>2. CASE Boot
  BY <1>2, LogStarted DEF Boot
<1>3. CASE MainStep
  <2>1. CASE OpenDatabase
    BY <2>1, CallStep DEF OpenDatabase
  <2>2. CASE SpawnHTTP
    BY <2>2, LogSame DEF SpawnHTTP
  <2>3. CASE Notify
    BY <2>3, CallStep DEF Notify
  <2>4. CASE Shutdown
    BY <2>4, CallStep DEF Shutdown
  <2>5. CASE Close
    BY <2>5, CallStep DEF Close, Call
  <2>6. CASE Exit
    BY <1>1, <2>6 DEF Exit
  <2> QED BY <1>3, <2>1, <2>2, <2>3, <2>4, <2>5, <2>6 DEF MainStep
<1>4. CASE Signal
  BY <1>1, <1>4, LogSame DEF Signal
<1>5. CASE Crash
  BY <1>1, <1>5 DEF Crash
<1>6. CASE Listen
  BY <1>6, CallStep DEF Listen, Call
<1>7. CASE Serve
  BY <1>7, LogSame DEF Serve
<1>8. ASSUME NEW h \in Handlers, Arrive(h) \/ Query(h) \/ Answer(h)
      PROVE  LogInv'
  <2>1. CASE Arrive(h)
    BY <2>1, LogSame DEF Arrive
  <2>2. CASE Query(h)
    BY <2>2, CallStep DEF Query, Call
  <2>3. CASE Answer(h)
    BY <2>3, LogSame DEF Answer
  <2> QED BY <1>8, <2>1, <2>2, <2>3
<1>9. ASSUME NEW g \in Goroutines, LogCall(g) PROVE LogInv'
  BY <1>9, PublishStep DEF LogCall
<1>10. CASE Streaming
  BY <1>10, TakeLineStep, SendLineStep, ReplayStep, RegisterStep, DeregisterStep
     DEF Streaming, StreamStep
<1>11. ASSUME NEW c \in Pages, ConnectPage(c) \/ Reading(c) \/ Leaving(c) \/ Stalling(c)
       PROVE  LogInv'
  BY <1>11, ConnectStep, ReadLineStep, DrainStep, LeaveStep, StallStep
     DEF ConnectPage, Reading, Leaving, Stalling
<1> QED
  <2>1. CASE Next
    BY <1>2, <1>3, <1>4, <1>5, <1>6, <1>7, <1>8, <1>9, <1>10, <1>11, <2>1 DEF Next
  <2>2. CASE UNCHANGED vars
    BY <2>2, LogSame DEF vars
  <2> QED BY <2>1, <2>2

(* The log, the process and the database are in agreement in every state.  *)
THEOREM Invariance == Spec => []Inv
<1>1. Init => Inv
  <2> SUFFICES ASSUME Init PROVE Inv
    OBVIOUS
  <2>1. LogInv
    BY LogInitially DEF Init
  <2>2. ServerInv /\ DatabaseInv
    <3> USE ServerAssumption DEF Init
    <3>1. request \in [Handlers -> RequestRecords]
      BY NoRequestIs
    <3>2. \A h \in Handlers : request[h].pc = "none" /\ request[h].answer = "none"
      BY NoRequestIs
    <3>3. 0 \in 0..MaxRequests /\ FALSE \in BOOLEAN
      OBVIOUS
    <3>4. ServerInv
      BY <3>1, <3>3 DEF ServerInv
    <3>5. DatabaseInv
      BY <3>2 DEF DatabaseInv, RequestsFindTheDatabase
    <3> QED BY <3>4, <3>5
  <2> QED BY <2>1, <2>2 DEF Inv
<1>2. Inv /\ [Next]_vars => Inv'
  BY ServerStep, LogStep DEF Inv
<1> QED BY <1>1, <1>2, PTL DEF Spec

(* Types, and what the goroutines of the log are doing, for any number of  *)
(* goroutines and pages and any size of the queue and the connections.     *)
THEOREM TypeCorrect == Spec => []TypeOK
<1>1. Inv => TypeOK
  <2> SUFFICES ASSUME Inv PROVE TypeOK
    OBVIOUS
  <2>1. LogTypeOK
    <3>1. LogTypes /\ StreamOK /\ SubscribersOK
      BY DEF Inv, LogInv
    <3>2. DOMAIN subscribers = 1..Len(subscribers) /\ DOMAIN sent = 1..Len(sent)
      BY <3>1 DEF LogTypes
    <3>3. \A c \in Pages : page[c].pc \in {"away", "join", "open", "stall", "leave"}
      BY <3>1 DEF LogTypes, PageRecords
    <3>4. stream.pc \in {"select", "send", "replay"}
      BY <3>1 DEF LogTypes
    <3> QED BY <3>1, <3>2, <3>3, <3>4 DEF LogTypeOK, LogTypes, StreamOK, SubscribersOK
  <2> QED BY <2>1 DEF Inv, ServerInv, TypeOK, RequestRecords
<1> QED BY <1>1, Invariance, PTL

(* A request meets a closed database only when main is exiting.            *)
THEOREM DatabaseFound == Spec => []RequestsFindTheDatabase
<1>1. Inv => RequestsFindTheDatabase
  BY DEF Inv, DatabaseInv
<1> QED BY <1>1, Invariance, PTL

(* Every page that listens has been given the lines kept for it and those  *)
(* that followed, none left out, repeated or swapped.                      *)
THEOREM PagesInStep == Spec => []PagesFollowTheStream
<1>1. Inv => PagesFollowTheStream
  <2> SUFFICES ASSUME Inv, NEW c \in Listening
               PROVE  LET from == page[c].from IN
                        /\ Got(c) = SubSeq(sent, from, from + Len(Got(c)) - 1)
                        /\ stream.pc = "select" => from + Len(Got(c)) - 1 = Len(sent)
    BY DEF PagesFollowTheStream
  <2> DEFINE n == Len(sent)
             p == page[c]
  <2>1. LogTypes /\ c \in Pages /\ p.pc \in {"open", "stall"}
    BY DEF Inv, LogInv, Listening
  <2>2. PICK i \in 1..Len(subscribers) : subscribers[i] = c
    BY <2>1 DEF Inv, LogInv, SubscribersOK
  <2> DEFINE due == Due(stream, Len(subscribers), n, i)
  <2>3. Follows(p, sent, due)
    BY <2>1, <2>2 DEF Inv, LogInv, PagesOK
  <2>4. n \in Nat /\ sent \in Seq(1..lines) /\ Len(subscribers) \in Nat
    BY <2>1 DEF LogTypes
  <2>5. due \in 1..(n + 1) /\ (stream.pc = "select" => due = n + 1)
    <3>1. stream.pc = "send" => n > 0
      BY DEF Inv, LogInv, StreamOK
    <3>2. stream.pc = "replay" => stream.at \in 1..n
      BY DEF Inv, LogInv, StreamOK
    <3> QED BY <2>4, <3>1, <3>2 DEF Due
  <2> HIDE DEF due
  <2>6. p.from \in 1..due /\ Got(c) = SubSeq(sent, p.from, due - 1)
    BY <2>3 DEF Follows, Got
  <2>7. Len(SubSeq(sent, p.from, due - 1)) = due - p.from
    BY <2>4, <2>5, <2>6
  <2>8. p.from + Len(Got(c)) - 1 = due - 1
    BY <2>4, <2>5, <2>6, <2>7
  <2>9. stream.pc = "select" => due - 1 = n
    BY <2>4, <2>5
  <2> QED BY <2>6, <2>8, <2>9
<1> QED BY <1>1, Invariance, PTL
=============================================================================

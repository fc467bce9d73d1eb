------------------------------- MODULE Logging -------------------------------
(***************************************************************************)
(* The log.  A log call writes its line to the log file and then hands it  *)
(* to the stream "logs", from which pages of the web interface get it as   *)
(* server-sent events.  Nothing here gives up waiting: a full queue keeps  *)
(* the log call, and with it whatever the caller was doing.                *)
(*                                                                         *)
(* The level lets every call pass (TRACE, the default).  Log calls that    *)
(* follow each other in a function are one.  A line is its number in the   *)
(* file.  The stream is a library, modelled from its use.                  *)
(***************************************************************************)
EXTENDS Naturals, Sequences, SequencesExt

CONSTANTS
  Goroutines,   \* whoever logs
  Pages,        \* pages with an event source, and the goroutines serving them
  QueueSize,    \* lines the stream's queue holds
  ConnSize,     \* lines held for one page
  MaxEntries,   \* lines a page opened later is shown
  MaxJoins      \* bound: pages opened in the life of a process

ASSUME LoggingAssumption ==
  /\ Pages \subseteq Goroutines
  /\ QueueSize \in Nat \ {0} /\ ConnSize \in Nat \ {0}
  /\ MaxEntries \in Nat \ {0} /\ MaxJoins \in Nat

VARIABLES
  lines,         \* lines written since the process started
  writing,       \* writing[g]: the line that goroutine g is handing on, or NoLine
  queue,         \* lines the stream has not taken yet
  sent,          \* lines it has taken
  stream,        \* the stream's goroutine
  subscribers,   \* the pages it serves, in the order they came
  page,          \* page[c]: a page and its connection
  joins          \* pages opened since the process started

logVars == <<lines, writing, queue, sent, stream, subscribers, page, joins>>

NoLine == 0

Silent(g) == writing[g] = NoLine

(* conn: lines on their way to the page; shown: those it shows; from: the  *)
(* place in sent of the first line meant for it.                           *)
NoPage == [pc |-> "away", conn |-> <<>>, shown |-> <<>>, from |-> 0]

Opened(from) == [pc |-> "open", conn |-> <<>>, shown |-> <<>>, from |-> from]

Selecting == [pc |-> "select", at |-> 0]

(* A process starts: CreateStreamWithOpts and RegisterSSEWriter.           *)
LogStarts ==
  /\ lines' = 0 /\ joins' = 0
  /\ writing' = [g \in Goroutines |-> NoLine]
  /\ queue' = <<>> /\ sent' = <<>>
  /\ stream' = Selecting /\ subscribers' = <<>>
  /\ page' = [c \in Pages |-> NoPage]

LogInit ==
  /\ lines = 0 /\ joins = 0
  /\ writing = [g \in Goroutines |-> NoLine]
  /\ queue = <<>> /\ sent = <<>>
  /\ stream = Selecting /\ subscribers = <<>>
  /\ page = [c \in Pages |-> NoPage]

-----------------------------------------------------------------------------
(* A log call                                                              *)

(* log.Info().Msg(...) and the like, up to the last of the writers.  One   *)
(* before it may fail (a full disk), and then keeps the line from it       *)
(* (io.MultiWriter).                                                       *)
Call(g) ==
  \/ /\ lines' = lines + 1
     /\ writing' = [writing EXCEPT ![g] = lines + 1]
  \/ UNCHANGED <<lines, writing>>

(* A full queue loses the line.                                            *)
TryPublish(g) ==
  /\ writing[g] # NoLine
  /\ queue' = IF Len(queue) < QueueSize THEN Append(queue, writing[g]) ELSE queue
  /\ writing' = [writing EXCEPT ![g] = NoLine]
  /\ UNCHANGED <<lines, sent, stream, subscribers, page, joins>>

(* The queue taken for one without an end.                                 *)
PublishAtOnce(g) ==
  /\ writing[g] # NoLine
  /\ queue' = Append(queue, writing[g])
  /\ writing' = [writing EXCEPT ![g] = NoLine]
  /\ UNCHANGED <<lines, sent, stream, subscribers, page, joins>>

(* SSEWriter.Write makes a message of the line and publishes it.           *)
Publish(g) ==
  /\ writing[g] # NoLine
  /\ Len(queue) < QueueSize
  /\ queue' = Append(queue, writing[g])
  /\ writing' = [writing EXCEPT ![g] = NoLine]
  /\ UNCHANGED <<lines, sent, stream, subscribers, page, joins>>

-----------------------------------------------------------------------------
(* The stream's goroutine: one thing at a time, and to its end             *)

Room(c) == Len(page[c].conn) < ConnSize

Feed(c, line) == page' = [page EXCEPT ![c].conn = Append(@, line)]

TakeLine ==
  /\ stream.pc = "select"
  /\ queue # <<>>
  /\ sent' = Append(sent, Head(queue))
  /\ queue' = Tail(queue)
  /\ stream' = IF subscribers = <<>> THEN Selecting ELSE [pc |-> "send", at |-> 1]
  /\ UNCHANGED <<lines, writing, subscribers, page, joins>>

SendLine ==
  /\ stream.pc = "send"
  /\ Room(subscribers[stream.at])
  /\ Feed(subscribers[stream.at], Last(sent))
  /\ stream' = IF stream.at = Len(subscribers) THEN Selecting ELSE [stream EXCEPT !.at = @ + 1]
  /\ UNCHANGED <<lines, writing, queue, sent, subscribers, joins>>

(* Where the kept lines begin.                                             *)
OldestKept == IF Len(sent) > MaxEntries THEN Len(sent) - MaxEntries + 1 ELSE 1

(* AutoReplay: the lines kept come first.                                  *)
Register(c) ==
  /\ stream.pc = "select"
  /\ page[c].pc = "join"
  /\ subscribers' = Append(subscribers, c)
  /\ page' = [page EXCEPT ![c] = Opened(OldestKept)]
  /\ stream' = IF sent = <<>> THEN Selecting ELSE [pc |-> "replay", at |-> OldestKept]
  /\ UNCHANGED <<lines, writing, queue, sent, joins>>

(* The loop ends before the last line.                                     *)
ReplayAllButLast ==
  /\ stream.pc = "replay"
  /\ IF stream.at < Len(sent)
       THEN /\ Room(Last(subscribers))
            /\ Feed(Last(subscribers), sent[stream.at])
            /\ stream' = [stream EXCEPT !.at = @ + 1]
       ELSE stream' = Selecting /\ UNCHANGED page
  /\ UNCHANGED <<lines, writing, queue, sent, subscribers, joins>>

Replay ==
  /\ stream.pc = "replay"
  /\ Room(Last(subscribers))
  /\ Feed(Last(subscribers), sent[stream.at])
  /\ stream' = IF stream.at = Len(sent) THEN Selecting ELSE [stream EXCEPT !.at = @ + 1]
  /\ UNCHANGED <<lines, writing, queue, sent, subscribers, joins>>

(* The handler returns, and LoggerMiddleware logs the request.             *)
Deregister(c) ==
  /\ stream.pc = "select"
  /\ page[c].pc = "leave"
  /\ \E i \in DOMAIN subscribers :
       subscribers[i] = c /\ subscribers' = RemoveAt(subscribers, i)
  /\ page' = [page EXCEPT ![c] = NoPage]
  /\ Call(c)
  /\ UNCHANGED <<queue, sent, stream, joins>>

StreamStep == TakeLine \/ SendLine \/ Replay \/ \E c \in Pages : Register(c) \/ Deregister(c)

-----------------------------------------------------------------------------
(* Pages                                                                   *)

(* GET /api/events?stream=logs.                                            *)
Connect(c) ==
  /\ page[c].pc = "away" /\ Silent(c)
  /\ joins < MaxJoins
  /\ joins' = joins + 1
  /\ page' = [page EXCEPT ![c].pc = "join"]
  /\ UNCHANGED <<lines, writing, queue, sent, stream, subscribers>>

(* ServeHTTP writes the line, and the page adds it to those it shows.      *)
ReadLine(c) ==
  /\ page[c].pc = "open" /\ page[c].conn # <<>>
  /\ LET old == page[c] IN
       page' = [page EXCEPT ![c] = [pc |-> "open", conn |-> Tail(old.conn),
                                    shown |-> Append(old.shown, Head(old.conn)), from |-> old.from]]
  /\ UNCHANGED <<lines, writing, queue, sent, stream, subscribers, joins>>

(* A computer asleep: nothing is read, and http.Server has no time limit   *)
(* for writing.                                                            *)
Stall(c) ==
  /\ page[c].pc = "open"
  /\ page' = [page EXCEPT ![c].pc = "stall"]
  /\ UNCHANGED <<lines, writing, queue, sent, stream, subscribers, joins>>

(* The page is closed, or its connection breaks.                           *)
Leave(c) ==
  /\ page[c].pc \in {"open", "stall"}
  /\ page' = [page EXCEPT ![c] = [pc |-> "leave", conn |-> page[c].conn, shown |-> <<>>, from |-> 0]]
  /\ UNCHANGED <<lines, writing, queue, sent, stream, subscribers, joins>>

(* The handler stops at the first write that fails.                        *)
DrainNot(c) == FALSE /\ UNCHANGED logVars

(* Until it is deregistered, the handler goes on taking lines, although    *)
(* writing them fails.                                                     *)
Drain(c) ==
  /\ page[c].pc = "leave" /\ page[c].conn # <<>>
  /\ page' = [page EXCEPT ![c].conn = Tail(@)]
  /\ UNCHANGED <<lines, writing, queue, sent, stream, subscribers, joins>>

-----------------------------------------------------------------------------
(* Properties                                                              *)

LogTypeOK ==
  /\ lines \in Nat /\ joins \in 0..MaxJoins
  /\ writing \in [Goroutines -> 0..lines]
  /\ queue \in Seq(1..lines) /\ Len(queue) <= QueueSize
  /\ sent \in Seq(1..lines)
  /\ stream.pc \in {"select", "send", "replay"}
  /\ stream.pc = "send" => stream.at \in DOMAIN subscribers
  /\ stream.pc = "replay" => stream.at \in DOMAIN sent
  /\ subscribers \in Seq(Pages)
  /\ \A c \in Pages :
       /\ page[c].pc \in {"away", "join", "open", "stall", "leave"}
       /\ Len(page[c].conn) <= ConnSize
       /\ page[c].pc \in {"open", "stall", "leave"} <=> \E i \in DOMAIN subscribers : subscribers[i] = c

Listening == {c \in Pages : page[c].pc \in {"open", "stall"}}

(* What a page has been sent, shown or not.                                *)
Got(c) == page[c].shown \o page[c].conn

Shows(c, line) == \E i \in DOMAIN page[c].shown : page[c].shown[i] = line

TooOld(c, line) == \E i \in 1..(page[c].from - 1) : sent[i] = line

(* A page is given the lines kept and the lines that follow without a gap, *)
(* a repetition or a swap, whoever else listens, joins or leaves meanwhile *)
(* (StreamOpts: AutoReplay); and all of them, when the stream is at rest.  *)
PagesFollowTheStream ==
  \A c \in Listening :
    LET from == page[c].from IN
    /\ Got(c) = SubSeq(sent, from, from + Len(Got(c)) - 1)
    /\ stream.pc = "select" => from + Len(Got(c)) - 1 = Len(sent)
=============================================================================

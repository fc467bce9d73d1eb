------------------------------- MODULE Server --------------------------------
(***************************************************************************)
(* The process: main with its signals, the goroutine of the HTTP server,   *)
(* requests, and the log that all of them write.  main opens the database, *)
(* starts the server and waits for a signal; it then closes the database   *)
(* and exits, with requests running and pages connected.                   *)
(***************************************************************************)
EXTENDS Logging

CONSTANTS
  Main, HTTP,    \* the goroutines of main and of the HTTP server
  Handlers,      \* running requests other than those of pages
  MaxRequests    \* bound: requests in the life of a process

ASSUME ServerAssumption ==
  /\ Goroutines = {Main, HTTP} \cup Handlers \cup Pages
  /\ Main # HTTP /\ {Main, HTTP} \cap (Handlers \cup Pages) = {}
  /\ Handlers \cap Pages = {}
  /\ MaxRequests \in Nat

VARIABLES
  main,       \* where main is
  http,       \* where the HTTP server's goroutine is
  database,   \* "new", "open", "closed"
  signal,     \* a signal is in sigCh
  request,    \* request[h]: a running request
  requests

serverVars == <<main, http, database, signal, request, requests>>

vars == <<logVars, serverVars>>

NoRequest == [pc |-> "none", logged |-> TRUE, answer |-> "none"]

Init ==
  /\ LogInit
  /\ main = "off" /\ http = "off" /\ database = "new" /\ signal = FALSE
  /\ request = [h \in Handlers |-> NoRequest]
  /\ requests = 0

-----------------------------------------------------------------------------
(* main                                                                    *)

(* The supervisor starts the process: configuration, logger, stream.       *)
Boot ==
  /\ main = "off"
  /\ main' = "open"
  /\ LogStarts
  /\ UNCHANGED <<http, database, signal, request, requests>>

(* NewDB and Open; log.Fatal on an error.  "Starting SyncYomi" otherwise.  *)
OpenDatabase ==
  /\ main = "open" /\ Silent(Main)
  /\ Call(Main)
  /\ \/ main' = "serve" /\ database' = "open"
     \/ main' = "exit" /\ UNCHANGED database
  /\ UNCHANGED <<queue, sent, stream, subscribers, page, joins>>
  /\ UNCHANGED <<http, signal, request, requests>>

(* The server first, the database when it is needed.                       *)
SpawnHTTPFirst ==
  /\ main \in {"open", "serve"} /\ http = "off" /\ Silent(Main)
  /\ main' = IF main = "serve" THEN "notify" ELSE main
  /\ http' = "listen"
  /\ UNCHANGED <<logVars, database, signal, request, requests>>

(* Repositories and services, and go httpServer.Open().                    *)
SpawnHTTP ==
  /\ main = "serve" /\ Silent(Main)
  /\ main' = "notify"
  /\ http' = "listen"
  /\ UNCHANGED <<logVars, database, signal, request, requests>>

(* signal.Notify, and srv.Start, which logs.                               *)
Notify ==
  /\ main = "notify"
  /\ main' = "wait"
  /\ Call(Main)
  /\ UNCHANGED <<queue, sent, stream, subscribers, page, joins>>
  /\ UNCHANGED <<http, database, signal, request, requests>>

(* SIGHUP logs before it.  srv.Shutdown logs and stops the scheduler.      *)
Shutdown ==
  /\ main = "wait" /\ Silent(Main)
  /\ signal
  /\ signal' = FALSE
  /\ main' = "close"
  /\ Call(Main)
  /\ UNCHANGED <<queue, sent, stream, subscribers, page, joins>>
  /\ UNCHANGED <<http, database, request, requests>>

(* The connections are waited for.                                         *)
CloseGracefully ==
  /\ main = "close" /\ Silent(Main)
  /\ subscribers = <<>>
  /\ \A h \in Handlers : request[h].pc = "none"
  /\ database' = "closed"
  /\ main' = "exit"
  /\ UNCHANGED <<logVars, http, signal, request, requests>>

(* db.Close; log.Fatal on an error, and os.Exit in both cases.             *)
Close ==
  /\ main = "close" /\ Silent(Main)
  /\ database' = "closed"
  /\ main' = "exit"
  /\ \/ UNCHANGED <<lines, writing>>
     \/ Call(Main)
  /\ UNCHANGED <<queue, sent, stream, subscribers, page, joins>>
  /\ UNCHANGED <<http, signal, request, requests>>

(* The end of the process: memory and connections are gone.                *)
Ended ==
  /\ LogStarts
  /\ main' = "off" /\ http' = "off" /\ database' = "new" /\ signal' = FALSE
  /\ request' = [h \in Handlers |-> NoRequest]
  /\ requests' = 0

Exit ==
  /\ main = "exit" /\ Silent(Main)
  /\ Ended

MainStep == OpenDatabase \/ SpawnHTTP \/ Notify \/ Shutdown \/ Close \/ Exit

(* SIGINT, SIGTERM or SIGHUP.  Before Notify, the signal ends the process. *)
(* sigCh holds one.                                                        *)
Signal ==
  /\ main # "off"
  /\ IF main \in {"open", "serve", "notify"}
       THEN Ended
       ELSE signal' = TRUE /\ UNCHANGED <<logVars, main, http, database, request, requests>>

(* SIGKILL, or the machine stops.                                          *)
Crash ==
  /\ main # "off"
  /\ Ended

-----------------------------------------------------------------------------
(* The HTTP server                                                         *)

(* net.Listen.  An error goes into errorChannel, which nobody reads: the   *)
(* goroutine is blocked for good.                                          *)
Listen ==
  /\ http = "listen"
  /\ \/ http' = "log" /\ Call(HTTP)
     \/ http' = "blocked" /\ UNCHANGED <<lines, writing>>
  /\ UNCHANGED <<queue, sent, stream, subscribers, page, joins>>
  /\ UNCHANGED <<main, database, signal, request, requests>>

Serve ==
  /\ http = "log" /\ Silent(HTTP)
  /\ http' = "serving"
  /\ UNCHANGED <<logVars, main, database, signal, request, requests>>

(* LoggerMiddleware logs all but health requests when they end.            *)
Arrive(h) ==
  /\ http = "serving"
  /\ request[h].pc = "none" /\ requests < MaxRequests
  /\ requests' = requests + 1
  /\ \E logged \in BOOLEAN :
       request' = [request EXCEPT ![h] = [pc |-> "query", logged |-> logged, answer |-> "none"]]
  /\ UNCHANGED <<logVars, main, http, database, signal>>

(* The handler's statement, or its ping, on a database that is open or     *)
(* not.                                                                    *)
Query(h) ==
  /\ request[h].pc = "query"
  /\ request' = [request EXCEPT ![h] =
       [@ EXCEPT !.pc = "answer", !.answer = IF database = "open" THEN "done" ELSE "error"]]
  /\ IF request[h].logged THEN Call(h) ELSE UNCHANGED <<lines, writing>>
  /\ UNCHANGED <<queue, sent, stream, subscribers, page, joins>>
  /\ UNCHANGED <<main, http, database, signal, requests>>

(* The answer leaves the buffer once the middleware has returned.          *)
Answer(h) ==
  /\ request[h].pc = "answer" /\ Silent(h)
  /\ request' = [request EXCEPT ![h] = NoRequest]
  /\ UNCHANGED <<logVars, main, http, database, signal, requests>>

(* A page is served like a request.                                        *)
ConnectPage(c) == http = "serving" /\ Connect(c) /\ UNCHANGED serverVars

LogCall(g) == Publish(g) /\ UNCHANGED serverVars

Reading(c) == (ReadLine(c) \/ Drain(c)) /\ UNCHANGED serverVars

Leaving(c) == Leave(c) /\ UNCHANGED serverVars

Stalling(c) == Stall(c) /\ UNCHANGED serverVars

Streaming == StreamStep /\ UNCHANGED serverVars

Next ==
  \/ Boot \/ MainStep \/ Signal \/ Crash
  \/ Listen \/ Serve
  \/ \E h \in Handlers : Arrive(h) \/ Query(h) \/ Answer(h)
  \/ \E g \in Goroutines : LogCall(g)
  \/ Streaming
  \/ \E c \in Pages :
       ConnectPage(c) \/ Reading(c) \/ Leaving(c) \/ Stalling(c)

Spec == Init /\ [][Next]_vars

(* The Go scheduler runs every goroutine that can run, and those waiting   *)
(* for a channel have their turn.  A page reads, and one that does not     *)
(* loses its connection, in the end.                                       *)
Fairness ==
  /\ WF_vars(MainStep)
  /\ WF_vars(Listen \/ Serve)
  /\ \A h \in Handlers : WF_vars(Query(h) \/ Answer(h))
  /\ \A g \in Goroutines : SF_vars(LogCall(g))
  /\ WF_vars(Streaming)
  /\ \A c \in Pages :
       /\ WF_vars(Reading(c))
       /\ WF_vars(page[c].pc = "stall" /\ Leaving(c))

FairSpec == Spec /\ Fairness

-----------------------------------------------------------------------------
(* Properties                                                              *)

(* Types of the state, and what the log's goroutines are doing.            *)
TypeOK ==
  /\ LogTypeOK
  /\ main \in {"off", "open", "serve", "notify", "wait", "close", "exit"}
  /\ http \in {"off", "listen", "log", "serving", "blocked"}
  /\ database \in {"new", "open", "closed"}
  /\ signal \in BOOLEAN
  /\ \A h \in Handlers :
       /\ request[h].pc \in {"none", "query", "answer"}
       /\ request[h].answer \in {"none", "done", "error"}
  /\ requests \in 0..MaxRequests

(* Only while the process is ending is a request refused for want of the   *)
(* database: main opens it before it starts the server.                    *)
RequestsFindTheDatabase ==
  \A h \in Handlers : request[h].answer = "error" => main = "exit"

(* A signal ends the process, although requests run and pages are          *)
(* connected: main waits for none of them, save that it logs, which it can *)
(* as soon as a page that has stalled is gone, as Fairness supposes.       *)
SignalsEndTheProcess == signal ~> main = "off"

(* Every request is answered unless the process ends, although it has to   *)
(* log first, and the log may be waiting for a page that sleeps.           *)
RequestsEnd ==
  \A h \in Handlers : request[h].pc = "query" ~> request[h].pc = "none"

(* What has been written while a page is open, or was kept for it, gets to *)
(* it, unless the page leaves or stalls.                                   *)
PagesGetEveryLine ==
  \A c \in Pages :
    page[c].pc = "open" ~>
      \/ page[c].pc # "open"
      \/ \A line \in 1..lines : Shows(c, line) \/ TooOld(c, line)
=============================================================================

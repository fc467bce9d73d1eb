----------------------------- MODULE ConfigProofs -----------------------------
(***************************************************************************)
(* Invariants of Config for any number of PATCH handlers, any texts that   *)
(* they are asked to write, any files that users save, all faults, and no  *)
(* bound on requests, edits and changes that wait for the watcher.         *)
(***************************************************************************)
EXTENDS Config, TLAPS

Handler ==
  [pc : {"idle", "check", "level", "read", "lines", "open", "write"},
   ask : Asks, copy : File, before : File]

(* The types in three parts: values, handlers (which go on only with a     *)
(* file they could read), and who may be at work before the server serves. *)
ValuesOK ==
  /\ file \in File
  /\ proc \in {"off", "create", "load", "watch", "up"}
  /\ mem \in Settings /\ parsed \in Settings
  /\ logger \in Levels
  /\ watcher \in {"idle", "level", "logger", "check"}
  /\ events \in 0..MaxEvents
  /\ torn \in BOOLEAN /\ parted \in BOOLEAN
  /\ patches \in 0..MaxPatches /\ edits \in 0..MaxEdits

HandlersOK ==
  /\ req \in [Handlers -> Handler]
  /\ \A h \in Handlers :
       req[h].pc \in {"lines", "open", "write"} => req[h].copy.there

DownOK ==
  proc # "up" =>
    watcher = "idle" /\ events = 0 /\ \A h \in Handlers : req[h].pc = "idle"

TypeInv == ValuesOK /\ HandlersOK /\ DownOK

(* A file that can be read, but for a text that was written raw; nothing   *)
(* is said of one that no PATCH writes as it should.                       *)
Whole(f) ==
  ~f.odd /\ f.text # "spilt" =>
    f.parses /\ f.others /\ (f.level = "broken" => f.text = "raw")

(* Unless something has come between: one handler at most is at work, what *)
(* it is going to write is whole, a file that it has emptied is still      *)
(* empty, and every other file is whole.                                   *)
WholeOK ==
  ~torn =>
    /\ \A g, h \in Busy : g = h
    /\ \A h \in Handlers :
         /\ req[h].pc \in {"lines", "open", "write"} => Whole(req[h].copy)
         /\ req[h].pc = "write" => file = Truncated
    /\ file.there /\ Writing = {} /\ proc # "create" => Whole(file)

FollowsLevel(s, f) ==
  /\ f.level # "missing" => s.level = f.level
  /\ f.level = "missing" => s.level \in {Default, ""}

Follows(s, f) == FollowsLevel(s, f) /\ (f.check # "missing" => s.check = f.check)

(* The handlers whose assignments to the struct are not in the file yet.   *)
Ahead == {h \in Handlers : req[h].pc \in {"level", "read", "lines", "open"}}

(* With no change of the file to take up, viper has what the file says; if *)
(* no handler is ahead of the file either, the struct has it as far as the *)
(* watcher has come.                                                       *)
FollowsOK ==
  proc \in {"watch", "up"} /\ events = 0 /\ ~parted /\ Readable(file) =>
    /\ parsed = Reloaded(file)
    /\ watcher = "idle" /\ Ahead = {} => Follows(mem, file)
    /\ watcher \in {"logger", "check"} /\ Ahead = {} => mem.level = parsed.level

SaysLevel(s, q) ==
  q.before.level # "missing" \/ q.ask.level # "absent" =>
    s.level = Asked(q.ask.level, q.before.level)

SaysCheck(s, q) ==
  q.before.check # "missing" \/ q.ask.check # "absent" =>
    s.check = Asked(q.ask.check, q.before.check)

(* A handler that found a file it understands, and is to leave a level in  *)
(* it that TOML reads back.                                                *)
Sound(q) ==
  Tidy(q.before) /\ Asked(q.ask.level, q.before.level) \in Plain \cup {"missing"}

-----------------------------------------------------------------------------
(* Types.                                                                  *)

(* The files and structs that the program makes.                           *)
LEMMA MadeFiles ==
  /\ NoFile \in File /\ Truncated \in File /\ FirstFile \in File
  /\ Edits \subseteq File
  /\ \A f \in Edits : f.there /\ f.others /\ f.level # "broken"
<1>1. Template \in Texts
  BY ConstantsAssumption DEF Plain
<1> QED BY <1>1, ConstantsAssumption DEF NoFile, Truncated, FirstFile, File, UsersFiles

LEMMA PlainTexts ==
  /\ Default \in Plain /\ "" \in Plain /\ Plain \subseteq Texts
  /\ \A t \in Plain : t \notin Multiline /\ ReadBack[t] = t
  /\ \A t \in Texts : ReadBack[t] \in Texts \cup {"broken"}
  /\ \A t \in Texts \ Multiline : ReadBack[t] = "broken" => t \notin Plain
  /\ "missing" \notin Texts /\ "broken" \notin Texts /\ "absent" \notin Texts
BY ConstantsAssumption DEF Plain

LEMMA MadeSettings ==
  ASSUME NEW f \in File, f.level # "broken"
  PROVE  Loaded(f) \in Settings /\ Reloaded(f) \in Settings
BY PlainTexts DEF File, Settings, Loaded, Reloaded

LEMMA MadeHandler == IdleHandler \in Handler /\ IdleHandler.pc = "idle" /\ ~IdleHandler.before.there
<1>1. [level |-> "absent", check |-> "absent"] \in Asks
  BY DEF Asks
<1>2. NoFile \in File /\ ~NoFile.there
  BY MadeFiles DEF NoFile
<1> QED BY <1>1, <1>2 DEF IdleHandler, Handler

LEMMA SpillsAre ==
  ASSUME NEW f \in File, NEW g \in Spills(f)
  PROVE  g \in File /\ g.there = f.there /\ g.odd = f.odd /\ g.text = f.text
<1>1. \A r \in Remains :
        r.parses \in BOOLEAN /\ r.others \in BOOLEAN /\ r.check \in {"on", "off", "missing"}
  BY ConstantsAssumption
<1> QED BY <1>1 DEF Spills, File

(* What processLines makes of a file.                                      *)
LEMMA ProcessedIs ==
  ASSUME NEW f \in File, mem \in Settings, NEW g \in Processed(f)
  PROVE  /\ g \in File /\ g.there = f.there /\ g.odd = f.odd
         /\ g.text = TextAfter(f.text)
         /\ g.text # "spilt" =>
              /\ g.others = f.others /\ (g.parses <=> f.parses /\ ~f.odd)
              /\ g.level = ReadBack[mem.level] /\ g.check = mem.check
<1> DEFINE parses == f.parses /\ ~f.odd
           lines == [f EXCEPT !.text = TextAfter(f.text), !.parses = parses,
                              !.level = ReadBack[mem.level], !.check = mem.check]
<1>1. parses \in BOOLEAN /\ mem.level \in Texts /\ mem.check \in {"on", "off", "missing"}
  BY DEF Settings
<1>2. TextAfter(f.text) \in {"plain", "raw", "spilt"}
  BY PlainTexts DEF TextAfter
<1>3. ReadBack[mem.level] \in Texts \cup {"missing", "broken"}
  BY <1>1, PlainTexts
<1>4. /\ lines \in File /\ lines.there = f.there /\ lines.odd = f.odd
      /\ lines.text = TextAfter(f.text) /\ lines.others = f.others
      /\ lines.parses = parses /\ lines.level = ReadBack[mem.level] /\ lines.check = mem.check
  <2> HIDE DEF parses
  <2> QED BY <1>1, <1>2, <1>3 DEF File
<1>5. g \in IF lines.text = "spilt" THEN Spills(lines) ELSE {lines}
  BY DEF Processed
<1> HIDE DEF lines
<1>6. CASE lines.text = "spilt"
  <2>1. g \in Spills(lines)
    BY <1>5, <1>6
  <2> QED BY <1>4, <1>6, <2>1, SpillsAre
<1>7. CASE lines.text # "spilt"
  <2>1. g = lines
    BY <1>5, <1>7
  <2> QED BY <1>4, <2>1
<1> QED BY <1>6, <1>7

-----------------------------------------------------------------------------
(* Where a handler goes next when nothing fails, and with what lines.      *)
NextPc(pc) ==
  CASE pc = "check" -> "level" [] pc = "level" -> "read" [] pc = "read" -> "lines"
    [] pc = "lines" -> "open"  [] pc = "open" -> "write"

NextCopies(q) ==
  CASE q.pc = "read"                 -> {file}
    [] q.pc = "lines"                -> Processed(q.copy)
    [] q.pc \notin {"read", "lines"} -> {q.copy}

Onward(q, copy) ==
  [pc |-> NextPc(q.pc), ask |-> q.ask, copy |-> copy, before |-> q.before]

Underway == {"check", "level", "read", "lines", "open"}

(* A handler goes on, with a file that is there if it has read one.        *)
GoesOn(h) ==
  /\ \E copy \in NextCopies(req[h]) : req' = [req EXCEPT ![h] = Onward(req[h], copy)]
  /\ req[h].pc = "read" => file.there

(* A handler is refused with the struct changed and the file as it was.    *)
Refused(h) ==
  /\ req' = [req EXCEPT ![h] = IdleHandler]
  /\ parted' = TRUE
  /\ UNCHANGED <<file, proc, mem, parsed, logger, watcher, events, torn, patches, edits>>

LEMMA GoesOnIs ==
  ASSUME ValuesOK, HandlersOK, NEW h \in Handlers, req[h].pc \in Underway, GoesOn(h)
  PROVE  /\ req[h] \in Handler /\ req'[h] \in Handler /\ req' = [req EXCEPT ![h] = req'[h]]
         /\ req'[h].pc = NextPc(req[h].pc) /\ req'[h].copy \in NextCopies(req[h])
         /\ req'[h].ask = req[h].ask /\ req'[h].before = req[h].before
         /\ \A i \in Handlers : i # h => req'[i] = req[i]
<1>1. req[h] \in Handler /\ req \in [Handlers -> Handler]
  BY DEF HandlersOK
<1>2. PICK copy \in NextCopies(req[h]) : req' = [req EXCEPT ![h] = Onward(req[h], copy)]
  BY DEF GoesOn
<1>3. NextPc(req[h].pc) \in {"level", "read", "lines", "open", "write"}
  BY DEF NextPc, Underway
<1>4. copy \in File
  <2>1. req[h].copy \in File /\ file \in File /\ mem \in Settings
    BY <1>1 DEF Handler, ValuesOK
  <2>2. \A g \in Processed(req[h].copy) : g \in File
    BY <2>1, ProcessedIs
  <2> QED BY <1>2, <2>1, <2>2 DEF NextCopies
<1>5. Onward(req[h], copy) \in Handler
  BY <1>1, <1>3, <1>4 DEF Handler, Onward
<1>6. req'[h] = Onward(req[h], copy) /\ \A i \in Handlers : i # h => req'[i] = req[i]
  BY <1>1, <1>2
<1>7. req' = [req EXCEPT ![h] = req'[h]]
  BY <1>2, <1>6
<1> QED BY <1>1, <1>2, <1>5, <1>6, <1>7 DEF Onward

LEMMA TwoFields ==
  ASSUME NEW q \in Handler, NEW pc, NEW copy
  PROVE  [q EXCEPT !.pc = pc, !.copy = copy]
           = [pc |-> pc, ask |-> q.ask, copy |-> copy, before |-> q.before]
<1> DEFINE p == [pc |-> pc, ask |-> q.ask, copy |-> q.copy, before |-> q.before]
<1>1. [q EXCEPT !.pc = pc] = p
  BY DEF Handler
<1>2. [p EXCEPT !.copy = copy] = [pc |-> pc, ask |-> q.ask, copy |-> copy, before |-> q.before]
  OBVIOUS
<1>3. [q EXCEPT !.pc = pc, !.copy = copy] = [[q EXCEPT !.pc = pc] EXCEPT !.copy = copy]
  OBVIOUS
<1> HIDE DEF p
<1> QED BY <1>1, <1>2, <1>3

(* The steps of a handler after its first and before its last.             *)
Middle(h) == SetCheck(h) \/ SetLevel(h) \/ ReadFile(h) \/ processLines(h) \/ OpenFile(h)

LEMMA HandlerSteps ==
  ASSUME HandlersOK, NEW h \in Handlers, Middle(h)
  PROVE  req[h].pc \in Underway /\ (GoesOn(h) \/ Refused(h))
<1>1. req[h] \in Handler
  BY DEF HandlersOK
<1>2. CASE SetCheck(h)
  <2>1. req[h].pc = "check" /\ req' = [req EXCEPT ![h].pc = "level"]
    BY <1>2 DEF SetCheck
  <2>2. Onward(req[h], req[h].copy) = [req[h] EXCEPT !.pc = "level"]
    BY <1>1, <2>1 DEF Onward, NextPc, Handler
  <2>3. req' = [req EXCEPT ![h] = Onward(req[h], req[h].copy)]
    BY <2>1, <2>2
  <2>4. req[h].copy \in NextCopies(req[h])
    BY <2>1 DEF NextCopies
  <2> QED BY <2>1, <2>3, <2>4 DEF Underway, GoesOn
<1>3. CASE SetLevel(h)
  <2>1. req[h].pc = "level" /\ req' = [req EXCEPT ![h].pc = "read"]
    BY <1>3 DEF SetLevel
  <2>2. Onward(req[h], req[h].copy) = [req[h] EXCEPT !.pc = "read"]
    BY <1>1, <2>1 DEF Onward, NextPc, Handler
  <2>3. req' = [req EXCEPT ![h] = Onward(req[h], req[h].copy)]
    BY <2>1, <2>2
  <2>4. req[h].copy \in NextCopies(req[h])
    BY <2>1 DEF NextCopies
  <2> QED BY <2>1, <2>3, <2>4 DEF Underway, GoesOn
<1>4. CASE ReadFile(h)
  <2>1. req[h].pc = "read" /\ file \in NextCopies(req[h])
    BY <1>4 DEF ReadFile, NextCopies
  <2>2. Onward(req[h], file) = [req[h] EXCEPT !.pc = "lines", !.copy = file]
    <3>1. NextPc(req[h].pc) = "lines"
      BY <2>1 DEF NextPc
    <3> QED BY <1>1, <3>1, TwoFields DEF Onward
  <2>3. GoesOn(h) \/ Refused(h)
    BY <1>4, <2>1, <2>2 DEF ReadFile, GoesOn, Refuse, Refused
  <2> QED BY <2>1, <2>3 DEF Underway
<1>5. CASE processLines(h)
  <2>1. req[h].pc = "lines"
    BY <1>5 DEF processLines
  <2>2. PICK lines \in Processed(req[h].copy) :
          req' = [req EXCEPT ![h] = [req[h] EXCEPT !.pc = "open", !.copy = lines]]
    BY <1>5 DEF processLines
  <2>3. Onward(req[h], lines) = [req[h] EXCEPT !.pc = "open", !.copy = lines]
    <3>1. NextPc(req[h].pc) = "open"
      BY <2>1 DEF NextPc
    <3> QED BY <1>1, <3>1, TwoFields DEF Onward
  <2>4. lines \in NextCopies(req[h])
    BY <2>1 DEF NextCopies
  <2>5. GoesOn(h)
    BY <2>1, <2>2, <2>3, <2>4 DEF GoesOn
  <2> QED BY <2>1, <2>5 DEF Underway
<1>6. CASE OpenFile(h)
  <2>1. req[h].pc = "open" /\ req[h].copy \in NextCopies(req[h])
    BY <1>6 DEF OpenFile, NextCopies
  <2>2. Onward(req[h], req[h].copy) = [req[h] EXCEPT !.pc = "write"]
    BY <1>1, <2>1 DEF Onward, NextPc, Handler
  <2>3. GoesOn(h) \/ Refused(h)
    BY <1>6, <2>1, <2>2 DEF OpenFile, GoesOn, Refuse, Refused
  <2> QED BY <2>1, <2>3 DEF Underway
<1> QED BY <1>2, <1>3, <1>4, <1>5, <1>6 DEF Middle

-----------------------------------------------------------------------------
LEMMA OneChanges ==
  ASSUME HandlersOK, NEW h \in Handlers, NEW q \in Handler,
         req' = [req EXCEPT ![h] = q],
         q.pc \in {"lines", "open", "write"} => q.copy.there
  PROVE  HandlersOK'
BY DEF HandlersOK

LEMMA AllForget ==
  ASSUME HandlersOK
  PROVE  \A i \in Handlers :
           /\ [req[i] EXCEPT !.before = NoFile] \in Handler
           /\ [req[i] EXCEPT !.before = NoFile].pc = req[i].pc
           /\ [req[i] EXCEPT !.before = NoFile].ask = req[i].ask
           /\ [req[i] EXCEPT !.before = NoFile].copy = req[i].copy
           /\ [req[i] EXCEPT !.before = NoFile].before = NoFile
<1> TAKE i \in Handlers
<1>1. req[i] \in Handler /\ NoFile \in File
  BY MadeFiles DEF HandlersOK
<1> QED BY <1>1 DEF Handler

LEMMA FirstStep ==
  ASSUME ValuesOK, NEW ask \in Bodies
  PROVE  LET q == [IdleHandler EXCEPT !.pc = "check", !.ask = ask,
                     !.before = IF Quiet /\ ~parted THEN file ELSE NoFile]
         IN  /\ q \in Handler /\ q.pc = "check" /\ q.ask = ask
             /\ q.before = IF Quiet /\ ~parted THEN file ELSE NoFile
<1>1. NoFile \in File /\ file \in File /\ ask \in Asks
  BY MadeFiles, ConstantsAssumption DEF ValuesOK
<1>2. (IF Quiet /\ ~parted THEN file ELSE NoFile) \in File
  BY <1>1
<1> QED BY <1>1, <1>2 DEF IdleHandler, Handler

LEMMA NextHandlersOK ==
  ASSUME TypeInv, [Next]_vars
  PROVE  HandlersOK'
<1> USE DEF TypeInv
<1>1. CASE UNCHANGED req
  BY <1>1 DEF HandlersOK
<1>2. CASE req' = [h \in Handlers |-> IdleHandler]
  BY <1>2, MadeHandler DEF HandlersOK
<1>3. ASSUME NEW h \in Handlers, req' = [req EXCEPT ![h] = IdleHandler]
      PROVE  HandlersOK'
  BY <1>3, MadeHandler, OneChanges
<1>4. ASSUME NEW h \in Handlers, Patch(h) PROVE HandlersOK'
  <2>1. PICK ask \in Bodies :
          req' = [i \in Handlers |->
            IF i = h THEN [IdleHandler EXCEPT !.pc = "check", !.ask = ask,
                             !.before = IF Quiet /\ ~parted THEN file ELSE NoFile]
                     ELSE [req[i] EXCEPT !.before = NoFile]]
    BY <1>4 DEF Patch
  <2>2. req'[h] \in Handler /\ req'[h].pc = "check"
    BY <2>1, FirstStep
  <2>3. ASSUME NEW i \in Handlers, i # h
        PROVE  req'[i] \in Handler /\ req'[i].pc = req[i].pc /\ req'[i].copy = req[i].copy
    BY <2>1, <2>3, AllForget
  <2>4. DOMAIN req' = Handlers /\ req' = [i \in Handlers |-> req'[i]]
    BY <2>1
  <2> QED BY <2>2, <2>3, <2>4 DEF HandlersOK
<1>5. ASSUME NEW h \in Handlers,
             Middle(h)
      PROVE  HandlersOK'
  <2>1. req[h].pc \in Underway /\ (GoesOn(h) \/ Refused(h))
    BY <1>5, HandlerSteps
  <2>2. CASE GoesOn(h)
    <3>1. /\ req[h] \in Handler /\ req'[h] \in Handler /\ req' = [req EXCEPT ![h] = req'[h]]
          /\ req'[h].pc = NextPc(req[h].pc) /\ req'[h].copy \in NextCopies(req[h])
      BY <2>1, <2>2, GoesOnIs
    <3>2. ASSUME req'[h].pc \in {"lines", "open", "write"}
          PROVE  req'[h].copy.there
      <4>1. req[h].pc \in {"read", "lines", "open"}
        BY <2>1, <3>1, <3>2 DEF NextPc, Underway
      <4>2. req[h].pc \in {"lines", "open"} => req[h].copy.there
        BY DEF HandlersOK
      <4>3. \A g \in Processed(req[h].copy) : g.there = req[h].copy.there
        BY <3>1, ProcessedIs DEF Handler, ValuesOK
      <4> QED BY <2>2, <3>1, <4>1, <4>2, <4>3 DEF NextCopies, GoesOn
    <3> QED BY <3>1, <3>2, OneChanges
  <2> QED BY <2>1, <2>2, <1>3 DEF Refused
<1>6. CASE Edit
  <2>1. req' = [i \in Handlers |-> [req[i] EXCEPT !.before = NoFile]]
    BY <1>6 DEF Edit
  <2> QED BY <2>1, AllForget DEF HandlersOK
<1>7. CASE UNCHANGED vars
  BY <1>1, <1>7 DEF vars
<1>8. CASE CreateFile \/ FillFile \/ Load \/ WatchConfig \/ OnConfigChange
  BY <1>1, <1>8 DEF CreateFile, FillFile, Load, WatchConfig, OnConfigChange,
                    ReadInConfig, ReloadLevel, SetLogLevel, ReloadCheck
<1>9. CASE Stop
  BY <1>2, <1>9 DEF Stop
<1>10. ASSUME NEW h \in Handlers, WriteFile(h) PROVE HandlersOK'
  BY <1>3, <1>10 DEF WriteFile
<1> QED BY <1>4, <1>5, <1>6, <1>7, <1>8, <1>9, <1>10 DEF Next, updateConfig, Continue, Middle

(* One change of the file leaves the count of them in its bound.           *)
LEMMA NoticeTyped ==
  ASSUME events \in 0..MaxEvents, Notice
  PROVE  events' \in 0..MaxEvents /\ (proc # "up" => events' = events)
                                  /\ (proc = "up" => events' > 0)
<1>1. MaxEvents \in Nat
  BY ConstantsAssumption
<1> QED BY <1>1 DEF Notice

(* What a handler sets, and what it writes.                                *)
LEMMA AskedTyped ==
  ASSUME ValuesOK, HandlersOK, NEW h \in Handlers
  PROVE  /\ [mem EXCEPT !.check = Asked(req[h].ask.check, @)] \in Settings
         /\ [mem EXCEPT !.level = Asked(req[h].ask.level, @)] \in Settings
         /\ Written(h) \subseteq File
<1>1. req[h].ask \in Asks /\ req[h].copy \in File /\ mem \in Settings
  BY DEF HandlersOK, Handler, ValuesOK
<1>2. Asked(req[h].ask.check, mem.check) \in {"on", "off"}
  BY <1>1 DEF Asked, Asks, Settings
<1>3. Asked(req[h].ask.level, mem.level) \in Texts
  BY <1>1 DEF Asked, Asks, Settings
<1>4. [req[h].copy EXCEPT !.parses = FALSE] \in File
  BY <1>1 DEF File
<1> QED BY <1>1, <1>2, <1>3, <1>4 DEF Settings, Written

LEMMA NextValuesOK ==
  ASSUME TypeInv, [Next]_vars
  PROVE  ValuesOK'
<1>0. ValuesOK /\ HandlersOK
  BY DEF TypeInv
<1>1. /\ file \in File /\ mem \in Settings /\ parsed \in Settings /\ logger \in Levels
      /\ watcher \in {"idle", "level", "logger", "check"} /\ events \in 0..MaxEvents
      /\ proc \in {"off", "create", "load", "watch", "up"}
      /\ torn \in BOOLEAN /\ parted \in BOOLEAN
      /\ patches \in 0..MaxPatches /\ edits \in 0..MaxEdits
  BY <1>0 DEF ValuesOK
<1>2. MaxPatches \in Nat /\ MaxEdits \in Nat /\ MaxEvents \in Nat /\ Default \in Levels
  BY ConstantsAssumption
<1>3. CASE UNCHANGED vars
  BY <1>0, <1>3 DEF vars, ValuesOK
<1>4. CASE CreateFile \/ FillFile \/ WatchConfig \/ Stop
  <2>1. file' \in File
    BY <1>1, <1>4, MadeFiles DEF CreateFile, FillFile, WatchConfig, Stop
  <2>2. proc' \in {"off", "create", "load", "up"} /\ UNCHANGED <<mem, parsed, logger, parted, patches, edits>>
    BY <1>4 DEF CreateFile, FillFile, WatchConfig, Stop
  <2>3. events' \in {events, 0} /\ watcher' \in {watcher, "idle"} /\ torn' \in BOOLEAN
    BY <1>1, <1>4 DEF CreateFile, FillFile, WatchConfig, Stop
  <2> QED BY <1>1, <1>2, <2>1, <2>2, <2>3 DEF ValuesOK
<1>5. CASE Load
  <2> DEFINE f == IF Readable(file) THEN file ELSE NoFile
  <2>1. f \in File /\ f.level # "broken"
    BY <1>1, MadeFiles DEF Readable, NoFile
  <2>2. Loaded(f) \in Settings /\ Reloaded(f) \in Settings
    BY <2>1, MadeSettings
  <2>3. mem' = Loaded(f) /\ parsed' = Reloaded(f)
    BY <1>5 DEF Load
  <2>4. logger' \in Levels
    BY <1>2, <1>5 DEF Load
  <2>5. proc' = "watch" /\ parted' = FALSE
          /\ UNCHANGED <<file, watcher, events, torn, patches, edits>>
    BY <1>5 DEF Load
  <2> HIDE DEF f
  <2> QED BY <1>1, <2>2, <2>3, <2>4, <2>5 DEF ValuesOK
<1>6. CASE OnConfigChange
  <2>1. parsed' \in Settings
    BY <1>1, <1>6, MadeSettings DEF Readable, OnConfigChange, ReadInConfig, ReloadLevel, SetLogLevel, ReloadCheck
  <2>2. mem' \in Settings
    BY <1>1, <1>6 DEF OnConfigChange, ReadInConfig, ReloadLevel, SetLogLevel, ReloadCheck, Settings
  <2>3. logger' \in Levels
    BY <1>1, <1>6 DEF OnConfigChange, ReadInConfig, ReloadLevel, SetLogLevel, ReloadCheck, LevelSet
  <2>4. watcher' \in {"idle", "level", "logger", "check"} /\ events' \in {events, events - 1}
          /\ (events' = events - 1 => events > 0 \/ events' = events)
    BY <1>6 DEF OnConfigChange, ReadInConfig, ReloadLevel, SetLogLevel, ReloadCheck
  <2>5. UNCHANGED <<file, proc, torn, patches, edits>> /\ parted' \in BOOLEAN
    BY <1>1, <1>6 DEF OnConfigChange, ReadInConfig, ReloadLevel, SetLogLevel, ReloadCheck
  <2>6. events' \in 0..MaxEvents
    BY <1>1, <1>2, <2>4
  <2> QED BY <1>1, <2>1, <2>2, <2>3, <2>4, <2>5, <2>6 DEF ValuesOK
<1>7. ASSUME NEW h \in Handlers, Patch(h) PROVE ValuesOK'
  <2>1. patches' \in 0..MaxPatches
    BY <1>1, <1>2, <1>7 DEF Patch
  <2>2. torn' \in BOOLEAN
           /\ UNCHANGED <<file, proc, mem, parsed, logger, watcher, events, parted, edits>>
    BY <1>7 DEF Patch
  <2> QED BY <1>1, <2>1, <2>2 DEF ValuesOK
<1>8. ASSUME NEW h \in Handlers, SetCheck(h) \/ SetLevel(h) PROVE ValuesOK'
  <2>1. mem' \in Settings
    BY <1>0, <1>8, AskedTyped DEF SetCheck, SetLevel
  <2>2. UNCHANGED <<file, proc, parsed, logger, watcher, events, torn, parted, patches, edits>>
    BY <1>8 DEF SetCheck, SetLevel
  <2> QED BY <1>1, <2>1, <2>2 DEF ValuesOK
<1>9. ASSUME NEW h \in Handlers, ReadFile(h) \/ processLines(h) \/ OpenFile(h) \/ WriteFile(h)
      PROVE  ValuesOK'
  <2>1. file' \in File
    <3>1. Truncated \in File /\ Written(h) \subseteq File
      BY <1>0, MadeFiles, AskedTyped
    <3> QED BY <1>1, <1>9, <3>1 DEF ReadFile, processLines, OpenFile, WriteFile, Refuse
  <2>2. events' \in 0..MaxEvents
    <3>1. Notice \/ UNCHANGED events
      BY <1>9 DEF ReadFile, processLines, OpenFile, WriteFile
    <3> QED BY <1>1, <3>1, NoticeTyped
  <2>3. parted' \in BOOLEAN /\ torn' \in BOOLEAN
    BY <1>1, <1>9 DEF ReadFile, processLines, OpenFile, WriteFile, Refuse
  <2>4. UNCHANGED <<proc, mem, parsed, logger, watcher, patches, edits>>
    BY <1>9 DEF ReadFile, processLines, OpenFile, WriteFile
  <2> QED BY <1>1, <2>1, <2>2, <2>3, <2>4 DEF ValuesOK
<1>10. CASE Edit
  <2>1. file' \in File /\ edits' \in 0..MaxEdits
    BY <1>1, <1>2, <1>10, MadeFiles DEF Edit
  <2>2. Notice /\ torn' \in BOOLEAN /\ parted' \in BOOLEAN
           /\ UNCHANGED <<proc, mem, parsed, logger, watcher, patches>>
    BY <1>10 DEF Edit
  <2>3. events' \in 0..MaxEvents
    BY <1>1, <2>2, NoticeTyped
  <2> QED BY <1>1, <2>1, <2>2, <2>3 DEF ValuesOK
<1> QED BY <1>3, <1>4, <1>5, <1>6, <1>7, <1>8, <1>9, <1>10 DEF Next, updateConfig, Continue, Middle

LEMMA NextDownOK ==
  ASSUME TypeInv, [Next]_vars
  PROVE  DownOK'
<1>0. ValuesOK /\ HandlersOK /\ DownOK
  BY DEF TypeInv
<1>1. CASE UNCHANGED vars
  BY <1>0, <1>1 DEF vars, DownOK
<1>2. CASE CreateFile \/ FillFile \/ Load \/ WatchConfig
  <2>1. proc # "up" /\ UNCHANGED <<watcher, events, req>>
    BY <1>2 DEF CreateFile, FillFile, Load, WatchConfig
  <2> QED BY <1>0, <2>1 DEF DownOK
<1>3. CASE Stop
  BY <1>3, MadeHandler DEF Stop, DownOK
<1>4. CASE OnConfigChange
  <2>1. watcher # "idle" \/ events > 0
    BY <1>4 DEF OnConfigChange, ReadInConfig, ReloadLevel, SetLogLevel, ReloadCheck
  <2>2. proc = "up"
    <3>1. ~(0 > 0)
      OBVIOUS
    <3> QED BY <1>0, <2>1, <3>1 DEF DownOK
  <2>3. proc' = proc
    BY <1>4 DEF OnConfigChange, ReadInConfig, ReloadLevel, SetLogLevel, ReloadCheck
  <2> QED BY <2>2, <2>3 DEF DownOK
<1>5. ASSUME NEW h \in Handlers, updateConfig(h) PROVE DownOK'
  <2>1. proc = "up" \/ req[h].pc # "idle"
    BY <1>5 DEF updateConfig, Continue, Patch, SetCheck, SetLevel, ReadFile, processLines, OpenFile, WriteFile
  <2>2. proc' = proc
    BY <1>5 DEF updateConfig, Continue, Patch, SetCheck, SetLevel, ReadFile, processLines, OpenFile, WriteFile
  <2> QED BY <1>0, <2>1, <2>2 DEF DownOK
<1>6. CASE Edit
  <2>1. UNCHANGED <<proc, watcher>> /\ (proc # "up" => events' = events)
    BY <1>0, <1>6, NoticeTyped DEF Edit, ValuesOK
  <2>2. \A i \in Handlers : req'[i].pc = req[i].pc
    BY <1>0, <1>6, AllForget DEF Edit
  <2> QED BY <1>0, <2>1, <2>2 DEF DownOK
<1> QED BY <1>1, <1>2, <1>3, <1>4, <1>5, <1>6 DEF Next

LEMMA InitTypeInv ==
  ASSUME Init PROVE TypeInv
<1>1. ValuesOK
  <2>1. Loaded(NoFile) \in Settings /\ Reloaded(NoFile) \in Settings /\ NoFile \in File
    <3>1. NoFile.level # "broken"
      BY DEF NoFile
    <3> QED BY <3>1, MadeFiles, MadeSettings
  <2>2. MaxPatches \in Nat /\ MaxEdits \in Nat /\ MaxEvents \in Nat /\ Default \in Levels
    BY ConstantsAssumption
  <2>3. 0 \in 0..MaxEvents /\ 0 \in 0..MaxPatches /\ 0 \in 0..MaxEdits
    BY <2>2
  <2>4. /\ file = NoFile /\ proc = "off" /\ mem = Loaded(NoFile) /\ parsed = Reloaded(NoFile)
        /\ logger = Default /\ watcher = "idle" /\ events = 0
        /\ torn = FALSE /\ parted = FALSE /\ patches = 0 /\ edits = 0
    BY DEF Init
  <2> QED BY <2>1, <2>2, <2>3, <2>4 DEF ValuesOK
<1>2. HandlersOK
  BY MadeHandler DEF Init, HandlersOK
<1>3. DownOK
  BY MadeHandler DEF Init, DownOK
<1> QED BY <1>1, <1>2, <1>3 DEF TypeInv

LEMMA TypesAreOK ==
  ASSUME TypeInv PROVE TypeOK
<1>1. \A h \in Busy : req[h].pc \in {"open", "write"} => req[h].copy.there
  BY DEF TypeInv, HandlersOK, Busy
<1>2. proc # "up" => watcher = "idle" /\ events = 0 /\ Busy = {}
  BY DEF TypeInv, DownOK, Busy
<1> QED BY <1>1, <1>2 DEF TypeInv, ValuesOK, HandlersOK, Handler, TypeOK

LEMMA TypeInvariance == Spec => []TypeInv
<1>1. TypeInv /\ [Next]_vars => TypeInv'
  BY NextValuesOK, NextHandlersOK, NextDownOK DEF TypeInv
<1> QED BY <1>1, InitTypeInv, PTL DEF Spec

(* Types of the state: file, struct, watcher and handlers (config.go), for *)
(* any number of handlers, levels and files, with every fault; and nobody  *)
(* is at work before the server serves.                                    *)
THEOREM TypeCorrect == Spec => []TypeOK
BY TypeInvariance, TypesAreOK, PTL

-----------------------------------------------------------------------------
(* The file stays whole.                                                   *)

LEMMA MadeWhole ==
  /\ Whole(FirstFile) /\ ~NoFile.there /\ Truncated.there
<1>1. Template # "broken"
  BY ConstantsAssumption, PlainTexts
<1> QED BY <1>1 DEF Whole, FirstFile, Truncated, NoFile

LEMMA ProcessedWhole ==
  ASSUME ValuesOK, NEW f \in File, Whole(f), NEW g \in Processed(f)
  PROVE  Whole(g)
<1>1. mem \in Settings /\ mem.level \in Texts
  BY DEF ValuesOK, Settings
<1>2. SUFFICES ASSUME ~g.odd, g.text # "spilt"
               PROVE  g.parses /\ g.others /\ (g.level = "broken" => g.text = "raw")
  BY DEF Whole
<1>3. /\ g.odd = f.odd /\ g.text = TextAfter(f.text) /\ g.others = f.others
      /\ (g.parses <=> f.parses /\ ~f.odd) /\ g.level = ReadBack[mem.level]
  BY <1>1, <1>2, ProcessedIs
<1>4. f.text # "spilt" /\ mem.level \notin Multiline
  <2>1. f.text = "spilt" \/ mem.level \in Multiline => TextAfter(f.text) = "spilt"
    BY PlainTexts DEF TextAfter
  <2> QED BY <1>2, <1>3, <2>1
<1>5. ASSUME g.level = "broken" PROVE g.text = "raw"
  <2>1. mem.level \notin Plain
    BY <1>1, <1>3, <1>4, <1>5, PlainTexts
  <2> QED BY <1>3, <1>4, <2>1 DEF TextAfter
<1> QED BY <1>2, <1>3, <1>4, <1>5 DEF Whole

(* Who has a file open.                                                    *)
LEMMA Writers ==
  /\ \A h \in Handlers : h \in Writing <=> req[h].pc = "write"
  /\ Writing # {} => \E h \in Handlers : req[h].pc = "write"
  /\ \A h \in Handlers : h \in Busy <=> req[h].pc # "idle"
  /\ Busy \subseteq Handlers
BY DEF Writing, Busy

(* A handler that goes on, or ends, when it is alone.                      *)
LEMMA HandlerKeepsWhole ==
  ASSUME TypeInv, WholeOK, ~torn, NEW h \in Handlers,
         Middle(h)
  PROVE  WholeOK'
<1>0. ValuesOK /\ HandlersOK /\ DownOK
  BY DEF TypeInv
<1>1. req[h].pc \in Underway /\ (GoesOn(h) \/ Refused(h))
  BY <1>0, HandlerSteps
<1>2. h \in Busy /\ \A i \in Handlers : i # h => req[i].pc = "idle"
  BY <1>1 DEF WholeOK, Busy, Underway
<1>3. proc = "up" /\ Writing = {}
  BY <1>0, <1>1, <1>2 DEF DownOK, Underway, Writing
<1>4. \A i \in Handlers : i # h => req'[i] = req[i]
  BY <1>1, <1>0, GoesOnIs DEF Refused, HandlersOK
<1>5. \A g, i \in Busy' : g = i
  BY <1>2, <1>4 DEF Busy
<1>6. CASE Refused(h)
  <2>1. req'[h].pc = "idle"
    BY <1>0, <1>6, MadeHandler DEF Refused, HandlersOK
  <2>2. UNCHANGED <<file, proc, torn>>
    BY <1>6 DEF Refused
  <2> QED BY <1>2, <1>3, <1>4, <1>5, <2>1, <2>2 DEF WholeOK
<1>7. CASE GoesOn(h)
  <2>2. req'[h].pc = NextPc(req[h].pc) /\ req'[h].copy \in NextCopies(req[h])
    BY <1>0, <1>1, <1>7, GoesOnIs
  <2>3. req[h].copy \in File
    BY <1>0 DEF HandlersOK, Handler
  <2>4. CASE req[h].pc \in {"check", "level"}
    <3>1. req'[h].pc \in {"level", "read"}
      BY <2>2, <2>4 DEF NextPc
    <3>2. UNCHANGED <<file, proc, torn>>
      BY <2>4 DEF Middle, SetCheck, SetLevel, ReadFile, processLines, OpenFile
    <3> QED BY <1>2, <1>3, <1>4, <1>5, <3>1, <3>2 DEF WholeOK
  <2>5. CASE req[h].pc \in {"read", "lines"}
    <3>1. req'[h].pc \in {"lines", "open"}
      BY <2>2, <2>5 DEF NextPc
    <3>2. UNCHANGED <<file, proc, torn>>
      BY <1>7, <2>5, <3>1, <1>0 DEF Middle, SetCheck, SetLevel, ReadFile, processLines, OpenFile, Refuse
    <3>3. Whole(req'[h].copy)
      <4>1. CASE req[h].pc = "read"
        <5>1. Whole(file)
          BY <1>3, <1>7, <4>1 DEF WholeOK, GoesOn
        <5> QED BY <2>2, <4>1, <5>1 DEF NextCopies
      <4>2. CASE req[h].pc = "lines"
        <5>1. Whole(req[h].copy)
          BY <4>2 DEF WholeOK
        <5>2. req'[h].copy \in Processed(req[h].copy)
          BY <2>2, <4>2 DEF NextCopies
        <5> QED BY <1>0, <2>3, <5>1, <5>2, ProcessedWhole
      <4> QED BY <2>5, <4>1, <4>2
    <3> QED BY <1>2, <1>3, <1>4, <1>5, <3>1, <3>2, <3>3 DEF WholeOK
  <2>6. CASE req[h].pc = "open"
    <3>1. req'[h].pc = "write" /\ req'[h].copy = req[h].copy
      BY <2>2, <2>6 DEF NextPc, NextCopies
    <3>2. OpenFile(h)
      BY <2>6 DEF Middle, SetCheck, SetLevel, ReadFile, processLines
    <3>3. file' = Truncated /\ UNCHANGED torn
      <4>1. ~Refuse(h)
        BY <1>0, <3>1, MadeHandler DEF Refuse, HandlersOK
      <4> QED BY <3>2, <4>1 DEF OpenFile
    <3>4. Whole(req'[h].copy)
      BY <2>6, <3>1 DEF WholeOK
    <3>5. h \in Writing'
      BY <3>1 DEF Writing
    <3> QED BY <1>2, <1>4, <1>5, <3>1, <3>3, <3>4, <3>5 DEF WholeOK
  <2> QED BY <1>1, <2>4, <2>5, <2>6 DEF Underway
<1> QED BY <1>1, <1>6, <1>7

LEMMA NextWholeOK ==
  ASSUME TypeInv, WholeOK, [Next]_vars
  PROVE  WholeOK'
<1>0. ValuesOK /\ HandlersOK /\ DownOK
  BY DEF TypeInv
<1>1. SUFFICES ASSUME ~torn' PROVE WholeOK'
  BY DEF WholeOK
<1>2. CASE Edit
  <2>1. (file').parses /\ Writing = {} /\ (~torn \/ Busy = {})
    BY <1>1, <1>2 DEF Edit
  <2>2. (file').others /\ (file').level # "broken"
    BY <1>2, MadeFiles DEF Edit
  <2>3. \A i \in Handlers : req'[i].pc = req[i].pc /\ req'[i].copy = req[i].copy
    BY <1>0, <1>2, AllForget DEF Edit
  <2>4. Busy' = Busy /\ Writing' = {}
    BY <2>1, <2>3 DEF Busy, Writing
  <2>5. \A g, i \in Busy : g = i
    BY <2>1 DEF WholeOK
  <2>6. \A i \in Handlers : req[i].pc \in {"lines", "open"} => Whole(req[i].copy)
    BY <2>1 DEF WholeOK, Busy
  <2>7. \A i \in Handlers : req[i].pc # "write"
    BY <2>1 DEF Writing
  <2> QED BY <2>1, <2>2, <2>3, <2>4, <2>5, <2>6, <2>7 DEF WholeOK, Whole
<1>3. ASSUME ~Edit PROVE ~torn
  BY <1>1, <1>3 DEF Next, vars, CreateFile, FillFile, Load, WatchConfig, Stop,
       OnConfigChange, ReadInConfig, ReloadLevel, SetLogLevel, ReloadCheck, updateConfig, Continue, Patch,
       SetCheck, SetLevel, ReadFile, processLines, OpenFile, WriteFile
<1>4. ASSUME UNCHANGED <<file, proc, req, torn>> PROVE WholeOK'
  <2>1. Busy' = Busy /\ Writing' = Writing
    BY <1>4 DEF Busy, Writing
  <2> QED BY <1>4, <2>1 DEF WholeOK
<1>5. CASE UNCHANGED vars
  BY <1>4, <1>5 DEF vars
<1>6. CASE OnConfigChange
  BY <1>4, <1>6 DEF OnConfigChange, ReadInConfig, ReloadLevel, SetLogLevel, ReloadCheck
<1>7. CASE CreateFile \/ FillFile \/ Load \/ WatchConfig
  <2>1. ~torn
    BY <1>1, <1>7 DEF CreateFile, FillFile, Load, WatchConfig
  <2>2. UNCHANGED req /\ proc # "up"
    BY <1>7 DEF CreateFile, FillFile, Load, WatchConfig
  <2>3. Busy' = {} /\ Writing' = {} /\ \A i \in Handlers : req'[i].pc = "idle"
    BY <1>0, <2>2 DEF DownOK, Busy, Writing
  <2>4. Writing = {}
    BY <2>2, <2>3 DEF Writing
  <2>5. (file').there /\ proc' # "create" => Whole(file')
    BY <1>1, <1>7, <2>1, <2>4, MadeWhole DEF CreateFile, FillFile, Load, WatchConfig, WholeOK
  <2> QED BY <2>3, <2>5 DEF WholeOK
<1>8. CASE Stop
  <2>1. ~torn /\ proc # "create" /\ Writing = {} /\ UNCHANGED file
    BY <1>1, <1>8 DEF Stop
  <2>2. Busy' = {} /\ \A i \in Handlers : req'[i].pc = "idle"
    BY <1>8, MadeHandler DEF Stop, Busy
  <2> QED BY <2>1, <2>2 DEF WholeOK
<1>9. ASSUME NEW h \in Handlers, Patch(h) PROVE WholeOK'
  <2>1. ~torn /\ Busy = {} /\ UNCHANGED <<file, proc>>
    BY <1>1, <1>9 DEF Patch
  <2>2. proc = "up" /\ Writing = {}
    BY <1>9, <2>1 DEF Patch, Busy, Writing
  <2>3. \A i \in Handlers : i # h => req'[i].pc = "idle"
    <3>1. \A i \in Handlers : i # h => req'[i] = [req[i] EXCEPT !.before = NoFile]
      BY <1>9 DEF Patch
    <3> QED BY <1>0, <2>1, <3>1, AllForget DEF Busy
  <2>4. req'[h].pc = "check"
    <3>1. PICK ask \in Bodies :
            req'[h] = [IdleHandler EXCEPT !.pc = "check", !.ask = ask,
                         !.before = IF Quiet /\ ~parted THEN file ELSE NoFile]
      BY <1>9 DEF Patch
    <3> QED BY <1>0, <3>1, FirstStep
  <2>5. Writing' = {} /\ \A g, i \in Busy' : g = i
    BY <2>3, <2>4 DEF Busy, Writing
  <2> QED BY <2>1, <2>2, <2>3, <2>4, <2>5 DEF WholeOK
<1>10. ASSUME NEW h \in Handlers,
              Middle(h)
       PROVE  WholeOK'
  <2>1. ~torn
    BY <1>1, <1>10 DEF Middle, SetCheck, SetLevel, ReadFile, processLines, OpenFile
  <2> QED BY <1>10, <2>1, HandlerKeepsWhole
<1>11. ASSUME NEW h \in Handlers, WriteFile(h) PROVE WholeOK'
  <2>1. ~torn /\ req[h].pc = "write" /\ file' \in Written(h)
          /\ req' = [req EXCEPT ![h] = IdleHandler]
    BY <1>1, <1>11 DEF WriteFile
  <2>2. file = Truncated /\ Whole(req[h].copy)
    BY <2>1 DEF WholeOK
  <2>3. Whole(file')
    BY <2>1, <2>2 DEF Written
  <2>4. \A i \in Handlers : req'[i].pc = "idle"
    BY <1>0, <2>1, MadeHandler DEF WholeOK, Busy, HandlersOK
  <2> QED BY <2>3, <2>4 DEF WholeOK, Whole, Busy
<1> QED BY <1>2, <1>5, <1>6, <1>7, <1>8, <1>9, <1>10, <1>11 DEF Next, updateConfig, Continue, Middle

LEMMA InitWholeOK ==
  ASSUME Init PROVE WholeOK
BY MadeWhole, MadeHandler DEF Init, WholeOK, Busy

LEMMA WholeInvariance == Spec => []WholeOK
BY InitWholeOK, NextWholeOK, TypeInvariance, PTL DEF Spec

(* config.toml can be read and keeps the settings no PATCH touches, unless *)
(* a write was cut short, two writers met or a user made a mistake, or     *)
(* unless it has a line that processLines does not find or a text that     *)
(* UpdateConfig did not write as TOML has it; whatever texts are PATCHed,  *)
(* reloaded, edited and restarted, and however often.                      *)
THEOREM TheFileStaysWhole == Spec => []FileStaysWhole
<1>1. WholeOK => FileStaysWhole
  BY DEF WholeOK, FileStaysWhole, Whole, Readable
<1> QED BY <1>1, WholeInvariance, PTL

-----------------------------------------------------------------------------
(* The struct follows the file.                                            *)

LEMMA LoadedFollows ==
  ASSUME NEW f
  PROVE  Follows(Loaded(f), f)
BY DEF Follows, FollowsLevel, Loaded

(* The last assignment of a reload makes the struct what viper has.        *)
LEMMA ReloadedFollows ==
  ASSUME NEW f, ValuesOK, mem.level = Reloaded(f).level
  PROVE  Follows([mem EXCEPT !.check = Reloaded(f).check], f)
<1>1. mem \in Settings
  BY DEF ValuesOK
<1> QED BY <1>1 DEF Follows, FollowsLevel, Reloaded, Settings

(* The guard of FollowsOK, and what it promises.                           *)
Settled == proc \in {"watch", "up"} /\ events = 0 /\ ~parted /\ Readable(file)

FollowsCore ==
  /\ parsed = Reloaded(file)
  /\ watcher = "idle" /\ Ahead = {} => Follows(mem, file)
  /\ watcher \in {"logger", "check"} /\ Ahead = {} => mem.level = parsed.level

LEMMA FollowsIs == FollowsOK <=> (Settled => FollowsCore)
BY DEF FollowsOK, Settled, FollowsCore

(* A step that changes no file and no struct and ends nobody's assignments.*)
LEMMA NothingFollows ==
  ASSUME Settled => FollowsCore, Settled',
         UNCHANGED <<file, mem, parsed, watcher>>,
         Settled' => Settled, Ahead' = {} => Ahead = {}
  PROVE  FollowsCore'
BY DEF FollowsCore

LEMMA NextFollows ==
  ASSUME TypeInv, Settled => FollowsCore, [Next]_vars, Settled'
  PROVE  FollowsCore'
<1>0. ValuesOK /\ HandlersOK /\ DownOK
  BY DEF TypeInv
<1>1. proc' \in {"watch", "up"} /\ events' = 0 /\ ~parted' /\ Readable(file')
  BY DEF Settled
<1>2. ASSUME Notice PROVE proc # "up"
  <2>1. ~(0 > 0)
    OBVIOUS
  <2> QED BY <1>0, <1>1, <1>2, <2>1, NoticeTyped DEF ValuesOK
<1>3. CASE UNCHANGED vars
  <2>1. UNCHANGED <<file, mem, parsed, watcher, proc, events, parted, req>>
    BY <1>3 DEF vars
  <2>2. Settled /\ Ahead' = Ahead
    BY <1>1, <2>1 DEF Settled, Ahead
  <2> QED BY <2>1, <2>2, NothingFollows
<1>4. CASE CreateFile \/ FillFile \/ Stop
  BY <1>1, <1>4 DEF CreateFile, FillFile, Stop
<1>5. CASE Load
  <2>1. file' = file /\ parsed' = Reloaded(file) /\ mem' = Loaded(file) /\ watcher' = "idle"
    <3>1. proc # "up"
      BY <1>5 DEF Load
    <3> QED BY <1>0, <1>1, <1>5, <3>1 DEF Load, DownOK
  <2> QED BY <2>1, LoadedFollows DEF FollowsCore
<1>6. CASE WatchConfig
  <2>1. UNCHANGED <<file, mem, parsed, watcher, events, parted, req>> /\ proc = "watch"
    BY <1>6 DEF WatchConfig
  <2>2. Settled /\ Ahead' = Ahead
    BY <1>1, <2>1 DEF Settled, Ahead
  <2> QED BY <2>1, <2>2, NothingFollows
<1>7. CASE ReadInConfig
  <2>1. file' = file /\ watcher' = "level" /\ parsed' = Reloaded(file)
    BY <1>1, <1>7 DEF ReadInConfig
  <2> QED BY <2>1 DEF FollowsCore
<1>8. CASE ReloadLevel
  <2>1. UNCHANGED <<file, proc, parsed, events, parted>> /\ watcher' = "logger"
    BY <1>8 DEF ReloadLevel
  <2>2. mem \in Settings
    BY <1>0 DEF ValuesOK
  <2>3. (mem').level = parsed'.level
    BY <1>8, <2>2 DEF ReloadLevel, Settings
  <2>4. FollowsCore
    BY <1>1, <2>1 DEF Settled
  <2> QED BY <2>1, <2>3, <2>4 DEF FollowsCore
<1>14. CASE SetLogLevel
  <2>1. UNCHANGED <<file, proc, parsed, events, parted, req, mem>>
          /\ watcher = "logger" /\ watcher' = "check"
    BY <1>14 DEF SetLogLevel
  <2>2. FollowsCore /\ Ahead' = Ahead
    BY <1>1, <2>1 DEF Settled, Ahead
  <2> QED BY <2>1, <2>2 DEF FollowsCore
<1>9. CASE ReloadCheck
  <2>1. UNCHANGED <<file, proc, parsed, events, parted, req>> /\ watcher' = "idle"
          /\ watcher = "check" /\ mem' = [mem EXCEPT !.check = parsed.check]
    BY <1>9 DEF ReloadCheck
  <2>2. FollowsCore /\ Ahead' = Ahead
    BY <1>1, <2>1 DEF Settled, Ahead
  <2>3. ASSUME Ahead = {} PROVE Follows(mem', file)
    <3>1. parsed = Reloaded(file) /\ mem.level = Reloaded(file).level
      BY <2>1, <2>2, <2>3 DEF FollowsCore
    <3> QED BY <1>0, <2>1, <3>1, ReloadedFollows
  <2> QED BY <2>1, <2>2, <2>3 DEF FollowsCore
<1>10. ASSUME NEW h \in Handlers, Patch(h) PROVE FollowsCore'
  <2>1. UNCHANGED <<file, mem, parsed, watcher, proc, events, parted>> /\ req[h].pc = "idle"
    BY <1>10 DEF Patch
  <2>2. \A i \in Handlers : i # h => req'[i].pc = req[i].pc
    <3>1. \A i \in Handlers : i # h => req'[i] = [req[i] EXCEPT !.before = NoFile]
      BY <1>10 DEF Patch
    <3> QED BY <1>0, <3>1, AllForget
  <2>3. Settled /\ (Ahead' = {} => Ahead = {})
    BY <1>1, <2>1, <2>2 DEF Settled, Ahead
  <2> QED BY <2>1, <2>3, NothingFollows
<1>11. ASSUME NEW h \in Handlers,
              Middle(h)
       PROVE  FollowsCore'
  <2>1. req[h].pc \in Underway /\ (GoesOn(h) \/ Refused(h))
    BY <1>0, <1>11, HandlerSteps
  <2>2. GoesOn(h) /\ ~Refused(h)
    BY <1>1, <2>1 DEF Refused
  <2>3. req'[h].pc = NextPc(req[h].pc) /\ \A i \in Handlers : i # h => req'[i] = req[i]
    BY <1>0, <2>1, <2>2, GoesOnIs
  <2>4. proc = "up"
    BY <1>0, <2>1 DEF DownOK, Underway
  <2>5. req[h].pc # "open"
    <3>1. ASSUME req[h].pc = "open" PROVE FALSE
      <4>1. OpenFile(h)
        BY <1>11, <3>1 DEF Middle, SetCheck, SetLevel, ReadFile, processLines
      <4>2. Refuse(h)
        BY <1>2, <2>4, <4>1 DEF OpenFile
      <4> QED BY <1>1, <4>2 DEF Refuse
    <3> QED BY <3>1
  <2>6. h \in Ahead'
    BY <2>1, <2>3, <2>5 DEF Underway, NextPc, Ahead
  <2>7. UNCHANGED <<file, parsed, watcher, proc, events, parted>>
    BY <1>1, <1>11, <2>5 DEF Middle, SetCheck, SetLevel, ReadFile, processLines, OpenFile, Refuse
  <2>8. FollowsCore
    BY <1>1, <2>7 DEF Settled
  <2> QED BY <2>6, <2>7, <2>8 DEF FollowsCore
<1>12. ASSUME NEW h \in Handlers, WriteFile(h) PROVE FollowsCore'
  <2>1. proc = "up"
    BY <1>0, <1>12 DEF WriteFile, DownOK
  <2>2. UNCHANGED <<file, mem, parsed, watcher, proc, events, parted>>
    BY <1>2, <1>12, <2>1 DEF WriteFile
  <2>3. req[h].pc = "write" /\ req' = [req EXCEPT ![h] = IdleHandler]
    BY <1>12 DEF WriteFile
  <2>4. Settled /\ Ahead' = Ahead
    BY <1>0, <1>1, <2>2, <2>3, MadeHandler DEF Settled, Ahead, HandlersOK
  <2> QED BY <2>2, <2>4, NothingFollows
<1>13. CASE Edit
  BY <1>1, <1>2, <1>13 DEF Edit
<1> QED BY <1>3, <1>4, <1>5, <1>6, <1>7, <1>8, <1>9, <1>10, <1>11, <1>12, <1>13, <1>14
        DEF Next, OnConfigChange, updateConfig, Continue, Middle

LEMMA FollowsInvariance == Spec => []FollowsOK
<1>1. Init => FollowsOK
  BY DEF Init, FollowsOK
<1>2. TypeInv /\ FollowsOK /\ [Next]_vars => FollowsOK'
  <2>1. SUFFICES ASSUME TypeInv, FollowsOK, [Next]_vars, Settled' PROVE FollowsCore'
    BY DEF FollowsOK, Settled, FollowsCore
  <2> QED BY <2>1, NextFollows, FollowsIs
<1> QED BY <1>1, <1>2, TypeInvariance, PTL DEF Spec

(* When nothing is under way c.Config says what config.toml says, whoever  *)
(* wrote it, in whatever order PATCH (updateConfig) and reload             *)
(* (DynamicReload) assigned the struct; but not after a PATCH that failed  *)
(* before it wrote.                                                        *)
THEOREM TheStructFollowsTheFile == Spec => []StructFollowsFile
<1>1. FollowsOK => StructFollowsFile
  BY DEF FollowsOK, StructFollowsFile, Quiet, Busy, Ahead, Follows, FollowsLevel
<1> QED BY <1>1, FollowsInvariance, PTL

-----------------------------------------------------------------------------
(* A PATCH that meets nobody keeps the rest of the file.                   *)

(* A handler that met nobody is alone and, until it opens the file, the    *)
(* file is as it was and the watcher sleeps.  If it found a file that it   *)
(* understands, the struct, and later what it is going to write, says what *)
(* was asked for and else what the file said, and the rest is as it was.   *)
AloneAt(h) ==
  LET q == req[h] IN
  /\ q.pc # "write" => file = q.before /\ watcher = "idle" /\ events = 0
  /\ q.pc = "lines" => q.copy = q.before
  /\ Sound(q) =>
       /\ q.pc = "check" => Follows(mem, q.before)
       /\ q.pc = "level" => SaysCheck(mem, q) /\ FollowsLevel(mem, q.before)
       /\ q.pc \in {"read", "lines"} =>
            SaysCheck(mem, q) /\ SaysLevel(mem, q) /\ mem.level \in Plain
       /\ q.pc \in {"open", "write"} =>
            /\ SaysCheck(q.copy, q) /\ SaysLevel(q.copy, q)
            /\ Readable(q.copy) /\ q.copy.others = q.before.others

AloneInv ==
  \A h \in Handlers :
    req[h].before.there /\ ~torn => Busy = {h} /\ proc = "up" /\ AloneAt(h)

LEMMA CheckIsSaid ==
  ASSUME NEW q \in Handler, mem \in Settings, Follows(mem, q.before)
  PROVE  LET m == [mem EXCEPT !.check = Asked(q.ask.check, mem.check)] IN
           SaysCheck(m, q) /\ FollowsLevel(m, q.before)
BY DEF Handler, Settings, Follows, FollowsLevel, SaysCheck, Asked

LEMMA LevelIsSaid ==
  ASSUME NEW q \in Handler, mem \in Settings, SaysCheck(mem, q), Sound(q),
         FollowsLevel(mem, q.before)
  PROVE  LET m == [mem EXCEPT !.level = Asked(q.ask.level, mem.level)] IN
           SaysCheck(m, q) /\ SaysLevel(m, q) /\ m.level \in Plain
<1> DEFINE m == [mem EXCEPT !.level = Asked(q.ask.level, mem.level)]
<1>1. m.check = mem.check /\ m.level = Asked(q.ask.level, mem.level)
  BY DEF Settings
<1>2. Asked(q.ask.level, q.before.level) \in Plain \cup {"missing"}
  BY DEF Sound
<1>3. q.ask.level \in Texts \cup {"absent"}
  BY DEF Handler, Asks
<1> SUFFICES SaysCheck(m, q) /\ SaysLevel(m, q) /\ m.level \in Plain
  OBVIOUS
<1> HIDE DEF m
<1>4. CASE q.ask.level = "absent"
  <2>1. m.level = mem.level /\ q.before.level \in Plain \cup {"missing"}
    BY <1>1, <1>2, <1>4 DEF Asked
  <2>2. CASE q.before.level = "missing"
    BY <1>1, <1>4, <2>1, <2>2, PlainTexts DEF FollowsLevel, SaysLevel, SaysCheck
  <2>3. CASE q.before.level # "missing"
    BY <1>1, <1>4, <2>1, <2>3 DEF FollowsLevel, SaysLevel, SaysCheck, Asked
  <2> QED BY <2>2, <2>3
<1>5. CASE q.ask.level # "absent"
  <2>1. m.level = q.ask.level /\ m.level \in Plain
    BY <1>1, <1>2, <1>3, <1>5, PlainTexts DEF Asked
  <2> QED BY <1>1, <1>5, <2>1 DEF SaysLevel, SaysCheck, Asked
<1> QED BY <1>4, <1>5

(* With a level that TOML reads back, processLines leaves what it does not *)
(* replace alone.                                                          *)
LEMMA PlainIsProcessed ==
  ASSUME NEW f \in File, mem \in Settings, mem.level \in Plain, Tidy(f),
         NEW g \in Processed(f)
  PROVE  /\ g.level = mem.level /\ g.check = mem.check /\ g.others = f.others
         /\ Readable(g)
<1>1. TextAfter(f.text) = "plain"
  BY PlainTexts DEF TextAfter, Tidy
<1>2. /\ g.others = f.others /\ (g.parses <=> f.parses /\ ~f.odd)
      /\ g.level = ReadBack[mem.level] /\ g.check = mem.check
  BY <1>1, ProcessedIs
<1>3. g.level = mem.level /\ g.level # "broken"
  BY <1>2, PlainTexts
<1> QED BY <1>2, <1>3 DEF Tidy, Readable

(* What is said of a struct is said of whatever has its two settings.      *)
LEMMA SaidAgain ==
  ASSUME NEW s, NEW t, NEW q, NEW r, t.level = s.level, t.check = s.check,
         r.ask = q.ask, r.before = q.before
  PROVE  /\ SaysCheck(s, q) => SaysCheck(t, r)
         /\ SaysLevel(s, q) => SaysLevel(t, r)
BY DEF SaysCheck, SaysLevel

LEMMA HandlerKeepsAlone ==
  ASSUME TypeInv, NEW h \in Handlers, AloneAt(h), GoesOn(h), Middle(h)
  PROVE  AloneAt(h)'
<1>0. ValuesOK /\ HandlersOK /\ DownOK
  BY DEF TypeInv
<1>1. req[h].pc \in Underway /\ req[h] \in Handler /\ mem \in Settings
  BY <1>0, HandlerSteps DEF HandlersOK, ValuesOK
<1>2. /\ req'[h].pc = NextPc(req[h].pc) /\ req'[h].copy \in NextCopies(req[h])
      /\ req'[h].ask = req[h].ask /\ req'[h].before = req[h].before
  BY <1>0, <1>1, GoesOnIs
<1>3. /\ file = req[h].before /\ watcher = "idle" /\ events = 0
      /\ UNCHANGED watcher
  BY <1>1 DEF AloneAt, Underway, Middle, SetCheck, SetLevel, ReadFile, processLines, OpenFile
<1>4. Sound(req'[h]) <=> Sound(req[h])
  BY <1>2 DEF Sound
<1>5. CASE req[h].pc = "check"
  <2>1. req'[h].pc = "level"
    BY <1>2, <1>5 DEF NextPc
  <2>2. mem' = [mem EXCEPT !.check = Asked(req[h].ask.check, mem.check)] /\ UNCHANGED <<file, events>>
    BY <1>5 DEF Middle, SetCheck, SetLevel, ReadFile, processLines, OpenFile
  <2>3. ASSUME Sound(req[h])
        PROVE  SaysCheck(mem', req'[h]) /\ FollowsLevel(mem', req'[h].before)
    <3>1. SaysCheck(mem', req[h]) /\ FollowsLevel(mem', req[h].before)
      BY <1>1, <1>5, <2>2, <2>3, CheckIsSaid DEF AloneAt
    <3> QED BY <1>2, <3>1, SaidAgain
  <2> QED BY <1>2, <1>3, <1>4, <2>1, <2>2, <2>3 DEF AloneAt
<1>6. CASE req[h].pc = "level"
  <2>1. req'[h].pc = "read"
    BY <1>2, <1>6 DEF NextPc
  <2>2. mem' = [mem EXCEPT !.level = Asked(req[h].ask.level, mem.level)] /\ UNCHANGED <<file, events>>
    BY <1>6 DEF Middle, SetCheck, SetLevel, ReadFile, processLines, OpenFile
  <2>3. ASSUME Sound(req[h])
        PROVE  SaysCheck(mem', req'[h]) /\ SaysLevel(mem', req'[h]) /\ (mem').level \in Plain
    <3>1. SaysCheck(mem', req[h]) /\ SaysLevel(mem', req[h]) /\ (mem').level \in Plain
      BY <1>1, <1>6, <2>2, <2>3, LevelIsSaid DEF AloneAt
    <3> QED BY <1>2, <3>1, SaidAgain
  <2> QED BY <1>2, <1>3, <1>4, <2>1, <2>2, <2>3 DEF AloneAt
<1>7. CASE req[h].pc = "read"
  <2>1. req'[h].pc = "lines" /\ req'[h].copy = req[h].before
    BY <1>2, <1>3, <1>7 DEF NextPc, NextCopies
  <2>2. UNCHANGED <<mem, events, file>>
    BY <1>7 DEF Middle, SetCheck, SetLevel, ReadFile, processLines, OpenFile, Refuse
  <2>3. ASSUME Sound(req[h])
        PROVE  SaysCheck(mem', req'[h]) /\ SaysLevel(mem', req'[h]) /\ (mem').level \in Plain
    <3>1. SaysCheck(mem, req[h]) /\ SaysLevel(mem, req[h]) /\ mem.level \in Plain
      BY <1>7, <2>3 DEF AloneAt
    <3> QED BY <1>2, <2>2, <3>1, SaidAgain
  <2> QED BY <1>2, <1>3, <1>4, <2>1, <2>2, <2>3 DEF AloneAt
<1>8. CASE req[h].pc = "lines"
  <2>1. req'[h].pc = "open" /\ req'[h].copy \in Processed(req[h].before)
    BY <1>2, <1>8 DEF NextPc, NextCopies, AloneAt
  <2>2. UNCHANGED <<mem, file, events>>
    BY <1>8 DEF Middle, SetCheck, SetLevel, ReadFile, processLines, OpenFile
  <2>3. ASSUME Sound(req[h])
        PROVE  /\ SaysCheck(req'[h].copy, req'[h]) /\ SaysLevel(req'[h].copy, req'[h])
               /\ Readable(req'[h].copy) /\ (req'[h].copy).others = req[h].before.others
    <3>1. SaysCheck(mem, req[h]) /\ SaysLevel(mem, req[h]) /\ mem.level \in Plain
      BY <1>8, <2>3 DEF AloneAt
    <3>2. Tidy(req[h].before) /\ req[h].before \in File
      BY <1>1, <2>3 DEF Sound, Handler
    <3>3. /\ (req'[h].copy).level = mem.level /\ (req'[h].copy).check = mem.check
          /\ (req'[h].copy).others = req[h].before.others /\ Readable(req'[h].copy)
      BY <1>1, <2>1, <3>1, <3>2, PlainIsProcessed
    <3> QED BY <1>2, <3>1, <3>3, SaidAgain
  <2> QED BY <1>2, <1>3, <1>4, <2>1, <2>2, <2>3 DEF AloneAt
<1>9. CASE req[h].pc = "open"
  <2>1. req'[h].pc = "write" /\ req'[h].copy = req[h].copy
    BY <1>2, <1>9 DEF NextPc, NextCopies
  <2>2. ASSUME Sound(req[h])
        PROVE  /\ SaysCheck(req'[h].copy, req'[h]) /\ SaysLevel(req'[h].copy, req'[h])
               /\ Readable(req'[h].copy) /\ (req'[h].copy).others = req[h].before.others
    <3>1. /\ SaysCheck(req[h].copy, req[h]) /\ SaysLevel(req[h].copy, req[h])
          /\ Readable(req[h].copy) /\ req[h].copy.others = req[h].before.others
      BY <1>9, <2>2 DEF AloneAt
    <3> QED BY <1>2, <2>1, <3>1, SaidAgain
  <2> QED BY <1>2, <1>4, <2>1, <2>2 DEF AloneAt
<1> QED BY <1>1, <1>5, <1>6, <1>7, <1>8, <1>9 DEF Underway

LEMMA NextAlone ==
  ASSUME TypeInv, WholeOK, FollowsOK, AloneInv, [Next]_vars
  PROVE  AloneInv'
<1>0. ValuesOK /\ HandlersOK /\ DownOK
  BY DEF TypeInv
<1>1. SUFFICES ASSUME NEW h \in Handlers, (req'[h].before).there, ~torn'
               PROVE  (Busy = {h} /\ proc = "up" /\ AloneAt(h))'
  BY DEF AloneInv
<1>2. ~NoFile.there /\ ~IdleHandler.before.there
  BY MadeFiles, MadeHandler DEF NoFile
<1>3. ~Edit
  <2>1. ASSUME Edit PROVE req'[h].before = NoFile
    BY <1>0, <2>1, AllForget DEF Edit
  <2> QED BY <1>1, <1>2, <2>1
<1>4. ~Stop
  BY <1>1, <1>2 DEF Stop
<1>5. ~torn
  BY <1>1, <1>3, <1>4 DEF Next, vars, CreateFile, FillFile, Load, WatchConfig,
       OnConfigChange, ReadInConfig, ReloadLevel, SetLogLevel, ReloadCheck, updateConfig, Continue, Patch,
       SetCheck, SetLevel, ReadFile, processLines, OpenFile, WriteFile
<1>6. ASSUME UNCHANGED req
      PROVE  Busy = {h} /\ proc = "up" /\ AloneAt(h) /\ Busy' = Busy
  BY <1>1, <1>5, <1>6 DEF AloneInv, Busy
<1>7. CASE UNCHANGED vars
  <2>1. UNCHANGED <<file, proc, mem, watcher, events, req>>
    BY <1>7 DEF vars
  <2> QED BY <1>6, <2>1 DEF AloneAt
<1>8. CASE CreateFile \/ FillFile \/ Load \/ WatchConfig
  BY <1>6, <1>8 DEF CreateFile, FillFile, Load, WatchConfig
<1>9. CASE OnConfigChange
  <2>1. UNCHANGED <<file, proc, req>> /\ (watcher # "idle" \/ events > 0)
    BY <1>9 DEF OnConfigChange, ReadInConfig, ReloadLevel, SetLogLevel, ReloadCheck
  <2>2. req[h].pc = "write"
    <3>1. ~(0 > 0)
      OBVIOUS
    <3> QED BY <1>6, <2>1, <3>1 DEF AloneAt
  <2> QED BY <1>6, <2>1, <2>2 DEF AloneAt
<1>10. ASSUME NEW g \in Handlers, Patch(g)
       PROVE  (Busy = {h} /\ proc = "up" /\ AloneAt(h))'
  <2>1. PICK ask \in Bodies :
          req' = [i \in Handlers |->
            IF i = g THEN [IdleHandler EXCEPT !.pc = "check", !.ask = ask,
                             !.before = IF Quiet /\ ~parted THEN file ELSE NoFile]
                     ELSE [req[i] EXCEPT !.before = NoFile]]
    BY <1>10 DEF Patch
  <2>2. h = g
    <3>1. ASSUME h # g PROVE req'[h].before = NoFile
      BY <1>0, <2>1, <3>1, AllForget
    <3> QED BY <1>1, <1>2, <3>1
  <2>3. req'[h].pc = "check"
          /\ req'[h].before = IF Quiet /\ ~parted THEN file ELSE NoFile
    BY <1>0, <2>1, <2>2, FirstStep
  <2>4. Quiet /\ ~parted /\ req'[h].before = file /\ file.there
    BY <1>1, <1>2, <2>3
  <2>5. proc = "up" /\ Busy = {} /\ watcher = "idle" /\ events = 0
    BY <2>4 DEF Quiet
  <2>6. \A i \in Handlers : i # h => req'[i].pc = "idle"
    <3>1. \A i \in Handlers : i # h => req'[i] = [req[i] EXCEPT !.before = NoFile]
      BY <2>1, <2>2
    <3> QED BY <1>0, <2>5, <3>1, AllForget DEF Busy
  <2>7. Busy' = {h}
    BY <2>3, <2>6 DEF Busy
  <2>8. Writing = {} /\ Ahead = {}
    BY <2>5 DEF Writing, Ahead, Busy
  <2>9. ASSUME Readable(file) PROVE Follows(mem, file)
    BY <2>4, <2>5, <2>8, <2>9 DEF FollowsOK
  <2>10. Sound(req'[h]) => Readable(file)
    BY <2>4 DEF Sound, Tidy
  <2>11. UNCHANGED <<file, proc, mem, watcher, events>>
    BY <1>10 DEF Patch
  <2> QED BY <2>3, <2>4, <2>5, <2>7, <2>9, <2>10, <2>11 DEF AloneAt
<1>11. ASSUME NEW g \in Handlers, req[g].pc # "idle",
              \A i \in Handlers : i # g => req'[i] = req[i]
       PROVE  g = h
  <2>1. ASSUME g # h PROVE FALSE
    <3>1. Busy = {h}
      BY <1>1, <1>5, <1>11, <2>1 DEF AloneInv
    <3> QED BY <1>11, <2>1, <3>1 DEF Busy
  <2> QED BY <2>1
<1>12. ASSUME NEW g \in Handlers,
              Middle(g)
       PROVE  (Busy = {h} /\ proc = "up" /\ AloneAt(h))'
  <2>1. req[g].pc \in Underway /\ (GoesOn(g) \/ Refused(g))
    BY <1>0, <1>12, HandlerSteps
  <2>2. \A i \in Handlers : i # g => req'[i] = req[i]
    BY <1>0, <2>1, GoesOnIs DEF Refused, HandlersOK
  <2>3. g = h
    BY <1>11, <2>1, <2>2 DEF Underway
  <2>4. GoesOn(h)
    <3>1. ASSUME Refused(h) PROVE req'[h] = IdleHandler
      BY <1>0, <3>1 DEF Refused, HandlersOK
    <3> QED BY <1>1, <1>2, <2>1, <2>3, <3>1
  <2>5. req'[h].before = req[h].before /\ req'[h].pc = NextPc(req[h].pc)
    BY <1>0, <2>1, <2>3, <2>4, GoesOnIs
  <2>6. Busy = {h} /\ proc = "up" /\ AloneAt(h)
    BY <1>1, <1>5, <2>5 DEF AloneInv
  <2>7. AloneAt(h)'
    BY <1>12, <2>3, <2>4, <2>6, HandlerKeepsAlone
  <2>8. req'[h].pc # "idle"
    BY <2>1, <2>3, <2>5 DEF NextPc, Underway
  <2>9. Busy' = {h}
    BY <2>2, <2>3, <2>6, <2>8 DEF Busy
  <2>10. UNCHANGED proc
    BY <1>12 DEF Middle, SetCheck, SetLevel, ReadFile, processLines, OpenFile
  <2> QED BY <2>5, <2>6, <2>7, <2>9, <2>10
<1>13. ASSUME NEW g \in Handlers, WriteFile(g) PROVE FALSE
  <2>1. req[g].pc = "write" /\ req' = [req EXCEPT ![g] = IdleHandler]
    BY <1>13 DEF WriteFile
  <2>2. g = h
    BY <1>0, <1>11, <2>1 DEF HandlersOK
  <2>3. req'[h] = IdleHandler
    BY <1>0, <2>1, <2>2 DEF HandlersOK
  <2> QED BY <1>1, <1>2, <2>3
<1> QED BY <1>3, <1>4, <1>7, <1>8, <1>9, <1>10, <1>12, <1>13 DEF Next, updateConfig, Continue, Middle

LEMMA AloneInvariance == Spec => []AloneInv
<1>1. Init => AloneInv
  BY MadeHandler DEF Init, AloneInv
<1> QED BY <1>1, NextAlone, TypeInvariance, WholeInvariance, FollowsInvariance, PTL DEF Spec

(* The last step of a handler that met nobody.                             *)
KeepsTheRest(h) ==
  LET ask == req[h].ask  before == req[h].before IN
  /\ Written204(h) /\ Tidy(before)
  /\ Asked(ask.level, before.level) \in Plain \cup {"missing"}
  => /\ Readable(file') /\ file'.others = before.others
     /\ before.level # "missing" \/ ask.level # "absent" =>
          file'.level = Asked(ask.level, before.level)
     /\ before.check # "missing" \/ ask.check # "absent" =>
          file'.check = Asked(ask.check, before.check)

LEMMA LastStep ==
  ASSUME TypeInv, WholeOK, AloneInv, [Next]_vars, NEW h \in Handlers
  PROVE  KeepsTheRest(h)
<1>0. ValuesOK /\ HandlersOK /\ DownOK
  BY DEF TypeInv
<1>1. SUFFICES ASSUME Written204(h), Sound(req[h])
               PROVE  /\ Readable(file') /\ (file').others = req[h].before.others
                      /\ SaysLevel(file', req[h]) /\ SaysCheck(file', req[h])
  BY DEF KeepsTheRest, SaysLevel, SaysCheck, Sound
<1>2. req[h].pc = "write" /\ req'[h].pc = "idle" /\ proc' = "up" /\ ~torn'
  BY <1>1 DEF Written204
<1>3. req[h].pc # req'[h].pc
  BY <1>2
<1>4. CASE UNCHANGED req
  BY <1>3, <1>4
<1>5. CASE UNCHANGED vars
  BY <1>4, <1>5 DEF vars
<1>6. CASE CreateFile \/ FillFile \/ Load \/ WatchConfig \/ OnConfigChange
  BY <1>4, <1>6 DEF CreateFile, FillFile, Load, WatchConfig, OnConfigChange,
       ReadInConfig, ReloadLevel, SetLogLevel, ReloadCheck
<1>7. CASE Stop
  BY <1>2, <1>7 DEF Stop
<1>8. CASE Edit
  BY <1>0, <1>3, <1>8, AllForget DEF Edit
<1>9. ASSUME NEW g \in Handlers, Patch(g) PROVE FALSE
  <2>1. g # h
    BY <1>2, <1>9 DEF Patch
  <2>2. req'[h] = [req[h] EXCEPT !.before = NoFile]
    BY <1>9, <2>1 DEF Patch
  <2> QED BY <1>0, <1>3, <2>2, AllForget
<1>10. ASSUME NEW g \in Handlers,
              Middle(g)
       PROVE  FALSE
  <2>1. req[g].pc \in Underway /\ (GoesOn(g) \/ Refused(g))
    BY <1>0, <1>10, HandlerSteps
  <2>2. g # h
    BY <1>2, <2>1 DEF Underway
  <2> QED BY <1>0, <1>3, <2>1, <2>2, GoesOnIs DEF Refused, HandlersOK
<1>11. ASSUME NEW g \in Handlers, WriteFile(g)
       PROVE  /\ Readable(file') /\ (file').others = req[h].before.others
              /\ SaysLevel(file', req[h]) /\ SaysCheck(file', req[h])
  <2>1. g = h
    BY <1>0, <1>3, <1>11 DEF WriteFile, HandlersOK
  <2>2. ~torn /\ file' \in Written(h)
    BY <1>2, <1>11, <2>1 DEF WriteFile
  <2>3. file = Truncated
    BY <1>2, <2>2 DEF WholeOK
  <2>4. file' = req[h].copy
    BY <2>2, <2>3 DEF Written
  <2>5. AloneAt(h)
    BY <1>1, <2>2 DEF AloneInv, Sound, Tidy
  <2> QED BY <1>1, <1>2, <2>4, <2>5 DEF AloneAt
<1> QED BY <1>5, <1>6, <1>7, <1>8, <1>9, <1>10, <1>11 DEF Next, updateConfig, Continue, Middle

(* A PATCH /api/config that began when all was quiet, and met neither      *)
(* another PATCH nor an edit, leaves a file that can be read, with the     *)
(* settings asked for and every other setting that the file had, when it   *)
(* answers 204 (updateConfig, UpdateConfig, processLines), whatever came   *)
(* before: provided that the file was one that processLines understands    *)
(* and that the level to be written is one that TOML reads back unescaped. *)
THEOREM APatchKeepsTheRest == Spec => PatchKeepsTheRest
<1>1. ASSUME TypeInv, WholeOK, AloneInv, [Next]_vars
      PROVE  \A h \in Handlers : KeepsTheRest(h)
  BY <1>1, LastStep
<1> QED BY <1>1, TypeInvariance, WholeInvariance, AloneInvariance, PTL
        DEF Spec, PatchKeepsTheRest, KeepsTheRest
=============================================================================

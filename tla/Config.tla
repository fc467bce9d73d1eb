------------------------------- MODULE Config -------------------------------
(***************************************************************************)
(* The configuration: one struct in memory, one file, and the two ways in  *)
(* which they are brought together.  PATCH /api/config writes the struct   *)
(* and then rewrites the file from it; a watcher reads the file after each *)
(* change to it and writes the struct.  Users edit the file too.  The      *)
(* watcher's lock is taken by nobody else.                                 *)
(***************************************************************************)
EXTENDS Naturals

CONSTANTS
  Handlers,     \* identities of concurrently running PATCH handlers
  Texts,        \* what the level may be asked, and said, to be: any string
  Levels,       \* those the logger knows
  ReadBack,     \* ReadBack[t]: what TOML reads, on t's line, where t stands between
                \* quotes as it is
  Multiline,    \* the texts that go on beyond their line
  Remains,      \* what further lines of a text may make of the file (Spills below)
  Default,      \* the level of defaults(), one of them
  Template,     \* the level of the file that the first start writes
  Edits,        \* the files a user may save
  Bodies,       \* what PATCH requests may ask for (Asks below)
  Faults,       \* what may fail: "create", "read", "open", "write"
  MaxPatches,   \* bound: PATCH requests in a behaviour
  MaxEdits,     \* bound: edits by users
  MaxEvents     \* bound: changes of the file the watcher has not taken up

VARIABLES
  file,      \* config.toml
  proc,      \* the process: "off", "create", "load", "watch", "up"
  mem,       \* c.Config
  parsed,    \* what viper holds of the last file it could parse
  logger,    \* the global level of the log
  watcher,   \* the watcher's goroutine: "idle", "level", "logger", "check"
  events,    \* changes of the file it has not taken up
  req,       \* req[h]: a running PATCH handler
  torn,      \* history: something has come between a writer and the file
  parted,    \* history: struct and file went separate ways
  patches, edits

vars == <<file, proc, mem, parsed, logger, watcher, events, req, torn, parted,
          patches, edits>>

(* The texts that come back as they are when the program puts them between *)
(* quotes without escaping them (a lone backslash or a quote does not).    *)
Plain == {t \in Texts \ Multiline : ReadBack[t] = t}

(* A setting is "missing" where the file has no line for it, and the level *)
(* "broken" where its line is no TOML; parses is about the other lines.    *)
(* odd: a line for it is there, but not the first that processLines finds  *)
(* or not of the form it looks for.  others: the settings PATCH does not   *)
(* touch, the session's secret among them, are there and as they were.     *)
(* text: how the level was written, "raw" if it does not come back as it   *)
(* was, "spilt" if it has gone on beyond its line.  logPath is written and *)
(* read as the level is, but no log changes for it before a restart.       *)
File ==
  [there : BOOLEAN, parses : BOOLEAN, odd : BOOLEAN, others : BOOLEAN,
   text : {"plain", "raw", "spilt"},
   level : Texts \cup {"missing", "broken"}, check : {"on", "off", "missing"}]

Readable(f) == f.parses /\ f.level # "broken"

NoFile ==
  [there |-> FALSE, parses |-> FALSE, odd |-> FALSE, others |-> FALSE,
   text |-> "plain", level |-> "missing", check |-> "missing"]

Truncated == [NoFile EXCEPT !.there = TRUE, !.parses = TRUE]

(* The template with its host and secret.                                  *)
FirstFile == [Truncated EXCEPT !.others = TRUE, !.level = Template, !.check = "on"]

Settings == [level : Texts, check : {"on", "off"}]

(* The struct starts from defaults() and takes what the file has; a reload *)
(* takes viper's zero values for what the file has not.                    *)
Loaded(f) ==
  [level |-> IF f.level = "missing" THEN Default ELSE f.level,
   check |-> IF f.check = "missing" THEN "on" ELSE f.check]

Reloaded(f) ==
  [level |-> IF f.level = "missing" THEN "" ELSE f.level,
   check |-> IF f.check = "missing" THEN "off" ELSE f.check]

(* SetLogLevel: a level it does not know leaves the global one alone.      *)
LevelSet(level) == IF level \in Levels THEN level ELSE logger

(* What a PATCH may ask for, which nobody checks; "absent" is for a field  *)
(* that is not in its body.                                                *)
Asks == [level : Texts \cup {"absent"}, check : {"on", "off", "absent"}]

(* Users know TOML: what they write is read as they mean it, or a mistake. *)
UsersFiles ==
  {f \in File : /\ f.there /\ f.others /\ f.text = "plain" /\ f.level # "broken"
                /\ f.odd => f.level # "missing"}

ASSUME ConstantsAssumption ==
  /\ Default \in Levels /\ Template \in Levels
  /\ "" \notin Levels /\ Texts \cap {"missing", "broken", "absent"} = {}
  /\ ReadBack \in [Texts -> Texts \cup {"broken"}]
  /\ Levels \cup {""} \subseteq Plain
  /\ Remains \subseteq
       [parses : BOOLEAN, others : BOOLEAN, check : {"on", "off", "missing"}]
  /\ Edits \subseteq UsersFiles
  /\ Bodies \subseteq Asks
  /\ Faults \subseteq {"create", "read", "open", "write"}
  /\ MaxPatches \in Nat /\ MaxEdits \in Nat /\ MaxEvents \in Nat \ {0}

(* copy: the lines read, later the lines to write.  before: the file when  *)
(* the handler began, if nothing else was under way; NoFile as soon as     *)
(* somebody else touches file or struct.                                   *)
IdleHandler ==
  [pc |-> "idle", ask |-> [level |-> "absent", check |-> "absent"], copy |-> NoFile,
   before |-> NoFile]

Init ==
  /\ file = NoFile
  /\ proc = "off"
  /\ mem = Loaded(NoFile)
  /\ parsed = Reloaded(NoFile)
  /\ logger = Default
  /\ watcher = "idle"
  /\ events = 0
  /\ req = [h \in Handlers |-> IdleHandler]
  /\ torn = FALSE /\ parted = FALSE
  /\ patches = 0 /\ edits = 0

Busy == {h \in Handlers : req[h].pc # "idle"}

(* The handlers between truncation and writing.                            *)
Writing == {h \in Handlers : req[h].pc = "write"}

(* The server serves, and nothing is under way.                            *)
Quiet == proc = "up" /\ Busy = {} /\ watcher = "idle" /\ events = 0

(* A change of the file: an event for a watcher that is there, unless the  *)
(* kernel merges it with one that waits.                                   *)
Notice ==
  IF proc # "up" THEN UNCHANGED events
  ELSE /\ events' \in {events + 1} \cup (IF events > 0 THEN {events} ELSE {})
       /\ events' <= MaxEvents

-----------------------------------------------------------------------------
(* Start and end of the process                                            *)

(* writeConfig: a file that is not there is created, then filled.          *)
CreateFile ==
  /\ proc = "off"
  /\ \/ file.there /\ proc' = "load" /\ UNCHANGED file
     \/ ~file.there /\ proc' = "create" /\ file' = Truncated
     \/ ~file.there /\ "create" \in Faults /\ proc' = "load" /\ UNCHANGED file
  /\ UNCHANGED <<mem, parsed, logger, watcher, events, req, torn, parted, patches, edits>>

FillFile ==
  /\ proc = "create"
  /\ proc' = "load"
  /\ \/ file' = FirstFile /\ UNCHANGED torn
     \/ "write" \in Faults /\ torn' = TRUE /\ UNCHANGED file
  /\ UNCHANGED <<mem, parsed, logger, watcher, events, req, parted, patches, edits>>

(* load and logger.New: a file that cannot be read or parsed is logged,    *)
(* and the defaults stand.  The log starts with the level of defaults(),   *)
(* and keeps it if the file's is not one it knows.                         *)
Load ==
  /\ proc = "load"
  /\ proc' = "watch"
  /\ LET f == IF Readable(file) THEN file ELSE NoFile IN
       /\ mem' = Loaded(f)
       /\ parsed' = Reloaded(f)
       /\ logger' = IF Loaded(f).level \in Levels THEN Loaded(f).level ELSE Default
  /\ parted' = FALSE
  /\ UNCHANGED <<file, watcher, events, req, torn, patches, edits>>

(* DynamicReload, before the server serves.                                *)
WatchConfig ==
  /\ proc = "watch"
  /\ proc' = "up"
  /\ UNCHANGED <<file, mem, parsed, logger, watcher, events, req, torn, parted,
                 patches, edits>>

Stop ==
  /\ proc # "off"
  /\ proc' = "off"
  /\ watcher' = "idle" /\ events' = 0
  /\ req' = [h \in Handlers |-> IdleHandler]
  /\ torn' = (torn \/ proc = "create" \/ Writing # {})
  /\ UNCHANGED <<file, mem, parsed, logger, parted, patches, edits>>

-----------------------------------------------------------------------------
(* The watcher                                                             *)

(* viper reads the file; when it does not parse, viper keeps what it had   *)
(* and calls OnConfigChange all the same.                                  *)
ReadInConfig ==
  /\ watcher = "idle" /\ events > 0
  /\ events' = events - 1
  /\ parsed' = IF Readable(file) THEN Reloaded(file) ELSE parsed
  /\ parted' = (parted /\ ~Readable(file))
  /\ watcher' = "level"
  /\ UNCHANGED <<file, proc, mem, logger, req, torn, patches, edits>>

(* The logger is told only of a level that differs from the struct's.      *)
ReloadLevelIfChanged ==
  /\ watcher = "level"
  /\ watcher' = IF mem.level = parsed.level THEN "check" ELSE "logger"
  /\ mem' = [mem EXCEPT !.level = parsed.level]
  /\ UNCHANGED <<file, proc, parsed, logger, events, req, torn, parted, patches, edits>>

ReloadLevel ==
  /\ watcher = "level"
  /\ watcher' = "logger"
  /\ mem' = [mem EXCEPT !.level = parsed.level]
  /\ UNCHANGED <<file, proc, parsed, logger, events, req, torn, parted, patches, edits>>

(* The struct is read again, and may have been assigned by a PATCH since.  *)
SetLogLevel ==
  /\ watcher = "logger"
  /\ watcher' = "check"
  /\ logger' = LevelSet(mem.level)
  /\ UNCHANGED <<file, proc, mem, parsed, events, req, torn, parted, patches, edits>>

(* The reload forgets checkForUpdates.                                     *)
ReloadCheckNot ==
  /\ watcher = "check"
  /\ watcher' = "idle"
  /\ UNCHANGED <<file, proc, mem, parsed, logger, events, req, torn, parted, patches, edits>>

(* What came in during the reload is dropped, as a debounce would.         *)
ReloadCheckDropsEvents ==
  /\ watcher = "check"
  /\ watcher' = "idle" /\ events' = 0
  /\ mem' = [mem EXCEPT !.check = parsed.check]
  /\ UNCHANGED <<file, proc, parsed, logger, req, torn, parted, patches, edits>>

ReloadCheck ==
  /\ watcher = "check"
  /\ watcher' = "idle"
  /\ mem' = [mem EXCEPT !.check = parsed.check]
  /\ UNCHANGED <<file, proc, parsed, logger, events, req, torn, parted, patches, edits>>

OnConfigChange == ReadInConfig \/ ReloadLevel \/ SetLogLevel \/ ReloadCheck

-----------------------------------------------------------------------------
(* PATCH /api/config                                                       *)

Asked(new, old) == IF new = "absent" THEN old ELSE new

(* Two handlers at once may tear the file.                                 *)
Patch(h) ==
  /\ proc = "up" /\ req[h].pc = "idle"
  /\ patches < MaxPatches
  /\ patches' = patches + 1
  /\ \E ask \in Bodies :
       req' = [i \in Handlers |->
         IF i = h THEN [IdleHandler EXCEPT !.pc = "check", !.ask = ask,
                          !.before = IF Quiet /\ ~parted THEN file ELSE NoFile]
                  ELSE [req[i] EXCEPT !.before = NoFile]]
  /\ torn' = (torn \/ Busy # {})
  /\ UNCHANGED <<file, proc, mem, parsed, logger, watcher, events, parted, edits>>

(* The fields of the body are assigned one after the other.                *)
SetCheck(h) ==
  /\ req[h].pc = "check"
  /\ mem' = [mem EXCEPT !.check = Asked(req[h].ask.check, @)]
  /\ req' = [req EXCEPT ![h].pc = "level"]
  /\ UNCHANGED <<file, proc, parsed, logger, watcher, events, torn, parted, patches, edits>>

SetLevel(h) ==
  /\ req[h].pc = "level"
  /\ mem' = [mem EXCEPT !.level = Asked(req[h].ask.level, @)]
  /\ req' = [req EXCEPT ![h].pc = "read"]
  /\ UNCHANGED <<file, proc, parsed, logger, watcher, events, torn, parted, patches, edits>>

(* An error is 500; the struct keeps what was assigned.                    *)
Refuse(h) ==
  /\ req' = [req EXCEPT ![h] = IdleHandler]
  /\ parted' = TRUE
  /\ UNCHANGED file

(* A file that is not there is taken for an empty one.                     *)
ReadFileOrNone(h) ==
  /\ req[h].pc = "read"
  /\ req' = [req EXCEPT ![h] = [@ EXCEPT !.pc = "lines", !.copy = file]]
  /\ UNCHANGED <<file, proc, mem, parsed, logger, watcher, events, torn, parted,
                 patches, edits>>

ReadFile(h) ==
  /\ req[h].pc = "read"
  /\ \/ /\ file.there
        /\ req' = [req EXCEPT ![h] = [@ EXCEPT !.pc = "lines", !.copy = file]]
        /\ UNCHANGED <<file, parted>>
     \/ (~file.there \/ "read" \in Faults) /\ Refuse(h)
  /\ UNCHANGED <<proc, mem, parsed, logger, watcher, events, torn, patches, edits>>

(* The file is written anew from the struct.                               *)
processLinesFromDefaults(h) ==
  /\ req[h].pc = "lines"
  /\ req' = [req EXCEPT ![h] =
       [@ EXCEPT !.pc = "open",
                 !.copy = [Truncated EXCEPT !.level = mem.level, !.check = mem.check]]]
  /\ UNCHANGED <<file, proc, mem, parsed, logger, watcher, events, torn, parted,
                 patches, edits>>

(* What a text's further lines make of the file that they are in: they may *)
(* be comments, other settings, a table that takes in those below, or no   *)
(* TOML.                                                                   *)
Spills(f) ==
  {[there |-> f.there, parses |-> r.parses, odd |-> f.odd, others |-> r.others,
    text |-> f.text, level |-> f.level, check |-> r.check] : r \in Remains}

TextAfter(text) ==
  CASE text = "spilt" \/ mem.level \in Multiline          -> "spilt"
    [] text # "spilt" /\ mem.level \in Plain              -> "plain"
    [] text # "spilt" /\ mem.level \notin Plain \cup Multiline -> "raw"

(* Lines found are replaced, commented ones among them, and the others are *)
(* appended; a setting whose line is not found is then there twice.        *)
Processed(f) ==
  LET lines == [f EXCEPT !.text = TextAfter(f.text), !.parses = f.parses /\ ~f.odd,
                         !.level = ReadBack[mem.level], !.check = mem.check]
  IN  IF lines.text = "spilt" THEN Spills(lines) ELSE {lines}

processLines(h) ==
  /\ req[h].pc = "lines"
  /\ \E lines \in Processed(req[h].copy) :
       req' = [req EXCEPT ![h] = [@ EXCEPT !.pc = "open", !.copy = lines]]
  /\ UNCHANGED <<file, proc, mem, parsed, logger, watcher, events, torn, parted,
                 patches, edits>>

(* os.WriteFile opens the file, which empties it, and then writes.         *)
OpenFile(h) ==
  /\ req[h].pc = "open"
  /\ \/ /\ file' = Truncated
        /\ Notice
        /\ req' = [req EXCEPT ![h].pc = "write"]
        /\ UNCHANGED parted
     \/ "open" \in Faults /\ Refuse(h) /\ UNCHANGED events
  /\ UNCHANGED <<proc, mem, parsed, logger, watcher, torn, patches, edits>>

(* Over what somebody else wrote since, a remainder of his text may stay.  *)
Written(h) ==
  {req[h].copy} \cup
    (IF file = Truncated THEN {} ELSE {[req[h].copy EXCEPT !.parses = FALSE]})

WriteFile(h) ==
  /\ req[h].pc = "write"
  /\ \/ file' \in Written(h) /\ Notice /\ UNCHANGED torn
     \/ "write" \in Faults /\ torn' = TRUE /\ UNCHANGED <<file, events>>
  /\ req' = [req EXCEPT ![h] = IdleHandler]
  /\ UNCHANGED <<proc, mem, parsed, logger, watcher, parted, patches, edits>>

Continue(h) ==
  SetCheck(h) \/ SetLevel(h) \/ ReadFile(h) \/ processLines(h) \/ OpenFile(h) \/ WriteFile(h)

updateConfig(h) == Patch(h) \/ Continue(h)

-----------------------------------------------------------------------------
(* Users                                                                   *)

(* A user saves the file, whole but possibly with a mistake.               *)
Edit ==
  /\ edits < MaxEdits
  /\ edits' = edits + 1
  /\ file' \in Edits \ {file}
  /\ Notice
  /\ torn' = (~file'.parses \/ Writing # {} \/ (torn /\ Busy # {}))
  /\ parted' = (parted \/ proc # "up")
  /\ req' = [h \in Handlers |-> [req[h] EXCEPT !.before = NoFile]]
  /\ UNCHANGED <<proc, mem, parsed, logger, watcher, patches>>

Next ==
  \/ CreateFile \/ FillFile \/ Load \/ WatchConfig \/ Stop
  \/ OnConfigChange
  \/ \E h \in Handlers : updateConfig(h)
  \/ Edit

Spec == Init /\ [][Next]_vars

(* The watcher's goroutine runs on, and so does a handler once it runs.    *)
Fairness == WF_vars(OnConfigChange) /\ \A h \in Handlers : WF_vars(Continue(h))

FairSpec == Spec /\ Fairness

-----------------------------------------------------------------------------
(* Properties                                                              *)

(* Types of the state, and who may be at work before the server serves.    *)
TypeOK ==
  /\ file \in File
  /\ proc \in {"off", "create", "load", "watch", "up"}
  /\ mem \in Settings /\ parsed \in Settings
  /\ logger \in Levels
  /\ watcher \in {"idle", "level", "logger", "check"}
  /\ events \in 0..MaxEvents
  /\ req \in [Handlers ->
       [pc : {"idle", "check", "level", "read", "lines", "open", "write"},
        ask : Asks, copy : File, before : File]]
  /\ torn \in BOOLEAN /\ parted \in BOOLEAN
  /\ patches \in 0..MaxPatches /\ edits \in 0..MaxEdits
  /\ proc # "up" => watcher = "idle" /\ events = 0 /\ Busy = {}
  /\ \A h \in Busy : req[h].pc \in {"open", "write"} => req[h].copy.there

(* The file can be read and still has the settings that no PATCH touches   *)
(* (the session's secret, the database), whatever is PATCHed, reloaded and *)
(* restarted, unless a write was cut short, two writers met or a user made *)
(* a mistake; or unless it has a line that processLines does not find, or  *)
(* has a text that TOML does not read as it was meant.                     *)
FileStaysWhole ==
  file.there /\ ~torn /\ Writing = {} /\ proc # "create" /\ ~file.odd /\ file.text = "plain"
    => Readable(file) /\ file.others

(* When nothing is under way the struct says what the file says, whoever   *)
(* wrote the file, and in whatever order PATCH and reload assigned the     *)
(* struct; but not after a PATCH that failed before it wrote.              *)
StructFollowsFile ==
  Quiet /\ ~parted /\ file.there /\ Readable(file) =>
    /\ file.level # "missing" => mem.level = file.level
    /\ file.check # "missing" => mem.check = file.check

Written204(h) == req[h].pc = "write" /\ req'[h].pc = "idle" /\ proc' = "up" /\ ~torn'

(* A file that can be read and that processLines understands.              *)
Tidy(f) == f.there /\ Readable(f) /\ ~f.odd /\ f.text # "spilt"

(* A PATCH that began when all was quiet, and met neither another PATCH    *)
(* nor an edit, leaves a file with the settings asked for and every other  *)
(* setting that the file had, when it answers 204; if the file was one it  *)
(* understands, and the level, asked for or not, one that TOML reads back. *)
PatchKeepsTheRest ==
  [][\A h \in Handlers :
       LET ask == req[h].ask  before == req[h].before IN
       /\ Written204(h) /\ Tidy(before)
       /\ Asked(ask.level, before.level) \in Plain \cup {"missing"}
       => /\ Readable(file') /\ file'.others = before.others
          /\ before.level # "missing" \/ ask.level # "absent" =>
               file'.level = Asked(ask.level, before.level)
          /\ before.check # "missing" \/ ask.check # "absent" =>
               file'.check = Asked(ask.check, before.check)]_vars

(* The log takes the level that the file, readable, names from some time   *)
(* on, whether a user or a PATCH wrote it.                                 *)
LogFollowsFile ==
  \A level \in Levels :
    <>[](proc = "up" /\ ~parted /\ file.there /\ Readable(file) /\ file.level = level)
      => <>[](logger = level)
=============================================================================

------------------------------ MODULE Migration ------------------------------
(***************************************************************************)
(* Opening the database.  A process that starts brings the schema to the   *)
(* version of its binary, or refuses to start.  Several processes may      *)
(* start on one database (a container replaced by the next, a service      *)
(* started twice), each may end at any point, and the database may have    *)
(* been left by any earlier release.                                       *)
(*                                                                         *)
(* A table, or a column added later, is a name.  Data in them is left out. *)
(***************************************************************************)
EXTENDS Naturals, Sequences

CONSTANTS
  Procs,      \* processes
  Dialects,   \* kinds of database considered
  Nobody      \* no process

ASSUME ConstantsAssumption ==
  /\ Dialects \subseteq {"sqlite", "postgres"}
  /\ Nobody \notin Procs

VARIABLES
  dialect,   \* the kind of database, chosen by the configuration
  db,        \* what is committed: the version and the tables
  writer,    \* the process whose open transaction has written
  proc       \* proc[p]: where process p is

vars == <<dialect, db, writer, proc>>

-----------------------------------------------------------------------------
(* The lists of migrations                                                 *)

(* needs: tables it names.  makes: tables it creates, an error if they are *)
(* there, except for a statement that asks (lenient).                      *)
Migration(needs, makes, drops) ==
  [needs |-> needs, makes |-> makes, drops |-> drops, lenient |-> FALSE]

Nothing == Migration({}, {}, {})

Touches(table) == Migration({table}, {}, {})

(* The first entry of each list is empty and never applied.  A database of *)
(* version 1 has the tables that the first release made.                   *)
FirstTables == {"users", "api_key", "manga_data", "manga_sync"}

Retired == {"manga_data", "manga_sync", "manga_sync.device_id", "sync_lock"}

sqliteMigrations ==
  << Nothing,
     Migration({}, {"notification"}, {}),
     Migration({}, {"sync_lock"}, {}),
     Touches("sync_lock"),
     Touches("sync_lock"),
     Migration({"manga_sync"}, {"manga_sync.device_id"}, {}),
     Migration({}, {"sync_data"}, {}),
     Migration({}, {}, Retired) >>

postgresMigrations ==
  << Nothing,
     Migration({}, {"notification"}, {}),
     Migration({}, {"sync_lock"}, {}),
     Touches("sync_lock"),
     Touches("sync_lock"),
     Touches("sync_lock"),
     [needs |-> {"manga_sync"}, makes |-> {"manga_sync.device_id"}, drops |-> {},
      lenient |-> TRUE],
     Migration({}, {"sync_data"}, {}),
     Migration({}, {}, Retired) >>

(* sqliteSchema and postgresSchema                                         *)
Schema == Migration({}, {"users", "api_key", "notification", "sync_data"}, {})

Migrations(d) == IF d = "sqlite" THEN sqliteMigrations ELSE postgresMigrations

(* The version of this binary; entry i of the list, counted from 0.        *)
Latest(d) == Len(Migrations(d))

Entry(d, i) == Migrations(d)[i + 1]

(* Postgres keeps the version in a table of its own.                       *)
VersionTable(d) == IF d = "sqlite" THEN {} ELSE {"schema_migrations"}

Tables == FirstTables \cup Retired \cup Schema.makes \cup {"schema_migrations"}

(* What a database of version v has to hold: what was made by an entry     *)
(* before v and dropped by none after it.                                  *)
Made(d, i) == IF i = 0 THEN FirstTables ELSE Entry(d, i).makes

TablesAt(d, v) ==
  IF v = 0 THEN {}
  ELSE VersionTable(d) \cup
       UNION {{t \in Made(d, i) : \A j \in (i + 1)..(v - 1) : t \notin Entry(d, j).drops} :
                i \in 0..(v - 1)}

Executes(m, tables) == m.needs \subseteq tables /\ (m.lenient \/ m.makes \cap tables = {})

Result(m, tables) == (tables \cup m.makes) \ m.drops

-----------------------------------------------------------------------------
(* Processes                                                               *)

(* version: the version read.  next: the entry to apply.  tables: what the *)
(* open transaction sees once it has written.                              *)
IdleProc == [pc |-> "off", version |-> 0, next |-> 0, tables |-> {}]

(* A database nobody has opened, one left by an earlier release or by this *)
(* one, or one left by a later release.                                    *)
Init ==
  /\ dialect \in Dialects
  /\ \/ \E v \in 0..Latest(dialect) : db = [version |-> v, tables |-> TablesAt(dialect, v)]
     \/ db = [version |-> Latest(dialect) + 1, tables |-> TablesAt(dialect, Latest(dialect))]
  /\ writer = Nobody
  /\ proc = [p \in Procs |-> IdleProc]

Goto(p, pc) == proc' = [proc EXCEPT ![p].pc = pc]

(* openSQLite reads the version before the transaction; openPostgres       *)
(* begins one and makes sure of the version's table.                       *)
Open(p) ==
  /\ proc[p].pc = "off"
  /\ Goto(p, IF dialect = "sqlite" THEN "version" ELSE "begin")
  /\ UNCHANGED <<dialect, db, writer>>

(* CREATE TABLE IF NOT EXISTS waits for a transaction that creates it.     *)
CreateVersionTable(p) ==
  /\ proc[p].pc = "begin"
  /\ IF VersionTable(dialect) \subseteq db.tables
       THEN Goto(p, "version") /\ UNCHANGED writer
       ELSE /\ writer = Nobody
            /\ writer' = p
            /\ proc' = [proc EXCEPT ![p] =
                 [@ EXCEPT !.pc = "version", !.tables = db.tables \cup VersionTable(dialect)]]
  /\ UNCHANGED <<dialect, db>>

(* Any version that is not an earlier one will do.                         *)
ReadVersionOrLater(p) ==
  /\ proc[p].pc = "version"
  /\ IF db.version >= Latest(dialect)
       THEN Goto(p, "serving")
       ELSE proc' = [proc EXCEPT ![p] =
              [@ EXCEPT !.pc = IF writer = p THEN "apply" ELSE "lock",
                        !.version = db.version, !.next = db.version]]
  /\ UNCHANGED <<dialect, db, writer>>

(* A later version ends the process; this one lets it serve.  Postgres'    *)
(* transaction is rolled back in both cases.                               *)
ReadVersion(p) ==
  /\ proc[p].pc = "version"
  /\ \/ db.version = Latest(dialect) /\ Goto(p, "serving")
     \/ db.version > Latest(dialect) /\ Goto(p, "refused")
     \/ /\ db.version < Latest(dialect)
        /\ proc' = [proc EXCEPT ![p] =
             [@ EXCEPT !.pc = IF writer = p THEN "apply" ELSE "lock",
                       !.version = db.version, !.next = db.version]]
  /\ UNCHANGED <<dialect, db, writer>>

(* Nobody is waited for.                                                   *)
FirstWriteAtOnce(p) ==
  /\ proc[p].pc = "lock"
  /\ writer' = p
  /\ proc' = [proc EXCEPT ![p] = [@ EXCEPT !.pc = "apply", !.tables = db.tables]]
  /\ UNCHANGED <<dialect, db>>

(* The first statement that writes has to wait for whoever has written.    *)
(* SQLite gives up after a second, which ends the process (Exit).          *)
FirstWrite(p) ==
  /\ proc[p].pc = "lock"
  /\ writer = Nobody
  /\ writer' = p
  /\ proc' = [proc EXCEPT ![p] = [@ EXCEPT !.pc = "apply", !.tables = db.tables]]
  /\ UNCHANGED <<dialect, db>>

(* The whole schema for an empty database, else one entry after the other. *)
Statement(p) ==
  IF proc[p].version = 0 THEN Schema ELSE Entry(dialect, proc[p].next)

Following(p) == IF proc[p].version = 0 THEN Latest(dialect) ELSE proc[p].next + 1

(* Each statement is committed at once.                                    *)
ApplyOutsideTransaction(p) ==
  /\ proc[p].pc = "apply" /\ proc[p].next < Latest(dialect)
  /\ Executes(Statement(p), proc[p].tables)
  /\ db' = [db EXCEPT !.tables = Result(Statement(p), @)]
  /\ proc' = [proc EXCEPT ![p] =
       [@ EXCEPT !.next = Following(p),
                 !.tables = Result(Statement(p), proc[p].tables)]]
  /\ UNCHANGED <<dialect, writer>>

(* A statement that fails is tried again.                                  *)
ApplyAgain(p) ==
  /\ proc[p].pc = "apply" /\ proc[p].next < Latest(dialect)
  /\ Executes(Statement(p), proc[p].tables)
  /\ proc' = [proc EXCEPT ![p] =
       [@ EXCEPT !.next = Following(p),
                 !.tables = Result(Statement(p), proc[p].tables)]]
  /\ UNCHANGED <<dialect, db, writer>>

(* An error rolls back and ends the process.                               *)
Apply(p) ==
  /\ proc[p].pc = "apply" /\ proc[p].next < Latest(dialect)
  /\ IF Executes(Statement(p), proc[p].tables)
       THEN /\ proc' = [proc EXCEPT ![p] =
                  [@ EXCEPT !.next = Following(p),
                            !.tables = Result(Statement(p), proc[p].tables)]]
            /\ UNCHANGED writer
       ELSE /\ proc' = [proc EXCEPT ![p] = IdleProc]
            /\ writer' = Nobody
  /\ UNCHANGED <<dialect, db>>

(* The version is bumped, and all of it committed.                         *)
Commit(p) ==
  /\ proc[p].pc = "apply" /\ proc[p].next = Latest(dialect)
  /\ db' = [version |-> Latest(dialect), tables |-> proc[p].tables]
  /\ writer' = Nobody
  /\ proc' = [proc EXCEPT ![p] = [IdleProc EXCEPT !.pc = "serving"]]
  /\ UNCHANGED dialect

(* An error, a crash, or the end of a serving process.                     *)
Exit(p) ==
  /\ proc[p].pc \notin {"off", "refused"}
  /\ proc' = [proc EXCEPT ![p] = IdleProc]
  /\ writer' = IF writer = p THEN Nobody ELSE writer
  /\ UNCHANGED <<dialect, db>>

Start(p) ==
  \/ CreateVersionTable(p) \/ ReadVersion(p) \/ FirstWrite(p) \/ Apply(p) \/ Commit(p)

Next == \E p \in Procs : Open(p) \/ Start(p) \/ Exit(p)

Spec == Init /\ [][Next]_vars

(* A process runs on; Postgres lets those who wait have their turn, SQLite *)
(* sends them away.                                                        *)
Fairness == \A p \in Procs : SF_vars(Start(p))

FairSpec == Spec /\ Fairness

-----------------------------------------------------------------------------
(* Properties                                                              *)

(* Types of the state; one process at a time has written, and what it read *)
(* before was an earlier version.                                          *)
TypeOK ==
  /\ dialect \in Dialects
  /\ db \in [version : 0..(Latest(dialect) + 1), tables : SUBSET Tables]
  /\ writer \in Procs \cup {Nobody}
  /\ proc \in [Procs ->
       [pc : {"off", "begin", "version", "lock", "apply", "serving", "refused"},
        version : 0..Latest(dialect), next : 0..Latest(dialect), tables : SUBSET Tables]]
  /\ \A p \in Procs :
       /\ proc[p].version <= proc[p].next
       /\ proc[p].pc = "apply" => writer = p /\ proc[p].version < Latest(dialect)
       /\ writer = p => proc[p].pc \in {"version", "apply"}

(* The committed version names the tables that are there, whoever migrated *)
(* from whichever version, with whom beside him, and wherever he stopped;  *)
(* nothing is applied twice.                                               *)
SchemaIsTrue ==
  db.version <= Latest(dialect) => db.tables = TablesAt(dialect, db.version)

(* Who serves has the tables of its release, and no others' version.       *)
ServingHasItsSchema ==
  \A p \in Procs :
    proc[p].pc = "serving" => db.version = Latest(dialect) /\ Schema.makes \subseteq db.tables

(* Every start comes to an end: the process serves, refuses or exits.      *)
StartsEnd ==
  \A p \in Procs :
    proc[p].pc \in {"begin", "version", "lock", "apply"} ~>
      proc[p].pc \in {"serving", "refused", "off"}
=============================================================================
